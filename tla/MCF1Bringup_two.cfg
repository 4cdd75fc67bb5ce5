SPECIFICATION FairSpec
CONSTANTS
    d1 = d1
    d2 = d2
    Dus = {d1, d2}
    MaxAssoc = 2
    Faults = {}
    MaxFaults = 0
    Settled = FALSE
    Timely = TRUE
INVARIANT FirstDataIsSetupRequest
CHECK_DEADLOCK FALSE
