SPECIFICATION FairSpec
CONSTANTS
    d1 = d1
    d2 = d2
    Dus = {d1}
    MaxAssoc = 3
    Faults = {"cu", "du"}
    MaxFaults = 2
    Settled = TRUE
    Timely = TRUE
INVARIANTS TypeOK FirstDataIsSetupRequest
PROPERTY F1ComesUp
CHECK_DEADLOCK FALSE
