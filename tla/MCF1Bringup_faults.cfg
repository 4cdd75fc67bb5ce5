SPECIFICATION Spec
CONSTANTS
    d1 = d1
    d2 = d2
    Dus = {d1, d2}
    MaxAssoc = 3
    Faults = {"cu", "power", "bind", "accept", "tls"}
    MaxFaults = 1
    Settled = FALSE
    Timely = FALSE
INVARIANTS F1apProtected NoGhostDu UndefinedOnlyIfPeerFails
SYMMETRY DuSymmetry
CHECK_DEADLOCK FALSE
