SPECIFICATION FairSpec
CONSTANTS
    gtp = gtp
    rrc = rrc
    tun = tun
    Callers = {gtp, rrc, tun}
    Worker = worker
    Size = 2
    MaxItems = 8
INVARIANTS RingInOrder SlotIsWorkers NoLostWakeup
PROPERTIES EveryItemHandled
