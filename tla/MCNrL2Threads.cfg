SPECIFICATION FairSpec
CONSTANTS
    Deployments = {TRUE, FALSE}
    QSize = 2
    PqSize = 2
INVARIANTS GnbNoCircularWait StuckOnlyBetweenFullQueues
PROPERTIES MacReturns DataReqReturns
CHECK_DEADLOCK FALSE
