SPECIFICATION Spec
CONSTANTS
    Deployments = {TRUE}
    QSize = 2
    PqSize = 2
INVARIANTS NoCircularWait
