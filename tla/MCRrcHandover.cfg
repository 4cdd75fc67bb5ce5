SPECIFICATION FairSpec
CONSTANTS
    d1 = d1
    d2 = d2
    d3 = d3
    Dus = {d1, d2, d3}
    NoDu = NoDu
    Home = d1
    MaxEvents = 2
INVARIANTS TypeOK NoDanglingDu IdIsItsDus CellGroupFits OldContextThere
PROPERTIES AnReleaseCompletes HandoverEnds FailedContextLeaves
\* The UE may be released and nothing more asked for.
CHECK_DEADLOCK FALSE
