CONSTANTS
    Depth = 2
    NThreads = 2
    MaxIos = 4
SPECIFICATION FairSpec
CHECK_DEADLOCK FALSE
INVARIANTS
    TypeOK
    OneOwner
    NoneAfterCleanup
PROPERTIES
    WaitEnds
    ExitEnds
