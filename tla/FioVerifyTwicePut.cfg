CONSTANTS
    Depth = 2
    NThreads = 2
    MaxIos = 4
SPECIFICATION Spec
CHECK_DEADLOCK FALSE
INVARIANT FreeIsFree
