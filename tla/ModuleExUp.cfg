CONSTANTS
    p1 = p1
    p2 = p2
    p3 = p3
    Procs = {p1, p2, p3}
    MsgLen = 1
    ReadLens = {0, 2}
    MaxCount = 2
SPECIFICATION Spec
SYMMETRY Symmetry
CHECK_DEADLOCK FALSE
INVARIANTS
    TypeOK
    BusyWhenOpen
    ReopensAfterClose
    ReadsStayInBuffer
    NotUnloadedInUse
