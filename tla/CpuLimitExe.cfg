CONSTANTS
    l1 = l1
    l2 = l2
    Limiters = {l1, l2}
    Pids = {1, 2}
    Modes = {"exe"}
    Lazies = {FALSE}
    Limits = {"mid"}
    MaxFds = 2
    PidReuse = TRUE
    OpenMayFail = FALSE
SPECIFICATION Spec
CHECK_DEADLOCK FALSE
SYMMETRY Symmetry
INVARIANTS
    StoppedIsHeld
PROPERTIES
    DeathIsReal
