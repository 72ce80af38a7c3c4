CONSTANTS
    l1 = l1
    l2 = l2
    Limiters = {l1, l2}
    Pids = {1, 2}
    Modes = {"pid"}
    Lazies = {TRUE, FALSE}
    Limits = {"zero", "mid", "full"}
    MaxFds = 3
    PidReuse = FALSE
    OpenMayFail = FALSE
SPECIFICATION Spec
CHECK_DEADLOCK FALSE
SYMMETRY Symmetry
INVARIANTS
    TypeOK
    StoppedIsHeld
    QuitResumes
PROPERTIES
    DeathIsReal
