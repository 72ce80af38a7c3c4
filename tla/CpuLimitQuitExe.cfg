CONSTANTS
    l1 = l1
    Limiters = {l1}
    Pids = {1, 2}
    Modes = {"exe"}
    Lazies = {FALSE}
    Limits = {"mid"}
    MaxFds = 3
    PidReuse = FALSE
    OpenMayFail = FALSE
SPECIFICATION Spec
CHECK_DEADLOCK FALSE
INVARIANT QuitResumes
