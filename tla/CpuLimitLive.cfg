CONSTANTS
    l1 = l1
    l2 = l2
    Limiters = {l1, l2}
    Pids = {1, 2}
    Modes = {"exe"}
    Lazies = {FALSE}
    Limits = {"mid"}
    MaxFds = 3
    PidReuse = FALSE
    OpenMayFail = FALSE
SPECIFICATION FairSpec
CHECK_DEADLOCK FALSE
PROPERTIES
    StopsEnd
    FindsTarget
    InCustody
