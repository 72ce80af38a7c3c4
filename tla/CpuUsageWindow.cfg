CONSTANTS
    MEM_ORDER = 3
    Period = 4
    Jiffy = 2
    Percents = {0, 50, 100}
    Delays <- SmallLags
    ClockSteps <- NoSteps
    Threads = 2
    Greeds = {TRUE, FALSE}
    Reused = TRUE
    MaxRounds = 4
SPECIFICATION Spec
CHECK_DEADLOCK FALSE
INVARIANTS
    TypeOK
    EstimateIsOfRecentPast
    ActiveRateInRange
    SlicesSplitPeriod
    UsageInRange
    GreedyGetsItsShare
