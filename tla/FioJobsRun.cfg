CONSTANTS
    NJobs = 3
    Kinds = {"thread", "process"}
    Killable = {"boot", "up", "blocked", "work", "logs"}
    MaxBad = 1
    MaxDelayed = 1
    Modulus = 8
SPECIFICATION FairSpec
CHECK_DEADLOCK FALSE
INVARIANTS
    TypeOK
    NoJobForgotten
PROPERTIES
    StonewallWaits
    RunEnds
