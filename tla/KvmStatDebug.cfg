CONSTANTS
    Programs = {"kvmstat"}
    Cpus = 1
    Events = {"kvm_exit"}
    Chain <- MCChain
    Extends <- MCExtends
    MaxCount = 1
SPECIFICATION Spec
CHECK_DEADLOCK FALSE
INVARIANT EveryDebugMetricShown
