CONSTANTS
    Programs = {"kvmstat", "kvm_trace"}
    Cpus = 2
    Events = {"kvm_exit", "kvm_entry"}
    Chain <- MCChain
    Extends <- MCExtends
    MaxCount = 1
SPECIFICATION Spec
CHECK_DEADLOCK FALSE
INVARIANTS
    TypeOK
    OwnCounter
    NothingInvented
