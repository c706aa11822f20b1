SPECIFICATION Spec
CONSTANTS
    NoThread = NoThread
    NoObject = NoObject
    MaxThreads = 2
    MaxSuspend = 1
    GuestOps <- AllOps
    Misuse <- AllMisuse
    MaxMutexes = 1
    MutexTypes = {"RECURSIVE", "NORMAL"}
    MaxLockCount = 2
    Conds = {c1}
    Sems = {s1}
    MaxValue = 1
    MaxGrace = 1
INVARIANT
    TypeOK
    RunnerUnblocked
CHECK_DEADLOCK FALSE
