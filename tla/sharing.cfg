SPECIFICATION Spec
CONSTANTS
    NoThread = NoThread
    NoObject = NoObject
    MaxThreads = 3
    MaxSuspend = 1
    GuestOps <- SharingOps
    Misuse = {"destroy_awaited_mutex"}
    MaxMutexes = 1
    MutexTypes = {"NORMAL", "RECURSIVE"}
    MaxLockCount = 2
    Conds = {}
    Sems = {s1}
    MaxValue = 1
    MaxGrace = 1
INVARIANTS
    DeadlockVerdict
    WaitingCountAccurate
PROPERTY
    GrantsExact
CHECK_DEADLOCK FALSE
