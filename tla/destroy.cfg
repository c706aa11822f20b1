SPECIFICATION Spec
CONSTANTS
    NoThread = NoThread
    NoObject = NoObject
    MaxThreads = 3
    MaxSuspend = 1
    GuestOps <- DestroyOps
    Misuse = {"destroy_awaited_mutex"}
    MaxMutexes = 1
    MutexTypes = {"NORMAL"}
    MaxLockCount = 1
    Conds = {c1}
    Sems = {}
    MaxValue = 0
    MaxGrace = 1
INVARIANT
    LockersKeepMutex
CHECK_DEADLOCK FALSE
