SPECIFICATION Spec
CONSTANTS
    NoThread = NoThread
    NoObject = NoObject
    MaxThreads = 3
    MaxSuspend = 1
    GuestOps <- MonitorOps
    Misuse = {"wait_with_two_mutexes"}
    MaxMutexes = 2
    MutexTypes = {"RECURSIVE"}
    MaxLockCount = 2
    Conds = {c1}
    Sems = {}
    MaxValue = 0
    MaxGrace = 1
INVARIANTS
    CondQueuesConsistent
    ReturnsWithMutex
    CondMutexAgree
    DeadlockPanicSound
PROPERTY
    ImplementsMonitor
CHECK_DEADLOCK FALSE
