SPECIFICATION FairSpec
CONSTANTS
    NoThread = NoThread
    NoObject = NoObject
    MaxThreads = 3
    MaxSuspend = 1
    GuestOps <- FairOps
    Misuse = {"destroy_signalled_cond"}
    MaxMutexes = 1
    MutexTypes = {"NORMAL"}
    MaxLockCount = 1
    Conds = {c1}
    Sems = {}
    MaxValue = 0
    MaxGrace = 1
PROPERTIES
    OnlyDestroyPanics
    SchedulerDecides
    RunnableRuns
    TimedWaitEnds
CHECK_DEADLOCK FALSE
