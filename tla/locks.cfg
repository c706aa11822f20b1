SPECIFICATION FairSpec
CONSTANTS
    Threads = {t1, t2, t3}
    Conditions = {0, 1}
    Start = 0
    AnyCondition = AnyCondition
    MaxSuspensions = 1
    Classes = {"NSCondition", "NSConditionLock", "thread_suspend"}
    Misuse = {}
INVARIANTS
    MutualExclusion
    NoWakeupLost
    QueuesExact
PROPERTY
    TimedCallsEnd
CHECK_DEADLOCK FALSE
