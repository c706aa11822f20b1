SPECIFICATION FairSpec
CONSTANTS
    main = main
    worker = worker
    other = other
    Threads = {main, worker, other}
    MaxCalls = 2
    Timers = {t, u}
    Targets = {g}
    Observers = {x}
    Blocks = {z}
    MaxObservers = 2
    Posters = {p}
    Names = {n}
    AnyName = AnyName
    Nil = Nil
    Ops = {a, b}
    Queues = {q}
    DispatchQueues = {d, e}
    MainQueue = d
    Tokens = {k}
    MaxPermits = 1
    NoTimer = NoTimer
    NoLoop = NoLoop
    root = root
    middle = middle
    leaf = leaf
    Classes = {root, middle, leaf}
    Chain <- Line
    Initializers = {root, middle}
    Loaders = {root, leaf}
    MaxDispatch = 4
    Objects = {o}
    Mutexes = {l, m}
    NoMutex = NoMutex
    Nobody = Nobody
    Values = {v, w}
    NoValue = NoValue
    MaxNested = 2
    Misuse = {}
    Programs <- AllPrograms
CHECK_DEADLOCK FALSE
INVARIANTS
    ReferencesExact
    TimersConsistent
    OperationsOrdered
    BlocksAreServed
    InitializedInOrder
    SynchronizedExcludes
PROPERTY
    DueTimersFire
