SPECIFICATION Spec
CONSTANTS
    Ids = {a, b, c}
    Nil = Nil
    Slots = {r, s}
    Tasks = {t, u}
    MaxRefs = 2
    GuestDealloc = TRUE
    Calling <- PoolCalls
    MaxPool = 3
    MaxPools = 2
    MaxDepth = 3
SYMMETRY Addresses
CHECK_DEADLOCK FALSE
INVARIANTS
    RefcountExact
    PoolsConsistent
    WeakTableExact
    WeakAlive
