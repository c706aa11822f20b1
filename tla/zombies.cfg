SPECIFICATION Spec
CONSTANTS
    Ids = {a, b}
    Nil = Nil
    Slots = {s}
    Tasks = {t}
    MaxRefs = 1
    GuestDealloc = TRUE
    Calling <- ZombieCalls
    MaxPool = 1
    MaxPools = 2
    MaxDepth = 2
SYMMETRY Addresses
CHECK_DEADLOCK FALSE
INVARIANT
    DeallocOnce
