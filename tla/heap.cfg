SPECIFICATION Spec
CONSTANTS
    Page = 4
    StackLow = 16
    Top = 20
    Sizes = {1, 3, 5}
    Alignments = {4}
    MaxOwned = 5
    MaxSegments = 3
    NullSize = 4
    Misuse = {}
CHECK_DEADLOCK FALSE
INVARIANTS
    Tiled
    NoHostPanic
    UsedIsOwned
    BestFit
