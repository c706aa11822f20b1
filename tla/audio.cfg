SPECIFICATION FairSpec
CONSTANTS
    short = short
    long = long
    Refs = {short, long}
    Bufs = {a, b}
    Sources = {s}
    NoSource = NoSource
    MaxQueued <- Lengths
    MaxCalls = 2
    Misuse = {}
CHECK_DEADLOCK FALSE
INVARIANTS
    InStep
    NoHostPanic
PROPERTIES
    PassesKeepToTheirQueue
    RunningBuffersHeard
    KeepsCallingBack
    StopEnds
