SPECIFICATION Spec
CONSTANTS
    short = short
    long = long
    Refs = {long}
    Bufs = {a, b}
    Sources = {s, t}
    NoSource = NoSource
    MaxQueued <- Lengths
    MaxCalls = 2
    Misuse = {"reset_primed_queue"}
CHECK_DEADLOCK FALSE
INVARIANT
    InStep
