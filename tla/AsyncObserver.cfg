\* Two emitting goroutines of three events each, two that close, a queue of two.
SPECIFICATION FairSpec
CONSTANTS
    Emitters = {e1, e2}
    Closers = {c1, c2}
    MaxEvents = 3
    BufferSize = 2
CHECK_DEADLOCK FALSE
INVARIANTS
    LossesAreCounted
PROPERTY
    SilentAfterClose
    OnEventReturns
    CloseReturns
