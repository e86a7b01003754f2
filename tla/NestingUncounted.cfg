SPECIFICATION NestingSpec
CONSTANTS
    Slots = {s1, s2}
    None = None
    CacheLimit = 2
    DeferredLimit = 1
    Uncounted = TRUE
    MaxSignals = 1
    Nested = FALSE
    HandlerCalls = 1
SYMMETRY SlotSymmetry
INVARIANTS
    NoSelfDeadlock
