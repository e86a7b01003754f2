SPECIFICATION Spec
CONSTANTS
    u1 = u1
    u2 = u2
    u3 = u3
    s1 = s1
    s2 = s2
    s3 = s3
    f1 = f1
    f2 = f2
    f3 = f3
    r1 = r1
    r2 = r2
    Threads <- MCThreadSet
    Starters <- MCStarters
    MaxSweeps = 2
    Prompt = TRUE
    ShortLived = FALSE
    ListFails = FALSE
    Slots = {s1, s2, s3}
    None = None
    CacheLimit = 2
    DeferredLimit = 1
    Uncounted = FALSE
    MaxSignals = 2
    Nested = TRUE
    HandlerCalls = 1
    ForkSlots = {f1, f2, f3}
    Regions = {r1, r2}
    RegionOf <- TwoAndOne
    Own = own
    Others = {t}
    NoSlot = NoSlot
    ForkCacheLimit = 2
    CountFirst = FALSE
    Releasers = {t1, t2}
    Modulus = 256
    QuarantineBudget = 16
    Live = 40
    Size = 8
    MaxReleases = 8
    Nobody = Nobody
INVARIANTS
    RecyclesAlone
    NoSelfDeadlock
    ReleasedUnlessTorn
    AtRest
    ChildWholeUnlessStale
    CountersExact
PROPERTIES
    HardBudgetUnlessOverdrawn
VIEW Seen
SYMMETRY SlotSymmetry
CHECK_DEADLOCK FALSE
