SPECIFICATION ForkSpec
CONSTANTS
    s1 = s1
    s2 = s2
    s3 = s3
    r1 = r1
    r2 = r2
    ForkSlots = {s1, s2, s3}
    Regions = {r1, r2}
    RegionOf <- TwoAndOne
    Own = own
    Others = {t}
    NoSlot = NoSlot
    ForkCacheLimit = 2
    CountFirst = FALSE
INVARIANTS
    ChildListsWhole
