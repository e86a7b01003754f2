SPECIFICATION MCSpec
CONSTANTS
    t1 = t1
    t2 = t2
    s1 = s1
    s2 = s2
    r1 = r1
    r2 = r2
    Threads <- MCThreads
    Slots <- MCSlots
    Regions <- MCRegions
    RegionOf <- MCRegionOf
    OwnRegion = r1
    CacheLimit = 2
    Data = {}
    None = None
SYMMETRY MCSymmetry
INVARIANTS TypeOK NoDangling NoSlotLost ShadowAgrees OneOwner
