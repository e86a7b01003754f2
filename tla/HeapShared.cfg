SPECIFICATION MCOneSpec
CONSTANTS
    t1 = t1
    t2 = t2
    s1 = s1
    s2 = s2
    r1 = r1
    r2 = r2
    Threads <- MCThreads
    Slots = {s1}
    Regions = {r1}
    RegionOf <- MCOneOf
    OwnRegion = r1
    CacheLimit = 2
    Data = {d}
    None = None
PROPERTIES ImplementsSafeReuse AllResume
