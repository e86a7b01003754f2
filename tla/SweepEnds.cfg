SPECIFICATION Spec
CONSTANTS
    Threads = {u1, u2}
    Starters = {u1, u2}
    MaxSweeps = 2
    Prompt = FALSE
    ShortLived = TRUE
    ListFails = TRUE
    WorkersWanted = 2
    WorkSlots = 2
    MaxItems = 3
    MaxMarks = 2
    LiveFalls = FALSE
    Reporters = {t1, t2}
    Sites = {1, 2, 3}
    SiteSlots = 2
    MaxFailures = 4
    MaxActions = 2
INVARIANTS
    QuietAfterMark
    MarkedBeforeRecycle
    OncePerSite
PROPERTIES
    NoneLeftWaiting
    SweepEnds
    EverySiteReported
    FaultEnds
CHECK_DEADLOCK FALSE
