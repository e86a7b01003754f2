SPECIFICATION StopSpec
CONSTANTS
    u1 = u1
    u2 = u2
    Threads <- MCStarters
    Starters <- MCStarters
    MaxSweeps = 2
    Prompt = FALSE
    ShortLived = FALSE
    ListFails = FALSE
CHECK_DEADLOCK FALSE
INVARIANT RecyclesAlone
