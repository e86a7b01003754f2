SPECIFICATION MarkSpec
CONSTANTS
    WorkersWanted = 2
    WorkSlots = 2
    MaxItems = 3
    MaxMarks = 2
    LiveFalls = TRUE
CHECK_DEADLOCK FALSE
INVARIANT MarkedBeforeRecycle
