SPECIFICATION Spec
CONSTANTS
    LocalSizes = {5, 48, 200}
    LocalAligns = {16, 64}
    MaxLocals = 3
    LeftZone = 64
    FrameAlign = 32
    ShareAbove = 224
    DynamicSizes = {1, 33}
    DynamicGranules = 10
    Programs <- MCPrograms
    LocalSize = 4
    MaxHull = 6
    Bits = 5
    ShadowGranule = 2
    Objects <- MCObjects
    LoopRoots <- MCLoopRoots
    Steps <- MCSteps
    Widths = {1, 3}
    Trips = {0, 1, 4, 17}
    MinTrip = 2
    CheckGranule = 4
    Chunk = 3
    Values <- MCValues
    Roots <- MCRoots
    Lengths = {0, 2, 3, 4, 9, 10}
    Leaves <- MCLeaves
    Numbers <- MCNumbers
    Width = 4
    Amounts <- MCAmounts
    Pair <- MCPair
    Entries <- MCEntries
    Callees <- MCCallees
    Counts = {1, 2, 3, 5}
    MaxRows = 3
    CallRows <- MCCallRows
    MaxRoom = 2
    SmallCount = 2
    Writers = {w1, w2}
    MaxLedgerRows = 2
    MaxCopies = 2
INVARIANTS
    FrameShadowExact
    AccessChecked
    NothingCheckedEarly
    RangedStaysInObject
    InlineExact
    SpellingReadsBack
    TermsExact
    RowsExact
    CallStoppedExactly
    LedgerExact
    LedgerFileWhole
CHECK_DEADLOCK FALSE
