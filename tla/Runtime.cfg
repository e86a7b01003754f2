SPECIFICATION Spec
CONSTANTS
    RegionShift = 10
    MaxShift = 9
    MagicBits = 11
    SizeBits = 10
    PageBytes = 64
    PointerBytes = 8
    Counts = {0, 1, 3, 1023}
    Callers = {t1, t2}
    Pages = 5
    PageG = 4
    HugeSizes = {2, 5}
    HugeAligns = {1, 2}
    EndLimit = 1
    FirstCapacity = 1
    Cells = 6
    Element = 2
    MaxLength = 3
    Limit = 3
    Texts <- MCTexts
    FormatArguments = 3
    NumberLimit = 1
    Numbers = {1, 5, 20}
    ValuesGiven <- MCValuesGiven
    Places = 2
    G = 4
    Chunk = 2
    Window = 76
    SlotBytes = 8
    RegionBases <- Adjacent
    RegionBytes = 16
    TailLimit = 8
    GlobalAt = 36
    GlobalSize = 5
    GlobalPadded = 12
    StackLow = 48
    StackTop = 72
    EntryBytes = 4
    Sizes = {0, 5}
    UserBytes = {3, 4}
    MaxSteps = 5
INVARIANTS
    RequestServed
    HugeFoundExactly
    HugeShadowExact
    StoppedExactly
    FormatCovered
    GuardsExact
    ColorsExact
PROPERTIES
    HugeStays
CHECK_DEADLOCK FALSE
