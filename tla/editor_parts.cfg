SPECIFICATION MCSpec
CONSTANTS
    Paths = {p, q}
    MaxFiles = 3
    MaxLeaves = 3
    MaxRefs = 2
    Chars = {"x", " "}
    Blank = " "
    TabWidth = 2
    MaxUndo = 2
    Start <- MCStart
    Others <- MCOthers
    OthersWrite = TRUE
    MaxKeys = 5
CHECK_DEADLOCK FALSE
INVARIANTS
    ViewsStand
    HistoryShared
    LatestKept
    CleanIsSaved
    PasteUndoesCut
