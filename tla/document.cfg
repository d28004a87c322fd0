SPECIFICATION MCSpec
CONSTANTS
    Documents = {d1, d2}
    MaxTexts = 4
    MaxQueue = 2
    SameSecond = FALSE
    Words = {"a"}
    MaxScript = 4
INVARIANT PatchIsExact
PROPERTIES
    ConfirmedTextStays
    DocumentsConverge
CHECK_DEADLOCK FALSE
