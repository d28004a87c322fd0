SPECIFICATION Spec
CONSTANTS
    TabStop = 2
    ScrollbackRows = 4
    AlternateEnabled = TRUE
    PendingCap = 3
    MaxWrites = 3
    MaxResizes = 1
    FirstSize <- MCFirstSize
    Sizes <- MCSizes
    Chunks <- MCChunks
    Message <- MCMessage
INVARIANTS
    HistoryStands
    TranscriptKept
PROPERTIES
    DurableStays
