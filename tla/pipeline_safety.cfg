CONSTANTS
    Files = {f1, f2}
    NoFile = NoFile
    NoKey = NoKey
    MaxHints = 1
    Workers = {w1, w2}
    KeyRequests <- MCRequests
    HandleReread = FALSE
    CreateMayFail = TRUE
    MaxRequests = 3
    MaxRevision = 1
SPECIFICATION Spec
SYMMETRY Symmetry
CHECK_DEADLOCK FALSE
INVARIANTS
    OneScanner
    SaveNotBlocked
    CancelHitsItsRun
    ForcedRunIsFull
    OnlyQuietEndsAreOvertaken
    ResultsNameTheirRun
