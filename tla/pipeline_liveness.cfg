CONSTANTS
    Files = {f1}
    NoFile = NoFile
    NoKey = NoKey
    MaxHints = 1
    Workers = {w1, w2}
    KeyRequests <- MCRequests
    HandleReread = TRUE
    CreateMayFail = TRUE
    MaxRequests = 3
    MaxRevision = 1
SPECIFICATION FairSpec
VIEW AllButResults
CHECK_DEADLOCK FALSE
PROPERTIES
    SaveGetsItsTurn
    LaneDrains
