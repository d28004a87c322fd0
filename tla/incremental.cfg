CONSTANTS
    a = a
    h = h
    stdio = stdio
    Files = {a, h}
    Headers = {h}
    Outside = {stdio}
    Includes <- MCIncludes
    NotStored = NotStored
    Movable = {a, h}
    Opened = {a}
    FirstRun = FALSE
    Disturbances = {"crash", "exit", "cancelScan", "cancelSave", "editIncremental", "editFull"}
    MaxEdits = 2
SPECIFICATION Spec
INVARIANTS
    StoresFollowSnapshot
    SavedFollowSnapshot
