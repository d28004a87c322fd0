SPECIFICATION MCSpec
CONSTANTS
    Names = {"new", "x"}
    NewFile = "new"
    NewFolder = "x"
    Depth = 2
    StartDisk <- MCStartDisk
    MaxChanges = 2
    MaxWaiting = 1
    DiagPaths = {e1, e2}
    DiagLists <- MCDiagLists
    SearchWords = {"v", "w"}
    RowRoom = 3
    Indexes <- MCIndexes
    Graphs <- MCGraphs
    OutputRoom = 4
    TaskRoom = 3
    MaxTaskRoots = 2
    MaxTaskChildren = 2
    TaskNames = {"New Task"}
    DefaultGroups <- MCDefaultGroups
    MaxTaskCommands = 2
    GitStates <- MCGitStates
    GitLogs <- MCGitLogs
    LogBatch = 1
    GitEntryRoom = 2
    MaxGitChanges = 2
    FoldSections = {"log", "modified"}
INVARIANTS
    ProjectPointersStand
    TasksStand
    GitTreeStands
PROPERTY MarkedRowsStand
CHECK_DEADLOCK FALSE
