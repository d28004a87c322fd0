SPECIFICATION Spec
CONSTANTS
    Projects = {p, q}
    MaxRuns = 2
    Files = 2
    FullRuns = TRUE
    ErrorsShown = {FALSE}
    ResultBudget = 1
    EventBudget = 1
    RingCapacity = 2
INVARIANTS
    CopiesFollowStores
CHECK_DEADLOCK FALSE
PROPERTY CopiesCatchUp
