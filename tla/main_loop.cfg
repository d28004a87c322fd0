CONSTANTS
    Events = {edited, published}
    NoEvent = NoEvent
    Capacity = 3
    Budgets = {1, 2}
    MaxPushes = 7
    CFiles = {a}
    HFiles = {h}
    TokenRoom = 1
    Missing = Missing
    Torn = Torn
    Flat = Flat
    MaxChanges = 2
    MaxFaults = 2
    Roots = {r1, r2}
    ListRoom = 2
    NotRestored = NotRestored
    NoTarget = NoTarget
    MaxSteps = 4
SPECIFICATION MCSpec
INVARIANTS
    ProvenanceStands
    RestoredRowsStand
PROPERTIES
    IsFifo
    AuditFollowed
