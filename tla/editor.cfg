SPECIFICATION Spec
CONSTANTS
    Paths = {p, q}
    MaxFiles = 2
    MaxLeaves = 2
    MaxRefs = 2
    MaxCommands = 1
    MaxEdits = 2
INVARIANTS
    NoEditForgotten
PROPERTIES
    EditsCommitted
