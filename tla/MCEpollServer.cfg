SPECIFICATION Spec
CONSTANTS
    Cells <- MCCells
    LIMIT = 3
    BATCH = 2
    MAXBACKLOG = 1
    MAXFRAMES = 1
    Sessions = {{"connect", "close"}, {"stop"}}
INVARIANTS
    LimitKept
    OwnRemovalsClean
PROPERTIES
    Served
CHECK_DEADLOCK FALSE
