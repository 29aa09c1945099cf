SPECIFICATION Spec
CONSTANTS
    Cells <- MCFewCells
    LIMIT = 3
    BATCH = 2
    MAXBACKLOG = 1
    MAXFRAMES = 2
    Sessions = {{}}
INVARIANTS
    NoUseAfterFree
CHECK_DEADLOCK FALSE
