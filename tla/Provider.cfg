CONSTANTS
    Descendant = {"d1", "d2"}
    Limit = 2
    Chunk = 2
    MaxWrites = 3
SPECIFICATION Spec
CHECK_DEADLOCK FALSE
INVARIANTS OutputWithinLimit WholeOrFlagged NoDescendantOutlives KilledIsFlagged
PROPERTIES InvokeReturns
