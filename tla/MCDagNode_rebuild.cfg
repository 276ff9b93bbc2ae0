CONSTANTS
    Hash = {0, 1, 2, 3, 4, 5}
    ORIGIN = ORIGIN
    NONE = NONE
    K = 1
    Genesis = 0
    LwmaWindow = 1
    FinalityDepth = 1
    MaxParents = 2
    Level <- MCLevel
    Pruning = FALSE
    Dropping = FALSE
    MaxWidth = 3
    HashWindow = 2
SPECIFICATION Spec
INVARIANT VirtualIsRebuild
CHECK_DEADLOCK FALSE
