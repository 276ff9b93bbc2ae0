CONSTANTS
    Hash = {0, 1, 2, 3, 4}
    ORIGIN = ORIGIN
    NONE = NONE
    K = 1
    Genesis = 0
    LwmaWindow = 1
    FinalityDepth = 1
    MaxParents = 2
    Level <- MCLevel
    Pruning = TRUE
    Dropping = FALSE
    MaxWidth = 2
    HashWindow = 2
SPECIFICATION Spec
PROPERTY OrderSuffix
CHECK_DEADLOCK FALSE
