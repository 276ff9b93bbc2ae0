CONSTANTS
    Hash = {0, 1, 2, 3, 4, 5}
    ORIGIN = ORIGIN
    NONE = NONE
    K = 1
    Genesis = 0
    LwmaWindow = 1
    FinalityDepth = 1
    MaxParents = 2
    Level <- MCLevel
    Pruning = TRUE
    Dropping = TRUE
    MaxWidth = 3
    HashWindow = 1
SPECIFICATION Spec
INVARIANTS AgreedOrder ReopenReproduces TipsChildless StateFollowsOrder ProofVerifies BaseFaithful
CHECK_DEADLOCK FALSE
