CONSTANTS
    Hash = {0, 1, 2, 3, 4, 5}
    ORIGIN = ORIGIN
    NONE = NONE
    K = 1
    Genesis = 0
    LwmaWindow = 1
    FinalityDepth = 1
    MaxParents = 2
    MaxSize = 2
    Level <- MCLevel
    Node = {1, 2, 3}
    Bootstrap <- Star
    Tx = {t1}
    Setups <- MCOneBlock
SPECIFICATION Spec
PROPERTY RelayEnds
