CONSTANTS
    Hash = {0, 1, 2, 3, 4, 5}
    ORIGIN = ORIGIN
    NONE = NONE
    K = 1
    Genesis = 0
    LwmaWindow = 2
    FinalityDepth = 1
    MaxParents = 2
    Level <- MCLevel
    Pruning = TRUE
    Dropping = FALSE
    MaxWidth = 2
    HashWindow = 1
SPECIFICATION SyncSpec
INVARIANTS PeersAccept AcceptsPeers JoinerBase JoinerConverges JoinerAccepts JoinerReopens
CHECK_DEADLOCK FALSE
