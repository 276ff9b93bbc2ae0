CONSTANTS
    BlockId = {0, 1, 2, 3}
    GenesisId = 0
    GenesisTarget = 3
    MaxWord = 15
    BlockTime = 1
    Window = 2
    MaxSize = 1
    Node = {1, 2}
    Miners = {1, 2}
    Servers = {2}
    Bootstrap <- MCBootstrap
    Tx = {t1, t2}
    Clock <- MCClock
    InitialReward = 2
    HalvingInterval = 2
    MaxSent = 2
    MaxFaults = 1
SPECIFICATION Spec
INVARIANTS TipHeaviest RestartReproduces BankFollowsChain ConfirmedIsLogged PoolsOK
PROPERTY TipOnlyImproves
SYMMETRY MCSymmetry
CHECK_DEADLOCK FALSE
