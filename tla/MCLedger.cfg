CONSTANTS
    Height = 3
    Account <- MCAccount
    Allocation <- MCAllocation
    Tx <- MCTx
    Fee = 1
    Rewards = {0, 2}
    MaxLamports = 12
    MaxBlocks = 4
    MaxTxs = 2
SPECIFICATION Spec
INVARIANTS TreeMatches ProofsExact SupplyConserved RestoreSame
CHECK_DEADLOCK FALSE
