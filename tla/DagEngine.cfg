CONSTANTS
    Hash = {0, 1, 2, 3, 4, 5}
    ORIGIN = ORIGIN
    K = 1
    Genesis = 0
SPECIFICATION Spec
INVARIANTS TypeOK TipHeaviest MergesetExact HonestOrderIsTopological BlueSetIsKCluster AnticoneSizesExact HonestNeverRefused
CHECK_DEADLOCK FALSE
