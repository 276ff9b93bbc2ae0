SPECIFICATION Spec
CONSTANTS
    Hash = {1, 2, 3, 4, 5, 6, 7}
    ORIGIN = 0
    NONE = 100
    Capacity = 40
    Depth = 1
    Slack = 1
    MaxParents = 3
    MaxMerged = 2
    MaxDeleted = 1
INVARIANTS NeverFails ChainQueriesExact IntervalsValid
PROPERTY AnswersAncestry
CHECK_DEADLOCK FALSE
