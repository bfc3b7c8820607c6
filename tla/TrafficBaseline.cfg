CONSTANTS
    Scenarios = {"baseline"}
    Idempotent = TRUE
    NPartitions = 1
    MaxMessages = 3
    MaxAppends = 1
    MaxFetchErrors = 1
    MaxRebalances = 1
    WritesFail = FALSE
SPECIFICATION FairSpec
INVARIANTS
    TypeOK
    PassedBaselineIsExactlyOnce
    GapsAreReal
    NoFalseRegression
PROPERTY RunEnds
CHECK_DEADLOCK FALSE
