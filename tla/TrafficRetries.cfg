CONSTANTS
    Scenarios = {"baseline", "fault"}
    Idempotent = FALSE
    NPartitions = 1
    MaxMessages = 2
    MaxAppends = 2
    MaxFetchErrors = 1
    MaxRebalances = 0
    WritesFail = TRUE
SPECIFICATION Spec
INVARIANTS
    CompleteOutcomes
    FaultValidationHolds
    PassedBaselineIsInOrder
CHECK_DEADLOCK FALSE
