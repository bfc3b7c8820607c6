CONSTANTS
    Scenarios = {"baseline"}
    Idempotent = FALSE
    NPartitions = 1
    MaxMessages = 2
    MaxAppends = 2
    MaxFetchErrors = 0
    MaxRebalances = 0
    WritesFail = FALSE
SPECIFICATION Spec
INVARIANTS
    DrainReachesAcknowledgements
CHECK_DEADLOCK FALSE
