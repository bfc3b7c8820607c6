SPECIFICATION Spec
CONSTANTS
    Repetitions = 1
    ApiErrors = TRUE
    MaxRuns = 6
    MaxDisturbances = 2
INVARIANT
    OneOfficialJob
