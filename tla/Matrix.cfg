SPECIFICATION FairSpec
CONSTANTS
    Repetitions = 2
    ApiErrors = FALSE
    MaxRuns = 10
    MaxDisturbances = 2
INVARIANTS
    TypeOK
    NoDuplicateRuns
    RunsFollowSchedule
    CompletedMatrixIsSound
    OneOfficialJob
    CompletedMatrixIsQuiet
PROPERTIES
    RunsKeepContract
    MatrixCompletes
