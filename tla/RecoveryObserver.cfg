CONSTANTS
    Window = 2
    Enough = 2
    MaxGap = 2
SPECIFICATION FairSpec
INVARIANTS
    TypeOK
    MilestonesAreReal
PROPERTIES
    PerformanceIsSustained
    ObservationCompletes
CHECK_DEADLOCK FALSE
