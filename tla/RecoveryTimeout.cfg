CONSTANTS
    Window = 2
    Enough = 2
    MaxGap = 1
SPECIFICATION FairSpec
PROPERTIES
    ObservationEnds
CHECK_DEADLOCK FALSE
