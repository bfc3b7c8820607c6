CONSTANTS
    Starts = {1, 2}
    MaxFailures = 1
SPECIFICATION FairSpec
INVARIANTS
    TypeOK
    PassedIsBacked
    OneTraffic
PROPERTIES
    EvidenceIsFrozen
    KeepsContract
    EveryStartEnds
CHECK_DEADLOCK FALSE
