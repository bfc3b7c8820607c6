CONSTANTS
    Brokers <- ThreeBrokers
    Digits <- DigitsOfThree
    Partitions = {0, 1}
    Minute = 3
    StableFor = 2
    MaxSamples = 4
SPECIFICATION Spec
INVARIANTS
    HealthyMeansServing
    MappingFindsTheLeader
    SeriesVerdictsAreEarned
CHECK_DEADLOCK FALSE
