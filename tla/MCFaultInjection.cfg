CONSTANTS
    r1 = r1
    r2 = r2
    b1 = b1
    b2 = b2
    NoBroker = NoBroker
    Runners <- TwoRunners
    Brokers <- TwoBrokers
    MaxRestarts = 1
SPECIFICATION Spec
SYMMETRY Symmetry
INVARIANTS
    TypeOK
    OneFaultAtATime
    DeletesPlannedPod
PROPERTY DeletesLeader
CHECK_DEADLOCK FALSE
