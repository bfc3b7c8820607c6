CONSTANTS
    Window = 3
    Enough = 2
    MaxGap = 1
SPECIFICATION Spec
INVARIANTS
    KafkaRecoversAfterLoss
CHECK_DEADLOCK FALSE
