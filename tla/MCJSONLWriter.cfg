CONSTANTS
    w1 = w1
    w2 = w2
    c1 = c1
    c2 = c2
    Writers <- MCWriters
    Closers <- MCClosers
    MaxWrites = 2
    Capacity = 1
SPECIFICATION FairSpec
INVARIANTS
    TypeOK
    NoSendOnClosedChannel
    SealedFileIsComplete
    ErrorNeverHidden
PROPERTIES
    ImplementsAppendLog
    WriteReturns
    CloseReturns
CHECK_DEADLOCK FALSE
