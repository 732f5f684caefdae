SPECIFICATION FairSpec
CONSTANTS
    Records <- SomeRecords
    BufSize = 3
    MaxTyped = 4
INVARIANTS
    ReadsOn
    NothingLost
    ReadIsDefined
    NoSpin
PROPERTIES
    TypedIsRead
CHECK_DEADLOCK FALSE
