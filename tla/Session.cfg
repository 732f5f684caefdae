SPECIFICATION FairSpec
CONSTANTS
    BufSize = 1
    NetSize = 1
    PipeSize = 1
    MaxKeys = 4
    MaxAnswer = 1
INVARIANTS
    LossBounded
PROPERTIES
    TerminalSpec
    NoRing
    KeptByShellOrUser
CHECK_DEADLOCK FALSE
