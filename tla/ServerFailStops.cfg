SPECIFICATION Spec
CONSTANTS
    N = 2
    Src <- ServerSrc
    Dst <- ServerDst
    Until = TRUE
    BufSize = 2
    MaxBytes = 3
INVARIANT
    FailStops
