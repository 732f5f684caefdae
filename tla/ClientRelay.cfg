SPECIFICATION Spec
CONSTANTS
    N = 2
    Src <- ClientSrc
    Dst <- ClientDst
    Until = FALSE
    BufSize = 2
    MaxBytes = 3
INVARIANTS
    NeverAborts
    SafeResume
    NoSpuriousPass
    NestBounded
PROPERTIES
    RelaySpec
