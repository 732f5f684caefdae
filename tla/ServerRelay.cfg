SPECIFICATION FairSpec
CONSTANTS
    N = 2
    Src <- ServerSrc
    Dst <- ServerDst
    Until = TRUE
    BufSize = 2
    MaxBytes = 3
INVARIANTS
    RunsOn
    OneOverlapped
    ResumeAfterCompletion
    CleanEndDeliversAll
    PendingOnlyIfCancelled
PROPERTIES
    CancelReturns
    CompletionCollected
