SPECIFICATION FairSpec
INVARIANTS
    SignalsLiveEvent
    StoppedMeansNoWorker
PROPERTIES
    NeverRunningAgain
    StopEndsService
CHECK_DEADLOCK FALSE
