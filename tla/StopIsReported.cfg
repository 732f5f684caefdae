SPECIFICATION FairSpec
PROPERTY
    StopIsReported
CHECK_DEADLOCK FALSE
