SPECIFICATION FairSpec
CONSTANTS
    MinDelay = 3
    MaxDelay = 60
    RetryAfters = {0, 30, 300}
    CountedFails = 6
INVARIANTS
    NothingLeftRunning
    LossIsPolled
    BackoffHonoured
PROPERTIES
    LossRetried
    StopEnds
