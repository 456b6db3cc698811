SPECIFICATION FairSpec
CONSTANTS
    HardwareConcurrency = 2
    SentriesPerThread = 1
    Sentry = {s1, s2}
    NoSentry = NoSentry
    Job = {j1, j2}
    NoJob = NoJob
    LoadRequests = {0}
    MaxResizes = 1
    MaxNested = 1
    MayDiscard = FALSE
    MayQuery = TRUE
    MayDestroy = TRUE
PROPERTIES
    EveryJobEnds
    EveryWaitEnds
    EveryResizeEnds
CHECK_DEADLOCK FALSE
