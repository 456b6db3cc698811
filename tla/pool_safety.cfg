SPECIFICATION Spec
CONSTANTS
    HardwareConcurrency = 2
    SentriesPerThread = 1
    Sentry = {s1, s2, s3}
    NoSentry = NoSentry
    Job = {j1, j2, j3}
    NoJob = NoJob
    LoadRequests = {0, 74, 75, 300}
    MaxResizes = 2
    MaxNested = 0
    MayDiscard = FALSE
    MayQuery = FALSE
    MayDestroy = TRUE
PROPERTY
    ImplementsJobService
SYMMETRY Symmetry
INVARIANTS
    TypeOK
    WaitTellsOwnOutcome
    NoJobSkipped
    Ownership
    SentriesNotShared
    NoLostWakeup
    NoLostSignal
    QuietWhenResized
CHECK_DEADLOCK FALSE
