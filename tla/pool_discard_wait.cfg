SPECIFICATION Spec
CONSTANTS
    HardwareConcurrency = 2
    SentriesPerThread = 1
    Sentry = {s1, s2}
    NoSentry = NoSentry
    Job = {j1, j2}
    NoJob = NoJob
    LoadRequests = {100}
    MaxResizes = 0
    MaxNested = 0
    MayDiscard = TRUE
    MayQuery = FALSE
    MayDestroy = FALSE
INVARIANTS
    WaitTellsOwnOutcome
