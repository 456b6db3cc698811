SPECIFICATION FairSpec
CONSTANTS
    HardwareConcurrency = 2
    SentriesPerThread = 1
    Sentry = {s1, s2, s3}
    NoSentry = NoSentry
    Job = {j1, j2}
    NoJob = NoJob
    LoadRequests = {0, 100}
    MaxResizes = 1
    MaxNested = 0
    MayDiscard = FALSE
    MayQuery = FALSE
    MayDestroy = FALSE
PROPERTIES
    ImplementsFairJobService
INVARIANTS
    SentriesBounded
