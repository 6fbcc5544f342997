CONSTANTS
    StreamWindow = 2
    SeqModulus = 64
    JobSizes = {1, 3}
    StatusReports <- NoQueueTelemetry
    MaxJobs = 2
    MaxCrashes = 0
    PersistMayFail = FALSE
    WorldMayFail = FALSE
SPECIFICATION FairSpec
INVARIANTS
    WindowRespected
PROPERTIES
    CompletesEverySegment
    CompletesWithRoom
    ExecutionEnds
    AbortEnds
