CONSTANTS
    StreamWindow = 2
    SeqModulus = 64
    JobSizes = {3}
    StatusReports <- NoQueueTelemetry
    MaxJobs = 1
    MaxCrashes = 0
    PersistMayFail = FALSE
    WorldMayFail = TRUE
SPECIFICATION FairSpec
PROPERTIES
    AbortFallbackEnds
