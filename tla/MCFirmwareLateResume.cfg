CONSTANTS
    StreamWindow = 2
    SeqModulus = 64
    JobSizes = {2}
    StatusReports <- NoQueueTelemetry
    MaxJobs = 1
    MaxCrashes = 0
    PersistMayFail = FALSE
    WorldMayFail = FALSE
SPECIFICATION FairSpec
PROPERTIES
    ResumedPrintEnds
