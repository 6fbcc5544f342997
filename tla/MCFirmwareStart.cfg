CONSTANTS
    StreamWindow = 2
    SeqModulus = 64
    JobSizes = {2, 3}
    StatusReports <- NoQueueTelemetry
    MaxJobs = 2
    MaxCrashes = 0
    PersistMayFail = TRUE
    WorldMayFail = FALSE
SPECIFICATION Spec
PROPERTIES
    StartResetsContext
