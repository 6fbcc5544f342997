CONSTANTS
    StreamWindow = 2
    SeqModulus = 64
    JobSizes = {2}
    StatusReports <- NoQueueTelemetry
    MaxJobs = 1
    MaxCrashes = 1
    PersistMayFail = FALSE
    WorldMayFail = FALSE
SPECIFICATION Spec
INVARIANTS
    ResumeNeedsItsJob
