CONSTANTS
    StreamWindow = 2
    SeqModulus = 64
    JobSizes = {0, 1, 3}
    StatusReports <- NoQueueTelemetry
    MaxJobs = 2
    MaxCrashes = 1
    PersistMayFail = TRUE
    WorldMayFail = TRUE
SPECIFICATION Spec
INVARIANTS
    TypeOK
    AssertionsHold
    SegmentReadInBounds
    ResumeOncePerStart
    SnapshotIsTheCursor
    SnapshotOnlyWhilePaused
    JobViewsAgree
    OnlyPrintsAreExecuted
PROPERTIES
    ImplementsLifecycle
    ImplementsView
    KeepsWorldContract
