CONSTANTS
    JobSizes = {1}
    MaxJobs = 2
    MaxCrashes = 1
    MaxCommands = 2
    MaxRestarts = 1
    Subscribers = {"pm"}
    OtherRequests = {"START", "CLEAR_JOB"}
    MotionReports = {"FAULT"}
    AlignmentReports = {}
    Buttons = {"START", "PAUSE", "RESUME"}
SPECIFICATION PathSpec
INVARIANTS
    PathTypeOK
    StartsAreRequested
    HandledCommandShows
PROPERTIES
    HandledInOrder
    ProgramTakenOnce
