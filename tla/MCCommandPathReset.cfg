CONSTANTS
    JobSizes = {1}
    MaxJobs = 1
    MaxCrashes = 0
    MaxCommands = 1
    MaxRestarts = 0
    Subscribers = {"pm"}
    OtherRequests = {"START"}
    MotionReports = {}
    AlignmentReports = {}
    Buttons = {"START", "PAUSE", "RESUME"}
SPECIFICATION FairPathSpec
PROPERTIES
    CompletedProgramIsReset
