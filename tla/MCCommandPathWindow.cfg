CONSTANTS
    JobSizes = {1}
    MaxJobs = 1
    MaxCrashes = 0
    MaxCommands = 3
    MaxRestarts = 0
    Subscribers = {"pm", "ui"}
    OtherRequests = {}
    MotionReports = {"NORMAL"}
    AlignmentReports = {"VALID"}
    Buttons = {"START", "PAUSE", "RESUME"}
SPECIFICATION FairPathSpec
PROPERTIES
    WindowFollows
