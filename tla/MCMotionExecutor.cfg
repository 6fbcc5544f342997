CONSTANTS
    mast = mast
    wheel = wheel
    Joints = {mast, wheel}
    Configured = {mast}
    Structural = {mast}
    SoftLimits <- Positions
    Shapes <- TestShapes
    MAX_QUEUE_SIZE = 2
    MaxSegments = 3
    MaxPresses = 1
    MaxResets = 1
    MaxAborts = 1
SPECIFICATION FairExecSpec
INVARIANTS
    ExecTypeOK
    RunsOnlyWhenAllowed
    IdleMeansEmpty
    ExecutesInOrder
    ResultsAreCompletions
PROPERTIES
    StopsHoldUntilReset
    MovingSegmentsEnd
CHECK_DEADLOCK FALSE
