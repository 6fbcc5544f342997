CONSTANTS
    WorkRadius = 1
    ReachMin = 2
    ReachMax = 3
    MaxErrors = 1
    StreamWindow = 2
    SeqModulus = 64
    Program <- TwoTargets
    MaxTargets = 2
    MaxRestarts = 1
SPECIFICATION FairStackSpec
INVARIANTS
    StackTypeOK
PROPERTIES
    ImplementsWorldQueue
    LastTargetByItsOwnError
    BaseCommandsFinish
    ReachedTargetsComplete
