SPECIFICATION FairSpec
CONSTANTS
    QueueDepths = {0, 3, 5}
    MaxOutstanding = 2
    IntLimit = 4
    Retries = 2
    FirmwareTries = 1
    MaxLoads = 2
INVARIANTS
    TypeOK
    FalseAnswerHasCause
    ConfigAnswerKept
    DepthRespected
    HandlerHasResources
PROPERTIES
    StoppedIsQuiet
    CallReturns
CHECK_DEADLOCK FALSE
