SPECIFICATION Spec
CONSTANTS
    QueueDepths = {0, 3, 5}
    MaxOutstanding = 2
    IntLimit = 4
    Retries = 2
    FirmwareTries = 1
    MaxLoads = 1
INVARIANTS
    PolledAnswerKept
CHECK_DEADLOCK FALSE
