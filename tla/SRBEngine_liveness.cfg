CONSTANTS
    Tasks = {t1, t2}
    NoTask = NoTask
    MaxSRB = 2
    sizeSRB = 64
    SRBPhys = 128
    Frames = 16
    SegCounts = {2}
    Requests <- OneRequest
    SmallSG = 1
    Errors = {"check_condition"}
    BadWords = {0, 8}
    MaxTimeouts = 1
    Reentrant = TRUE
SPECIFICATION FairSpec
PROPERTIES
    ReplyFreesTag
    RequestCompletes
