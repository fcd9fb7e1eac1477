CONSTANTS
    Tasks = {t1, t2, t3}
    NoTask = NoTask
    MaxSRB = 2
    sizeSRB = 64
    SRBPhys = 128
    Frames = 16
    SegCounts = {0, 2}
    Requests <- FewRequests
    SmallSG = 1
    Errors = {"check_condition", "aborted"}
    BadWords = {}
    MaxTimeouts = 2
    Reentrant = TRUE
SPECIFICATION Spec
SYMMETRY Symmetry
PROPERTY ImplementsService
INVARIANTS
    TypeOK
    NoTagLost
    NoTagShared
    CompletesItsOwner
    MissMeansTimeout
    PostedFrameFits
    OverrunHasCause
