CONSTANTS
    Senders = {s1}
    Receivers = {r1}
    Capacity = 4
    WBufSize = 2
    SendLens = {4}
    RecvLens = {2}
    PostLens = {2}
    Numbers = 8
    Endless = TRUE
    Clears = FALSE
    Reloads = FALSE
    TimerOwners = {"ArcMSR"}
SPECIFICATION FairSpec
INVARIANTS
    TypeOK
    NoByteLost
PROPERTIES
    SendReturns
    RecvReturns
