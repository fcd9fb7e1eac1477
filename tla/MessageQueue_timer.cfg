CONSTANTS
    Senders = {}
    Receivers = {r1}
    Capacity = 2
    WBufSize = 1
    SendLens = {1}
    RecvLens = {1, 2}
    PostLens = {1}
    Numbers = 1
    Endless = TRUE
    Clears = TRUE
    Reloads = FALSE
    TimerOwners = {"ArcMSR", "other"}
SPECIFICATION FairSpec
PROPERTIES
    RecvReturns
