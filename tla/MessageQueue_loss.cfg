CONSTANTS
    Senders = {s1}
    Receivers = {}
    Capacity = 3
    WBufSize = 1
    SendLens = {1, 3}
    RecvLens = {1}
    PostLens = {1}
    Numbers = 10
    Endless = TRUE
    Clears = FALSE
    Reloads = FALSE
    TimerOwners = {"ArcMSR", "other"}
SPECIFICATION Spec
INVARIANTS
    NoByteLost
