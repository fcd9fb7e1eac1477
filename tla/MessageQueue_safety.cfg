CONSTANTS
    Senders = {s1, s2}
    Receivers = {r1, r2}
    Capacity = 2
    WBufSize = 2
    SendLens = {2}
    RecvLens = {1}
    PostLens = {2}
    Numbers = 5
    Endless = FALSE
    Clears = TRUE
    Reloads = TRUE
    TimerOwners = {"ArcMSR"}
SPECIFICATION Spec
SYMMETRY Symmetry
INVARIANTS
    InboundTurn
    InOrder
    OutboundTurn
    SendersSleepWithCause
    ReceiversSleepWithCause
PROPERTIES
    BytesFlow
