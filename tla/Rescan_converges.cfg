CONSTANTS
    MaxTargetID = 2
    Luns = {3}
    MaxChanges = 3
    MaxMissing = 1
    TimerOwners = {"ArcMSR"}
SPECIFICATION FairSpec
INVARIANTS
    TypeOK
    NotificationHandled
    StackMatchesMap
PROPERTIES
    OverlookedHasCause
    Converges
