------------------------------- MODULE Rescan -------------------------------
(***************************************************************************)
(* How units that appear on or disappear from the adapter reach the SCSI   *)
(* stack: the periodic GET_CONFIG request (deviceScanStub), the message    *)
(* interrupt that compares device maps (handleMessageInterrupt), the event *)
(* source that hands the work to a thread of its own (ArcMSREventSource),  *)
(* and the rescan that thread runs (targetRescan).                         *)
(*                                                                         *)
(* The interrupt handler and the scan timer run on the workloop with the   *)
(* command gate closed.  The rescan thread closes the gate to read and     *)
(* clear the notification and runs outside it otherwise, so the two maps   *)
(* are shared without a lock.                                              *)
(***************************************************************************)
EXTENDS Integers, FiniteSets

CONSTANTS
    MaxTargetID,    \* ARCMSR_MAX_TARGETID
    Luns,           \* the logical units used
    MaxChanges,     \* bound: how often the adapter's units change
    MaxMissing,     \* bound: how many creations may have failed at a time
    TimerOwners     \* what deviceScanStub may find in its owner argument

ASSUME RescanAssumption ==
    /\ MaxTargetID \in Nat \ {0}
    /\ Luns \subseteq 0 .. 7
    /\ MaxChanges \in Nat /\ MaxMissing \in Nat
    /\ TimerOwners \subseteq {"ArcMSR", "other"} /\ TimerOwners # {}

VARIABLES
    units,           \* the units the adapter has, per target
    changes,         \* how often they have changed
    request,         \* GET_CONFIG is in the inbound message register
    message,         \* the device map in message_wbuffer
    msgInt,          \* ARCMSR_MU_OUTBOUND_MESSAGE0_INT is asserted
    scanTimer,       \* deviceScanTimer is armed
    handler,         \* the workloop in handleMessageInterrupt
    deviceMapUpdate, deviceMap,
    actionMask,      \* ARCMSR_ESFLAG_RESCAN is set
    handlerRunning,
    kick,            \* the event source's timeout is armed
    async,           \* the thread in asyncEventHandler
    stack,           \* the targets created in the SCSI stack
    missing          \* the targets whose last creation failed

adapterVars == <<units, changes, request, message, msgInt>>
esVars      == <<actionMask, handlerRunning, kick>>
stackVars   == <<stack, missing>>
vars == <<adapterVars, scanTimer, handler, deviceMapUpdate, deviceMap, esVars,
          async, stackVars>>

Targets == 0 .. MaxTargetID - 1
Maps    == [Targets -> SUBSET Luns]

TargetLun2ScsiTarget(t, l) == t * 8 + l

\* The stack's targets that stand for the units of map m.
Flattened(m) == UNION {{TargetLun2ScsiTarget(t, l) : l \in m[t]} : t \in Targets}

IdleHandler == [pc |-> "idle"]
IdleAsync   == [pc |-> "idle"]

\* CTLgetConfig left the adapter's first answer in the message buffer, and
\* the device map in it unread.
Init ==
    /\ units \in Maps /\ message = units
    /\ changes = 0
    /\ request = FALSE /\ msgInt = FALSE
    /\ scanTimer = TRUE
    /\ handler = IdleHandler
    /\ deviceMapUpdate = [t \in Targets |-> {}]
    /\ deviceMap = [t \in Targets |-> {}]
    /\ actionMask = FALSE /\ handlerRunning = FALSE /\ kick = FALSE
    /\ async = IdleAsync
    /\ stack = {} /\ missing = {}

GateOpen == handler.pc = "idle"

-----------------------------------------------------------------------------
(* The adapter (external).                                                 *)

UnitsChange ==
    /\ changes < MaxChanges
    /\ changes' = changes + 1
    /\ units' \in Maps \ {units}
    /\ UNCHANGED <<request, message, msgInt, scanTimer, handler, deviceMapUpdate,
                   deviceMap, esVars, async, stackVars>>

AdapterAnswers ==
    /\ request
    /\ request' = FALSE
    /\ message' = units
    /\ msgInt' = TRUE
    /\ UNCHANGED <<units, changes, scanTimer, handler, deviceMapUpdate, deviceMap,
                   esVars, async, stackVars>>

\* Another message command completes (the background rebuild was started):
\* the same interrupt, with the last map still in the buffer.
OtherMessage ==
    /\ msgInt' = TRUE
    /\ UNCHANGED <<units, changes, request, message, scanTimer, handler,
                   deviceMapUpdate, deviceMap, esVars, async, stackVars>>

-----------------------------------------------------------------------------
(* The workloop.                                                           *)

\* Mutant: the scan timer is not set again.
deviceScanOnce ==
    /\ GateOpen /\ scanTimer
    /\ \E owner \in TimerOwners :
         /\ request' = (request \/ owner = "ArcMSR")
         /\ scanTimer' = FALSE
    /\ UNCHANGED <<units, changes, message, msgInt, handler, deviceMapUpdate,
                   deviceMap, esVars, async, stackVars>>

\* deviceScanStub asks for the configuration and arms itself again, if the
\* register it takes its owner from holds the driver.
deviceScanStub ==
    /\ GateOpen /\ scanTimer
    /\ \E owner \in TimerOwners :
         /\ request' = (request \/ owner = "ArcMSR")
         /\ scanTimer' = (owner = "ArcMSR")
    /\ UNCHANGED <<units, changes, message, msgInt, handler, deviceMapUpdate,
                   deviceMap, esVars, async, stackVars>>

HandleInterruptRequest ==
    /\ handler.pc = "idle" /\ msgInt
    /\ msgInt' = FALSE
    /\ handler' = [pc |-> "copy", target |-> 0, updated |-> FALSE]
    /\ UNCHANGED <<units, changes, request, message, scanTimer, deviceMapUpdate,
                   deviceMap, esVars, async, stackVars>>

\* The loop of handleMessageInterrupt, one target at a time: the adapter may
\* be writing the message and the rescan thread deviceMap.
CopyTarget ==
    /\ handler.pc = "copy" /\ handler.target \in Targets
    /\ LET t == handler.target
       IN  /\ deviceMapUpdate' = [deviceMapUpdate EXCEPT ![t] = message[t]]
           /\ handler' = [handler EXCEPT
                            !.target = t + 1,
                            !.updated = @ \/ message[t] # deviceMap[t]]
    /\ UNCHANGED <<adapterVars, scanTimer, deviceMap, esVars, async, stackVars>>

\* Mutant: the handler's thread is started whether or not one is running.
addNotificationAlways ==
    /\ handler.pc = "copy" /\ handler.target \notin Targets
    /\ IF handler.updated
       THEN actionMask' = TRUE /\ handlerRunning' = TRUE /\ kick' = TRUE
       ELSE UNCHANGED esVars
    /\ handler' = IdleHandler
    /\ UNCHANGED <<adapterVars, scanTimer, deviceMapUpdate, deviceMap, async, stackVars>>

\* Mutant: a notification that comes while the handler runs is left to that run.
addNotificationOnce ==
    /\ handler.pc = "copy" /\ handler.target \notin Targets
    /\ IF handler.updated /\ ~handlerRunning
       THEN actionMask' = TRUE /\ handlerRunning' = TRUE /\ kick' = TRUE
       ELSE UNCHANGED esVars
    /\ handler' = IdleHandler
    /\ UNCHANGED <<adapterVars, scanTimer, deviceMapUpdate, deviceMap, async, stackVars>>

\* addNotification, if the maps differ.
addNotification ==
    /\ handler.pc = "copy" /\ handler.target \notin Targets
    /\ IF handler.updated
       THEN /\ actionMask' = TRUE
            /\ handlerRunning' = TRUE
            /\ kick' = (kick \/ ~handlerRunning)
       ELSE UNCHANGED esVars
    /\ handler' = IdleHandler
    /\ UNCHANGED <<adapterVars, scanTimer, deviceMapUpdate, deviceMap, async, stackVars>>

-----------------------------------------------------------------------------
(* The rescan thread.                                                      *)

\* Timeout: asyncEventHandler starts on a thread of the thread call pool.
Timeout ==
    /\ kick /\ async.pc = "idle"
    /\ kick' = FALSE
    /\ async' = [pc |-> "loop"]
    /\ UNCHANGED <<adapterVars, scanTimer, handler, deviceMapUpdate, deviceMap,
                   actionMask, handlerRunning, stackVars>>

\* asyncEventHandler goes on as long as there is work to do.
handlerDone ==
    /\ GateOpen /\ async.pc = "loop"
    /\ handlerRunning' = (handlerRunning /\ actionMask)
    /\ async' = IF actionMask THEN [pc |-> "take"] ELSE IdleAsync
    /\ UNCHANGED <<adapterVars, scanTimer, handler, deviceMapUpdate, deviceMap,
                   actionMask, kick, stackVars>>

\* ArcMSREventSource::targetRescan takes the notification.
takeRescan ==
    /\ GateOpen /\ async.pc = "take"
    /\ actionMask' = FALSE
    /\ async' = IF actionMask THEN [pc |-> "scan", target |-> 0] ELSE [pc |-> "loop"]
    /\ UNCHANGED <<adapterVars, scanTimer, handler, deviceMapUpdate, deviceMap,
                   handlerRunning, kick, stackVars>>

\* Mutant: the loop over the targets runs one too far.
NextTargetPastEnd(t) ==
    IF t \in Targets THEN [pc |-> "scan", target |-> t + 1] ELSE [pc |-> "loop"]

NextTarget(t) ==
    IF t + 1 \in Targets THEN [pc |-> "scan", target |-> t + 1] ELSE [pc |-> "loop"]

\* ArcMSR::targetRescan reads the new map of a target, once.
ScanTarget ==
    /\ async.pc = "scan"
    /\ LET t         == async.target
           newtarget == deviceMapUpdate[t]
       IN  async' = IF newtarget # deviceMap[t]
                    THEN [pc |-> "tell", target |-> t, newtarget |-> newtarget]
                    ELSE NextTarget(t)
    /\ UNCHANGED <<adapterVars, scanTimer, handler, deviceMapUpdate, deviceMap,
                   esVars, stackVars>>

\* CreateTargetForID and DestroyTargetForID for each unit that differs.  The
\* stack may fail to create a target, and nobody looks at its answer.
TellStack ==
    /\ async.pc = "tell"
    /\ LET t        == async.target
           Ids(set) == {TargetLun2ScsiTarget(t, l) : l \in set}
           come     == Ids(async.newtarget \ deviceMap[t])
           gone     == Ids(deviceMap[t] \ async.newtarget)
       IN  \E failed \in SUBSET come :
             /\ stack' = (stack \cup (come \ failed)) \ gone
             /\ missing' = (missing \cup failed) \ gone
             /\ Cardinality(missing') <= MaxMissing
    /\ async' = [async EXCEPT !.pc = "save"]
    /\ UNCHANGED <<adapterVars, scanTimer, handler, deviceMapUpdate, deviceMap,
                   esVars>>

\* Mutant: the map is read again instead of the mask just scanned against.
SaveUpdate ==
    /\ async.pc = "save"
    /\ deviceMap' = [deviceMap EXCEPT ![async.target] = deviceMapUpdate[async.target]]
    /\ async' = NextTarget(async.target)
    /\ UNCHANGED <<adapterVars, scanTimer, handler, deviceMapUpdate, esVars, stackVars>>

\* The mask that was scanned against is saved.
SaveTarget ==
    /\ async.pc = "save"
    /\ deviceMap' = [deviceMap EXCEPT ![async.target] = async.newtarget]
    /\ async' = NextTarget(async.target)
    /\ UNCHANGED <<adapterVars, scanTimer, handler, deviceMapUpdate, esVars, stackVars>>

-----------------------------------------------------------------------------
Adapter == UnitsChange \/ AdapterAnswers \/ OtherMessage

MessageInterrupt == HandleInterruptRequest \/ CopyTarget \/ addNotification

AsyncHandler ==
    handlerDone \/ takeRescan \/ ScanTarget \/ TellStack \/ SaveTarget

Next == Adapter \/ deviceScanStub \/ MessageInterrupt \/ Timeout \/ AsyncHandler

Spec == Init /\ [][Next]_vars

(***************************************************************************)
(* The workloop and the rescan thread never stop, whoever waits for the    *)
(* gate gets it if it opens again and again, and the adapter answers.      *)
(***************************************************************************)
FairSpec ==
    /\ Spec
    /\ WF_vars(MessageInterrupt) /\ SF_vars(deviceScanStub)
    /\ WF_vars(Timeout)
    /\ SF_vars(handlerDone) /\ SF_vars(takeRescan)
    /\ WF_vars(ScanTarget \/ TellStack \/ SaveTarget)
    /\ WF_vars(AdapterAnswers)

-----------------------------------------------------------------------------
(* Properties.                                                             *)

ScsiTargets == {TargetLun2ScsiTarget(t, l) : t \in Targets, l \in Luns}

HandlerStates ==
    {IdleHandler} \cup [pc : {"copy"}, target : 0 .. MaxTargetID, updated : BOOLEAN]

AsyncStates ==
    [pc : {"idle", "loop", "take"}]
      \cup [pc : {"scan"}, target : Targets]
      \cup [pc : {"tell", "save"}, target : Targets, newtarget : SUBSET Luns]

TypeOK ==
    /\ units \in Maps /\ message \in Maps
    /\ changes \in 0 .. MaxChanges
    /\ request \in BOOLEAN /\ msgInt \in BOOLEAN /\ scanTimer \in BOOLEAN
    /\ handler \in HandlerStates
    /\ deviceMapUpdate \in Maps /\ deviceMap \in Maps
    /\ actionMask \in BOOLEAN /\ handlerRunning \in BOOLEAN /\ kick \in BOOLEAN
    /\ async \in AsyncStates
    /\ stack \subseteq ScsiTargets /\ missing \subseteq ScsiTargets

\* A notification is never left without a handler that will see it, and there
\* is never a second handler: handlerRunning tells exactly whether one has
\* been started and has not found itself done.
NotificationHandled ==
    /\ actionMask => handlerRunning
    /\ handlerRunning <=> (kick \/ async.pc # "idle")
    /\ ~(kick /\ async.pc # "idle")

\* The map the stack has last been told.
Told ==
    IF async.pc = "save" THEN [deviceMap EXCEPT ![async.target] = async.newtarget]
    ELSE deviceMap

\* The stack has a target exactly for each unit of deviceMap (a target being
\* rescanned already has the units about to be saved), but for units it failed
\* to create, which are on the map all the same.
StackMatchesMap ==
    /\ stack = Flattened(Told) \ missing
    /\ missing \subseteq Flattened(Told)

\* A difference of the maps at target t that a rescan still to come, or still to
\* get to t, will find; or there is none.
Noticed(t) ==
    \/ deviceMapUpdate[t] = deviceMap[t]
    \/ actionMask
    \/ handler.pc = "copy" /\ handler.updated
    \/ async.pc \in {"scan", "tell", "save"} /\ async.target <= t

\* A new map is overlooked only if it brings a target back to what it was before
\* the rescan that is about to save the target: reading the update once is enough
\* to "avoid racing with the code that checks the map" (ArcMSRSCSI.cpp:365) but
\* for that.
OverlookedHasCause ==
    [][\A t \in Targets :
         Noticed(t) /\ ~Noticed(t)' =>
             SaveTarget /\ async.target = t /\ deviceMapUpdate[t] = deviceMap[t]]_vars

\* When the adapter's units stop changing, the stack comes to have exactly
\* those units, the next regular scan making up for an update overlooked, but
\* for those it failed to create: they are on the map and never tried again.
Converges == <>[](stack = Flattened(units) \ missing)
=============================================================================
