--------------------------- MODULE Rescan_proofs ---------------------------
(* Safety of the rescan machinery for any number of targets and changes. *)
EXTENDS Rescan, TLAPS

\* The number the stack knows a unit by identifies target and LUN.
LEMMA NumbersDistinct ==
  ASSUME NEW t \in Targets, NEW u \in Targets, NEW l \in Luns, NEW k \in Luns,
         TargetLun2ScsiTarget(t, l) = TargetLun2ScsiTarget(u, k)
  PROVE  t = u /\ l = k
<1>1. t \in Int /\ u \in Int /\ l \in 0 .. 7 /\ k \in 0 .. 7
  BY RescanAssumption DEF RescanAssumption, Targets
<1>2. t * 8 + l = u * 8 + k
  BY DEF TargetLun2ScsiTarget
<1> QED
  BY <1>1, <1>2

\* Creating the new units of a target and destroying its old ones turns the
\* stack's view of one map into its view of the other.
LEMMA TellChangesOneTarget ==
  ASSUME NEW m \in Maps, NEW t \in Targets, NEW new \in SUBSET Luns
  PROVE  Flattened([m EXCEPT ![t] = new]) =
           (Flattened(m) \cup {TargetLun2ScsiTarget(t, l) : l \in new \ m[t]})
             \ {TargetLun2ScsiTarget(t, l) : l \in m[t] \ new}
<1> DEFINE after == [m EXCEPT ![t] = new]
           gone  == {TargetLun2ScsiTarget(t, l) : l \in m[t] \ new}
           come  == {TargetLun2ScsiTarget(t, l) : l \in new \ m[t]}
<1>m. /\ \A u \in Targets : m[u] \subseteq Luns /\ after[u] \subseteq Luns
      /\ after[t] = new
      /\ \A u \in Targets : u # t => after[u] = m[u]
  BY DEF Maps
<1>1. ASSUME NEW x \in Flattened(after) PROVE x \in (Flattened(m) \cup come) \ gone
  <2>u. PICK u \in Targets : \E l \in after[u] : x = TargetLun2ScsiTarget(u, l)
    BY DEF Flattened
  <2>1. PICK l \in after[u] : x = TargetLun2ScsiTarget(u, l)
    BY <2>u
  <2>2. l \in Luns
    BY <1>m
  <2>3. x \in Flattened(m) \cup come
    <3>1. CASE l \in m[u]
      BY <3>1, <2>1 DEF Flattened
    <3>2. CASE l \notin m[u]
      <4>1. u = t /\ l \in new \ m[t]
        BY <3>2, <2>1, <1>m
      <4> QED
        BY <4>1, <2>1
    <3> QED
      BY <3>1, <3>2
  <2>4. x \notin gone
    <3> SUFFICES ASSUME NEW k \in m[t] \ new, x = TargetLun2ScsiTarget(t, k)
                 PROVE  FALSE
      OBVIOUS
    <3>1. k \in Luns
      BY <1>m
    <3>2. TargetLun2ScsiTarget(t, k) = TargetLun2ScsiTarget(u, l)
      BY <2>1
    <3>3. t = u /\ k = l
      BY <2>u, <2>2, <3>1, <3>2, NumbersDistinct
    <3> QED
      BY <3>3, <1>m
  <2> QED
    BY <2>3, <2>4
<1>2. ASSUME NEW x \in (Flattened(m) \cup come) \ gone PROVE x \in Flattened(after)
  <2>1. CASE x \in come
    <3>1. PICK l \in new \ m[t] : x = TargetLun2ScsiTarget(t, l)
      BY <2>1
    <3> QED
      BY <3>1, <1>m DEF Flattened
  <2>2. CASE x \in Flattened(m)
    <3>u. PICK u \in Targets : \E l \in m[u] : x = TargetLun2ScsiTarget(u, l)
      BY <2>2 DEF Flattened
    <3>1. PICK l \in m[u] : x = TargetLun2ScsiTarget(u, l)
      BY <3>u
    <3>2. l \in after[u]
      <4>1. CASE u = t
        BY <4>1, <3>1, <1>2, <1>m
      <4>2. CASE u # t
        BY <4>2, <3>1, <1>m
      <4> QED
        BY <4>1, <4>2
    <3> QED
      BY <3>1, <3>2 DEF Flattened
  <2> QED
    BY <2>1, <2>2
<1> HIDE DEF after, gone, come
<1>3. Flattened(after) = (Flattened(m) \cup come) \ gone
  BY <1>1, <1>2
<1> QED
  BY <1>3 DEF after, gone, come

\* A unit that is new to a target is not among those the stack was told of.
LEMMA ComersAreNew ==
  ASSUME NEW m \in Maps, NEW t \in Targets, NEW new \in SUBSET Luns
  PROVE  {TargetLun2ScsiTarget(t, l) : l \in new \ m[t]} \cap Flattened(m) = {}
<1> SUFFICES ASSUME NEW l \in new \ m[t], NEW u \in Targets, NEW k \in m[u],
                    TargetLun2ScsiTarget(t, l) = TargetLun2ScsiTarget(u, k)
             PROVE  FALSE
  BY DEF Flattened
<1>1. l \in Luns /\ k \in Luns
  BY DEF Maps
<1>2. t = u /\ l = k
  BY <1>1, NumbersDistinct
<1> QED
  BY <1>2

-----------------------------------------------------------------------------
\* Where the rescan thread goes after a target.
LEMMA NextTargetType ==
  ASSUME NEW t \in Targets
  PROVE  NextTarget(t) \in AsyncStates /\ NextTarget(t).pc \in {"scan", "loop"}
<1>1. CASE t + 1 \in Targets
  BY <1>1 DEF NextTarget, AsyncStates
<1>2. CASE t + 1 \notin Targets
  BY <1>2 DEF NextTarget, AsyncStates
<1> QED
  BY <1>1, <1>2

\* Every variable keeps its type: neither loop over the targets leaves the maps.
THEOREM TypeCorrect == Spec => []TypeOK
<1> USE RescanAssumption DEF RescanAssumption
<1>i. IdleHandler \in HandlerStates /\ IdleAsync \in AsyncStates
  BY DEF HandlerStates, AsyncStates, IdleAsync
<1>l. /\ [pc |-> "loop"] \in AsyncStates /\ [pc |-> "take"] \in AsyncStates
      /\ \A t \in Targets : [pc |-> "scan", target |-> t] \in AsyncStates
      /\ 0 \in Targets
  BY DEF AsyncStates, Targets
<1>1. Init => TypeOK
  <2> SUFFICES ASSUME Init PROVE TypeOK
    OBVIOUS
  <2>1. deviceMap \in Maps /\ deviceMapUpdate \in Maps
    BY DEF Init, Maps
  <2>2. stack \subseteq ScsiTargets /\ missing \subseteq ScsiTargets
    BY DEF Init
  <2>3. /\ request \in BOOLEAN /\ msgInt \in BOOLEAN /\ scanTimer \in BOOLEAN
        /\ actionMask \in BOOLEAN /\ handlerRunning \in BOOLEAN /\ kick \in BOOLEAN
    BY DEF Init
  <2>4. /\ units \in Maps /\ message \in Maps /\ changes \in 0 .. MaxChanges
        /\ handler \in HandlerStates /\ async \in AsyncStates
    BY <1>i DEF Init
  <2> QED
    BY <2>1, <2>2, <2>3, <2>4 DEF TypeOK
<1>2. TypeOK /\ [Next]_vars => TypeOK'
  <2> SUFFICES ASSUME TypeOK, [Next]_vars PROVE TypeOK'
    OBVIOUS
  <2> USE DEF TypeOK, stackVars
  <2>1. CASE UnitsChange
    BY <2>1 DEF UnitsChange, esVars
  <2>2. CASE AdapterAnswers
    BY <2>2 DEF AdapterAnswers, esVars
  <2>3. CASE OtherMessage
    BY <2>3 DEF OtherMessage, esVars
  <2>4. CASE deviceScanStub
    BY <2>4 DEF deviceScanStub, esVars
  <2>5. CASE HandleInterruptRequest
    <3>1. handler' \in HandlerStates
      BY <2>5 DEF HandleInterruptRequest, HandlerStates
    <3> QED
      BY <2>5, <3>1 DEF HandleInterruptRequest, esVars
  <2>6. CASE CopyTarget
    <3>1. /\ handler \in [pc : {"copy"}, target : 0 .. MaxTargetID, updated : BOOLEAN]
          /\ handler.target \in Targets
      BY <2>6 DEF CopyTarget, HandlerStates, IdleHandler
    <3> DEFINE differs == handler.updated \/ message[handler.target] # deviceMap[handler.target]
    <3>d. handler' = [handler EXCEPT !.target = handler.target + 1, !.updated = differs]
      BY <2>6 DEF CopyTarget
    <3>b. differs \in BOOLEAN
      OBVIOUS
    <3> HIDE DEF differs
    <3>t. handler.target + 1 \in 0 .. MaxTargetID
      BY <3>1 DEF Targets
    <3>2. handler' \in [pc : {"copy"}, target : 0 .. MaxTargetID, updated : BOOLEAN]
      BY <3>1, <3>b, <3>d, <3>t, Zenon
    <3>r. handler' \in HandlerStates
      BY <3>2 DEF HandlerStates
    <3>3. deviceMapUpdate' \in Maps
      BY <2>6, <3>1 DEF CopyTarget, Maps
    <3> QED
      BY <2>6, <3>r, <3>3 DEF CopyTarget, esVars, adapterVars
  <2>7. CASE addNotification
    BY <1>i, <2>7 DEF addNotification, esVars, adapterVars
  <2>8. CASE Timeout
    BY <1>l, <2>8 DEF Timeout, adapterVars
  <2>9. CASE handlerDone
    BY <1>i, <1>l, <2>9 DEF handlerDone, adapterVars
  <2>10. CASE takeRescan
    BY <1>l, <2>10 DEF takeRescan, adapterVars
  <2>11. CASE ScanTarget
    <3>1. async.target \in Targets
      BY <2>11 DEF ScanTarget, AsyncStates
    <3>2. deviceMapUpdate[async.target] \in SUBSET Luns
      BY <3>1 DEF Maps
    <3>3. async' \in AsyncStates
      <4>1. \/ async' = [pc |-> "tell", target |-> async.target,
                         newtarget |-> deviceMapUpdate[async.target]]
            \/ async' = NextTarget(async.target)
        BY <2>11 DEF ScanTarget
      <4>2. NextTarget(async.target) \in AsyncStates
        BY <3>1, NextTargetType
      <4> QED
        BY <4>1, <4>2, <3>1, <3>2 DEF AsyncStates
    <3> QED
      BY <2>11, <3>3 DEF ScanTarget, adapterVars, esVars
  <2>12. CASE TellStack
    <3>1. async \in [pc : {"tell", "save"}, target : Targets, newtarget : SUBSET Luns]
      BY <2>12 DEF TellStack, AsyncStates
    <3>2. async' \in AsyncStates
      BY <2>12, <3>1 DEF TellStack, AsyncStates
    <3>3. stack' \subseteq ScsiTargets /\ missing' \subseteq ScsiTargets
      <4> DEFINE Ids(set) == {TargetLun2ScsiTarget(async.target, l) : l \in set}
                 come == Ids(async.newtarget \ deviceMap[async.target])
                 gone == Ids(deviceMap[async.target] \ async.newtarget)
      <4>1. come \subseteq ScsiTargets
        BY <3>1 DEF ScsiTargets
      <4>2. PICK failed \in SUBSET come :
              /\ stack' = (stack \cup (come \ failed)) \ gone
              /\ missing' = (missing \cup failed) \ gone
        BY <2>12 DEF TellStack
      <4> HIDE DEF come, gone
      <4> QED
        BY <4>1, <4>2
    <3> QED
      BY <2>12, <3>2, <3>3 DEF TellStack, adapterVars, esVars
  <2>13. CASE SaveTarget
    <3>1. async.target \in Targets /\ async.newtarget \in SUBSET Luns
      BY <2>13 DEF SaveTarget, AsyncStates
    <3>2. async' \in AsyncStates
      BY <2>13, <3>1, NextTargetType DEF SaveTarget
    <3>3. deviceMap' \in Maps
      BY <2>13, <3>1 DEF SaveTarget, Maps
    <3> QED
      BY <2>13, <3>2, <3>3 DEF SaveTarget, adapterVars, esVars
  <2>14. CASE UNCHANGED vars
    BY <2>14 DEF vars, adapterVars, esVars
  <2> QED
    BY <2>1, <2>2, <2>3, <2>4, <2>5, <2>6, <2>7, <2>8, <2>9, <2>10, <2>11, <2>12,
       <2>13, <2>14 DEF Next, Adapter, MessageInterrupt, AsyncHandler
<1> QED
  BY <1>1, <1>2, PTL DEF Spec

\* A notification always has a handler that will see it, and never two: no
\* matter when handlerDone and addNotification meet.
THEOREM NotificationsHandled == Spec => []NotificationHandled
<1>1. Init => NotificationHandled
  BY DEF Init, NotificationHandled, IdleAsync
<1>2. TypeOK /\ NotificationHandled /\ [Next]_vars => NotificationHandled'
  <2> SUFFICES ASSUME TypeOK, NotificationHandled, [Next]_vars
               PROVE  NotificationHandled'
    OBVIOUS
  <2>0. actionMask \in BOOLEAN /\ handlerRunning \in BOOLEAN /\ kick \in BOOLEAN
    BY DEF TypeOK
  <2> USE DEF NotificationHandled
  <2>1. CASE Adapter \/ deviceScanStub \/ HandleInterruptRequest \/ CopyTarget
    BY <2>1 DEF Adapter, UnitsChange, AdapterAnswers, OtherMessage, deviceScanStub,
                HandleInterruptRequest, CopyTarget, esVars
  <2>2. CASE addNotification
    BY <2>0, <2>2 DEF addNotification, esVars
  <2>3. CASE Timeout
    BY <2>0, <2>3 DEF Timeout
  <2>4. CASE handlerDone
    BY <2>0, <2>4 DEF handlerDone, IdleAsync
  <2>5. CASE takeRescan
    BY <2>0, <2>5 DEF takeRescan
  <2>6. CASE ScanTarget \/ TellStack \/ SaveTarget
    <3>1. UNCHANGED esVars
      BY <2>6 DEF ScanTarget, TellStack, SaveTarget
    <3>2. async.pc # "idle" /\ async'.pc # "idle"
      <4>1. CASE ScanTarget
        BY <4>1 DEF ScanTarget, NextTarget
      <4>2. CASE TellStack
        BY <4>2 DEF TellStack, TypeOK, AsyncStates
      <4>3. CASE SaveTarget
        BY <4>3 DEF SaveTarget, NextTarget
      <4> QED
        BY <2>6, <4>1, <4>2, <4>3
    <3> QED
      BY <3>1, <3>2 DEF esVars
  <2>7. CASE UNCHANGED vars
    BY <2>7 DEF vars, esVars
  <2> QED
    BY <2>1, <2>2, <2>3, <2>4, <2>5, <2>6, <2>7
       DEF Next, MessageInterrupt, AsyncHandler
<1> QED
  BY <1>1, <1>2, TypeCorrect, PTL DEF Spec

\* Whatever the interrupt handler writes into deviceMapUpdate meanwhile, the
\* stack is never out of step with deviceMap.
THEOREM StackInStep == Spec => []StackMatchesMap
<1>1. Init => StackMatchesMap
  BY DEF Init, StackMatchesMap, Told, Flattened, IdleAsync
<1>2. TypeOK /\ StackMatchesMap /\ [Next]_vars => StackMatchesMap'
  <2> SUFFICES ASSUME TypeOK, StackMatchesMap, [Next]_vars PROVE StackMatchesMap'
    OBVIOUS
  <2>1. CASE /\ UNCHANGED <<deviceMap, stackVars>>
             /\ async.pc # "save" /\ async'.pc # "save"
    BY <2>1 DEF StackMatchesMap, Told, stackVars
  <2>2. CASE UNCHANGED <<deviceMap, stackVars, async>>
    BY <2>2 DEF StackMatchesMap, Told, stackVars
  <2>3. CASE TellStack
    <3> DEFINE Ids(set) == {TargetLun2ScsiTarget(async.target, l) : l \in set}
               come  == Ids(async.newtarget \ deviceMap[async.target])
               gone  == Ids(deviceMap[async.target] \ async.newtarget)
               after == [deviceMap EXCEPT ![async.target] = async.newtarget]
    <3>1. /\ async.pc = "tell" /\ async.target \in Targets
          /\ async.newtarget \in SUBSET Luns /\ deviceMap \in Maps
      BY <2>3 DEF TellStack, TypeOK, AsyncStates
    <3>2. stack = Flattened(deviceMap) \ missing /\ missing \subseteq Flattened(deviceMap)
      BY <3>1 DEF StackMatchesMap, Told
    <3>3. Flattened(after) = (Flattened(deviceMap) \cup come) \ gone
      BY <3>1, TellChangesOneTarget
    <3>4. come \cap Flattened(deviceMap) = {}
      BY <3>1, ComersAreNew
    <3>5. PICK failed \in SUBSET come :
              /\ stack' = (stack \cup (come \ failed)) \ gone
              /\ missing' = (missing \cup failed) \ gone
      BY <2>3 DEF TellStack
    <3>6. Told' = after
      <4>1. /\ async'.pc = "save" /\ async'.target = async.target
            /\ async'.newtarget = async.newtarget /\ deviceMap' = deviceMap
        BY <2>3, <3>1 DEF TellStack, TypeOK, AsyncStates
      <4> QED
        BY <4>1 DEF Told
    <3> HIDE DEF come, gone, after
    <3>7. stack' = Flattened(after) \ missing' /\ missing' \subseteq Flattened(after)
      BY <3>2, <3>3, <3>4, <3>5
    <3>8. Flattened(Told)' = Flattened(after)
      BY <3>6 DEF Flattened
    <3> QED
      BY <3>7, <3>8 DEF StackMatchesMap
  <2>4. CASE SaveTarget
    <3>1. UNCHANGED <<stack, missing>> /\ Told' = Told
      BY <2>4 DEF SaveTarget, NextTarget, Told, stackVars
    <3>2. Flattened(Told)' = Flattened(Told)
      BY <3>1 DEF Flattened
    <3> QED
      BY <3>1, <3>2 DEF StackMatchesMap
  <2>5. CASE Timeout \/ handlerDone \/ takeRescan \/ ScanTarget
    BY <2>5, <2>1 DEF Timeout, handlerDone, takeRescan, ScanTarget, IdleAsync,
                      NextTarget
  <2>6. CASE Adapter \/ deviceScanStub \/ MessageInterrupt
    BY <2>6, <2>2 DEF Adapter, UnitsChange, AdapterAnswers, OtherMessage,
       deviceScanStub, MessageInterrupt, HandleInterruptRequest, CopyTarget,
       addNotification
  <2>7. CASE UNCHANGED vars
    BY <2>7, <2>2 DEF vars
  <2> QED
    BY <2>3, <2>4, <2>5, <2>6, <2>7 DEF Next, AsyncHandler
<1> QED
  BY <1>1, <1>2, TypeCorrect, PTL DEF Spec

-----------------------------------------------------------------------------
\* While a target is rescanned its update is the map the stack is told, or the
\* one it had, or another rescan will follow.
Followed ==
    async.pc \in {"tell", "save"} =>
        \/ deviceMapUpdate[async.target] \in {async.newtarget, deviceMap[async.target]}
        \/ actionMask
        \/ handler.pc = "copy" /\ handler.updated

\* Only SaveTarget makes an update go unnoticed.
LEMMA NoticedStays ==
  ASSUME TypeOK, [Next]_vars, ~SaveTarget, NEW t \in Targets, Noticed(t)
  PROVE  Noticed(t)'
<1> USE DEF Noticed
<1>1. CASE Adapter \/ deviceScanStub \/ HandleInterruptRequest
  BY <1>1 DEF Adapter, UnitsChange, AdapterAnswers, OtherMessage, deviceScanStub,
              HandleInterruptRequest, esVars
<1>2. CASE CopyTarget
  <2>1. /\ handler.target \in Targets /\ handler \in HandlerStates
        /\ handler.pc = "copy" /\ deviceMapUpdate \in Maps
        /\ deviceMap' = deviceMap /\ actionMask' = actionMask /\ async' = async
    BY <1>2 DEF CopyTarget, TypeOK, esVars
  <2>2. /\ handler'.pc = "copy"
        /\ handler'.updated =
             (handler.updated \/ message[handler.target] # deviceMap[handler.target])
    BY <1>2, <2>1 DEF CopyTarget, HandlerStates, IdleHandler
  <2>3. /\ deviceMapUpdate'[handler.target] = message[handler.target]
        /\ t # handler.target => deviceMapUpdate'[t] = deviceMapUpdate[t]
    BY <1>2, <2>1 DEF CopyTarget, Maps
  <2> QED
    BY <2>1, <2>2, <2>3
<1>3. CASE addNotification
  BY <1>3 DEF addNotification, esVars
<1>4. CASE Timeout \/ handlerDone
  BY <1>4 DEF Timeout, handlerDone, GateOpen
<1>5. CASE takeRescan
  <2>1. 0 <= t
    BY DEF Targets
  <2> QED
    BY <1>5, <2>1 DEF takeRescan, GateOpen
<1>6. CASE ScanTarget
  <2>1. /\ async.target \in Targets /\ async.pc = "scan"
        /\ UNCHANGED <<handler, deviceMapUpdate, deviceMap, actionMask>>
    BY <1>6 DEF ScanTarget, TypeOK, AsyncStates, esVars
  <2>2. CASE deviceMapUpdate[async.target] # deviceMap[async.target]
    BY <1>6, <2>1, <2>2 DEF ScanTarget
  <2>3. CASE deviceMapUpdate[async.target] = deviceMap[async.target]
    <3>1. async' = NextTarget(async.target)
      BY <1>6, <2>3 DEF ScanTarget
    <3>2. CASE async.target >= t
      <4>1. async.target = t \/ ~(async.target <= t)
        BY <2>1, <3>2 DEF Targets
      <4> QED
        BY <2>1, <2>3, <4>1
    <3>3. CASE ~(async.target >= t)
      <4>1. async.target + 1 \in Targets /\ async.target + 1 <= t
        BY <2>1, <3>3, RescanAssumption DEF Targets, RescanAssumption
      <4> QED
        BY <3>1, <4>1 DEF NextTarget
    <3> QED
      BY <3>2, <3>3
  <2> QED
    BY <2>2, <2>3
<1>7. CASE TellStack
  <2>1. async'.pc = "save" /\ async'.target = async.target
    BY <1>7 DEF TellStack, TypeOK, AsyncStates
  <2> QED
    BY <1>7, <2>1 DEF TellStack, esVars
<1>8. CASE UNCHANGED vars
  BY <1>8 DEF vars, esVars
<1> QED
  BY <1>1, <1>2, <1>3, <1>4, <1>5, <1>6, <1>7, <1>8
     DEF Next, MessageInterrupt, AsyncHandler

\* The interrupt handler may write the update of the target being rescanned,
\* but then it asks for another rescan, or puts the old map back.
LEMMA FollowedStays == TypeOK /\ Followed /\ [Next]_vars => Followed'
<1> SUFFICES ASSUME TypeOK, Followed, [Next]_vars PROVE Followed'
  OBVIOUS
<1> USE DEF Followed
<1>1. CASE Adapter \/ deviceScanStub \/ HandleInterruptRequest
  BY <1>1 DEF Adapter, UnitsChange, AdapterAnswers, OtherMessage, deviceScanStub,
              HandleInterruptRequest, esVars
<1>2. CASE CopyTarget
  <2>1. /\ handler.target \in Targets /\ handler \in HandlerStates
        /\ handler.pc = "copy" /\ deviceMapUpdate \in Maps
        /\ deviceMap' = deviceMap /\ actionMask' = actionMask /\ async' = async
    BY <1>2 DEF CopyTarget, TypeOK, esVars
  <2>2. /\ handler'.pc = "copy"
        /\ handler'.updated =
             (handler.updated \/ message[handler.target] # deviceMap[handler.target])
    BY <1>2, <2>1 DEF CopyTarget, HandlerStates, IdleHandler
  <2>3. /\ deviceMapUpdate'[handler.target] = message[handler.target]
        /\ \A u \in Targets : u # handler.target => deviceMapUpdate'[u] = deviceMapUpdate[u]
    BY <1>2, <2>1 DEF CopyTarget, Maps
  <2>4. async.pc \in {"tell", "save"} => async.target \in Targets
    BY DEF TypeOK, AsyncStates
  <2> QED
    BY <2>1, <2>2, <2>3, <2>4
<1>3. CASE addNotification
  BY <1>3 DEF addNotification, esVars
<1>4. CASE Timeout \/ handlerDone \/ takeRescan
  BY <1>4 DEF Timeout, handlerDone, takeRescan, IdleAsync
<1>5. CASE ScanTarget
  BY <1>5 DEF ScanTarget, NextTarget
<1>6. CASE TellStack
  <2>1. /\ async.pc = "tell" /\ async'.target = async.target
        /\ async'.newtarget = async.newtarget
    BY <1>6 DEF TellStack, TypeOK, AsyncStates
  <2> QED
    BY <1>6, <2>1 DEF TellStack, esVars
<1>7. CASE SaveTarget
  BY <1>7 DEF SaveTarget, NextTarget
<1>8. CASE UNCHANGED vars
  BY <1>8 DEF vars, esVars
<1> QED
  BY <1>1, <1>2, <1>3, <1>4, <1>5, <1>6, <1>7, <1>8
     DEF Next, MessageInterrupt, AsyncHandler

\* What SaveTarget leaves unnoticed is an update that had gone back.
LEMMA SaveOverlooks ==
  ASSUME TypeOK, Followed, SaveTarget, NEW t \in Targets, Noticed(t), ~Noticed(t)'
  PROVE  async.target = t /\ deviceMapUpdate[t] = deviceMap[t]
<1>1. /\ async.pc = "save" /\ async.target \in Targets
      /\ async' = NextTarget(async.target)
      /\ deviceMap \in Maps
      /\ deviceMap' = [deviceMap EXCEPT ![async.target] = async.newtarget]
      /\ UNCHANGED <<handler, deviceMapUpdate, actionMask>>
  BY DEF SaveTarget, TypeOK, AsyncStates, esVars
<1>2. ~actionMask /\ ~(handler.pc = "copy" /\ handler.updated)
  BY <1>1 DEF Noticed
<1>3. CASE async.target = t
  <2>1. deviceMap'[t] = async.newtarget
    BY <1>1, <1>3 DEF Maps
  <2>2. deviceMapUpdate[t] # async.newtarget
    BY <1>1, <2>1 DEF Noticed
  <2> QED
    BY <1>1, <1>2, <1>3, <2>2 DEF Followed
<1>4. CASE async.target # t
  <2>1. deviceMap'[t] = deviceMap[t]
    BY <1>1, <1>4 DEF Maps
  <2>2. async.target <= t
    BY <1>1, <1>2, <2>1 DEF Noticed
  <2>3. async.target + 1 \in Targets /\ async.target + 1 <= t
    BY <1>1, <1>4, <2>2, RescanAssumption DEF Targets, RescanAssumption
  <2>4. Noticed(t)'
    BY <1>1, <2>3 DEF Noticed, NextTarget
  <2> QED
    BY <2>4
<1> QED
  BY <1>3, <1>4

\* However the interrupt handler and the rescan thread meet on the two maps, a
\* difference is lost only if the target went back to what it was.
THEOREM UpdatesNoticed == Spec => OverlookedHasCause
<1>1. Init => Followed
  BY DEF Init, Followed, IdleAsync
<1>2. TypeOK /\ Followed /\ [Next]_vars =>
        [\A t \in Targets :
           Noticed(t) /\ ~Noticed(t)' =>
             SaveTarget /\ async.target = t /\ deviceMapUpdate[t] = deviceMap[t]]_vars
  BY NoticedStays, SaveOverlooks
<1> QED
  BY <1>1, <1>2, FollowedStays, TypeCorrect, PTL DEF Spec, OverlookedHasCause
=============================================================================
