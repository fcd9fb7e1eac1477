------------------------- MODULE Controller_proofs -------------------------
(***************************************************************************)
(* Safety of the driver's life and of its mailbox for every queue depth,   *)
(* number of retries and number of loads.                                  *)
(***************************************************************************)
EXTENDS Controller, TLAPS

\* From Load to StartController, and after a failure.
Loading == {"init", "firmware", "getConfig", "parse", "allocate", "initialised",
            "failed"}

\* From the allocations to TerminateController.
Allocated == {"initialised", "startRebuild", "startTimer", "started",
              "stopRebuild", "flushCache", "disable", "stopTimer", "stopped"}

\* Which places of the driver's life keep interrupts and scans out.
Phases ==
    /\ pc \in {"firmware", "getConfig", "parse", "allocate", "initialised",
               "stopTimer", "stopped"} => masked
    /\ pc \in (Loading \ {"initialised"}) \cup {"unloaded", "stopped"}
         => scanTimer = "disabled"
    /\ pc \in {"initialised", "startRebuild", "startTimer"} => scanTimer = "idle"
    /\ pc \in {"startRebuild", "startTimer"} => loop.pc # "scan"
    /\ pc \in Loading => ~latched /\ loop.pc = "idle"
    /\ pc \in {"init", "firmware", "getConfig", "parse", "allocate",
               "initialised", "startRebuild"} => ~gaveUp
    /\ pc \in Loading \cup {"startRebuild", "startTimer"} => ~scanned

\* The resources exist where they are used, or the workloop was caught at work.
Resources ==
    /\ pc \in Allocated => SRBPool
    /\ pc \in {"init", "firmware", "getConfig", "parse", "allocate"} => ~SRBPool
    /\ pc \in {"stopped", "unloaded"} /\ Busy => late

\* While no poll has given up, no scan was sent and nothing was left over, the
\* mailbox holds the command that is polled for, once, or nothing.
Polling  == pc \in Polls /\ poll # NotPolling
Mailbox ==
    ~leftover /\ ~gaveUp /\ ~scanned /\ pc \notin {"unloaded", "failed"} =>
        IF Polling /\ ~finished
        THEN /\ poll # Seen
             /\ "message" \notin intstatus
             /\ \/ msg0 = [op |-> Command[pc], by |-> "poll"] /\ working = Nothing
                \/ working = [op |-> Command[pc], by |-> "poll"] /\ msg0 = Nothing
        ELSE /\ msg0 = Nothing /\ working = Nothing
             /\ ~Polling => "message" \notin intstatus

\* The configuration on its way from the message buffer to maxSRB.
Config ==
    ~leftover =>
        /\ pc = "getConfig" /\ Polling /\ finished => buffer = depth
        /\ pc = "parse" => buffer = depth
        /\ pc = "allocate" \/ SRBPool => maxSRB \in 1 .. depth \/ depth >= IntLimit

IInv == TypeOK /\ Phases /\ Resources /\ Mailbox /\ Config /\ ConfigAnswerKept

-----------------------------------------------------------------------------
\* The places that poll, and the commands they send.
LEMMA PollsAre ==
  /\ Polls = {"getConfig", "startRebuild", "stopRebuild", "flushCache"}
  /\ \A p \in Polls : Command[p] \in {"GET_CONFIG", "START_BGRB", "STOP_BGRB", "FLUSH_CACHE"}
  /\ Command["getConfig"] = "GET_CONFIG"
BY DEF Polls, Command

\* Where the thread goes when its poll returns.
LEMMA AfterPollType ==
  ASSUME pc \in Polls, NEW answered \in BOOLEAN
  PROVE  /\ pc = "getConfig" => AfterPoll(answered) = IF answered THEN "parse" ELSE "failed"
         /\ pc = "startRebuild" => AfterPoll(answered) = "startTimer"
         /\ pc = "stopRebuild" => AfterPoll(answered) = "flushCache"
         /\ pc = "flushCache" => AfterPoll(answered) = "disable"
BY PollsAre DEF AfterPoll

\* What a poll has seen, a place that polls has seen.
LEMMA SeenInPolls == TypeOK /\ poll = Seen => pc \in Polls
BY ControllerAssumption DEF ControllerAssumption, TypeOK, PollOK, NotPolling, Seen

\* A command that is orphaned stays a command, and nobody polls for it.
LEMMA OrphanedType ==
  ASSUME NEW c \in Commands \cup {Nothing}
  PROVE  Orphaned(c) \in Commands \cup {Nothing} /\ Orphaned(c).by # "poll"
BY DEF Orphaned, Commands, Nothing

\* Every variable keeps its type.
LEMMA TypeStep == TypeOK /\ [Next]_vars => TypeOK'
<1> SUFFICES ASSUME TypeOK, [Next]_vars PROVE TypeOK'
  OBVIOUS
<1> USE ControllerAssumption DEF ControllerAssumption
<1> DEFINE Sane == /\ maxSRB \in -IntLimit .. MaxOutstanding /\ SRBPool \in BOOLEAN
                   /\ scanTimer \in {"disabled", "idle", "armed"}
                   /\ latched \in BOOLEAN /\ depth \in QueueDepths
                   /\ firmwareOK \in BOOLEAN /\ buffer \in Contents
                   /\ intstatus \subseteq Sources /\ masked \in BOOLEAN
                   /\ loads \in 0 .. MaxLoads /\ finished \in BOOLEAN
                   /\ leftover \in BOOLEAN /\ gaveUp \in BOOLEAN
                   /\ scanned \in BOOLEAN /\ late \in BOOLEAN
           Place == pc \in Places /\ PollOK
           Loop  == loop \in LoopStates
           Cmds  == /\ msg0 \in Commands \cup {Nothing}
                    /\ working \in Commands \cup {Nothing}
<1>a. TypeOK <=> Sane /\ Place /\ Loop /\ Cmds
  BY DEF TypeOK
<1>b. TypeOK' <=> Sane' /\ Place' /\ Loop' /\ Cmds'
  BY DEF TypeOK
<1> USE DEF vars, driverVars, assets, loopVars, adapterVars, mailbox, history, startVars, stopVars
<1>1. CASE Load
  <2>l. leftover' \in BOOLEAN
    BY <1>1, SMT DEF Load
  <2>m. loads' \in 0 .. MaxLoads
    BY <1>a, <1>1 DEF Load
  <2>1. Sane'
    <3>1. /\ maxSRB' = 0 /\ SRBPool' = FALSE /\ scanTimer' = "disabled"
          /\ latched' = FALSE /\ finished' = FALSE /\ gaveUp' = FALSE
          /\ scanned' = FALSE /\ late' = FALSE
          /\ UNCHANGED <<depth, firmwareOK, buffer, intstatus, masked>>
      BY <1>1 DEF Load
    <3>2. maxSRB' \in -IntLimit .. MaxOutstanding
      BY <3>1
    <3> QED
      BY <1>a, <3>1, <3>2, <2>l, <2>m, Zenon
  <2>2. Place'
    BY <1>a, <1>1, PollsAre DEF Load, GoTo, Places, Resting, PollOK, NotPolling, Seen
  <2>3. Loop'
    BY <1>a, <1>1 DEF Load
  <2>4. Cmds'
    BY <1>a, <1>1 DEF Load
  <2> QED
    BY <1>b, <2>1, <2>2, <2>3, <2>4
<1>2. CASE CTLinit
  <2>1. Sane'
    BY <1>a, <1>2 DEF CTLinit
  <2>2. Place'
    BY <1>a, <1>2, PollsAre DEF CTLinit, GoTo, Places, Resting, PollOK, NotPolling, Seen
  <2>3. Loop'
    BY <1>a, <1>2 DEF CTLinit
  <2>4. Cmds'
    BY <1>a, <1>2 DEF CTLinit
  <2> QED
    BY <1>b, <2>1, <2>2, <2>3, <2>4
<1>3. CASE WaitForFirmware
  <2>1. Sane'
    BY <1>a, <1>3 DEF WaitForFirmware
  <2>2. Place'
    BY <1>a, <1>3, PollsAre DEF WaitForFirmware, GoTo, Places, Resting, PollOK, NotPolling, Seen
  <2>3. Loop'
    BY <1>a, <1>3 DEF WaitForFirmware
  <2>4. Cmds'
    BY <1>a, <1>3 DEF WaitForFirmware
  <2> QED
    BY <1>b, <2>1, <2>2, <2>3, <2>4
<1>4. CASE SendCommand
  <2>1. Sane'
    BY <1>a, <1>4 DEF SendCommand
  <2>2. Place'
    BY <1>a, <1>4, PollsAre DEF SendCommand, GoTo, Places, Resting, PollOK, NotPolling, Seen
  <2>3. Loop'
    BY <1>a, <1>4 DEF SendCommand
  <2>4. Cmds'
    BY <1>a, <1>4, PollsAre, OrphanedType DEF SendCommand, Commands
  <2> QED
    BY <1>b, <2>1, <2>2, <2>3, <2>4
<1>5. CASE PollSees
  <2>1. Sane'
    BY <1>a, <1>5 DEF PollSees
  <2>2. Place'
    BY <1>a, <1>5, PollsAre DEF PollSees, GoTo, Places, Resting, PollOK, NotPolling, Seen
  <2>3. Loop'
    BY <1>a, <1>5 DEF PollSees
  <2>4. Cmds'
    BY <1>a, <1>5 DEF PollSees
  <2> QED
    BY <1>b, <2>1, <2>2, <2>3, <2>4
<1>6. CASE PollReturns
  <2>1. Sane'
    BY <1>a, <1>6 DEF PollReturns
  <2>p. pc \in Polls
    BY <1>6, SeenInPolls DEF PollReturns
  <2>2. Place'
    BY <2>p, <1>6, AfterPollType, PollsAre DEF PollReturns, GoTo, Places, Resting, PollOK, NotPolling, Seen
  <2>3. Loop'
    BY <1>a, <1>6 DEF PollReturns
  <2>4. Cmds'
    BY <1>a, <1>6 DEF PollReturns
  <2> QED
    BY <1>b, <2>1, <2>2, <2>3, <2>4
<1>7. CASE PollMisses
  <2>1. Sane'
    BY <1>a, <1>7 DEF PollMisses
  <2>2. Place'
    BY <1>a, <1>7, PollsAre DEF PollMisses, GoTo, Places, Resting, PollOK, NotPolling, Seen
  <2>3. Loop'
    BY <1>a, <1>7 DEF PollMisses
  <2>4. Cmds'
    BY <1>a, <1>7 DEF PollMisses
  <2> QED
    BY <1>b, <2>1, <2>2, <2>3, <2>4
<1>8. CASE PollGivesUp
  <2>1. Sane'
    BY <1>a, <1>8 DEF PollGivesUp
  <2>2. Place'
    BY <1>a, <1>8, AfterPollType, PollsAre DEF PollGivesUp, GoTo, Places, Resting, PollOK, NotPolling, Seen
  <2>3. Loop'
    BY <1>a, <1>8 DEF PollGivesUp
  <2>4. Cmds'
    BY <1>a, <1>8 DEF PollGivesUp
  <2> QED
    BY <1>b, <2>1, <2>2, <2>3, <2>4
<1>9. CASE ParseConfig
  <2>m. maxSRB' \in -IntLimit .. MaxOutstanding
    <3>1. CASE buffer = Garbage
      BY <1>a, <1>9, <3>1 DEF ParseConfig
    <3>2. CASE buffer # Garbage
      <4>1. buffer \in 0 .. 2 * IntLimit - 1
        BY <1>a, <3>2 DEF Contents
      <4>2. AsInt(buffer) \in -IntLimit .. IntLimit - 1
        BY <4>1 DEF AsInt
      <4> QED
        BY <1>9, <3>2, <4>2 DEF ParseConfig
    <3> QED
      BY <3>1, <3>2
  <2>1. Sane'
    BY <1>a, <1>9, <2>m DEF ParseConfig
  <2>2. Place'
    BY <1>a, <1>9, PollsAre DEF ParseConfig, GoTo, Places, Resting, PollOK, NotPolling, Seen
  <2>3. Loop'
    BY <1>a, <1>9 DEF ParseConfig
  <2>4. Cmds'
    BY <1>a, <1>9 DEF ParseConfig
  <2> QED
    BY <1>b, <2>1, <2>2, <2>3, <2>4
<1>10. CASE Allocate
  <2>1. Sane'
    BY <1>a, <1>10 DEF Allocate
  <2>2. Place'
    BY <1>a, <1>10, PollsAre DEF Allocate, GoTo, Places, Resting, PollOK, NotPolling, Seen
  <2>3. Loop'
    BY <1>a, <1>10 DEF Allocate
  <2>4. Cmds'
    BY <1>a, <1>10 DEF Allocate
  <2> QED
    BY <1>b, <2>1, <2>2, <2>3, <2>4
<1>11. CASE StartController
  <2>1. Sane'
    BY <1>a, <1>11 DEF StartController
  <2>2. Place'
    BY <1>a, <1>11, PollsAre DEF StartController, GoTo, Places, Resting, PollOK, NotPolling, Seen
  <2>3. Loop'
    BY <1>a, <1>11 DEF StartController
  <2>4. Cmds'
    BY <1>a, <1>11 DEF StartController
  <2> QED
    BY <1>b, <2>1, <2>2, <2>3, <2>4
<1>12. CASE StartTimer
  <2>1. Sane'
    BY <1>a, <1>12 DEF StartTimer
  <2>2. Place'
    BY <1>a, <1>12, PollsAre DEF StartTimer, GoTo, Places, Resting, PollOK, NotPolling, Seen
  <2>3. Loop'
    BY <1>a, <1>12 DEF StartTimer
  <2>4. Cmds'
    BY <1>a, <1>12 DEF StartTimer
  <2> QED
    BY <1>b, <2>1, <2>2, <2>3, <2>4
<1>13. CASE StopController
  <2>1. Sane'
    BY <1>a, <1>13 DEF StopController
  <2>2. Place'
    BY <1>a, <1>13, PollsAre DEF StopController, GoTo, Places, Resting, PollOK, NotPolling, Seen
  <2>3. Loop'
    BY <1>a, <1>13 DEF StopController
  <2>4. Cmds'
    BY <1>a, <1>13 DEF StopController
  <2> QED
    BY <1>b, <2>1, <2>2, <2>3, <2>4
<1>14. CASE CTLdisableInterrupts
  <2>1. Sane'
    BY <1>a, <1>14 DEF CTLdisableInterrupts, Busy
  <2>2. Place'
    BY <1>a, <1>14, PollsAre DEF CTLdisableInterrupts, GoTo, Places, Resting, PollOK, NotPolling, Seen
  <2>3. Loop'
    BY <1>a, <1>14 DEF CTLdisableInterrupts
  <2>4. Cmds'
    BY <1>a, <1>14 DEF CTLdisableInterrupts
  <2> QED
    BY <1>b, <2>1, <2>2, <2>3, <2>4
<1>15. CASE StopTimer
  <2>1. Sane'
    BY <1>a, <1>15 DEF StopTimer, Busy
  <2>2. Place'
    BY <1>a, <1>15, PollsAre DEF StopTimer, GoTo, Places, Resting, PollOK, NotPolling, Seen
  <2>3. Loop'
    BY <1>a, <1>15 DEF StopTimer
  <2>4. Cmds'
    BY <1>a, <1>15 DEF StopTimer
  <2> QED
    BY <1>b, <2>1, <2>2, <2>3, <2>4
<1>16. CASE TerminateController
  <2>1. Sane'
    BY <1>a, <1>16 DEF TerminateController
  <2>2. Place'
    BY <1>a, <1>16, PollsAre DEF TerminateController, GoTo, Places, Resting, PollOK, NotPolling, Seen
  <2>3. Loop'
    BY <1>a, <1>16 DEF TerminateController
  <2>4. Cmds'
    BY <1>a, <1>16 DEF TerminateController
  <2> QED
    BY <1>b, <2>1, <2>2, <2>3, <2>4
<1>17. CASE Deliver
  <2>1. Sane'
    BY <1>a, <1>17 DEF Deliver
  <2>2. Place'
    BY <1>a, <1>17 DEF Deliver, PollOK
  <2>3. Loop'
    BY <1>a, <1>17 DEF Deliver
  <2>4. Cmds'
    BY <1>a, <1>17 DEF Deliver
  <2> QED
    BY <1>b, <2>1, <2>2, <2>3, <2>4
<1>18. CASE ReadStatus
  <2>1. Sane'
    BY <1>a, <1>18 DEF ReadStatus
  <2>2. Place'
    BY <1>a, <1>18 DEF ReadStatus, PollOK
  <2>3. Loop'
    BY <1>a, <1>18 DEF ReadStatus, LoopStates
  <2>4. Cmds'
    BY <1>a, <1>18 DEF ReadStatus
  <2> QED
    BY <1>b, <2>1, <2>2, <2>3, <2>4
<1>19. CASE AckStatus
  <2>1. Sane'
    BY <1>a, <1>19 DEF AckStatus
  <2>2. Place'
    BY <1>a, <1>19 DEF AckStatus, PollOK
  <2>3. Loop'
    BY <1>a, <1>19 DEF AckStatus, LoopStates
  <2>4. Cmds'
    BY <1>a, <1>19 DEF AckStatus
  <2> QED
    BY <1>b, <2>1, <2>2, <2>3, <2>4
<1>20. CASE Handled
  <2>1. Sane'
    BY <1>a, <1>20 DEF Handled
  <2>2. Place'
    BY <1>a, <1>20 DEF Handled, PollOK
  <2>3. Loop'
    BY <1>a, <1>20 DEF Handled, LoopStates
  <2>4. Cmds'
    BY <1>a, <1>20 DEF Handled
  <2> QED
    BY <1>b, <2>1, <2>2, <2>3, <2>4
<1>21. CASE deviceScanStub
  <2>1. Sane'
    BY <1>a, <1>21 DEF deviceScanStub
  <2>2. Place'
    BY <1>a, <1>21 DEF deviceScanStub, PollOK
  <2>3. Loop'
    BY <1>a, <1>21 DEF deviceScanStub, LoopStates
  <2>4. Cmds'
    BY <1>a, <1>21 DEF deviceScanStub, Commands
  <2> QED
    BY <1>b, <2>1, <2>2, <2>3, <2>4
<1>22. CASE deviceScanAgain
  <2>1. Sane'
    BY <1>a, <1>22 DEF deviceScanAgain
  <2>2. Place'
    BY <1>a, <1>22 DEF deviceScanAgain, PollOK
  <2>3. Loop'
    BY <1>a, <1>22 DEF deviceScanAgain, LoopStates
  <2>4. Cmds'
    BY <1>a, <1>22 DEF deviceScanAgain
  <2> QED
    BY <1>b, <2>1, <2>2, <2>3, <2>4
<1>23. CASE FirmwareBoots
  <2>1. Sane'
    BY <1>a, <1>23 DEF FirmwareBoots
  <2>2. Place'
    BY <1>a, <1>23 DEF FirmwareBoots, PollOK
  <2>3. Loop'
    BY <1>a, <1>23 DEF FirmwareBoots
  <2>4. Cmds'
    BY <1>a, <1>23 DEF FirmwareBoots
  <2> QED
    BY <1>b, <2>1, <2>2, <2>3, <2>4
<1>24. CASE TakeCommand
  <2>1. Sane'
    BY <1>a, <1>24 DEF TakeCommand
  <2>2. Place'
    BY <1>a, <1>24 DEF TakeCommand, PollOK
  <2>3. Loop'
    BY <1>a, <1>24 DEF TakeCommand
  <2>4. Cmds'
    BY <1>a, <1>24 DEF TakeCommand, Commands, Nothing
  <2> QED
    BY <1>b, <2>1, <2>2, <2>3, <2>4
<1>25. CASE ExecuteCommand
  <2>1. Sane'
    BY <1>a, <1>25 DEF ExecuteCommand, Contents, Sources
  <2>2. Place'
    BY <1>a, <1>25 DEF ExecuteCommand, PollOK
  <2>3. Loop'
    BY <1>a, <1>25 DEF ExecuteCommand
  <2>4. Cmds'
    BY <1>a, <1>25 DEF ExecuteCommand, Nothing
  <2> QED
    BY <1>b, <2>1, <2>2, <2>3, <2>4
<1>26. CASE OtherInterrupt
  <2>1. Sane'
    BY <1>a, <1>26 DEF OtherInterrupt, Sources
  <2>2. Place'
    BY <1>a, <1>26 DEF OtherInterrupt, PollOK
  <2>3. Loop'
    BY <1>a, <1>26 DEF OtherInterrupt
  <2>4. Cmds'
    BY <1>a, <1>26 DEF OtherInterrupt
  <2> QED
    BY <1>b, <2>1, <2>2, <2>3, <2>4
<1>27. CASE UNCHANGED vars
  BY <1>27 DEF TypeOK, PollOK
<1> HIDE DEF Sane, Place, Loop, Cmds
<1> QED
  BY <1>1, <1>2, <1>3, <1>4, <1>5, <1>6, <1>7, <1>8, <1>9, <1>10, <1>11, <1>12, <1>13, <1>14, <1>15, <1>16, <1>17, <1>18, <1>19, <1>20, <1>21, <1>22, <1>23, <1>24, <1>25, <1>26, <1>27
     DEF Next, InCall, CTLwaitMsgintReady, Superclass, Workloop, Adapter

-----------------------------------------------------------------------------
(* The inductive invariant. *)

\* Interrupts and scans are kept out of the places where they are.
LEMMA PhasesStep == TypeOK /\ Phases /\ [Next]_vars => Phases'
<1> SUFFICES ASSUME TypeOK /\ Phases, [Next]_vars PROVE Phases'
  OBVIOUS
<1> USE PollsAre DEF vars, driverVars, assets, loopVars, adapterVars, mailbox, history, startVars, stopVars, Phases, Loading, TypeOK, Places, Resting, LoopStates
<1>1. CASE Load
  BY <1>1 DEF Load, GoTo
<1>2. CASE CTLinit
  BY <1>2 DEF CTLinit, GoTo
<1>3. CASE WaitForFirmware
  BY <1>3 DEF WaitForFirmware, GoTo
<1>4. CASE SendCommand
  BY <1>4 DEF SendCommand
<1>5. CASE PollSees
  BY <1>5 DEF PollSees
<1>6. CASE PollReturns
  BY <1>6, AfterPollType, SeenInPolls DEF PollReturns, GoTo
<1>7. CASE PollMisses
  BY <1>7 DEF PollMisses
<1>8. CASE PollGivesUp
  BY <1>8, AfterPollType DEF PollGivesUp, GoTo
<1>9. CASE ParseConfig
  BY <1>9 DEF ParseConfig, GoTo
<1>10. CASE Allocate
  BY <1>10 DEF Allocate, GoTo
<1>11. CASE StartController
  BY <1>11 DEF StartController, GoTo
<1>12. CASE StartTimer
  BY <1>12 DEF StartTimer, GoTo
<1>13. CASE StopController
  BY <1>13 DEF StopController, GoTo
<1>14. CASE CTLdisableInterrupts
  BY <1>14 DEF CTLdisableInterrupts, GoTo, Busy
<1>15. CASE StopTimer
  BY <1>15 DEF StopTimer, GoTo, Busy
<1>16. CASE TerminateController
  BY <1>16 DEF TerminateController, GoTo
<1>17. CASE Deliver
  BY <1>17 DEF Deliver
<1>18. CASE ReadStatus
  BY <1>18 DEF ReadStatus
<1>19. CASE AckStatus
  BY <1>19 DEF AckStatus
<1>20. CASE Handled
  BY <1>20 DEF Handled
<1>21. CASE deviceScanStub
  BY <1>21 DEF deviceScanStub
<1>22. CASE deviceScanAgain
  BY <1>22 DEF deviceScanAgain
<1>23. CASE FirmwareBoots
  BY <1>23 DEF FirmwareBoots
<1>24. CASE TakeCommand
  BY <1>24 DEF TakeCommand
<1>25. CASE ExecuteCommand
  BY <1>25 DEF ExecuteCommand
<1>26. CASE OtherInterrupt
  BY <1>26 DEF OtherInterrupt
<1>27. CASE UNCHANGED vars
  BY <1>27
<1> HIDE DEF Phases, Loading, TypeOK, Places, Resting, LoopStates
<1> QED
  BY <1>1, <1>2, <1>3, <1>4, <1>5, <1>6, <1>7, <1>8, <1>9, <1>10, <1>11, <1>12, <1>13, <1>14, <1>15, <1>16, <1>17, <1>18, <1>19, <1>20, <1>21, <1>22, <1>23, <1>24, <1>25, <1>26, <1>27
     DEF Next, InCall, CTLwaitMsgintReady, Superclass, Workloop, Adapter

\* The resources stay while they are needed.
LEMMA ResourcesStep == TypeOK /\ Phases /\ Resources /\ [Next]_vars => Resources'
<1> SUFFICES ASSUME TypeOK /\ Phases /\ Resources, [Next]_vars PROVE Resources'
  OBVIOUS
<1> USE PollsAre DEF vars, driverVars, assets, loopVars, adapterVars, mailbox, history, startVars, stopVars, Phases, Resources, Loading, Allocated, Busy, TypeOK, Places, Resting, LoopStates
<1>1. CASE Load
  BY <1>1 DEF Load, GoTo, Busy
<1>2. CASE CTLinit
  BY <1>2 DEF CTLinit, GoTo
<1>3. CASE WaitForFirmware
  BY <1>3 DEF WaitForFirmware, GoTo
<1>4. CASE SendCommand
  BY <1>4 DEF SendCommand
<1>5. CASE PollSees
  BY <1>5 DEF PollSees
<1>6. CASE PollReturns
  BY <1>6, AfterPollType, SeenInPolls DEF PollReturns, GoTo
<1>7. CASE PollMisses
  BY <1>7 DEF PollMisses
<1>8. CASE PollGivesUp
  BY <1>8, AfterPollType DEF PollGivesUp, GoTo
<1>9. CASE ParseConfig
  BY <1>9 DEF ParseConfig, GoTo
<1>10. CASE Allocate
  BY <1>10 DEF Allocate, GoTo
<1>11. CASE StartController
  BY <1>11 DEF StartController, GoTo
<1>12. CASE StartTimer
  BY <1>12 DEF StartTimer, GoTo
<1>13. CASE StopController
  BY <1>13 DEF StopController, GoTo
<1>14. CASE CTLdisableInterrupts
  BY <1>14 DEF CTLdisableInterrupts, GoTo, Busy
<1>15. CASE StopTimer
  BY <1>15 DEF StopTimer, GoTo, Busy
<1>16. CASE TerminateController
  BY <1>16 DEF TerminateController, GoTo
<1>17. CASE Deliver
  BY <1>17 DEF Deliver
<1>18. CASE ReadStatus
  BY <1>18 DEF ReadStatus
<1>19. CASE AckStatus
  BY <1>19 DEF AckStatus
<1>20. CASE Handled
  BY <1>20 DEF Handled
<1>21. CASE deviceScanStub
  BY <1>21 DEF deviceScanStub
<1>22. CASE deviceScanAgain
  BY <1>22 DEF deviceScanAgain
<1>23. CASE FirmwareBoots
  BY <1>23 DEF FirmwareBoots
<1>24. CASE TakeCommand
  BY <1>24 DEF TakeCommand
<1>25. CASE ExecuteCommand
  BY <1>25 DEF ExecuteCommand
<1>26. CASE OtherInterrupt
  BY <1>26 DEF OtherInterrupt
<1>27. CASE UNCHANGED vars
  BY <1>27
<1> HIDE DEF Phases, Resources, Loading, Allocated, Busy, TypeOK, Places, Resting, LoopStates
<1> QED
  BY <1>1, <1>2, <1>3, <1>4, <1>5, <1>6, <1>7, <1>8, <1>9, <1>10, <1>11, <1>12, <1>13, <1>14, <1>15, <1>16, <1>17, <1>18, <1>19, <1>20, <1>21, <1>22, <1>23, <1>24, <1>25, <1>26, <1>27
     DEF Next, InCall, CTLwaitMsgintReady, Superclass, Workloop, Adapter

\* Nothing comes between a polled command and its answer but what is said.
LEMMA MailboxStep == TypeOK /\ Phases /\ Mailbox /\ [Next]_vars => Mailbox'
<1> SUFFICES ASSUME TypeOK /\ Phases /\ Mailbox, [Next]_vars PROVE Mailbox'
  OBVIOUS
<1> USE PollsAre DEF vars, driverVars, assets, loopVars, adapterVars, mailbox, history, startVars, stopVars, Mailbox, Polling, Phases, Loading, TypeOK, Places, Resting, Nothing
<1>1. CASE Load
  BY <1>1 DEF Load, GoTo, NotPolling, Seen
<1>2. CASE CTLinit
  BY <1>2 DEF CTLinit, GoTo, Seen, NotPolling
<1>3. CASE WaitForFirmware
  BY <1>3 DEF WaitForFirmware, GoTo, Seen, NotPolling
<1>4. CASE SendCommand
  BY <1>4, OrphanedType DEF SendCommand, NotPolling, Seen, Commands, Orphaned
<1>5. CASE PollSees
  BY <1>5 DEF PollSees, NotPolling, Seen
<1>6. CASE PollReturns
  BY <1>6, AfterPollType, SeenInPolls DEF PollReturns, GoTo, Seen, NotPolling
<1>7. CASE PollMisses
  BY <1>7 DEF PollMisses, NotPolling, Seen
<1>8. CASE PollGivesUp
  BY <1>8, AfterPollType DEF PollGivesUp, GoTo, Seen, NotPolling
<1>9. CASE ParseConfig
  BY <1>9 DEF ParseConfig, GoTo, Seen, NotPolling
<1>10. CASE Allocate
  BY <1>10 DEF Allocate, GoTo, Seen, NotPolling
<1>11. CASE StartController
  BY <1>11 DEF StartController, GoTo, Seen, NotPolling
<1>12. CASE StartTimer
  BY <1>12 DEF StartTimer, GoTo, Seen, NotPolling
<1>13. CASE StopController
  BY <1>13 DEF StopController, GoTo, Seen, NotPolling
<1>14. CASE CTLdisableInterrupts
  BY <1>14 DEF CTLdisableInterrupts, GoTo, Busy, Seen, NotPolling
<1>15. CASE StopTimer
  BY <1>15 DEF StopTimer, GoTo, Busy, Seen, NotPolling
<1>16. CASE TerminateController
  BY <1>16 DEF TerminateController, GoTo, Seen, NotPolling
<1>17. CASE Deliver
  BY <1>17 DEF Deliver, NotPolling, Seen
<1>18. CASE ReadStatus
  BY <1>18 DEF ReadStatus, NotPolling, Seen
<1>19. CASE AckStatus
  BY <1>19 DEF AckStatus, NotPolling, Seen
<1>20. CASE Handled
  BY <1>20 DEF Handled, Seen, NotPolling
<1>21. CASE deviceScanStub
  BY <1>21 DEF deviceScanStub, NotPolling, Seen
<1>22. CASE deviceScanAgain
  BY <1>22 DEF deviceScanAgain, NotPolling, Seen
<1>23. CASE FirmwareBoots
  BY <1>23 DEF FirmwareBoots, NotPolling, Seen
<1>24. CASE TakeCommand
  BY <1>24 DEF TakeCommand, NotPolling, Seen
<1>25. CASE ExecuteCommand
  <2>1. CASE Polling /\ ~finished
    <3>1. working.by = "poll" => finished' = TRUE
      BY <1>25 DEF ExecuteCommand
    <3> QED
      BY <1>25, <2>1, <3>1 DEF ExecuteCommand
  <2>2. CASE ~Polling
    BY <1>25, <2>2 DEF ExecuteCommand
  <2>3. CASE finished
    BY <1>25, <2>3 DEF ExecuteCommand
  <2> QED
    BY <2>1, <2>2, <2>3
<1>26. CASE OtherInterrupt
  BY <1>26 DEF OtherInterrupt, NotPolling, Seen
<1>27. CASE UNCHANGED vars
  BY <1>27
<1> HIDE DEF Mailbox, Polling, Phases, Loading, TypeOK, Places, Resting, Nothing
<1> QED
  BY <1>1, <1>2, <1>3, <1>4, <1>5, <1>6, <1>7, <1>8, <1>9, <1>10, <1>11, <1>12, <1>13, <1>14, <1>15, <1>16, <1>17, <1>18, <1>19, <1>20, <1>21, <1>22, <1>23, <1>24, <1>25, <1>26, <1>27
     DEF Next, InCall, CTLwaitMsgintReady, Superclass, Workloop, Adapter

\* The answer to CTLgetConfig stays.
LEMMA ConfigAnswerStep == TypeOK /\ Phases /\ ConfigAnswerKept /\ [Next]_vars => ConfigAnswerKept'
<1> SUFFICES ASSUME TypeOK /\ Phases /\ ConfigAnswerKept, [Next]_vars PROVE ConfigAnswerKept'
  OBVIOUS
<1> USE PollsAre DEF vars, driverVars, assets, loopVars, adapterVars, mailbox, history, startVars, stopVars, ConfigAnswerKept, Phases, Loading, TypeOK, Places, Resting
<1>1. CASE Load
  BY <1>1 DEF Load, GoTo, NotPolling, Seen
<1>2. CASE CTLinit
  BY <1>2 DEF CTLinit, GoTo, Seen, NotPolling
<1>3. CASE WaitForFirmware
  BY <1>3 DEF WaitForFirmware, GoTo, Seen, NotPolling
<1>4. CASE SendCommand
  BY <1>4 DEF SendCommand, NotPolling
<1>5. CASE PollSees
  BY <1>5 DEF PollSees, NotPolling, Seen
<1>6. CASE PollReturns
  BY <1>6, AfterPollType, SeenInPolls DEF PollReturns, GoTo, Seen, NotPolling
<1>7. CASE PollMisses
  <2>1. Retries \in Nat
    BY ControllerAssumption DEF ControllerAssumption
  <2> QED
    BY <1>7, <2>1 DEF PollMisses, NotPolling, Seen
<1>8. CASE PollGivesUp
  BY <1>8, AfterPollType DEF PollGivesUp, GoTo, Seen, NotPolling
<1>9. CASE ParseConfig
  BY <1>9 DEF ParseConfig, GoTo, Seen, NotPolling
<1>10. CASE Allocate
  BY <1>10 DEF Allocate, GoTo, Seen, NotPolling
<1>11. CASE StartController
  BY <1>11 DEF StartController, GoTo, Seen, NotPolling
<1>12. CASE StartTimer
  BY <1>12 DEF StartTimer, GoTo, Seen, NotPolling
<1>13. CASE StopController
  BY <1>13 DEF StopController, GoTo, Seen, NotPolling
<1>14. CASE CTLdisableInterrupts
  BY <1>14 DEF CTLdisableInterrupts, GoTo, Busy, Seen, NotPolling
<1>15. CASE StopTimer
  BY <1>15 DEF StopTimer, GoTo, Busy, Seen, NotPolling
<1>16. CASE TerminateController
  BY <1>16 DEF TerminateController, GoTo, Seen, NotPolling
<1>17. CASE Deliver
  BY <1>17 DEF Deliver, NotPolling, Seen
<1>18. CASE ReadStatus
  BY <1>18 DEF ReadStatus, NotPolling, Seen
<1>19. CASE AckStatus
  BY <1>19 DEF AckStatus, NotPolling, Seen
<1>20. CASE Handled
  BY <1>20 DEF Handled, Seen, NotPolling
<1>21. CASE deviceScanStub
  BY <1>21 DEF deviceScanStub, NotPolling, Seen
<1>22. CASE deviceScanAgain
  BY <1>22 DEF deviceScanAgain, NotPolling, Seen
<1>23. CASE FirmwareBoots
  BY <1>23 DEF FirmwareBoots, NotPolling, Seen
<1>24. CASE TakeCommand
  BY <1>24 DEF TakeCommand, NotPolling, Seen
<1>25. CASE ExecuteCommand
  BY <1>25 DEF ExecuteCommand, NotPolling, Seen
<1>26. CASE OtherInterrupt
  BY <1>26 DEF OtherInterrupt, NotPolling, Seen
<1>27. CASE UNCHANGED vars
  BY <1>27
<1> HIDE DEF ConfigAnswerKept, Phases, Loading, TypeOK, Places, Resting
<1> QED
  BY <1>1, <1>2, <1>3, <1>4, <1>5, <1>6, <1>7, <1>8, <1>9, <1>10, <1>11, <1>12, <1>13, <1>14, <1>15, <1>16, <1>17, <1>18, <1>19, <1>20, <1>21, <1>22, <1>23, <1>24, <1>25, <1>26, <1>27
     DEF Next, InCall, CTLwaitMsgintReady, Superclass, Workloop, Adapter

\* What the adapter said is what is allocated.
LEMMA ConfigStep == TypeOK /\ Phases /\ Resources /\ Mailbox /\ Config /\ [Next]_vars => Config'
<1> SUFFICES ASSUME TypeOK /\ Phases /\ Resources /\ Mailbox /\ Config, [Next]_vars PROVE Config'
  OBVIOUS
<1> USE PollsAre DEF vars, driverVars, assets, loopVars, adapterVars, mailbox, history, startVars, stopVars, Config, Mailbox, Polling, Phases, Resources, Loading, Allocated, TypeOK, Places, Resting, Nothing, Contents, Garbage
<1>1. CASE Load
  BY <1>1 DEF Load, GoTo, NotPolling, Seen
<1>2. CASE CTLinit
  BY <1>2 DEF CTLinit, GoTo, Seen, NotPolling
<1>3. CASE WaitForFirmware
  BY <1>3 DEF WaitForFirmware, GoTo, Seen, NotPolling
<1>4. CASE SendCommand
  BY <1>4, OrphanedType DEF SendCommand, NotPolling, Seen, Commands, Orphaned
<1>5. CASE PollSees
  BY <1>5 DEF PollSees, NotPolling, Seen
<1>6. CASE PollReturns
  <2>1. pc \in Polls /\ Polling
    BY <1>6, SeenInPolls DEF PollReturns, NotPolling, Seen
  <2>2. CASE pc = "getConfig"
    <3>1. ~leftover => finished
      BY <1>6, <2>1, <2>2 DEF PollReturns
    <3> QED
      BY <1>6, <2>1, <2>2, <3>1, AfterPollType DEF PollReturns, GoTo
  <2>3. CASE pc # "getConfig"
    <3>1. pc' \notin {"getConfig", "parse", "allocate"}
      BY <1>6, <2>1, <2>3, AfterPollType DEF PollReturns, GoTo
    <3> QED
      BY <1>6, <3>1 DEF PollReturns
  <2> QED
    BY <2>2, <2>3
<1>7. CASE PollMisses
  BY <1>7 DEF PollMisses, NotPolling, Seen
<1>8. CASE PollGivesUp
  BY <1>8, AfterPollType DEF PollGivesUp, GoTo, Seen, NotPolling
<1>9. CASE ParseConfig
  <2> SUFFICES ASSUME ~leftover'
               PROVE  pc' = "allocate" \/ SRBPool'
                        => maxSRB' \in 1 .. depth' \/ depth' >= IntLimit
    BY <1>9 DEF ParseConfig, GoTo
  <2>1. buffer = depth /\ ~SRBPool /\ SRBPool' = SRBPool /\ depth' = depth
    BY <1>9 DEF ParseConfig
  <2>2. CASE buffer \in {Garbage, 0}
    BY <1>9, <2>1, <2>2 DEF ParseConfig, GoTo
  <2>3. CASE buffer \notin {Garbage, 0}
    <3>1. depth \in Nat /\ MaxOutstanding \in Nat \ {0} /\ IntLimit \in Nat
      BY ControllerAssumption DEF ControllerAssumption
    <3>2. maxSRB' = IF AsInt(depth) > MaxOutstanding THEN MaxOutstanding
                    ELSE AsInt(depth)
      BY <1>9, <2>1, <2>3 DEF ParseConfig
    <3>3. depth < IntLimit => AsInt(depth) = depth
      BY DEF AsInt
    <3> QED
      BY <2>1, <2>3, <3>1, <3>2, <3>3
  <2> QED
    BY <2>2, <2>3
<1>10. CASE Allocate
  BY <1>10 DEF Allocate, GoTo, Seen, NotPolling
<1>11. CASE StartController
  BY <1>11 DEF StartController, GoTo, Seen, NotPolling
<1>12. CASE StartTimer
  BY <1>12 DEF StartTimer, GoTo, Seen, NotPolling
<1>13. CASE StopController
  BY <1>13 DEF StopController, GoTo, Seen, NotPolling
<1>14. CASE CTLdisableInterrupts
  BY <1>14 DEF CTLdisableInterrupts, GoTo, Busy, Seen, NotPolling
<1>15. CASE StopTimer
  BY <1>15 DEF StopTimer, GoTo, Busy, Seen, NotPolling
<1>16. CASE TerminateController
  BY <1>16 DEF TerminateController, GoTo, Seen, NotPolling
<1>17. CASE Deliver
  BY <1>17 DEF Deliver, NotPolling, Seen
<1>18. CASE ReadStatus
  BY <1>18 DEF ReadStatus, NotPolling, Seen
<1>19. CASE AckStatus
  BY <1>19 DEF AckStatus, NotPolling, Seen
<1>20. CASE Handled
  BY <1>20 DEF Handled, Seen, NotPolling
<1>21. CASE deviceScanStub
  BY <1>21 DEF deviceScanStub, NotPolling, Seen
<1>22. CASE deviceScanAgain
  BY <1>22 DEF deviceScanAgain, NotPolling, Seen
<1>23. CASE FirmwareBoots
  BY <1>23 DEF FirmwareBoots, NotPolling, Seen
<1>24. CASE TakeCommand
  BY <1>24 DEF TakeCommand, NotPolling, Seen
<1>25. CASE ExecuteCommand
  BY <1>25 DEF ExecuteCommand, NotPolling, Seen
<1>26. CASE OtherInterrupt
  BY <1>26 DEF OtherInterrupt, NotPolling, Seen
<1>27. CASE UNCHANGED vars
  BY <1>27
<1> HIDE DEF Config, Mailbox, Polling, Phases, Resources, Loading, Allocated, TypeOK, Places, Resting, Nothing, Contents, Garbage
<1> QED
  BY <1>1, <1>2, <1>3, <1>4, <1>5, <1>6, <1>7, <1>8, <1>9, <1>10, <1>11, <1>12, <1>13, <1>14, <1>15, <1>16, <1>17, <1>18, <1>19, <1>20, <1>21, <1>22, <1>23, <1>24, <1>25, <1>26, <1>27
     DEF Next, InCall, CTLwaitMsgintReady, Superclass, Workloop, Adapter

\* Where a load may begin: nothing is allocated, nothing runs.
LEMMA InitIInv == Init => IInv
<1> SUFFICES ASSUME Init PROVE IInv
  OBVIOUS
<1> USE ControllerAssumption DEF ControllerAssumption, Init
<1>1. TypeOK
  <2>1. pc \in Places /\ PollOK
    BY PollsAre DEF Places, Resting, PollOK
  <2>2. /\ maxSRB \in -IntLimit .. MaxOutstanding /\ loads \in 0 .. MaxLoads
        /\ buffer \in Contents /\ intstatus \subseteq Sources
        /\ depth \in QueueDepths /\ firmwareOK \in BOOLEAN /\ masked \in BOOLEAN
    OBVIOUS
  <2>3. loop \in LoopStates
    BY DEF LoopStates
  <2>4. /\ msg0 \in Commands \cup {Nothing}
        /\ working \in Commands \cup {Nothing}
    BY DEF Commands
  <2>5. /\ SRBPool \in BOOLEAN /\ scanTimer \in {"disabled", "idle", "armed"}
        /\ latched \in BOOLEAN /\ finished \in BOOLEAN /\ leftover \in BOOLEAN
        /\ gaveUp \in BOOLEAN /\ scanned \in BOOLEAN /\ late \in BOOLEAN
    OBVIOUS
  <2> QED
    BY <2>1, <2>2, <2>3, <2>4, <2>5 DEF TypeOK
<1>2. Phases
  BY DEF Phases, Loading
<1>3. Resources
  BY DEF Resources, Allocated, Busy
<1>4. Mailbox /\ Config /\ ConfigAnswerKept
  BY DEF Mailbox, Config, ConfigAnswerKept
<1> QED
  BY <1>1, <1>2, <1>3, <1>4 DEF IInv

LEMMA IInvStep == IInv /\ [Next]_vars => IInv'
BY TypeStep, PhasesStep, ResourcesStep, MailboxStep, ConfigStep, ConfigAnswerStep
   DEF IInv

\* The inductive invariant holds in every behaviour.
THEOREM Inductive == Spec => []IInv
BY InitIInv, IInvStep, PTL DEF Spec

\* Every variable keeps its type; maxSRB is never above what the driver can hold,
\* whatever 32-bit depth the adapter offers, though it may be below zero.
THEOREM TypeCorrect == Spec => []TypeOK
<1>1. IInv => TypeOK
  BY DEF IInv
<1> QED
  BY <1>1, Inductive, PTL

\* A poll is answered by another command only for one of the stated reasons.
THEOREM FalseAnswersExplained == Spec => []FalseAnswerHasCause
<1>1. IInv => FalseAnswerHasCause
  <2> SUFFICES ASSUME IInv, poll = Seen, ~finished, ~leftover
               PROVE  pc \in {"stopRebuild", "flushCache"} /\ (gaveUp \/ scanned)
    BY DEF FalseAnswerHasCause
  <2>1. pc \in Polls
    BY SeenInPolls DEF IInv
  <2>2. gaveUp \/ scanned
    BY <2>1, PollsAre DEF IInv, Mailbox, Polling, Seen, NotPolling
  <2>3. pc \notin {"getConfig", "startRebuild"}
    BY <2>2 DEF IInv, Phases, Loading
  <2> QED
    BY <2>1, <2>2, <2>3, PollsAre
<1> QED
  BY <1>1, Inductive, PTL

\* The interrupt handler never takes the answer CTLgetConfig polls for.
THEOREM ConfigAnswerStays == Spec => []ConfigAnswerKept
<1>1. IInv => ConfigAnswerKept
  BY DEF IInv
<1> QED
  BY <1>1, Inductive, PTL

\* The driver keeps as many SRBs as the adapter takes at most, for every depth
\* that an int can hold, unless the configuration it read was not the answer.
THEOREM DepthIsRespected == Spec => []DepthRespected
<1>1. IInv => DepthRespected
  BY DEF IInv, Config, DepthRespected
<1> QED
  BY <1>1, Inductive, PTL

\* The workloop has what it works with, unless StopController caught it at work.
THEOREM ResourcesOutliveHandlers == Spec => []HandlerHasResources
<1>1. IInv => HandlerHasResources
  <2> SUFFICES ASSUME IInv, loop.pc # "idle", ~SRBPool PROVE late
    BY DEF HandlerHasResources
  <2>1. pc \notin Loading \cup Allocated
    BY DEF IInv, Phases, Resources
  <2>2. pc = "unloaded"
    BY <2>1, PollsAre DEF IInv, TypeOK, Places, Resting, Loading, Allocated
  <2> QED
    BY <2>2 DEF IInv, Resources, Busy
<1> QED
  BY <1>1, Inductive, PTL

\* A driver that is not started hears nothing and asks nothing.
THEOREM StoppedStaysQuiet == Spec => StoppedIsQuiet
<1>1. IInv /\ [Next]_vars =>
        [Quiet => ~(latched' /\ ~latched) /\ ~(loop.pc # "scan" /\ loop'.pc = "scan")]_vars
  <2> SUFFICES ASSUME IInv, Next, Quiet
               PROVE  ~(latched' /\ ~latched) /\ ~(loop.pc # "scan" /\ loop'.pc = "scan")
    BY DEF vars
  <2>1. pc \in {"unloaded", "failed", "init"} \/ masked
    BY DEF IInv, Phases, Quiet
  <2>2. scanTimer # "armed"
    BY DEF IInv, Phases, Quiet, Loading
  <2>3. ~Deliver /\ ~deviceScanStub
    BY <2>1, <2>2 DEF Deliver, deviceScanStub
  <2>4. InCall => latched' = latched /\ loop' = loop
    BY DEF InCall, CTLwaitMsgintReady, CTLinit, WaitForFirmware, SendCommand,
           PollSees, PollReturns, PollMisses, PollGivesUp, ParseConfig, Allocate,
           StartTimer, CTLdisableInterrupts, StopTimer, loopVars
  <2>5. Superclass => (latched' = latched \/ latched' = FALSE) /\ loop' = loop
    BY DEF Superclass, Load, StartController, StopController, TerminateController,
           loopVars
  <2>6. Adapter => latched' = latched /\ loop' = loop
    BY DEF Adapter, FirmwareBoots, TakeCommand, ExecuteCommand, OtherInterrupt,
           loopVars
  <2>7. Workloop => (latched' = latched \/ latched' = FALSE) /\ loop'.pc # "scan"
    <3>1. ReadStatus => latched' = FALSE /\ loop'.pc # "scan"
      BY DEF ReadStatus
    <3>2. AckStatus \/ Handled \/ deviceScanAgain => latched' = latched /\ loop'.pc # "scan"
      BY DEF AckStatus, Handled, deviceScanAgain
    <3> QED
      BY <2>3, <3>1, <3>2 DEF Workloop
  <2>8. (latched' = latched \/ latched' = FALSE) /\ (loop' = loop \/ loop'.pc # "scan")
    BY <2>3, <2>4, <2>5, <2>6, <2>7 DEF Next
  <2> QED
    BY <2>8
<1> QED
  BY <1>1, Inductive, PTL DEF Spec, StoppedIsQuiet
=============================================================================
