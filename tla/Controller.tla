----------------------------- MODULE Controller -----------------------------
(***************************************************************************)
(* The life of the driver on an adapter, and the one-word command mailbox  *)
(* it is controlled through: InitializeController, TerminateController,    *)
(* StartController, StopController and deviceScanStub                      *)
(* (ArcMSRController.cpp), and CTLinit, CTLgetConfig, the polled message-0 *)
(* commands and the interrupt mask (ArcMSRControllerIO.cpp).               *)
(*                                                                         *)
(* Three actors share the mailbox and its one interrupt bit.  The thread   *)
(* of the superclass writes a command and polls for the bit.  The scan     *)
(* timer writes GET_CONFIG and leaves the bit to the interrupt handler;    *)
(* both of these run on the workloop, one at a time.  The adapter takes    *)
(* one command after the other.  Nothing says which command a set bit      *)
(* answers.  What a previous load, or the firmware of the machine, left in *)
(* the registers is still there when the driver is loaded.                 *)
(***************************************************************************)
EXTENDS Integers

CONSTANTS
    QueueDepths,     \* the queue depths an adapter may offer
    MaxOutstanding,  \* ARCMSR_MAX_OUTSTANDING_SRB
    IntLimit,        \* 2^31: the first value an int cannot hold
    Retries,         \* how often CTLwaitMsgintReady looks (2000)
    FirmwareTries,   \* how often CTLinit looks for FIRMWARE_OK (101)
    MaxLoads         \* bound: how often the driver is loaded

ASSUME ControllerAssumption ==
    /\ IntLimit \in Nat
    /\ QueueDepths \subseteq 0 .. 2 * IntLimit - 1
    /\ MaxOutstanding \in 1 .. IntLimit - 1
    /\ Retries \in Nat \ {0}
    /\ FirmwareTries \in Nat \ {0}
    /\ MaxLoads \in Nat

VARIABLES
    pc,         \* where the superclass's thread is in the life of the driver
    poll,       \* CTLwaitMsgintReady: how often it has looked, or Seen
    maxSRB,
    SRBPool,    \* the SRB pool and the other resources are allocated
    scanTimer,  \* deviceScanTimer: "disabled", "idle" or "armed"
    loop,       \* the workloop in HandleInterruptRequest or deviceScanStub
    latched,    \* an interrupt was delivered and waits for the workloop
    depth,      \* the adapter's queue depth
    firmwareOK, \* ARCMSR_OUTBOUND_MESG1_FIRMWARE_OK
    msg0,       \* the command in inbound_msgaddr0
    working,    \* the command the adapter works on
    buffer,     \* what a reader of message_wbuffer finds
    intstatus,  \* outbound_intstatus
    masked,     \* outbound_intmask keeps the interrupts back
    \* History, read by no action.
    loads,      \* how often the driver was loaded
    finished,   \* the adapter has executed the command that is polled for
    leftover,   \* this load found somebody else's command or answer
    gaveUp,     \* a poll of this load gave up
    scanned,    \* this load has sent a periodic GET_CONFIG
    late        \* the workloop was busy when StopController turned it off

assets      == <<maxSRB, SRBPool, scanTimer>>
driverVars  == <<pc, poll, assets>>
loopVars    == <<loop, latched>>
mailbox     == <<msg0, working, buffer>>
adapterVars == <<depth, firmwareOK, mailbox, intstatus, masked>>
stopVars    == <<scanned, late>>
startVars   == <<loads, leftover>>
history     == <<startVars, finished, gaveUp, stopVars>>
vars == <<driverVars, loopVars, adapterVars, history>>

(***************************************************************************)
(* The polled commands, by the place in the driver's life that sends them, *)
(* and the place that follows when the poll returns.                       *)
(***************************************************************************)
Command == [getConfig |-> "GET_CONFIG", startRebuild |-> "START_BGRB",
            stopRebuild |-> "STOP_BGRB", flushCache |-> "FLUSH_CACHE"]

Polls == DOMAIN Command

AfterPoll(answered) ==
    CASE pc = "getConfig"    -> IF answered THEN "parse" ELSE "failed"
      [] pc = "startRebuild" -> "startTimer"
      [] pc = "stopRebuild"  -> "flushCache"
      [] pc = "flushCache"   -> "disable"

\* The ops of commands, and on whose behalf the adapter got one: the poll that
\* is waiting, the scan timer, or somebody who waits no more.
Nothing  == [op |-> "none", by |-> "none"]
Commands == [op : {"GET_CONFIG", "START_BGRB", "STOP_BGRB", "FLUSH_CACHE"},
             by : {"poll", "scan", "old"}]
Sources  == {"message", "other"}  \* MESSAGE0_INT; the doorbell and the post queue
Garbage  == -1                    \* the signature is not that of a configuration
Contents == QueueDepths \cup {Garbage}

Orphaned(c) == IF c.by = "poll" THEN [c EXCEPT !.by = "old"] ELSE c

NotPolling == -1
Seen       == -2
Resting  == {"unloaded", "initialised", "started", "stopped", "failed"}

Init ==
    /\ pc = "unloaded" /\ poll = NotPolling
    /\ maxSRB = 0 /\ SRBPool = FALSE /\ scanTimer = "disabled"
    /\ loop = [pc |-> "idle"] /\ latched = FALSE
    /\ depth \in QueueDepths /\ firmwareOK \in BOOLEAN
    /\ msg0 = Nothing
    /\ working \in {Nothing, [op |-> "GET_CONFIG", by |-> "old"]}
    /\ buffer \in Contents
    /\ intstatus \in SUBSET Sources /\ masked \in BOOLEAN
    /\ loads = 0 /\ finished = FALSE /\ leftover = FALSE
    /\ gaveUp = FALSE /\ scanned = FALSE /\ late = FALSE

GoTo(place) == pc' = place /\ poll' = NotPolling

-----------------------------------------------------------------------------
(* InitializeController.                                                   *)

\* The superclass loads a new instance; the workloop of the last one is gone.
Load ==
    /\ pc \in {"unloaded", "failed"} /\ loads < MaxLoads
    /\ loop.pc = "idle"
    /\ loads' = loads + 1
    /\ GoTo("init")
    /\ maxSRB' = 0 /\ SRBPool' = FALSE /\ scanTimer' = "disabled"
    /\ latched' = FALSE
    /\ leftover' = (msg0 # Nothing \/ working # Nothing \/ "message" \in intstatus)
    /\ finished' = FALSE /\ gaveUp' = FALSE /\ scanned' = FALSE /\ late' = FALSE
    /\ UNCHANGED <<loop, adapterVars>>

\* Mutant: CTLinit without CTLdisableInterrupts.
CTLinitUnmasked ==
    /\ pc = "init"
    /\ pc' = "firmware" /\ poll' = 0
    /\ UNCHANGED <<assets, loopVars, adapterVars, history>>

\* CTLinit masks every interrupt before anything else.
CTLinit ==
    /\ pc = "init"
    /\ masked' = TRUE
    /\ pc' = "firmware" /\ poll' = 0
    /\ UNCHANGED <<assets, loopVars, depth, firmwareOK, mailbox, intstatus,
                   history>>

\* CTLinit looks for FIRMWARE_OK until it is there or its time is over.
WaitForFirmware ==
    /\ pc = "firmware"
    /\ IF firmwareOK THEN GoTo("getConfig")
       ELSE IF poll = FirmwareTries THEN GoTo("failed")
       ELSE poll' = poll + 1 /\ UNCHANGED pc
    /\ UNCHANGED <<assets, loopVars, adapterVars, history>>

\* The queue depth is an uint32_t, maxSRB is an int.
AsInt(u) == IF u < IntLimit THEN u ELSE u - 2 * IntLimit

\* Mutant: the queue depth is not clamped.
ParseConfigUnclamped ==
    /\ pc = "parse"
    /\ IF buffer = Garbage THEN UNCHANGED maxSRB ELSE maxSRB' = AsInt(buffer)
    /\ GoTo(IF buffer \in {Garbage, 0} THEN "failed" ELSE "allocate")
    /\ UNCHANGED <<SRBPool, scanTimer, loopVars, adapterVars, history>>

\* The rest of CTLgetConfig, and the test for an adapter with no queue.  The
\* clamp compares signed numbers: a depth that reads as negative passes it, and
\* passes the test.
ParseConfig ==
    /\ pc = "parse"
    /\ IF buffer = Garbage THEN UNCHANGED maxSRB
       ELSE maxSRB' = IF AsInt(buffer) > MaxOutstanding THEN MaxOutstanding
                      ELSE AsInt(buffer)
    /\ GoTo(IF buffer \in {Garbage, 0} THEN "failed" ELSE "allocate")
    /\ UNCHANGED <<SRBPool, scanTimer, loopVars, adapterVars, history>>

\* The allocations.  One that fails leaves those before it in place: nothing
\* undoes them.  (Whether a pool of a negative size is had is for IOKit to say.)
Allocate ==
    /\ pc = "allocate"
    /\ \/ SRBPool' = TRUE  /\ scanTimer' = "idle" /\ GoTo("initialised")
       \/ SRBPool' \in BOOLEAN /\ GoTo("failed") /\ UNCHANGED scanTimer
    /\ UNCHANGED <<maxSRB, loopVars, adapterVars, history>>

-----------------------------------------------------------------------------
(* CTLgetConfig, CTLstartBackgroundRebuild, CTLstopBackgroundRebuild and   *)
(* CTLflushCache: a command is written, whatever the mailbox holds, and    *)
(* CTLwaitMsgintReady polls for the interrupt bit.                         *)

SendCommand ==
    /\ pc \in Polls /\ poll = NotPolling
    /\ msg0' = [op |-> Command[pc], by |-> "poll"]
    /\ working' = Orphaned(working)
    /\ poll' = 0 /\ finished' = FALSE
    /\ UNCHANGED <<pc, assets, loopVars, depth, firmwareOK, buffer, intstatus,
                   masked, startVars, gaveUp, stopVars>>

PollSees ==
    /\ pc \in Polls /\ poll \in 0 .. Retries - 1
    /\ "message" \in intstatus
    /\ poll' = Seen
    /\ UNCHANGED <<pc, assets, loopVars, adapterVars, history>>

PollReturns ==
    /\ poll = Seen
    /\ intstatus' = intstatus \ {"message"}
    /\ GoTo(AfterPoll(TRUE))
    /\ UNCHANGED <<assets, loopVars, depth, firmwareOK, mailbox, masked,
                   history>>

\* Mutant: the loop of CTLwaitMsgintReady does not count.
PollMissesUncounted ==
    /\ pc \in Polls /\ poll \in 0 .. Retries - 1
    /\ "message" \notin intstatus
    /\ UNCHANGED vars

PollMisses ==
    /\ pc \in Polls /\ poll \in 0 .. Retries - 1
    /\ "message" \notin intstatus
    /\ poll' = poll + 1
    /\ UNCHANGED <<pc, assets, loopVars, adapterVars, history>>

\* Mutant: CTLgetConfig does not look at what the poll returned.
PollGivesUpUnchecked ==
    /\ pc \in Polls /\ poll = Retries
    /\ GoTo(AfterPoll(TRUE)) /\ gaveUp' = TRUE
    /\ UNCHANGED <<assets, loopVars, adapterVars, startVars, finished,
                   stopVars>>

PollGivesUp ==
    /\ pc \in Polls /\ poll = Retries
    /\ GoTo(AfterPoll(FALSE)) /\ gaveUp' = TRUE
    /\ UNCHANGED <<assets, loopVars, adapterVars, startVars, finished,
                   stopVars>>

-----------------------------------------------------------------------------
(* StartController, StopController and TerminateController.                *)

\* Mutant: the scan timer is started before the rebuild, not after it.
StartControllerScanning ==
    /\ pc = "initialised"
    /\ masked' = FALSE
    /\ scanTimer' = "armed"
    /\ GoTo("startRebuild")
    /\ UNCHANGED <<maxSRB, SRBPool, loopVars, depth, firmwareOK, mailbox,
                   intstatus, history>>

\* StartController lets interrupts in before it polls.
StartController ==
    /\ pc = "initialised"
    /\ masked' = FALSE
    /\ GoTo("startRebuild")
    /\ UNCHANGED <<assets, loopVars, depth, firmwareOK, mailbox, intstatus,
                   history>>

StartTimer ==
    /\ pc = "startTimer"
    /\ scanTimer' = "armed"
    /\ GoTo("started")
    /\ UNCHANGED <<maxSRB, SRBPool, loopVars, adapterVars, history>>

StopController ==
    /\ pc = "started"
    /\ GoTo("stopRebuild")
    /\ UNCHANGED <<assets, loopVars, adapterVars, history>>

Busy == latched \/ loop.pc # "idle"

\* Mutant: the bits of the interrupt mask taken for enable bits.
CTLdisableInterruptsInverted ==
    /\ pc = "disable"
    /\ masked' = FALSE
    /\ late' = Busy
    /\ GoTo("stopTimer")
    /\ UNCHANGED <<assets, loopVars, depth, firmwareOK, mailbox, intstatus,
                   startVars, finished, gaveUp, scanned>>

CTLdisableInterrupts ==
    /\ pc = "disable"
    /\ masked' = TRUE
    /\ late' = Busy
    /\ GoTo("stopTimer")
    /\ UNCHANGED <<assets, loopVars, depth, firmwareOK, mailbox, intstatus,
                   startVars, finished, gaveUp, scanned>>

\* Mutant: StopController leaves the scan timer alone.
StopTimerForgotten ==
    /\ pc = "stopTimer"
    /\ late' = (late \/ Busy)
    /\ GoTo("stopped")
    /\ UNCHANGED <<assets, loopVars, adapterVars, startVars, finished, gaveUp,
                   scanned>>

StopTimer ==
    /\ pc = "stopTimer"
    /\ scanTimer' = "disabled"
    /\ late' = (late \/ Busy)
    /\ GoTo("stopped")
    /\ UNCHANGED <<maxSRB, SRBPool, loopVars, adapterVars, startVars, finished,
                   gaveUp, scanned>>

TerminateController ==
    /\ pc = "stopped"
    /\ SRBPool' = FALSE
    /\ GoTo("unloaded")
    /\ UNCHANGED <<maxSRB, scanTimer, loopVars, adapterVars, history>>

-----------------------------------------------------------------------------
(* The workloop.                                                           *)

\* An unmasked interrupt reaches the superclass, which wakes the workloop.
\* (No interrupt is delivered before CTLinit has run.)
Deliver ==
    /\ pc \notin {"unloaded", "failed", "init"}
    /\ ~masked /\ intstatus # {} /\ ~latched
    /\ latched' = TRUE
    /\ UNCHANGED <<driverVars, loop, adapterVars, history>>

\* HandleInterruptRequest reads the status, acknowledges what it read, and
\* handles it.
ReadStatus ==
    /\ latched /\ loop.pc = "idle"
    /\ latched' = FALSE
    /\ loop' = [pc |-> "ack", seen |-> intstatus]
    /\ UNCHANGED <<driverVars, adapterVars, history>>

AckStatus ==
    /\ loop.pc = "ack"
    /\ intstatus' = intstatus \ loop.seen
    /\ loop' = [pc |-> "handle"]
    /\ UNCHANGED <<driverVars, latched, depth, firmwareOK, mailbox, masked,
                   history>>

Handled ==
    /\ loop.pc = "handle"
    /\ loop' = [pc |-> "idle"]
    /\ UNCHANGED <<driverVars, latched, adapterVars, history>>

\* deviceScanStub asks for the configuration, whatever the mailbox holds...
deviceScanStub ==
    /\ scanTimer = "armed" /\ loop.pc = "idle"
    /\ scanTimer' = "idle"
    /\ loop' = [pc |-> "scan"]
    /\ msg0' = [op |-> "GET_CONFIG", by |-> "scan"]
    /\ scanned' = TRUE
    /\ UNCHANGED <<pc, poll, maxSRB, SRBPool, latched, depth, firmwareOK,
                   working, buffer, intstatus, masked, startVars, finished,
                   gaveUp, late>>

\* ... and sets its timer again, which has no effect on a disabled one.
deviceScanAgain ==
    /\ loop.pc = "scan"
    /\ loop' = [pc |-> "idle"]
    /\ scanTimer' = IF scanTimer = "disabled" THEN "disabled" ELSE "armed"
    /\ UNCHANGED <<pc, poll, maxSRB, SRBPool, latched, adapterVars, history>>

-----------------------------------------------------------------------------
(* The adapter (external).                                                 *)

FirmwareBoots ==
    /\ ~firmwareOK /\ firmwareOK' = TRUE
    /\ UNCHANGED <<driverVars, loopVars, depth, mailbox, intstatus, masked,
                   history>>

TakeCommand ==
    /\ firmwareOK /\ msg0 # Nothing /\ working = Nothing
    /\ working' = msg0 /\ msg0' = Nothing
    /\ UNCHANGED <<driverVars, loopVars, depth, firmwareOK, buffer, intstatus,
                   masked, history>>

\* A command is executed; the answer to GET_CONFIG is put into the buffer.
ExecuteCommand ==
    /\ working # Nothing
    /\ working' = Nothing
    /\ buffer' = IF working.op = "GET_CONFIG" THEN depth ELSE buffer
    /\ intstatus' = intstatus \cup {"message"}
    /\ finished' = (finished \/ working.by = "poll")
    /\ UNCHANGED <<driverVars, loopVars, depth, firmwareOK, msg0, masked,
                   startVars, gaveUp, stopVars>>

\* The doorbell or the post queue interrupts.
OtherInterrupt ==
    /\ "other" \notin intstatus
    /\ intstatus' = intstatus \cup {"other"}
    /\ UNCHANGED <<driverVars, loopVars, depth, firmwareOK, mailbox, masked,
                   history>>

-----------------------------------------------------------------------------
CTLwaitMsgintReady == PollSees \/ PollReturns \/ PollMisses \/ PollGivesUp

\* The thread inside a call, as against the superclass making one.
InCall ==
    CTLinit \/ WaitForFirmware \/ SendCommand \/ CTLwaitMsgintReady \/ ParseConfig
        \/ Allocate \/ StartTimer \/ CTLdisableInterrupts \/ StopTimer

Superclass == Load \/ StartController \/ StopController \/ TerminateController

Workloop == ReadStatus \/ AckStatus \/ Handled \/ deviceScanStub \/ deviceScanAgain

Adapter == FirmwareBoots \/ TakeCommand \/ ExecuteCommand \/ OtherInterrupt

Next == InCall \/ Superclass \/ Deliver \/ Workloop \/ Adapter

Spec == Init /\ [][Next]_vars

\* The thread inside a call goes on running; nothing is asked of the adapter.
FairSpec == Spec /\ WF_vars(InCall)

-----------------------------------------------------------------------------
(* Properties.                                                             *)

Places == Resting \cup Polls
            \cup {"init", "firmware", "parse", "allocate", "startTimer", "disable",
                  "stopTimer"}

PollOK ==
    CASE pc \in Polls    -> poll \in {NotPolling, Seen} \cup 0 .. Retries
      [] pc = "firmware" -> poll \in 0 .. FirmwareTries
      [] OTHER           -> poll = NotPolling

LoopStates == [pc : {"idle", "handle", "scan"}]
                \cup [pc : {"ack"}, seen : SUBSET Sources]

TypeOK ==
    /\ pc \in Places /\ PollOK
    /\ maxSRB \in -IntLimit .. MaxOutstanding
    /\ SRBPool \in BOOLEAN
    /\ scanTimer \in {"disabled", "idle", "armed"}
    /\ loop \in LoopStates
    /\ latched \in BOOLEAN
    /\ depth \in QueueDepths /\ firmwareOK \in BOOLEAN
    /\ msg0 \in Commands \cup {Nothing} /\ working \in Commands \cup {Nothing}
    /\ buffer \in Contents
    /\ intstatus \subseteq Sources /\ masked \in BOOLEAN
    /\ loads \in 0 .. MaxLoads
    /\ finished \in BOOLEAN /\ leftover \in BOOLEAN /\ gaveUp \in BOOLEAN
    /\ scanned \in BOOLEAN /\ late \in BOOLEAN

\* CTLwaitMsgintReady sees the answer to another command only if this load
\* found one on its way, or, while stopping, if it polled in vain before or the
\* periodic scan has used the mailbox.
FalseAnswerHasCause ==
    poll = Seen /\ ~finished =>
        leftover \/ (pc \in {"stopRebuild", "flushCache"} /\ (gaveUp \/ scanned))

\* The answer to the GET_CONFIG of CTLinit stays where the poll looks for it:
\* the interrupt handler, which would acknowledge it, is masked out.
ConfigAnswerKept ==
    pc = "getConfig" /\ finished /\ poll \in 0 .. Retries => "message" \in intstatus

\* The driver keeps no more SRBs than the adapter offers to queue, and one at
\* least, unless it took a configuration for its own that was in the message
\* buffer before, or the adapter offers a depth that an int cannot hold.
DepthRespected ==
    SRBPool /\ ~leftover => maxSRB \in 1 .. depth \/ depth >= IntLimit

\* HandleInterruptRequest and deviceScanStub run only while the SRB pool, the
\* queues and the timers exist, unless StopController caught them at work:
\* TerminateController waits for nobody.
HandlerHasResources ==
    loop.pc # "idle" => SRBPool \/ late

\* Once StopController has returned, and before StartController is called, no
\* interrupt is delivered and no scan starts.
Quiet == pc \in {"init", "firmware", "getConfig", "parse", "allocate",
                 "initialised", "stopped", "unloaded", "failed"}

StoppedIsQuiet ==
    [][Quiet => ~(latched' /\ ~latched) /\ ~(loop.pc # "scan" /\ loop'.pc = "scan")]_vars

\* InitializeController, StartController and StopController return, whatever
\* becomes of the adapter.
CallReturns == pc \notin Resting ~> pc \in Resting

\* "These are called by ::start/::stop with interrupt delivery disabled"
\* (ArcMSRControllerIO.cpp:277): the answer to a polled command stays where the
\* poll looks for it.
PolledAnswerKept ==
    pc \in Polls /\ finished /\ poll \in 0 .. Retries => "message" \in intstatus
=============================================================================
