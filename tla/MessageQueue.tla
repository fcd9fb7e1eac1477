---------------------------- MODULE MessageQueue ----------------------------
(***************************************************************************)
(* The byte stream to and from the adapter's management console            *)
(* (ArcMSRMessageQueue.cpp, the doorbell handler of ArcMSRControllerIO.cpp *)
(* and the calls of ArcMSRUserclient.cpp that use it).                     *)
(*                                                                         *)
(* Each direction has a ring in the driver and one buffer in the message   *)
(* unit.  Who may touch a buffer is settled by doorbell bits: DATA_WRITE_OK *)
(* says that a buffer was filled, DATA_READ_OK that it was emptied.  While *)
(* neither bit is on its way, the driver remembers whose turn it is in     *)
(* MQFlags.  Client threads run behind the command gate and may sleep      *)
(* there; the interrupt handler holds the gate from its first register     *)
(* access to its last; the adapter acts between any two of its accesses.   *)
(*                                                                         *)
(* The bytes of each direction are numbered in the order they are sent.    *)
(***************************************************************************)
EXTENDS Integers, Sequences, FiniteSets

CONSTANTS
    Senders, Receivers,  \* client threads
    Capacity,            \* ARCMSR_MESSAGE_BUFFER
    WBufSize,            \* the data bytes of ioctl_wbuffer and ioctl_rbuffer
    SendLens,            \* lengths of messages clients send
    RecvLens,            \* lengths of the buffers clients receive into
    PostLens,            \* lengths of the messages the adapter posts
    Numbers,             \* bytes are numbered modulo this
    Endless,             \* may the numbers start over?
    Clears,              \* do clients clear the queues?
    Reloads,             \* is the driver loaded again?
    TimerOwners          \* what outboundMQWakeup may find in its owner argument

ASSUME MessageQueueAssumption ==
    /\ Capacity \in Nat \ {0} /\ WBufSize \in 1 .. Capacity
    /\ SendLens \subseteq 1 .. Capacity /\ RecvLens \subseteq 1 .. Capacity
    /\ PostLens \subseteq 1 .. WBufSize
    /\ Numbers \in Nat \ {0}
    /\ Endless \in BOOLEAN /\ Clears \in BOOLEAN /\ Reloads \in BOOLEAN
    /\ TimerOwners \subseteq {"ArcMSR", "other"} /\ TimerOwners # {}

VARIABLES
    inQ,        \* inboundMQBuffer: driver -> adapter
    outQ,       \* outboundMQBuffer: driver <- adapter
    MQFlags,
    timer,      \* outboundMQTimeout is armed
    sender,     \* the client threads in send
    receiver,   \* the client threads in recv
    handler,    \* the workloop in handleDoorbellInterrupt
    wbuf, rbuf, \* the message unit's buffers
    inDB,       \* inbound doorbell: rung by the driver
    outDB,      \* outbound doorbell: rung by the adapter
    dbInt,      \* ARCMSR_MU_OUTBOUND_DOORBELL_INT is asserted
    adapterFree,\* the adapter may fill rbuf
    sent, got,      \* last byte clients sent, last byte the adapter read
    posted, read,   \* last byte the adapter posted, last byte clients received
    left            \* what the last instance left behind, see Reload

inVars   == <<inQ, wbuf, sent, got>>
outVars  == <<outQ, rbuf, posted, read>>
bellVars == <<inDB, outDB, dbInt, adapterFree>>
vars == <<MQFlags, timer, sender, receiver, handler, inVars, outVars, bellVars, left>>

Ring == INSTANCE RingContents

\* The n bytes after byte k, and whether there are numbers left for them.
NextBytes(k, n) == [i \in 1 .. n |-> (k + i) % Numbers]
MayNumber(k, n) == Endless \/ k + n < Numbers
LastOf(s, k)    == IF s = <<>> THEN k ELSE s[Len(s)]

NoCall    == [pc |-> "idle"]
NoHandler == [pc |-> "idle", doorbell |-> {}]
Bells     == {"WRITE_OK", "READ_OK"}

\* Mutant: commandWakeup asked to wake one thread only.
WokenOne(threads) ==
    LET asleep == {t \in DOMAIN threads : threads[t].pc = "asleep"}
    IN  IF asleep = {} THEN threads
        ELSE [threads EXCEPT ![CHOOSE t \in asleep : TRUE].pc = "gate"]

\* commandWakeup: every thread asleep on the ring gets to try again.
Woken(threads) ==
    [t \in DOMAIN threads |->
        IF threads[t].pc = "asleep" THEN [threads[t] EXCEPT !.pc = "gate"]
        ELSE threads[t]]

Init ==
    /\ inQ = <<>> /\ outQ = <<>>
    /\ MQFlags = {"UNDERFLOW"}
    /\ timer = FALSE
    /\ sender = [s \in Senders |-> NoCall]
    /\ receiver = [r \in Receivers |-> NoCall]
    /\ handler = NoHandler
    /\ wbuf = <<>> /\ rbuf = <<>>
    \* CTLinit has told an adapter that had data posted to go on.
    /\ \/ inDB = {} /\ adapterFree = TRUE
       \/ inDB = {"READ_OK"} /\ adapterFree = FALSE
    /\ outDB = {} /\ dbInt = FALSE
    /\ sent = 0 /\ got = 0 /\ posted = 0 /\ read = 0
    /\ left = {}

GateOpen == handler.pc = "idle"

-----------------------------------------------------------------------------
(* Driver to adapter.                                                      *)

\* Mutant: underflow is flagged although there was something to write.
inboundMQWriteUnderflowing(q, flags, threads) ==
    LET data == Ring!Fetched(q, WBufSize)
    IN  /\ inQ' = Ring!Remaining(q, WBufSize)
        /\ wbuf' = IF data # <<>> THEN data ELSE wbuf
        /\ inDB' = IF data # <<>> THEN inDB \cup {"WRITE_OK"} ELSE inDB
        /\ MQFlags' = flags \cup {"UNDERFLOW"}
        /\ sender' = Woken(threads)

\* Mutant: the size of ioctl_wbuffer is not looked at.
inboundMQWriteWhole(q, flags, threads) ==
    /\ inQ' = <<>>
    /\ wbuf' = IF q # <<>> THEN q ELSE wbuf
    /\ inDB' = IF q # <<>> THEN inDB \cup {"WRITE_OK"} ELSE inDB
    /\ MQFlags' = IF q # <<>> THEN flags ELSE flags \cup {"UNDERFLOW"}
    /\ sender' = IF q # <<>> THEN threads ELSE Woken(threads)

\* Moves what fits from ring q to the adapter's buffer; with nothing to move
\* it flags underflow and wakes the blocked senders.
inboundMQWrite(q, flags, threads) ==
    LET data == Ring!Fetched(q, WBufSize)
    IN  /\ inQ' = Ring!Remaining(q, WBufSize)
        /\ IF data # <<>>
           THEN /\ wbuf' = data
                /\ inDB' = inDB \cup {"WRITE_OK"}
                /\ MQFlags' = flags
                /\ sender' = threads
           ELSE /\ MQFlags' = flags \cup {"UNDERFLOW"}
                /\ sender' = Woken(threads)
                /\ UNCHANGED <<wbuf, inDB>>

\* A client calls send; its buffer is prepared outside the gate.
send(s, n) ==
    /\ sender[s].pc = "idle"
    /\ sender' = [sender EXCEPT ![s] = [pc |-> "gate", len |-> n]]
    /\ UNCHANGED <<MQFlags, timer, receiver, handler, inVars, outVars,
                   bellVars, left>>

\* One pass of the loop in inboundMQBufferInsert.
inboundMQBufferInsert(s) ==
    /\ GateOpen /\ sender[s].pc = "gate"
    /\ IF Ring!Accepts(inQ, sender[s].len)
       THEN LET q    == Ring!Inserted(inQ, NextBytes(sent, sender[s].len))
                done == [sender EXCEPT ![s] = NoCall]
            IN  /\ MayNumber(sent, sender[s].len)
                /\ sent' = (sent + sender[s].len) % Numbers
                /\ IF "UNDERFLOW" \in MQFlags
                   THEN inboundMQWrite(q, MQFlags \ {"UNDERFLOW"}, done)
                   ELSE /\ inQ' = q /\ sender' = done
                        /\ UNCHANGED <<MQFlags, wbuf, inDB>>
       ELSE /\ sender' = [sender EXCEPT ![s].pc = "asleep"]
            /\ UNCHANGED <<MQFlags, inQ, wbuf, inDB, sent>>
    /\ UNCHANGED <<timer, receiver, handler, got, outVars, outDB, dbInt,
                   adapterFree, left>>

\* A signal ends commandSleep; its result is ignored and the loop goes round.
SenderInterrupted(s) ==
    /\ GateOpen /\ sender[s].pc = "asleep"
    /\ sender' = [sender EXCEPT ![s].pc = "gate"]
    /\ UNCHANGED <<MQFlags, timer, receiver, handler, inVars, outVars,
                   bellVars, left>>

-----------------------------------------------------------------------------
(* Adapter to driver.                                                      *)

\* What becomes of ring q, flags, sleepers and doorbell when the adapter's
\* buffer is read: it is acknowledged if the ring takes it, and left in the
\* adapter if not.
outboundMQRead(q, flags, threads) ==
    IF Ring!Accepts(q, Len(rbuf))
    THEN [ring |-> Ring!Inserted(q, rbuf), flags |-> flags,
          receivers |-> Woken(threads), bells |-> {"READ_OK"}]
    ELSE [ring |-> q, flags |-> flags \cup {"OVERFLOW"},
          receivers |-> threads, bells |-> {}]

\* A client calls recv, willing to sleep once or not at all.
recv(r, n, timeout) ==
    /\ receiver[r].pc = "idle"
    /\ receiver' = [receiver EXCEPT
         ![r] = [pc |-> "gate", len |-> n, timeout |-> timeout, slept |-> FALSE]]
    /\ UNCHANGED <<MQFlags, timer, sender, handler, inVars, outVars, bellVars,
                   left>>

\* Mutant: the flag is left set when the stalled data has been taken.
TakeStalledKeepingFlag(q) == outboundMQRead(q, MQFlags, receiver)

\* The stalled buffer is read into the ring, which was just emptied.
TakeStalled(q) == [outboundMQRead(q, MQFlags, receiver) EXCEPT !.flags = @ \ {"OVERFLOW"}]

\* One pass of outboundMQBufferRemove: what the ring holds, then the stalled
\* buffer if there is room for more, then sleep with the timer armed if there
\* was nothing at all and the caller has not slept yet.
outboundMQBufferRemove(r) ==
    /\ GateOpen /\ receiver[r].pc = "gate"
    /\ LET call  == receiver[r]
           first == Ring!Fetched(outQ, call.len)
           rest  == Ring!Remaining(outQ, call.len)
           more  == call.len - Len(first)
           after == IF more > 0 /\ "OVERFLOW" \in MQFlags
                    THEN TakeStalled(rest)
                    ELSE [ring |-> rest, flags |-> MQFlags,
                          receivers |-> receiver, bells |-> {}]
           data  == first \o Ring!Fetched(after.ring, more)
           sleep == data = <<>> /\ ~call.slept /\ call.timeout
       IN  /\ outQ' = Ring!Remaining(after.ring, more)
           /\ MQFlags' = after.flags
           /\ inDB' = inDB \cup after.bells
           /\ read' = LastOf(data, read)
           /\ timer' = (timer \/ sleep)
           /\ receiver' = [after.receivers EXCEPT ![r] =
                IF sleep THEN [call EXCEPT !.pc = "asleep", !.slept = TRUE]
                ELSE NoCall]
    /\ UNCHANGED <<sender, handler, inVars, rbuf, posted, outDB, dbInt,
                   adapterFree, left>>

\* Mutant: the senders' ring is woken and not the receivers'.
outboundMQWakeupSenders ==
    /\ GateOpen /\ timer
    /\ timer' = FALSE
    /\ sender' = Woken(sender)
    /\ UNCHANGED <<MQFlags, receiver, handler, inVars, outVars, bellVars,
                   left>>

\* outboundMQWakeup.  The timer calls a member function as Action(owner,
\* sender), so the third argument it looks for the driver in is whatever the
\* register holds: if that is no ArcMSR, nobody is woken.
outboundMQWakeup ==
    /\ GateOpen /\ timer
    /\ timer' = FALSE
    /\ \E owner \in TimerOwners :
         receiver' = IF owner = "ArcMSR" THEN Woken(receiver) ELSE receiver
    /\ UNCHANGED <<MQFlags, sender, handler, inVars, outVars, bellVars,
                   left>>

ReceiverInterrupted(r) ==
    /\ GateOpen /\ receiver[r].pc = "asleep"
    /\ receiver' = [receiver EXCEPT ![r].pc = "gate"]
    /\ UNCHANGED <<MQFlags, timer, sender, handler, inVars, outVars, bellVars,
                   left>>

-----------------------------------------------------------------------------
(* Clearing.                                                               *)

\* clearRQBuffer, by way of inboundMQBufferClear.
clearRQBuffer ==
    /\ Clears /\ GateOpen
    /\ inQ' = <<>>
    /\ UNCHANGED <<MQFlags, timer, sender, receiver, handler, wbuf, sent, got,
                   outVars, bellVars, left>>

\* Mutant: the adapter is not told to go on when its stalled data is dropped.
clearWQBufferSilent ==
    /\ Clears /\ GateOpen
    /\ outQ' = <<>>
    /\ MQFlags' = MQFlags \ {"OVERFLOW"}
    /\ UNCHANGED <<timer, sender, receiver, handler, inVars, rbuf, posted,
                   read, bellVars, left>>

\* clearWQBuffer, by way of outboundMQBufferClear: the call that is to "Clear
\* the write buffer" (ArcMSRUserClientInterface.h:51) clears what was received,
\* and clearRQBuffer what was to be sent.
clearWQBuffer ==
    /\ Clears /\ GateOpen
    /\ outQ' = <<>>
    /\ MQFlags' = MQFlags \ {"OVERFLOW"}
    /\ inDB' = IF "OVERFLOW" \in MQFlags THEN inDB \cup {"READ_OK"} ELSE inDB
    /\ UNCHANGED <<timer, sender, receiver, handler, inVars, rbuf, posted,
                   read, outDB, dbInt, adapterFree, left>>

-----------------------------------------------------------------------------
(* The doorbell interrupt.  Each register access is a step of its own.     *)

HandleInterruptRequest ==
    /\ handler.pc = "idle" /\ dbInt
    /\ dbInt' = FALSE
    /\ handler' = [pc |-> "doorbell", doorbell |-> {}]
    /\ UNCHANGED <<MQFlags, timer, sender, receiver, inVars, outVars, inDB,
                   outDB, adapterFree, left>>

ReadDoorbell ==
    /\ handler.pc = "doorbell"
    /\ handler' = [pc |-> "acknowledge", doorbell |-> outDB]
    /\ UNCHANGED <<MQFlags, timer, sender, receiver, inVars, outVars, bellVars,
                   left>>

\* Mutant: the whole doorbell is acknowledged and not what was read of it.
AcknowledgeAll ==
    /\ handler.pc = "acknowledge"
    /\ outDB' = {}
    /\ handler' = [handler EXCEPT !.pc = "WRITE_OK"]
    /\ UNCHANGED <<MQFlags, timer, sender, receiver, inVars, outVars, inDB,
                   dbInt, adapterFree, left>>

AcknowledgeDoorbell ==
    /\ handler.pc = "acknowledge"
    /\ outDB' = outDB \ handler.doorbell
    /\ handler' = [handler EXCEPT !.pc = "WRITE_OK"]
    /\ UNCHANGED <<MQFlags, timer, sender, receiver, inVars, outVars, inDB,
                   dbInt, adapterFree, left>>

\* The adapter posted an outbound message.
HandleWriteOK ==
    /\ handler.pc = "WRITE_OK"
    /\ IF "WRITE_OK" \in handler.doorbell
       THEN LET after == outboundMQRead(outQ, MQFlags, receiver)
            IN  /\ outQ' = after.ring /\ MQFlags' = after.flags
                /\ receiver' = after.receivers
                /\ inDB' = inDB \cup after.bells
       ELSE UNCHANGED <<outQ, MQFlags, receiver, inDB>>
    /\ handler' = [handler EXCEPT !.pc = "READ_OK"]
    /\ UNCHANGED <<timer, sender, inVars, rbuf, posted, read, outDB, dbInt,
                   adapterFree, left>>

\* The adapter consumed the inbound message.
HandleReadOK ==
    /\ handler.pc = "READ_OK"
    /\ IF "READ_OK" \in handler.doorbell
       THEN inboundMQWrite(inQ, MQFlags, sender)
       ELSE UNCHANGED <<inQ, wbuf, inDB, MQFlags, sender>>
    /\ handler' = NoHandler
    /\ UNCHANGED <<timer, receiver, sent, got, outVars, outDB, dbInt,
                   adapterFree, left>>

-----------------------------------------------------------------------------
(* The adapter (external): it follows the doorbell protocol of             *)
(* ArcMSRRegisters.h:139-154.                                              *)

AdapterReads ==
    /\ "WRITE_OK" \in inDB
    /\ inDB' = inDB \ {"WRITE_OK"}
    /\ got' = LastOf(wbuf, got)
    /\ outDB' = outDB \cup {"READ_OK"}
    /\ dbInt' = TRUE
    /\ UNCHANGED <<MQFlags, timer, sender, receiver, handler, inQ, wbuf, sent,
                   outVars, adapterFree, left>>

AdapterSeesReadOK ==
    /\ "READ_OK" \in inDB
    /\ inDB' = inDB \ {"READ_OK"}
    /\ adapterFree' = TRUE
    /\ UNCHANGED <<MQFlags, timer, sender, receiver, handler, inVars, outVars,
                   outDB, dbInt, left>>

AdapterPosts(n) ==
    /\ adapterFree /\ MayNumber(posted, n)
    /\ rbuf' = NextBytes(posted, n)
    /\ posted' = (posted + n) % Numbers
    /\ adapterFree' = FALSE
    /\ outDB' = outDB \cup {"WRITE_OK"}
    /\ dbInt' = TRUE
    /\ UNCHANGED <<MQFlags, timer, sender, receiver, handler, inVars, outQ,
                   read, inDB, left>>

-----------------------------------------------------------------------------
(* A new instance of the driver on the same adapter.                       *)

\* TerminateController and InitializeController: the rings are empty and it is
\* the driver's turn to write, whatever is still on its way to or from the
\* adapter.  CTLinit tells an adapter that has data posted to go on; an adapter
\* whose data was stalled in the driver (OVERFLOW) is told nothing.
\* The clients are gone by then.
Reload ==
    /\ Reloads /\ handler.pc = "idle"
    /\ \A s \in Senders : sender[s].pc = "idle"
    /\ \A r \in Receivers : receiver[r].pc = "idle"
    /\ inQ' = <<>> /\ outQ' = <<>>
    /\ MQFlags' = {"UNDERFLOW"}
    /\ timer' = FALSE
    /\ IF "WRITE_OK" \in outDB
       THEN outDB' = {} /\ inDB' = inDB \cup {"READ_OK"}
       ELSE UNCHANGED <<outDB, inDB>>
    /\ left' = {d \in {"inbound", "outbound"} :
                  \/ d = "inbound" /\ ("WRITE_OK" \in inDB' \/ "READ_OK" \in outDB')
                  \/ d = "outbound" /\ (d \in left \/ "OVERFLOW" \in MQFlags)}
    /\ UNCHANGED <<sender, receiver, handler, wbuf, sent, got, rbuf, posted, read,
                   dbInt, adapterFree>>

-----------------------------------------------------------------------------
Clients ==
    \/ \E s \in Senders :
         \/ \E n \in SendLens : send(s, n)
         \/ inboundMQBufferInsert(s)
         \/ SenderInterrupted(s)
    \/ \E r \in Receivers :
         \/ \E n \in RecvLens, timeout \in BOOLEAN : recv(r, n, timeout)
         \/ outboundMQBufferRemove(r)
         \/ ReceiverInterrupted(r)
    \/ clearRQBuffer
    \/ clearWQBuffer

Workloop ==
    \/ HandleInterruptRequest \/ ReadDoorbell \/ AcknowledgeDoorbell
    \/ HandleWriteOK \/ HandleReadOK
    \/ outboundMQWakeup

Adapter ==
    AdapterReads \/ AdapterSeesReadOK \/ \E n \in PostLens : AdapterPosts(n)

Next == Clients \/ Workloop \/ Adapter \/ Reload

Spec == Init /\ [][Next]_vars

(***************************************************************************)
(* The workloop thread never stops, and whoever waits for the command gate *)
(* gets it if the gate opens again and again.  AdapterFairness adds that   *)
(* the adapter answers doorbells in the end.                               *)
(***************************************************************************)
DriverFairness ==
    /\ WF_vars(HandleInterruptRequest \/ ReadDoorbell \/ AcknowledgeDoorbell
                 \/ HandleWriteOK \/ HandleReadOK)
    /\ SF_vars(outboundMQWakeup)
    /\ \A s \in Senders : SF_vars(inboundMQBufferInsert(s))
    /\ \A r \in Receivers : SF_vars(outboundMQBufferRemove(r))

AdapterFairness == WF_vars(AdapterReads) /\ WF_vars(AdapterSeesReadOK)

FairSpec == Spec /\ DriverFairness /\ AdapterFairness

-----------------------------------------------------------------------------
(* Properties.                                                             *)

Byte == 0 .. Numbers - 1

TypeOK ==
    /\ inQ \in Seq(Byte) /\ Len(inQ) <= Capacity
    /\ outQ \in Seq(Byte) /\ Len(outQ) <= Capacity
    /\ MQFlags \subseteq {"UNDERFLOW", "OVERFLOW"}
    /\ timer \in BOOLEAN
    /\ sender \in [Senders -> {NoCall} \cup [pc : {"gate", "asleep"}, len : SendLens]]
    /\ receiver \in [Receivers -> {NoCall} \cup
                       [pc : {"gate", "asleep"}, len : RecvLens,
                        timeout : BOOLEAN, slept : BOOLEAN]]
    /\ handler \in [pc : {"idle", "doorbell", "acknowledge", "WRITE_OK", "READ_OK"},
                    doorbell : SUBSET Bells]
    /\ wbuf \in Seq(Byte) /\ Len(wbuf) <= WBufSize
    /\ rbuf \in Seq(Byte) /\ Len(rbuf) <= WBufSize
    /\ inDB \subseteq Bells /\ outDB \subseteq Bells
    /\ dbInt \in BOOLEAN /\ adapterFree \in BOOLEAN
    /\ {sent, got, posted, read} \subseteq Byte
    /\ left \subseteq {"inbound", "outbound"}

\* The handler has acknowledged the bit and will act on it.
HandlerHas(bell) ==
    /\ bell \in handler.doorbell
    /\ handler.pc = bell \/ (handler.pc = "WRITE_OK" /\ bell = "READ_OK")

Count(places) == Cardinality({p \in DOMAIN places : places[p]})

\* The turn to use ioctl_wbuffer exists exactly once: the driver has it
\* (underflow), or it is on its way to the adapter or back.  Were it lost,
\* sending would stop for good; were it doubled, the driver would overwrite
\* bytes the adapter has not read.  It is doubled only if a new instance of the
\* driver took it while it was on its way ("no send data pending",
\* ArcMSRController.cpp:125), and never lost.
InboundTurn ==
    LET turns == Count([driver  |-> "UNDERFLOW" \in MQFlags,
                        adapter |-> "WRITE_OK" \in inDB,
                        back    |-> "READ_OK" \in outDB,
                        handler |-> HandlerHas("READ_OK")])
    IN  turns >= 1 /\ ("inbound" \notin left => turns = 1)

\* The turn to use ioctl_rbuffer exists exactly once, through the overflow
\* flag too: "guaranteed to fit in the ringbuffer now"
\* (ArcMSRMessageQueue.cpp:122), or clearing the flag would lose it.  It is lost
\* only with an instance that had it in its overflow flag.
OutboundTurn ==
    LET turns == Count([adapter |-> adapterFree,
                        driver  |-> "WRITE_OK" \in outDB,
                        handler |-> HandlerHas("WRITE_OK"),
                        stalled |-> "OVERFLOW" \in MQFlags,
                        back    |-> "READ_OK" \in inDB])
    IN  turns <= 1 /\ ("outbound" \notin left => turns = 1)

\* The bytes on their way in each direction, oldest first, behind the last
\* one that arrived.
InboundStream ==
    <<got>> \o (IF "WRITE_OK" \in inDB THEN wbuf ELSE <<>>) \o inQ

OutboundUnread ==
    "WRITE_OK" \in outDB \/ HandlerHas("WRITE_OK") \/ "OVERFLOW" \in MQFlags

OutboundStream ==
    <<read>> \o outQ \o (IF OutboundUnread THEN rbuf ELSE <<>>)

Ascending(s, last) ==
    /\ \A i \in 1 .. Len(s) - 1 : s[i] < s[i + 1]
    /\ s[Len(s)] <= last

\* Nothing that happens to the queues ever delivers a byte twice or before
\* an earlier one.
InOrder == Ascending(InboundStream, sent) /\ Ascending(OutboundStream, posted)

Unbroken(s, last) ==
    /\ \A i \in 1 .. Len(s) - 1 : s[i + 1] = (s[i] + 1) % Numbers
    /\ s[Len(s)] = last

\* Every byte a client was told was sent, and every byte the adapter posted,
\* is delivered or still on its way ("currently we can't fail",
\* ArcMSRUserclient.cpp:229).
NoByteLost == Unbroken(InboundStream, sent) /\ Unbroken(OutboundStream, posted)

\* Bytes arrive at the front of stream s, or the next ones join it at the back.
Flows(s, last, t, newLast) ==
    \/ newLast = last /\ \E k \in 1 .. Len(s) : t = SubSeq(s, k, Len(s))
    \/ \E n \in SendLens \cup PostLens :
         t = s \o NextBytes(last, n) /\ newLast = (last + n) % Numbers

\* An instance that took a turn still on its way writes over unread bytes.
Overwrites ==
    /\ "inbound" \in left /\ "WRITE_OK" \in inDB
    /\ HandleReadOK \/ \E s \in Senders : inboundMQBufferInsert(s)

InboundLoss ==
    \/ clearRQBuffer \/ Reload \/ Overwrites
    \/ \E s \in Senders :
         inboundMQBufferInsert(s) /\ sender[s].len = Ring!Avail(inQ)

OutboundLoss ==
    clearWQBuffer \/ Reload \/ (HandleWriteOK /\ Len(rbuf) = Ring!Avail(outQ))

\* Bytes are lost, or moved out of their place, by nothing but a clear, a
\* reload and what it left behind, and an insertion that fills a ring exactly:
\* every other step delivers from the front of a stream and appends to its end.
\* In particular reading the stalled buffer never loses any
\* (ArcMSRMessageQueue.cpp:122).
BytesFlow ==
    [][/\ Flows(InboundStream, sent, InboundStream', sent') \/ InboundLoss
       /\ Flows(OutboundStream, posted, OutboundStream', posted') \/ OutboundLoss]_vars

\* No sender sleeps while the queue is idle: the adapter has yet to call back,
\* and the underflow found then wakes every one of them.
SendersSleepWithCause ==
    (\E s \in Senders : sender[s].pc = "asleep") => "UNDERFLOW" \notin MQFlags

\* No receiver sleeps while there is something to receive.
ReceiversSleepWithCause ==
    (\E r \in Receivers : receiver[r].pc = "asleep") =>
        outQ = <<>> /\ "OVERFLOW" \notin MQFlags

\* The only sender always gets its message into the queue.
SendReturns == \A s \in Senders : sender[s].pc = "gate" ~> sender[s].pc = "idle"

\* A call of recv blocks "only once" (ArcMSRMessageQueue.cpp:132) and returns,
\* with data or without.
RecvReturns == \A r \in Receivers : receiver[r].pc = "gate" ~> receiver[r].pc = "idle"

=============================================================================
