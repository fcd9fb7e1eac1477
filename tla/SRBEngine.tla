----------------------------- MODULE SRBEngine -----------------------------
(***************************************************************************)
(* The I/O path of the driver: command tags, SRBs, the inbound post queue, *)
(* the adapter, the outbound reply queue and the handler that completes    *)
(* requests (ArcMSRSCSI.cpp, and the tag and SRB code of                   *)
(* ArcMSRController.cpp and ArcMSRControllerIO.cpp).                       *)
(*                                                                         *)
(* Three kinds of actors interleave.  Requests arrive from the SCSI stack  *)
(* on threads of their own and run ProcessParallelTask, which enters the   *)
(* command gate only to take a tag and to post the SRB.  The adapter       *)
(* executes posted SRBs in any order.  The workloop runs the post queue    *)
(* interrupt handler with the gate closed from its first reply to its      *)
(* last.  The stack itself is external: it bounds the requests it has      *)
(* outstanding by ReportMaximumTaskCount and may give up on one.           *)
(***************************************************************************)
EXTENDS SRBAddress, Sequences, FiniteSets

CONSTANTS
    Tasks,        \* the requests the stack makes (SCSIParallelTaskIdentifier)
    NoTask,       \* the NULL request
    SegCounts,    \* the numbers of S/G segments a data buffer may map to
    Requests,     \* the requests that are made: a flattened target, a data buffer
    SmallSG,      \* the S/G entries that fit in a 256 byte frame (26)
    Errors,       \* the device_status codes the adapter may report
    BadWords,     \* words outside the SRB pool the adapter may queue
    MaxTimeouts,  \* bound: requests the stack gives up on
    Reentrant     \* may a completion submit the next request on the workloop?

ASSUME SRBEngineAssumption ==
    /\ NoTask \notin Tasks
    /\ SegCounts \subseteq Nat /\ SmallSG \in Nat
    /\ Requests \subseteq [target : 0 .. 127, segs : SegCounts]
    /\ Errors \subseteq {"check_condition", "select_timeout", "aborted",
                          "init_fail", "scsi_status"}
    /\ BadWords \subseteq 0 .. WordSize - 2
    /\ \A w \in BadWords : ReplyPhys(w) < SRBPhys \/ ReplyPhys(w) >= PoolEnd
    /\ MaxTimeouts \in Nat
    /\ Reentrant \in BOOLEAN

VARIABLES
    freeSRB,   \* the ring of free tags, oldest first
    srb,       \* the SRB memory, shared with the adapter
    posted,    \* SRBs posted to the adapter and not answered yet
    replies,   \* the outbound queue port, oldest first
    postInt,   \* ARCMSR_MU_OUTBOUND_POSTQUEUE_INT is asserted
    handler,   \* the workloop in handlePostQueueInterrupt
    pc,        \* how far each request is
    tag,       \* the local variable tag of ProcessParallelTask
    live,      \* the requests the stack has outstanding
    req,       \* what each request asks for
    ident,     \* the controller task identifier of each request
    nested,    \* the request being submitted from inside a completion
    timeouts   \* how many requests the stack has given up on

vars == <<freeSRB, srb, posted, replies, postInt, handler, pc, tag, live,
          req, ident, nested, timeouts>>

ioVars    == <<srb, posted, replies, postInt>>
stackVars == <<live, req, ident, timeouts>>

NoTag == -1

\* What the driver makes of a word that is not the address of an SRB.
BadTags == {ReplyTag(w) : w \in BadWords}

(***************************************************************************)
(* Target/LUN mapping: the stack sees one flat target space.               *)
(***************************************************************************)
MaxTargetLun              == 8
TargetLun2ScsiTarget(t, l) == t * MaxTargetLun + l
ScsiTarget2Target(st)      == st \div MaxTargetLun
LunIsFlatTarget(st)        == st        \* mutant: the modulo forgotten
ScsiTarget2Lun(st)         == st % MaxTargetLun

(***************************************************************************)
(* What the adapter reports about a request it has executed: "good", or an *)
(* error whose code it leaves in device_status.                            *)
(***************************************************************************)
Outcomes == Errors \cup {"good"}

NoRequest == [target |-> -1, segs |-> 0]
SRBs     == [target : 0 .. 15, lun : 0 .. MaxTargetLun - 1,
             sg_count : SegCounts, large : BOOLEAN, device_status : Errors]
Posts    == [tag : Tags, task : Tasks, large : BOOLEAN]
Replies  == [tag : Tags \cup BadTags, task : Tasks \cup {NoTask},
             outcome : Outcomes]

Idle     == [pc |-> "idle"]
Draining == [pc |-> "drain"]

(***************************************************************************)
(* The result half of a reply, as the handler turns it into a task status, *)
(* a service response, autosense data and a realized transfer count.       *)
(***************************************************************************)

\* Mutant: device_status looked at without checking the reply's error flag.
TaskResultUnflagged(error, device_status) ==
    [status   |-> device_status,
     response |-> "task_complete",
     sense    |-> device_status = "check_condition",
     realized |-> IF error THEN "unset" ELSE "all"]

TaskResult(error, device_status) ==
    LET Done(status, response) ==
          [status   |-> status,
           response |-> response,
           sense    |-> error /\ device_status = "check_condition",
           realized |-> IF error THEN "unset" ELSE "all"]
    IN  IF ~error THEN Done("good", "task_complete")
        ELSE CASE device_status = "select_timeout" ->
                    Done("device_not_present", "delivery_failure")
               [] device_status \in {"aborted", "init_fail"} ->
                    Done("delivery_failure", "delivery_failure")
               [] OTHER -> Done(device_status, "task_complete")

Results == [status   : {"good", "device_not_present", "delivery_failure"} \cup Errors,
            response : {"task_complete", "delivery_failure"},
            sense    : BOOLEAN,
            realized : {"unset", "all"}]

-----------------------------------------------------------------------------
(* Initially every tag is free.  The pool is fresh memory that nothing     *)
(* clears, so an SRB may hold any S/G count and any status.                *)

Init ==
    /\ freeSRB = [i \in 1 .. MaxSRB |-> i - 1]
    /\ \E n \in SegCounts, e \in Errors :
         srb = [g \in Tags |-> [target |-> 0, lun |-> 0, sg_count |-> n,
                                large |-> FALSE, device_status |-> e]]
    /\ posted = {} /\ replies = <<>> /\ postInt = FALSE
    /\ handler = Idle
    /\ pc = [t \in Tasks |-> "idle"]
    /\ tag = [t \in Tasks |-> NoTag]
    /\ live = {}
    /\ req = [t \in Tasks |-> NoRequest]
    /\ ident = [t \in Tasks |-> NoTag]
    /\ nested = NoTask
    /\ timeouts = 0

(***************************************************************************)
(* The command gate.  The workloop holds it while it drains the reply      *)
(* queue; a request submitted from inside CompleteParallelTask runs on the *)
(* workloop and passes the gate recursively.                               *)
(***************************************************************************)
GateIgnored(t)  == TRUE                  \* mutant: getTag without the gate
MayEnterGate(t) == handler.pc = "idle" \/ nested = t

LeaveNested(t) == nested' = IF nested = t THEN NoTask ELSE nested

\* returnTag.  The insertion is refused, with nobody looking, when the ring is full.
returnTag(g) ==
    freeSRB' = IF Len(freeSRB) < MaxSRB THEN Append(freeSRB, g) ELSE freeSRB

-----------------------------------------------------------------------------
(* The SCSI stack (external).                                              *)

\* The stack has no further use for request t and clears it.
Release(t) ==
    /\ live' = live \ {t}
    /\ req' = [req EXCEPT ![t] = NoRequest]
    /\ ident' = [ident EXCEPT ![t] = NoTag]

\* The stack starts a request for which it has a free task slot.
Submit(t, r) ==
    /\ pc[t] = "idle"
    /\ Cardinality(live) < MaxSRB
    /\ live' = live \cup {t}
    /\ req' = [req EXCEPT ![t] = r]
    /\ pc' = [pc EXCEPT ![t] = "getTag"]
    /\ UNCHANGED <<ioVars, freeSRB, handler, tag, ident, timeouts>>

SubmitOnThread(t, r) == Submit(t, r) /\ UNCHANGED nested

SubmitInCompletion(t, r) ==
    /\ Reentrant /\ handler.pc = "complete" /\ nested = NoTask
    /\ Submit(t, r)
    /\ nested' = t

\* Mutant: the timeout takes the tag back from the adapter.
HandleTimeoutRecycling(t) ==
    /\ handler.pc = "idle"
    /\ pc[t] = "inProcess"
    /\ timeouts < MaxTimeouts
    /\ timeouts' = timeouts + 1
    /\ returnTag(ident[t])
    /\ Release(t)
    /\ pc' = [pc EXCEPT ![t] = "abandoned"]
    /\ UNCHANGED <<ioVars, handler, tag, nested>>

\* The stack times a request out.  HandleTimeout does nothing: the tag stays
\* with the adapter.  (Timeouts are seconds long: none strikes while
\* ProcessParallelTask is still on its way to the port.)
HandleTimeout(t) ==
    /\ handler.pc = "idle"
    /\ pc[t] = "inProcess"
    /\ timeouts < MaxTimeouts
    /\ timeouts' = timeouts + 1
    /\ Release(t)
    /\ pc' = [pc EXCEPT ![t] = "abandoned"]
    /\ UNCHANGED <<ioVars, freeSRB, handler, tag, nested>>

-----------------------------------------------------------------------------
(* ProcessParallelTask, one action per step between two gate crossings.    *)

\* getTag, and the rejection of a request that finds no tag.
GetTag(t) ==
    /\ pc[t] = "getTag"
    /\ MayEnterGate(t)
    /\ \/ /\ freeSRB # <<>>
          /\ tag' = [tag EXCEPT ![t] = Head(freeSRB)]
          /\ freeSRB' = Tail(freeSRB)
          /\ pc' = [pc EXCEPT ![t] = "build"]
          /\ UNCHANGED <<live, req, ident, nested>>
       \/ /\ freeSRB = <<>>
          /\ Release(t)
          /\ pc' = [pc EXCEPT ![t] = "idle"]
          /\ LeaveNested(t)
          /\ UNCHANGED <<freeSRB, tag>>
    /\ UNCHANGED <<ioVars, handler, timeouts>>

\* Mutant: the first segment does not reset sg_count.
GenSegmentsOntoOld(s, n) ==
    IF n = 0 THEN s
    ELSE [s EXCEPT !.sg_count = @ + n, !.large = s.sg_count + n > SmallSG]

\* outputArcMSRSegment for each of the n segments of the data buffer: the
\* first one resets sg_count, so with no segment at all it keeps its value.
GenSegments(s, n) ==
    IF n = 0 THEN s
    ELSE [s EXCEPT !.sg_count = n, !.large = n > SmallSG]

BuildSRB(t) ==
    /\ pc[t] = "build"
    /\ LET addressed ==
             [srb[tag[t]] EXCEPT !.target = ScsiTarget2Target(req[t].target),
                                 !.lun    = ScsiTarget2Lun(req[t].target),
                                 !.large  = FALSE]
       IN  srb' = [srb EXCEPT ![tag[t]] = GenSegments(addressed, req[t].segs)]
    /\ pc' = [pc EXCEPT ![t] = "identify"]
    /\ UNCHANGED <<freeSRB, posted, replies, postInt, handler, tag, stackVars,
                   nested>>

\* SetControllerTaskIdentifier: the SRB's address names the request.
SetTaskIdentifier(t) ==
    /\ pc[t] = "identify"
    /\ ident' = [ident EXCEPT ![t] = tag[t]]
    /\ pc' = [pc EXCEPT ![t] = "post"]
    /\ UNCHANGED <<ioVars, freeSRB, handler, tag, live, req, nested, timeouts>>

\* postSRB.  The word written to the port carries the SRB's address and the
\* frame size; posted also remembers whose request it is.  The function
\* returns: its local variable tag is gone.
PostSRB(t) ==
    /\ pc[t] = "post"
    /\ MayEnterGate(t)
    /\ posted' = posted \cup {[tag |-> tag[t], task |-> t,
                               large |-> srb[tag[t]].large]}
    /\ pc' = [pc EXCEPT ![t] = "inProcess"]
    /\ tag' = [tag EXCEPT ![t] = NoTag]
    /\ LeaveNested(t)
    /\ UNCHANGED <<freeSRB, srb, replies, postInt, handler, stackVars>>

-----------------------------------------------------------------------------
(* The adapter (external).                                                 *)

\* The adapter finishes any posted SRB and queues the reply, the word it was
\* posted with less its flag; the reply names the tag the handler will find in
\* it.  It writes device_status only when the reply has the error flag.
AdapterReply(p, o) ==
    /\ p \in posted
    /\ posted' = posted \ {p}
    /\ srb' = IF o = "good" THEN srb
              ELSE [srb EXCEPT ![p.tag].device_status = o]
    /\ LET word == ReplyWord(PostWord(p.tag, p.large), o # "good")
       IN  replies' = Append(replies, [tag     |-> ReplyTag(word),
                                       task    |-> p.task,
                                       outcome |-> o])
    /\ postInt' = TRUE
    /\ UNCHANGED <<freeSRB, handler, pc, tag, stackVars, nested>>

\* The adapter queues a word that is not the address of an SRB.
AdapterSpurious(g) ==
    /\ g \in BadTags
    /\ \A i \in 1 .. Len(replies) : replies[i].tag \in Tags
    /\ replies' = Append(replies, [tag |-> g, task |-> NoTask, outcome |-> "good"])
    /\ postInt' = TRUE
    /\ UNCHANGED <<freeSRB, srb, posted, handler, pc, tag, stackVars, nested>>

-----------------------------------------------------------------------------
(* The workloop.                                                           *)

\* HandleInterruptRequest acknowledges the status, then drains the queue.
HandleInterruptRequest ==
    /\ handler.pc = "idle"
    /\ postInt
    /\ postInt' = FALSE
    /\ handler' = Draining
    /\ UNCHANGED <<freeSRB, srb, posted, replies, pc, tag, stackVars, nested>>

\* The queue port reads 0xffffffff: the handler is done, the gate opens.
QueueEmpty ==
    /\ handler.pc = "drain"
    /\ replies = <<>>
    /\ handler' = Idle
    /\ UNCHANGED <<ioVars, freeSRB, pc, tag, stackVars, nested>>

\* Mutant: the lookup forgets that LUNs are flattened into targets.
FindTaskOnLunZero(g) ==
    {t \in live : /\ ident[t] = g
                  /\ req[t].target = TargetLun2ScsiTarget(srb[g].target, 0)}

\* Mutant: the lookup compares the target and not the SRB.
FindTaskOnTarget(g) ==
    {t \in live : /\ ident[t] # NoTag
                  /\ req[t].target = TargetLun2ScsiTarget(srb[g].target, srb[g].lun)}

\* FindTaskForControllerIdentifier(target of the SRB, address of the SRB).
FindTask(g) ==
    {t \in live : /\ ident[t] = g
                  /\ req[t].target = TargetLun2ScsiTarget(srb[g].target, srb[g].lun)}

\* Mutant: the handler returns at a bad reply instead of going on.
DropReplyAndReturn ==
    /\ handler.pc = "drain" /\ replies # <<>>
    /\ Head(replies).tag \notin Tags
    /\ replies' = Tail(replies)
    /\ handler' = Idle
    /\ UNCHANGED <<freeSRB, srb, posted, postInt, pc, tag, stackVars, nested>>

\* A reply that names no SRB is dropped.
DropReply ==
    /\ handler.pc = "drain" /\ replies # <<>>
    /\ Head(replies).tag \notin Tags
    /\ replies' = Tail(replies)
    /\ UNCHANGED <<freeSRB, srb, posted, postInt, handler, pc, tag, stackVars,
                   nested>>

\* Mutant: the tag of a timed out request is never recycled.
RecycleTagNever ==
    /\ handler.pc = "drain" /\ replies # <<>>
    /\ LET reply == Head(replies)
       IN  /\ reply.tag \in Tags
           /\ FindTask(reply.tag) = {}
           /\ pc' = [pc EXCEPT ![reply.task] = "idle"]
    /\ replies' = Tail(replies)
    /\ UNCHANGED <<freeSRB, srb, posted, postInt, handler, tag, stackVars, nested>>

\* A reply whose request is gone: it must have been timed out, so its tag is
\* recycled now.  (The stack may use the abandoned request's name again.)
RecycleTag ==
    /\ handler.pc = "drain" /\ replies # <<>>
    /\ LET reply == Head(replies)
       IN  /\ reply.tag \in Tags
           /\ FindTask(reply.tag) = {}
           /\ returnTag(reply.tag)
           /\ pc' = [pc EXCEPT ![reply.task] = "idle"]
    /\ replies' = Tail(replies)
    /\ UNCHANGED <<srb, posted, postInt, handler, tag, stackVars, nested>>

\* A reply for a request: complete it with the status the reply stands for.
CompleteParallelTask ==
    /\ handler.pc = "drain" /\ replies # <<>>
    /\ LET reply == Head(replies)
       IN  /\ reply.tag \in Tags
           /\ \E t \in FindTask(reply.tag) :
                /\ Release(t)
                /\ pc' = [pc EXCEPT ![t] = "idle"]
                /\ handler' = [pc     |-> "complete",
                               task   |-> t,
                               reply  |-> reply,
                               result |-> TaskResult(reply.outcome # "good",
                                                     srb[reply.tag].device_status)]
    /\ replies' = Tail(replies)
    /\ UNCHANGED <<freeSRB, srb, posted, postInt, tag, nested, timeouts>>

\* Mutant: one reply per interrupt, no loop around the queue port.
FinishReplyAndReturn ==
    /\ handler.pc = "complete"
    /\ nested = NoTask
    /\ returnTag(handler.reply.tag)
    /\ handler' = Idle
    /\ UNCHANGED <<ioVars, pc, tag, stackVars, nested>>

\* Only after CompleteParallelTask has returned is the tag given back.
FinishReply ==
    /\ handler.pc = "complete"
    /\ nested = NoTask
    /\ returnTag(handler.reply.tag)
    /\ handler' = Draining
    /\ UNCHANGED <<ioVars, pc, tag, stackVars, nested>>

-----------------------------------------------------------------------------
Stack ==
    \E t \in Tasks :
        \/ \E r \in Requests : SubmitOnThread(t, r) \/ SubmitInCompletion(t, r)
        \/ HandleTimeout(t)

ProcessParallelTask(t) ==
    GetTag(t) \/ BuildSRB(t) \/ SetTaskIdentifier(t) \/ PostSRB(t)

Adapter ==
    \/ \E p \in posted, o \in Outcomes : AdapterReply(p, o)
    \/ \E g \in BadTags : AdapterSpurious(g)

Workloop ==
    HandleInterruptRequest \/ QueueEmpty \/ DropReply \/ RecycleTag
        \/ CompleteParallelTask \/ FinishReply

Next ==
    Stack \/ (\E t \in Tasks : ProcessParallelTask(t)) \/ Adapter \/ Workloop

Spec == Init /\ [][Next]_vars

(***************************************************************************)
(* The workloop thread and the threads inside ProcessParallelTask are      *)
(* never stopped, and a thread waiting for the command gate gets it if the *)
(* gate opens again and again.  A completion returns to the handler: the   *)
(* stack does not submit requests from inside a single one for ever.       *)
(*                                                                         *)
(* AnswerFairness and DrainsEnd are assumed only where a property says so. *)
(* The adapter answers every SRB in the end; and every drain of the reply  *)
(* queue comes to an end, which the code does not see to: words that keep  *)
(* coming, or a request that each completion submits again and the adapter *)
(* answers at once, would hold the gate closed for ever (the loop at       *)
(* ArcMSRSCSI.cpp:199 has no bound).                                       *)
(***************************************************************************)
DriverFairness ==
    /\ WF_vars(Workloop) /\ SF_vars(FinishReply)
    /\ \A t \in Tasks :
         /\ WF_vars(BuildSRB(t) \/ SetTaskIdentifier(t))
         /\ SF_vars(GetTag(t)) /\ SF_vars(PostSRB(t))

AnswerFairness ==
    \A t \in Tasks :
        WF_vars(\E p \in posted, o \in Outcomes : p.task = t /\ AdapterReply(p, o))

DrainsEnd == []<>(handler.pc = "idle")

FairSpec == Spec /\ DriverFairness

-----------------------------------------------------------------------------
(* Properties.                                                             *)

TypeOK ==
    /\ freeSRB \in Seq(Tags)
    /\ srb \in [Tags -> SRBs]
    /\ posted \subseteq Posts
    /\ replies \in Seq(Replies)
    /\ postInt \in BOOLEAN
    /\ handler \in {Idle, Draining}
                     \cup [pc : {"complete"}, task : Tasks, reply : Replies,
                           result : Results]
    /\ pc \in [Tasks -> {"idle", "getTag", "build", "identify", "post",
                         "inProcess", "abandoned"}]
    /\ tag \in [Tasks -> Tags \cup {NoTag}]
    /\ live \subseteq Tasks
    /\ req \in [Tasks -> Requests \cup {NoRequest}]
    /\ ident \in [Tasks -> Tags \cup {NoTag}]
    /\ nested \in Tasks \cup {NoTask}
    /\ timeouts \in 0 .. MaxTimeouts

(***************************************************************************)
(* Where a tag can be.                                                     *)
(***************************************************************************)
Building(t) == pc[t] \in {"build", "identify", "post"}

Free(g)      == \E i \in 1 .. Len(freeSRB) : freeSRB[i] = g
Held(g)      == \E t \in Tasks : Building(t) /\ tag[t] = g
AtAdapter(g) == \E p \in posted : p.tag = g
Replied(g)   == \E i \in 1 .. Len(replies) : replies[i].tag = g
Finishing(g) == handler.pc = "complete" /\ handler.reply.tag = g

\* A tag is never lost: it is free, with a request being built, with the
\* adapter, in the reply queue or with the handler.
NoTagLost ==
    \A g \in Tags : Free(g) \/ Held(g) \/ AtAdapter(g) \/ Replied(g) \/ Finishing(g)

\* A tag is in one place only and there once: an SRB is never rebuilt or
\* handed out while the adapter may still update it or return its tag
\* (the rule HandleTimeout's comment states, ArcMSRSCSI.cpp:281-284).
NoTagShared ==
    /\ \A i, j \in 1 .. Len(freeSRB) : freeSRB[i] = freeSRB[j] => i = j
    /\ \A t, u \in Tasks :
         Building(t) /\ Building(u) /\ tag[t] = tag[u] => t = u
    /\ \A p, q \in posted : p.tag = q.tag => p = q
    /\ \A i, j \in 1 .. Len(replies) :
         replies[i].tag \in Tags /\ replies[i].tag = replies[j].tag => i = j
    /\ \A g \in Tags :
         /\ Free(g)      => ~(Held(g) \/ AtAdapter(g) \/ Replied(g) \/ Finishing(g))
         /\ Held(g)      => ~(AtAdapter(g) \/ Replied(g) \/ Finishing(g))
         /\ AtAdapter(g) => ~(Replied(g) \/ Finishing(g))
         /\ Replied(g)   => ~Finishing(g)

\* The handler completes the request whose SRB the reply answers, with the
\* outcome of that request: never that of a previous user of the tag.
CompletesItsOwner ==
    handler.pc = "complete" =>
        LET outcome == handler.reply.outcome
        IN  /\ handler.task = handler.reply.task
            /\ handler.result = TaskResult(outcome # "good", outcome)

\* A lookup that finds no request means the stack gave up on it
\* (ArcMSRSCSI.cpp:221): a live request's reply is never thrown away.
MissMeansTimeout ==
    \A i \in 1 .. Len(replies) :
        LET reply == replies[i]
        IN  reply.tag \in Tags =>
              IF pc[reply.task] = "abandoned" THEN FindTask(reply.tag) = {}
              ELSE FindTask(reply.tag) = {reply.task}

\* The S/G list of a posted SRB with data is the list of its request, and the
\* frame size announced with it covers that list.
PostedFrameFits ==
    \A p \in posted :
        req[p.task].segs > 0 /\ pc[p.task] # "abandoned" =>
            /\ srb[p.tag].sg_count = req[p.task].segs
            /\ p.large <=> srb[p.tag].sg_count > SmallSG

\* "XXX should never happen" (ArcMSRSCSI.cpp:110), and this is when it does: a
\* request the stack was allowed to start finds no tag only because a request
\* that was given up on still has one, or because it was itself submitted from
\* inside the completion whose tag is not given back yet.  The handler's own
\* late returnTag (ArcMSRSCSI.cpp:267-270) is hidden from every other thread.
OverrunHasCause ==
    \A t \in Tasks :
        pc[t] = "getTag" /\ MayEnterGate(t) /\ freeSRB = <<>> =>
            nested = t \/ \E u \in Tasks : pc[u] = "abandoned"

(***************************************************************************)
(* The service behind the tags.  A job is what the adapter finds in the    *)
(* SRB it was told to fetch, an answer what the handler will make of the   *)
(* reply and of the status in its SRB.                                     *)
(***************************************************************************)
JobOf(p) ==
    [task   |-> p.task,
     target |-> TargetLun2ScsiTarget(srb[p.tag].target, srb[p.tag].lun),
     list   |-> srb[p.tag].sg_count,
     large  |-> p.large]

AnswerOf(r) ==
    [task   |-> r.task,
     result |-> TaskResult(r.outcome # "good", srb[r.tag].device_status)]

Answered == {i \in 1 .. Len(replies) : replies[i].tag \in Tags}

Jobs    == {JobOf(p) : p \in posted}
Answers == {AnswerOf(replies[i]) : i \in Answered}
Report  == IF handler.pc = "complete"
           THEN {[task |-> handler.task, result |-> handler.result]} ELSE {}

ResultOf == [o \in Outcomes |-> TaskResult(o # "good", o)]

Service ==
    INSTANCE TaskService WITH request <- req, jobs <- Jobs, answers <- Answers,
                              report <- Report, Slots <- MaxSRB

\* Tags, SRB memory and port words together keep the promise of TaskService:
\* the adapter is told exactly what was asked, never has more than it can take,
\* and each request the stack still wants is completed once, with its own result.
ImplementsService == Service!Spec

\* A reply in the outbound queue gives its tag back in the end, whatever the
\* adapter does next: no reply is left behind by the interrupt that announced it.
ReplyFreesTag ==
    \A g \in Tags : Replied(g) ~> Free(g)

\* Every request that enters the driver is completed or rejected, requests that
\* completions submit included, if the adapter answers every SRB in the end and
\* every drain of the reply queue ends.  Without the second premise it is false: a
\* request waiting at the gate for its tag waits as long as one drain goes on.
RequestCompletes ==
    AnswerFairness /\ DrainsEnd => \A t \in Tasks : pc[t] = "getTag" ~> pc[t] = "idle"
=============================================================================
