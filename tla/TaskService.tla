----------------------------- MODULE TaskService -----------------------------
(***************************************************************************)
(* What the I/O path promises the SCSI stack.  A request that is accepted  *)
(* is handed to the adapter once, as it was asked for; what the adapter    *)
(* makes of it is reported once, as its own result, unless the stack gave  *)
(* up on the request in between.  Nothing is said of tags, SRBs, addresses *)
(* or queues.                                                              *)
(***************************************************************************)
EXTENDS Naturals, FiniteSets

CONSTANTS
    Tasks,      \* the requests, by name
    Requests,   \* what a request may ask for: a target and a data buffer
    NoRequest,  \* what a name stands for while the stack does not use it
    SegCounts,  \* the numbers of S/G segments a data buffer may map to
    SmallSG,    \* the S/G entries of a small frame
    Slots,      \* how many requests the adapter can have
    Outcomes,   \* what may come of a request
    ResultOf    \* the result the stack is to be given for each outcome

VARIABLES
    request,    \* what the stack wants, by name
    jobs,       \* what the adapter has been told to do
    answers,    \* what it has done and nobody was told yet
    report      \* the completion under way, if there is one

vars == <<request, jobs, answers, report>>

Wanted(t) == request[t] # NoRequest

\* The requests the adapter has, or has answered.
Out == {j.task : j \in jobs} \cup {a.task : a \in answers}

Init ==
    /\ request = [t \in Tasks |-> NoRequest]
    /\ jobs = {} /\ answers = {} /\ report = {}

Accept(t, r) ==
    /\ ~Wanted(t)
    /\ request' = [request EXCEPT ![t] = r]
    /\ t \notin Out
    /\ UNCHANGED <<jobs, answers, report>>

\* No resources are left: only while something holds them that the stack does
\* not count, a request it gave up on or one whose completion is under way.
Refuse(t) ==
    /\ Wanted(t)
    /\ request' = [request EXCEPT ![t] = NoRequest]
    /\ t \notin Out
    /\ report # {} \/ \E u \in Out : ~Wanted(u)
    /\ UNCHANGED <<jobs, answers, report>>

\* The adapter gets the request's target and S/G list and the size of the
\* frame they are in; the list of a request without data is anything.
HandOver(t, list) ==
    /\ Wanted(t)
    /\ request[t].segs > 0 => list = request[t].segs
    /\ jobs' = jobs \cup {[task   |-> t,
                           target |-> request[t].target,
                           list   |-> list,
                           large  |-> request[t].segs > SmallSG]}
    /\ t \notin Out /\ Cardinality(Out) < Slots
    /\ UNCHANGED <<request, answers, report>>

\* The adapter is free in the order of its jobs.
Perform(j, o) ==
    /\ j \in jobs
    /\ jobs' = jobs \ {j}
    /\ answers' = answers \cup {[task |-> j.task, result |-> ResultOf[o]]}
    /\ UNCHANGED <<request, report>>

GiveUp(t) ==
    /\ Wanted(t)
    /\ request' = [request EXCEPT ![t] = NoRequest]
    /\ t \in Out
    /\ UNCHANGED <<jobs, answers, report>>

Complete(a) ==
    /\ a \in answers /\ Wanted(a.task)
    /\ report = {} /\ report' = {a}
    /\ answers' = answers \ {a}
    /\ request' = [request EXCEPT ![a.task] = NoRequest]
    /\ UNCHANGED jobs

\* The answer to a request that was given up on is for nobody.
Discard(a) ==
    /\ a \in answers /\ ~Wanted(a.task)
    /\ answers' = answers \ {a}
    /\ UNCHANGED <<request, jobs, report>>

Completed ==
    /\ report # {} /\ report' = {}
    /\ UNCHANGED <<request, jobs, answers>>

Next ==
    \/ \E t \in Tasks :
         \/ \E r \in Requests : Accept(t, r)
         \/ \E list \in SegCounts : HandOver(t, list)
         \/ Refuse(t) \/ GiveUp(t)
    \/ \E j \in jobs, o \in Outcomes : Perform(j, o)
    \/ \E a \in answers : Complete(a) \/ Discard(a)
    \/ Completed

Spec == Init /\ [][Next]_vars
=============================================================================
