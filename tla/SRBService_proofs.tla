-------------------------- MODULE SRBService_proofs --------------------------
(***************************************************************************)
(* The I/O path keeps the promise of TaskService.  On the way: the frame   *)
(* the adapter is told to fetch holds the S/G list of its request, and the *)
(* pool runs out of tags only for the two reasons OverrunHasCause names.   *)
(***************************************************************************)
EXTENDS SRBEngine_proofs

(***************************************************************************)
(* A frame is right from BuildSRB until its reply is queued.  If the       *)
(* request has no data its SRB keeps the S/G count of an earlier one.      *)
(***************************************************************************)
FrameBuilt(g, t) ==
    /\ req[t].segs > 0 => srb[g].sg_count = req[t].segs
    /\ srb[g].large = (req[t].segs > SmallSG)

FramesFit ==
    /\ \A t \in Tasks : pc[t] \in {"identify", "post"} => FrameBuilt(tag[t], t)
    /\ \A p \in posted :
         pc[p.task] # "abandoned" => /\ FrameBuilt(p.tag, p.task)
                                     /\ p.large = srb[p.tag].large

\* A frame stays right while its SRB, its request and the request's state do.
LEMMA FramesKeep ==
  ASSUME FramesFit, posted' \subseteq posted,
         \A t \in Tasks : pc'[t] \in {"identify", "post"} =>
             /\ pc[t] \in {"identify", "post"}
             /\ tag'[t] = tag[t] /\ req'[t] = req[t] /\ srb'[tag[t]] = srb[tag[t]],
         \A p \in posted' : pc'[p.task] # "abandoned" =>
             /\ pc[p.task] # "abandoned"
             /\ req'[p.task] = req[p.task]
             /\ srb'[p.tag].sg_count = srb[p.tag].sg_count
             /\ srb'[p.tag].large = srb[p.tag].large
  PROVE  FramesFit'
BY DEF FramesFit, FrameBuilt

\* BuildSRB gives the SRB the S/G count of the request and the flag for it.
LEMMA BuildFits ==
  ASSUME IInv, FramesFit, NEW t \in Tasks, BuildSRB(t)
  PROVE  FramesFit'
<1> USE SRBEngineAssumption DEF SRBEngineAssumption
<1> DEFINE g == tag[t]
           n == req[t].segs
           a == [srb[g] EXCEPT !.target = ScsiTarget2Target(req[t].target),
                               !.lun    = ScsiTarget2Lun(req[t].target),
                               !.large  = FALSE]
<1>0. /\ UNCHANGED <<posted, tag, req>>
      /\ pc[t] = "build" /\ pc' = [pc EXCEPT ![t] = "identify"]
      /\ srb' = [srb EXCEPT ![g] = GenSegments(a, n)]
  BY DEF BuildSRB, stackVars
<1>t. TypeOK
  BY DEF IInv
<1>1. g \in Tags /\ Held(g)
  BY <1>0 DEF IInv, IdentInSync, Building, Held
<1>2. n \in Nat
  BY <1>0, SRBEngineAssumption DEF SRBEngineAssumption, IInv, StackInSync
<1>3. /\ n > 0 => srb'[g].sg_count = n
      /\ srb'[g].large = (n > SmallSG)
  <2>1. srb[g] \in SRBs
    BY <1>1, <1>t DEF TypeOK
  <2>2. a.sg_count = srb[g].sg_count /\ DOMAIN a = DOMAIN srb[g]
    BY <2>1 DEF SRBs
  <2>3. DOMAIN a = {"target", "lun", "sg_count", "large", "device_status"}
    BY <2>1, <2>2 DEF SRBs
  <2> HIDE DEF a
  <2>4. srb'[g] = IF n = 0 THEN a ELSE [a EXCEPT !.sg_count = n, !.large = n > SmallSG]
    BY <1>0, <1>1, <1>t DEF TypeOK, GenSegments
  <2>5. CASE n = 0
    <3>1. a.large = FALSE
      BY <2>1 DEF a, SRBs
    <3>2. srb'[g] = a
      BY <2>4, <2>5
    <3>3. ~(n > SmallSG) /\ ~(n > 0)
      BY <2>5
    <3>4. (n > SmallSG) = FALSE
      BY <3>3
    <3> QED
      BY <3>1, <3>2, <3>3, <3>4, Zenon
  <2>6. CASE n # 0
    BY <1>2, <2>3, <2>4, <2>6
  <2> QED
    BY <2>5, <2>6
<1>4. \A h : h # g => srb'[h] = srb[h]
  BY <1>0, <1>t DEF TypeOK
<1>5. \A u \in Tasks : Building(u) /\ u # t => tag[u] # g
  BY <1>0 DEF IInv, NoTagShared, Building
<1>6. \A p \in posted : p.tag # g
  BY <1>1 DEF IInv, NoTagShared, AtAdapter
<1>7. \A u \in Tasks : pc'[u] \in {"identify", "post"} => FrameBuilt(tag[u], u)'
  <2> SUFFICES ASSUME NEW u \in Tasks, pc'[u] \in {"identify", "post"}
               PROVE  FrameBuilt(tag[u], u)'
    OBVIOUS
  <2>1. CASE u = t
    BY <1>0, <1>3, <2>1 DEF FrameBuilt
  <2>2. CASE u # t
    <3>1. pc[u] \in {"identify", "post"} /\ Building(u)
      BY <1>0, <1>t, <2>2 DEF TypeOK, Building
    <3> QED
      BY <1>0, <1>4, <1>5, <2>2, <3>1 DEF FramesFit, FrameBuilt
  <2> QED
    BY <2>1, <2>2
<1>8. \A p \in posted : pc[p.task] = "abandoned" => pc'[p.task] = "abandoned"
  BY <1>0, <1>t DEF TypeOK
<1> QED
  BY <1>0, <1>4, <1>6, <1>7, <1>8 DEF FramesFit, FrameBuilt

\* The word written to the port announces the frame that was built.
LEMMA PostFits ==
  ASSUME IInv, FramesFit, NEW t \in Tasks, PostSRB(t)
  PROVE  FramesFit'
<1> DEFINE p == [tag |-> tag[t], task |-> t, large |-> srb[tag[t]].large]
<1>0. /\ UNCHANGED <<srb, req>>
      /\ pc[t] = "post" /\ pc' = [pc EXCEPT ![t] = "inProcess"]
      /\ posted' = posted \cup {p}
      /\ tag' = [tag EXCEPT ![t] = NoTag]
  BY DEF PostSRB, stackVars
<1>t. TypeOK
  BY DEF IInv
<1>1. \A u \in Tasks : pc'[u] \in {"identify", "post"} => FrameBuilt(tag[u], u)'
  <2> SUFFICES ASSUME NEW u \in Tasks, pc'[u] \in {"identify", "post"}
               PROVE  FrameBuilt(tag[u], u)'
    OBVIOUS
  <2>1. u # t /\ pc[u] = pc'[u] /\ tag'[u] = tag[u]
    BY <1>0, <1>t DEF TypeOK
  <2> QED
    BY <1>0, <2>1 DEF FramesFit, FrameBuilt
<1>2. FrameBuilt(p.tag, p.task) /\ p.large = srb[p.tag].large
  BY <1>0 DEF FramesFit
<1>3. \A q \in posted : q.task # t /\ pc'[q.task] = pc[q.task]
  BY <1>0, <1>t DEF IInv, EntriesOwned, Owned, TypeOK
<1> HIDE DEF p
<1>4. \A q \in posted' : pc'[q.task] # "abandoned" => /\ FrameBuilt(q.tag, q.task)
                                                      /\ q.large = srb[q.tag].large
  BY <1>0, <1>2, <1>3 DEF FramesFit
<1> QED
  BY <1>0, <1>1, <1>4 DEF FramesFit, FrameBuilt

\* No other step writes the S/G half of an SRB that is built or posted.
LEMMA FramesStep ==
  ASSUME IInv, FramesFit, [Next]_vars
  PROVE  FramesFit'
<1>t. TypeOK
  BY DEF IInv
<1>p. \A p \in posted : p.task \in Tasks /\ pc[p.task] \in {"inProcess", "abandoned"}
  BY DEF IInv, EntriesOwned, Owned
<1>1. ASSUME NEW t \in Tasks, NEW r \in Requests, Submit(t, r) PROVE FramesFit'
  <2>1. /\ UNCHANGED <<srb, posted, tag>>
        /\ pc[t] = "idle" /\ pc' = [pc EXCEPT ![t] = "getTag"]
        /\ req' = [req EXCEPT ![t] = r]
    BY <1>1 DEF Submit, ioVars
  <2> QED
    BY <1>t, <1>p, <2>1, FramesKeep DEF TypeOK
<1>2. ASSUME NEW t \in Tasks, HandleTimeout(t) PROVE FramesFit'
  <2>1. /\ UNCHANGED <<srb, posted, tag>>
        /\ pc[t] = "inProcess" /\ pc' = [pc EXCEPT ![t] = "abandoned"]
        /\ req' = [req EXCEPT ![t] = NoRequest]
    BY <1>2 DEF HandleTimeout, Release, ioVars
  <2> QED
    BY <1>t, <1>p, <2>1, FramesKeep DEF TypeOK
<1>3. ASSUME NEW t \in Tasks, GetTag(t) PROVE FramesFit'
  <2>1. UNCHANGED <<srb, posted>> /\ pc[t] = "getTag"
    BY <1>3 DEF GetTag, ioVars
  <2>2. /\ \A u \in Tasks : u # t =>
             pc'[u] = pc[u] /\ tag'[u] = tag[u] /\ req'[u] = req[u]
        /\ pc'[t] \in {"build", "idle"}
    BY <1>3, <1>t DEF GetTag, Release, TypeOK
  <2> QED
    BY <1>p, <2>1, <2>2, FramesKeep
<1>4. ASSUME NEW t \in Tasks, SetTaskIdentifier(t) PROVE FramesFit'
  <2>1. /\ UNCHANGED <<srb, posted, tag, req>>
        /\ pc[t] = "identify" /\ pc' = [pc EXCEPT ![t] = "post"]
    BY <1>4 DEF SetTaskIdentifier, ioVars
  <2> QED
    BY <1>t, <1>p, <2>1, FramesKeep DEF TypeOK
<1>5. ASSUME NEW p \in posted, NEW o \in Outcomes, AdapterReply(p, o) PROVE FramesFit'
  <2>1. /\ UNCHANGED <<pc, tag, req>>
        /\ posted' = posted \ {p}
        /\ srb' = IF o = "good" THEN srb ELSE [srb EXCEPT ![p.tag].device_status = o]
    BY <1>5 DEF AdapterReply, stackVars
  <2>2. p.tag \in Tags /\ AtAdapter(p.tag) /\ \A q \in posted : q.tag = p.tag => q = p
    BY <1>t DEF TypeOK, Posts, AtAdapter, IInv, NoTagShared
  <2>3. \A g : g # p.tag => srb'[g] = srb[g]
    BY <1>t, <2>1 DEF TypeOK
  <2>4. \A t \in Tasks : pc[t] \in {"identify", "post"} => tag[t] # p.tag
    BY <2>2 DEF IInv, IdentInSync, NoTagShared, Held, Building
  <2> QED
    BY <2>1, <2>2, <2>3, <2>4, FramesKeep
<1>6. CASE UNCHANGED <<srb, posted, pc, tag, req>>
  BY <1>6, FramesKeep
<1>7. CASE RecycleTag
  <2> DEFINE r == Head(replies)
  <2>1. /\ UNCHANGED <<srb, posted, tag, req>> /\ pc' = [pc EXCEPT ![r.task] = "idle"]
        /\ replies # <<>> /\ r.tag \in Tags
    BY <1>7 DEF RecycleTag, stackVars
  <2>2. 1 \in 1 .. Len(replies) /\ r = replies[1]
    BY <1>t, <2>1 DEF TypeOK
  <2>3. \A p \in posted : p.task # r.task
    BY <2>1, <2>2 DEF IInv, OutOnce
  <2> QED
    BY <1>t, <1>p, <2>1, <2>3, FramesKeep DEF TypeOK
<1>8. CASE CompleteParallelTask
  <2> DEFINE r == Head(replies)
  <2>1. PICK t \in FindTask(r.tag) :
          /\ UNCHANGED <<srb, posted, tag>> /\ pc' = [pc EXCEPT ![t] = "idle"]
          /\ req' = [req EXCEPT ![t] = NoRequest]
          /\ replies # <<>> /\ r.tag \in Tags
    BY <1>8 DEF CompleteParallelTask, Release
  <2>2. 1 \in 1 .. Len(replies) /\ r = replies[1]
    BY <1>t, <2>1 DEF TypeOK
  <2>3. t = r.task
    BY SMTT(30), <2>1, <2>2, FindTaskFinds
  <2>4. \A p \in posted : p.task # t
    BY <2>1, <2>2, <2>3 DEF IInv, OutOnce
  <2> QED
    BY <1>t, <1>p, <2>1, <2>4, FramesKeep DEF TypeOK
<1>9. CASE Adapter \/ Workloop
  <2>1. ASSUME NEW g \in BadTags, AdapterSpurious(g) PROVE FramesFit'
    BY <1>6, <2>1 DEF AdapterSpurious, stackVars
  <2>2. CASE HandleInterruptRequest \/ QueueEmpty \/ DropReply \/ FinishReply
    BY <1>6, <2>2 DEF HandleInterruptRequest, QueueEmpty, DropReply, FinishReply,
                      ioVars, stackVars
  <2> QED
    BY <1>5, <1>7, <1>8, <1>9, <2>1, <2>2 DEF Adapter, Workloop
<1>10. CASE UNCHANGED vars
  BY <1>6, <1>10 DEF vars
<1>11. CASE Stack
  BY <1>1, <1>2, <1>11 DEF Stack, SubmitOnThread, SubmitInCompletion
<1>12. ASSUME NEW t \in Tasks, ProcessParallelTask(t) PROVE FramesFit'
  BY <1>3, <1>4, <1>12, BuildFits, PostFits DEF ProcessParallelTask
<1> QED
  BY <1>9, <1>10, <1>11, <1>12 DEF Next

-----------------------------------------------------------------------------
(***************************************************************************)
(* The stack never has more requests outstanding than there are tags       *)
(* (ReportMaximumTaskCount), and each tag that is not free belongs to one  *)
(* of them, to a request that was given up on, or to the handler.          *)
(***************************************************************************)
LiveBound == IsFiniteSet(live) /\ Cardinality(live) <= MaxSRB

\* Only Submit adds a request, and it counts them first.
LEMMA LiveStep ==
  ASSUME LiveBound, [Next]_vars
  PROVE  LiveBound'
<1> USE PoolSize
<1>0. Cardinality(live) \in Nat
  BY FS_CardinalityType DEF LiveBound
<1>1. ASSUME NEW t \in Tasks, NEW r \in Requests, Submit(t, r) PROVE LiveBound'
  <2>1. live' = live \cup {t} /\ Cardinality(live) < MaxSRB
    BY <1>1 DEF Submit
  <2>2. /\ IsFiniteSet(live \cup {t})
        /\ \/ Cardinality(live \cup {t}) = Cardinality(live)
           \/ Cardinality(live \cup {t}) = Cardinality(live) + 1
    BY FS_AddElement, Zenon DEF LiveBound
  <2> QED
    BY <1>0, <2>1, <2>2 DEF LiveBound
<1>2. ASSUME NEW t, live' = live \ {t} PROVE LiveBound'
  <2>1. /\ IsFiniteSet(live \ {t})
        /\ \/ Cardinality(live \ {t}) = Cardinality(live)
           \/ Cardinality(live \ {t}) = Cardinality(live) - 1
    BY FS_RemoveElement, Zenon DEF LiveBound
  <2>2. Cardinality(live') <= MaxSRB
    <3>1. CASE Cardinality(live') = Cardinality(live)
      BY <3>1 DEF LiveBound
    <3>2. CASE Cardinality(live') = Cardinality(live) - 1
      BY <1>0, <3>2 DEF LiveBound
    <3> QED
      BY <1>2, <2>1, <3>1, <3>2
  <2> QED
    BY <1>2, <2>1, <2>2 DEF LiveBound
<1>3. CASE UNCHANGED live
  BY <1>3 DEF LiveBound
<1>4. CASE Stack
  BY <1>1, <1>2, <1>4 DEF Stack, SubmitOnThread, SubmitInCompletion, HandleTimeout, Release
<1>5. ASSUME NEW t \in Tasks, ProcessParallelTask(t) PROVE LiveBound'
  BY <1>2, <1>3, <1>5 DEF ProcessParallelTask, GetTag, BuildSRB, SetTaskIdentifier, PostSRB,
                         Release, stackVars
<1>6. CASE Adapter
  BY <1>3, <1>6 DEF Adapter, AdapterReply, AdapterSpurious, stackVars
<1>7. CASE Workloop
  BY <1>2, <1>3, <1>7 DEF Workloop, HandleInterruptRequest, QueueEmpty, DropReply,
                          RecycleTag, CompleteParallelTask, FinishReply, Release, stackVars
<1>8. CASE UNCHANGED vars
  BY <1>3, <1>8 DEF vars
<1> QED
  BY <1>4, <1>5, <1>6, <1>7, <1>8 DEF Next

\* The tag a request in the driver has, if it has one.
Has(t, g) == \/ Building(t) /\ tag[t] = g
             \/ pc[t] = "inProcess" /\ ident[t] = g

\* With no tag free, none with the handler and no request given up on, every
\* tag has an owner among the live requests, and no two tags have the same.
LEMMA OwnersInjective ==
  ASSUME IInv, freeSRB = <<>>, handler.pc = "idle",
         \A u \in Tasks : pc[u] # "abandoned"
  PROVE  /\ \A g \in Tags : \E u \in live : Has(u, g)
         /\ \A u \in live, g, h \in Tags : Has(u, g) /\ Has(u, h) => g = h
<1>1. ASSUME NEW g \in Tags PROVE \E u \in live : Has(u, g)
  <2>1. Held(g) \/ AtAdapter(g) \/ Replied(g)
    BY DEF IInv, NoTagLost, Free, Finishing
  <2>2. PICK u \in Tasks : Has(u, g)
    BY <2>1 DEF Held, AtAdapter, Replied, Has, IInv, EntriesOwned, Owned
  <2> QED
    BY <2>2 DEF Has, Building, IInv, StackInSync
<1> QED
  BY <1>1 DEF Has, Building

\* So a request that finds no tag would be one more than the stack may start.
LEMMA OverrunCause ==
  ASSUME IInv, LiveBound
  PROVE  OverrunHasCause
<1> SUFFICES ASSUME NEW t \in Tasks, pc[t] = "getTag", handler.pc = "idle",
                    freeSRB = <<>>, \A u \in Tasks : pc[u] # "abandoned"
             PROVE  FALSE
  BY DEF OverrunHasCause, MayEnterGate
<1> DEFINE L == live \ {t}
           owner == [g \in Tags |-> CHOOSE u \in L : Has(u, g)]
<1>1. t \in live /\ \A g \in Tags : ~Has(t, g)
  BY DEF IInv, StackInSync, Has, Building
<1>2. \A g \in Tags : \E u \in L : Has(u, g)
  BY <1>1, OwnersInjective
<1>3. \A g \in Tags : owner[g] \in L /\ Has(owner[g], g)
  BY <1>2
<1>4. \A g, h \in Tags : owner[g] = owner[h] => g = h
  BY <1>3, OwnersInjective
<1>5. owner \in [Tags -> L]
  BY <1>3
<1> HIDE DEF owner
<1>6. owner \in Injection(Tags, L)
  BY <1>4, <1>5 DEF Injection, IsInjective
<1>7. IsFiniteSet(L) /\ Cardinality(L) = Cardinality(live) - 1
  BY <1>1, FS_RemoveElement DEF LiveBound
<1> HIDE DEF L
<1>8. Cardinality(Tags) <= Cardinality(L)
  BY <1>6, <1>7, FS_Injection
<1>9. Cardinality(Tags) = MaxSRB
  BY PoolSize, FS_Interval DEF Tags
<1>10. Cardinality(live) \in Nat /\ Cardinality(live) <= MaxSRB
  BY FS_CardinalityType DEF LiveBound
<1> QED
  BY <1>7, <1>8, <1>9, <1>10, PoolSize

-----------------------------------------------------------------------------
(***************************************************************************)
(* What each step makes of the jobs and the answers TaskService speaks of. *)
(***************************************************************************)
LEMMA ImagesSame ==
  ASSUME UNCHANGED <<posted, replies>>,
         \A p \in posted : srb'[p.tag] = srb[p.tag],
         \A i \in Answered : srb'[replies[i].tag] = srb[replies[i].tag]
  PROVE  Jobs' = Jobs /\ Answers' = Answers
<1>1. Answered' = Answered
  BY DEF Answered
<1>2. \A p \in posted : JobOf(p)' = JobOf(p)
  BY DEF JobOf
<1>3. \A i \in Answered : AnswerOf(replies[i])' = AnswerOf(replies[i])
  BY DEF AnswerOf
<1> QED
  BY <1>1, <1>2, <1>3 DEF Jobs, Answers

\* BuildSRB writes an SRB that is neither posted nor answered.
LEMMA BuildImages ==
  ASSUME IInv, NEW t \in Tasks, BuildSRB(t)
  PROVE  Jobs' = Jobs /\ Answers' = Answers
<1>1. /\ UNCHANGED <<posted, replies>> /\ pc[t] = "build"
      /\ \A h : h # tag[t] => srb'[h] = srb[h]
  BY DEF BuildSRB, IInv, TypeOK
<1>2. tag[t] \in Tags /\ Held(tag[t])
  BY <1>1 DEF IInv, IdentInSync, Building, Held
<1>3. \A p \in posted : p.tag # tag[t]
  BY <1>2 DEF IInv, NoTagShared, AtAdapter
<1>4. \A i \in Answered : replies[i].tag # tag[t]
  BY <1>2 DEF IInv, NoTagShared, Replied, Answered
<1> QED
  BY <1>1, <1>3, <1>4, ImagesSame

LEMMA PostImages ==
  ASSUME NEW t \in Tasks, PostSRB(t)
  PROVE  /\ Jobs' = Jobs \cup {JobOf([tag |-> tag[t], task |-> t,
                                       large |-> srb[tag[t]].large])}
         /\ Answers' = Answers
<1>1. /\ UNCHANGED <<srb, replies>>
      /\ posted' = posted \cup {[tag |-> tag[t], task |-> t, large |-> srb[tag[t]].large]}
  BY DEF PostSRB
<1>2. \A p : JobOf(p)' = JobOf(p)
  BY <1>1 DEF JobOf
<1>3. Answers' = Answers
  BY <1>1 DEF Answers, Answered, AnswerOf
<1> QED
  BY <1>1, <1>2, <1>3 DEF Jobs

\* A job done is a job less and an answer more, with the job's own result.
LEMMA ReplyImages ==
  ASSUME IInv, NEW p \in posted, NEW o \in Outcomes, AdapterReply(p, o)
  PROVE  /\ Jobs' = Jobs \ {JobOf(p)}
         /\ Answers' = Answers \cup {[task |-> p.task, result |-> ResultOf[o]]}
<1> USE SRBEngineAssumption DEF SRBEngineAssumption
<1> DEFINE g == p.tag
           e == [tag |-> g, task |-> p.task, outcome |-> o]
           n == Len(replies')
<1>t. TypeOK
  BY DEF IInv
<1>0. /\ posted' = posted \ {p}
      /\ srb' = IF o = "good" THEN srb ELSE [srb EXCEPT ![g].device_status = o]
  BY DEF AdapterReply
<1>1. p \in Posts /\ g \in Tags /\ p.task \in Tasks /\ p.large \in BOOLEAN
  BY <1>t DEF TypeOK, Posts
<1>r. replies' = Append(replies, e)
  BY <1>1, TagRoundTrip DEF AdapterReply
<1>2. e \in Replies /\ e.tag = g /\ e.task = p.task /\ e.outcome = o
  BY <1>1 DEF Replies
<1>3. /\ \A q \in posted : q.tag = g => q = p
      /\ \A q \in posted : q.task = p.task => q = p
      /\ \A i \in 1 .. Len(replies) : replies[i].tag # g
  BY <1>1 DEF IInv, NoTagShared, OutOnce, AtAdapter, Replied
<1> HIDE DEF e
<1>4. /\ Len(replies) \in Nat /\ n = Len(replies) + 1
      /\ \A i \in 1 .. Len(replies) : replies'[i] = replies[i]
      /\ replies'[n] = e
  BY <1>r, <1>2, <1>t, RepliesAppend DEF TypeOK
<1> HIDE DEF n
<1>5. /\ \A h \in Tags : /\ srb'[h].target = srb[h].target /\ srb'[h].lun = srb[h].lun
                         /\ srb'[h].sg_count = srb[h].sg_count
                         /\ h # g => srb'[h] = srb[h]
      /\ o # "good" => srb'[g].device_status = o
  <2>1. srb[g] \in SRBs /\ srb \in [Tags -> SRBs]
    BY <1>1, <1>t DEF TypeOK
  <2> QED
    BY <1>0, <1>1, <2>1 DEF SRBs
<1>6. \A q \in posted : q.tag \in Tags /\ JobOf(q)' = JobOf(q) /\ JobOf(q).task = q.task
  BY <1>5, <1>t DEF TypeOK, Posts, JobOf
<1>7. Jobs' = Jobs \ {JobOf(p)}
  <2>1. Jobs' = {JobOf(q) : q \in posted \ {p}}
    BY <1>0, <1>6 DEF Jobs
  <2>2. \A q \in posted : JobOf(q) = JobOf(p) <=> q = p
    BY <1>3, <1>6
  <2> QED
    BY <2>1, <2>2 DEF Jobs
<1>8. Answered' = Answered \cup {n}
  BY <1>1, <1>2, <1>4 DEF Answered, n
<1> DEFINE After(r) == [task   |-> r.task,
                        result |-> TaskResult(r.outcome # "good", srb'[r.tag].device_status)]
<1>9. \A i \in Answered : After(replies'[i]) = AnswerOf(replies[i])
  BY <1>3, <1>4, <1>5 DEF Answered, AnswerOf
<1>10. After(replies'[n]) = [task |-> p.task, result |-> ResultOf[o]]
  <2>1. After(replies'[n]) =
          [task |-> p.task, result |-> TaskResult(o # "good", srb'[g].device_status)]
    BY <1>2, <1>4
  <2>2. CASE o = "good"
    BY <2>1, <2>2, TaskResultFacts DEF ResultOf
  <2>3. CASE o # "good"
    BY <1>5, <2>1, <2>3 DEF ResultOf
  <2> QED
    BY <2>2, <2>3
<1>11. Answers' = {After(replies'[i]) : i \in Answered \cup {n}}
  BY <1>8 DEF Answers, AnswerOf
<1> HIDE DEF After
<1> QED
  BY <1>7, <1>9, <1>10, <1>11 DEF Answers

\* A word that names no SRB answers nothing.
LEMMA SpuriousImages ==
  ASSUME IInv, NEW g \in BadTags, AdapterSpurious(g)
  PROVE  Jobs' = Jobs /\ Answers' = Answers
<1> USE SRBEngineAssumption DEF SRBEngineAssumption
<1> DEFINE e == [tag |-> g, task |-> NoTask, outcome |-> "good"]
           n == Len(replies')
<1>0. UNCHANGED <<srb, posted>> /\ replies' = Append(replies, e)
  BY DEF AdapterSpurious
<1>1. e \in Replies /\ e.tag \notin Tags
  BY PoolSize, BadTagsOutside DEF Replies, Outcomes, Tags
<1> HIDE DEF e
<1>2. /\ Len(replies) \in Nat /\ n = Len(replies) + 1
      /\ \A i \in 1 .. Len(replies) : replies'[i] = replies[i]
      /\ replies'[n] = e
  BY <1>0, <1>1, RepliesAppend DEF IInv, TypeOK
<1> HIDE DEF n
<1>3. Answered' = Answered /\ \A i \in Answered : replies'[i] = replies[i]
  <2>1. n \notin Answered' /\ Answered' \subseteq 1 .. n
    BY <1>1, <1>2 DEF Answered, n
  <2>2. \A i \in 1 .. n : i # n => i \in 1 .. Len(replies)
    BY <1>2
  <2>3. Len(replies) = n - 1 /\ Len(replies') = n
    BY <1>2 DEF n
  <2> QED
    BY <1>2, <2>1, <2>2, <2>3 DEF Answered
<1>4. Jobs' = Jobs
  BY <1>0 DEF Jobs, JobOf
<1>5. \A i \in Answered : AnswerOf(replies[i])' = AnswerOf(replies[i])
  BY <1>0, <1>3 DEF AnswerOf
<1> QED
  BY <1>3, <1>4, <1>5 DEF Answers

\* The oldest reply leaves the queue: its answer is gone if it was one, and no
\* other is.
LEMMA TailImages ==
  ASSUME IInv, replies # <<>>, replies' = Tail(replies), UNCHANGED <<srb, posted>>
  PROVE  /\ Jobs' = Jobs
         /\ IF Head(replies).tag \in Tags
            THEN /\ AnswerOf(Head(replies)) \in Answers
                 /\ Answers' = Answers \ {AnswerOf(Head(replies))}
            ELSE Answers' = Answers
<1> DEFINE h == Head(replies)
           After(r) == [task   |-> r.task,
                        result |-> TaskResult(r.outcome # "good", srb'[r.tag].device_status)]
<1>1. /\ 1 \in 1 .. Len(replies) /\ h = replies[1]
      /\ \A i \in 1 .. Len(replies') :
           i + 1 \in 1 .. Len(replies) /\ replies'[i] = replies[i + 1]
      /\ \A i \in 1 .. Len(replies) :
           i # 1 => i - 1 \in 1 .. Len(replies') /\ replies'[i - 1] = replies[i]
  BY RepliesTail DEF IInv, TypeOK
<1>2. Jobs' = Jobs
  BY DEF Jobs, JobOf
<1>3. \A r : After(r) = AnswerOf(r) /\ AnswerOf(r).task = r.task
  BY DEF AnswerOf
<1>4. Answers' = {After(replies'[i]) : i \in Answered'}
  BY DEF Answers, AnswerOf
<1> HIDE DEF h, After
<1>5. \A i \in Answered' : /\ i + 1 \in Answered /\ i + 1 # 1
                           /\ replies'[i] = replies[i + 1]
  BY <1>1 DEF Answered
<1>6. \A i \in Answered : i # 1 => /\ i - 1 \in Answered'
                                   /\ replies'[i - 1] = replies[i]
  BY <1>1 DEF Answered
<1>7. Answers' = {AnswerOf(replies[i]) : i \in Answered \ {1}}
  <2>1. ASSUME NEW a \in Answers' PROVE \E i \in Answered \ {1} : a = AnswerOf(replies[i])
    <3>1. PICK k \in Answered' : a = After(replies'[k])
      BY <1>4, <2>1
    <3> QED
      BY <1>3, <1>5, <3>1
  <2>2. ASSUME NEW i \in Answered \ {1} PROVE AnswerOf(replies[i]) \in Answers'
    BY <1>3, <1>4, <1>6, <2>2
  <2> QED
    BY <2>1, <2>2
<1>8. CASE h.tag \in Tags
  <2>1. 1 \in Answered
    BY <1>1, <1>8 DEF Answered
  <2>2. \A i \in Answered \ {1} : AnswerOf(replies[i]) # AnswerOf(h)
    BY <1>1, <1>3, <1>8 DEF IInv, OutOnce, Answered
  <2>3. Answers = {AnswerOf(replies[i]) : i \in Answered \ {1}} \cup {AnswerOf(h)}
    BY <1>1, <2>1 DEF Answers
  <2> QED
    BY <1>2, <1>7, <1>8, <2>2, <2>3 DEF h
<1>9. CASE h.tag \notin Tags
  <2>1. Answered \ {1} = Answered
    BY <1>1, <1>9 DEF Answered
  <2> QED
    BY <1>2, <1>7, <1>9, <2>1 DEF Answers, h
<1> QED
  BY <1>8, <1>9

-----------------------------------------------------------------------------
(***************************************************************************)
(* The state of a request in the terms of TaskService.                     *)
(***************************************************************************)
\* The stack clears a request it is done with; one it gave up on is still with
\* the adapter or in the reply queue; the workloop returns from a completion
\* only after the request submitted inside it has left ProcessParallelTask.
Settled ==
    /\ \A t \in Tasks : t \notin live => req[t] = NoRequest
    /\ \A t \in Tasks : pc[t] = "abandoned" => t \in Service!Out
    /\ nested # NoTask => handler.pc = "complete"

\* The requests that are out, as the SRBs and replies have them.
LEMMA OutIs ==
  /\ \A t : t \in Service!Out <=> \/ \E p \in posted : p.task = t
                                  \/ \E i \in Answered : replies[i].task = t
  /\ \A j \in Jobs : j.task \in Service!Out
  /\ \A a \in Answers : a.task \in Service!Out
<1>1. \A p : JobOf(p).task = p.task
  BY DEF JobOf
<1>2. \A r : AnswerOf(r).task = r.task
  BY DEF AnswerOf
<1> QED
  BY <1>1, <1>2 DEF Service!Out, Jobs, Answers

LEMMA OutWhen ==
  ASSUME IInv, Settled
  PROVE  /\ Service!Out \subseteq Tasks
         /\ \A t \in Tasks : t \in Service!Out <=> pc[t] \in {"inProcess", "abandoned"}
<1>1. \A t \in Service!Out : t \in Tasks /\ pc[t] \in {"inProcess", "abandoned"}
  BY OutIs DEF IInv, EntriesOwned, Owned, Answered
<1>2. \A t \in Tasks : pc[t] = "inProcess" => t \in Service!Out
  BY OutIs DEF IInv, InProcessOut, Answered
<1> QED
  BY <1>1, <1>2 DEF Settled

LEMMA WantedWhen ==
  ASSUME IInv, Settled, NEW t \in Tasks
  PROVE  Service!Wanted(t) <=> pc[t] \notin {"idle", "abandoned"}
<1>1. NoRequest \notin Requests
  BY SRBEngineAssumption DEF SRBEngineAssumption, NoRequest
<1> QED
  BY <1>1 DEF IInv, StackInSync, Settled, Service!Wanted

-----------------------------------------------------------------------------
(***************************************************************************)
(* Every step of the driver is a step of TaskService or none.              *)
(***************************************************************************)
LEMMA SubmitServes ==
  ASSUME IInv, Settled, NEW t \in Tasks, NEW r \in Requests,
         SubmitOnThread(t, r) \/ SubmitInCompletion(t, r)
  PROVE  Service!Accept(t, r) /\ Settled'
<1>0. /\ UNCHANGED <<srb, posted, replies, handler>>
      /\ pc[t] = "idle" /\ pc' = [pc EXCEPT ![t] = "getTag"]
      /\ live' = live \cup {t} /\ req' = [req EXCEPT ![t] = r]
      /\ nested' # NoTask => handler.pc = "complete"
  BY DEF SubmitOnThread, SubmitInCompletion, Submit, ioVars, Settled
<1>1. Jobs' = Jobs /\ Answers' = Answers /\ Report' = Report
  BY <1>0, ImagesSame DEF Report
<1>2. ~Service!Wanted(t) /\ t \notin Service!Out
  BY <1>0, OutWhen, WantedWhen
<1>3. Service!Out' = Service!Out
  BY <1>1 DEF Service!Out
<1>4. \A u \in Tasks : pc'[u] = "abandoned" => pc[u] = "abandoned"
  BY <1>0 DEF IInv, TypeOK
<1>5. \A u \in Tasks : u \notin live' => req'[u] = req[u] /\ u \notin live
  BY <1>0 DEF IInv, TypeOK
<1> QED
  BY <1>0, <1>1, <1>2, <1>3, <1>4, <1>5 DEF Service!Accept, Settled

LEMMA TimeoutServes ==
  ASSUME IInv, Settled, NEW t \in Tasks, HandleTimeout(t)
  PROVE  Service!GiveUp(t) /\ Settled'
<1>0. /\ UNCHANGED <<srb, posted, replies, handler, nested>>
      /\ pc[t] = "inProcess" /\ pc' = [pc EXCEPT ![t] = "abandoned"]
      /\ live' = live \ {t} /\ req' = [req EXCEPT ![t] = NoRequest]
  BY DEF HandleTimeout, Release, ioVars
<1>1. Jobs' = Jobs /\ Answers' = Answers /\ Report' = Report
  BY <1>0, ImagesSame DEF Report
<1>2. Service!Wanted(t) /\ t \in Service!Out
  BY <1>0, OutWhen, WantedWhen
<1>3. Service!Out' = Service!Out
  BY <1>1 DEF Service!Out
<1>4. \A u \in Tasks : pc'[u] = "abandoned" => u = t \/ pc[u] = "abandoned"
  BY <1>0 DEF IInv, TypeOK
<1>5. \A u \in Tasks : u \notin live' => req'[u] = NoRequest
  BY <1>0 DEF IInv, TypeOK, Settled
<1> QED
  BY <1>0, <1>1, <1>2, <1>3, <1>4, <1>5 DEF Service!GiveUp, Settled

\* A tag taken is nothing to the service; a request that finds none is refused.
LEMMA GetTagServes ==
  ASSUME IInv, Settled, OverrunHasCause, NEW t \in Tasks, GetTag(t)
  PROVE  [Service!Refuse(t)]_(Service!vars) /\ Settled'
<1>0. /\ UNCHANGED <<srb, posted, replies, handler>>
      /\ pc[t] = "getTag" /\ MayEnterGate(t)
  BY DEF GetTag, ioVars
<1>1. Jobs' = Jobs /\ Answers' = Answers /\ Report' = Report
  BY <1>0, ImagesSame DEF Report
<1>2. Service!Out' = Service!Out
  BY <1>1 DEF Service!Out
<1>3. Service!Wanted(t) /\ t \notin Service!Out
  BY <1>0, OutWhen, WantedWhen
<1>4. CASE freeSRB # <<>>
  <2>1. UNCHANGED <<live, req, nested>> /\ pc' = [pc EXCEPT ![t] = "build"]
    BY <1>4 DEF GetTag
  <2>2. \A u \in Tasks : pc'[u] = "abandoned" => pc[u] = "abandoned"
    BY <2>1 DEF IInv, TypeOK
  <2> QED
    BY <1>0, <1>1, <1>2, <2>1, <2>2 DEF Service!vars, Settled
<1>5. CASE freeSRB = <<>>
  <2>1. /\ live' = live \ {t} /\ req' = [req EXCEPT ![t] = NoRequest]
        /\ pc' = [pc EXCEPT ![t] = "idle"]
        /\ nested' # NoTask => nested' = nested
    BY <1>5 DEF GetTag, Release, LeaveNested
  <2>2. \A u \in Tasks : pc'[u] = "abandoned" => pc[u] = "abandoned"
    BY <2>1 DEF IInv, TypeOK
  <2>3. \A u \in Tasks : u \notin live' => req'[u] = NoRequest
    BY <2>1 DEF IInv, TypeOK, Settled
  <2>4. Report # {} \/ \E u \in Service!Out : ~Service!Wanted(u)
    <3>1. CASE nested = t
      BY <3>1, SRBEngineAssumption DEF Settled, Report, SRBEngineAssumption
    <3>2. CASE \E u \in Tasks : pc[u] = "abandoned"
      BY <3>2, OutWhen, WantedWhen
    <3> QED
      BY <1>0, <1>5, <3>1, <3>2 DEF OverrunHasCause
  <2>5. Service!Refuse(t)
    BY <1>1, <1>3, <2>1, <2>4 DEF Service!Refuse
  <2> QED
    BY <1>0, <1>2, <2>1, <2>2, <2>3, <2>5 DEF Settled
<1> QED
  BY <1>4, <1>5

\* Building an SRB and giving it a name are nothing to the service.
LEMMA PrepareServes ==
  ASSUME IInv, Settled, NEW t \in Tasks, BuildSRB(t) \/ SetTaskIdentifier(t)
  PROVE  UNCHANGED Service!vars /\ Settled'
<1>0. /\ UNCHANGED <<handler, nested, live, req>>
      /\ pc'\in {[pc EXCEPT ![t] = "identify"], [pc EXCEPT ![t] = "post"]}
  BY DEF BuildSRB, SetTaskIdentifier, stackVars
<1>1. Jobs' = Jobs /\ Answers' = Answers /\ Report' = Report
  <2>1. CASE BuildSRB(t)
    BY <1>0, <2>1, BuildImages DEF Report
  <2>2. CASE SetTaskIdentifier(t)
    BY <1>0, <2>2, ImagesSame DEF SetTaskIdentifier, ioVars, Report
  <2> QED
    BY <2>1, <2>2
<1>2. Service!Out' = Service!Out
  BY <1>1 DEF Service!Out
<1>3. \A u \in Tasks : pc'[u] = "abandoned" => pc[u] = "abandoned"
  BY <1>0 DEF IInv, TypeOK
<1> QED
  BY <1>0, <1>1, <1>2, <1>3 DEF Service!vars, Settled

\* The adapter has, or has answered, the SRBs of distinct tags; whoever is about
\* to post has one more tag.  So there is room at the adapter.
HasSRB(u, g) == \/ \E p \in posted : p.task = u /\ p.tag = g
                \/ \E i \in Answered : replies[i].task = u /\ replies[i].tag = g

LEMMA SlotLeft ==
  ASSUME IInv, NEW t \in Tasks, pc[t] = "post"
  PROVE  Cardinality(Service!Out) < MaxSRB
<1> DEFINE Out == Service!Out
           D == Tags \ {tag[t]}
           slot == [u \in Out |-> CHOOSE g \in D : HasSRB(u, g)]
<1>1. tag[t] \in Tags /\ Held(tag[t])
  BY DEF IInv, IdentInSync, Building, Held
<1>2. \A u, g : HasSRB(u, g) => g \in D
  <2>1. \A q \in posted : q.tag \in Tags /\ q.tag # tag[t]
    BY <1>1 DEF IInv, TypeOK, Posts, NoTagShared, AtAdapter
  <2>2. \A i \in Answered : replies[i].tag \in Tags /\ replies[i].tag # tag[t]
    BY <1>1 DEF IInv, NoTagShared, Replied, Answered
  <2> QED
    BY <2>1, <2>2 DEF HasSRB
<1>3. \A u \in Out : \E g \in D : HasSRB(u, g)
  <2> SUFFICES ASSUME NEW u \in Out PROVE \E g : HasSRB(u, g)
    BY <1>2
  <2>1. \/ \E q \in posted : q.task = u
        \/ \E i \in Answered : replies[i].task = u
    BY OutIs
  <2> QED
    BY <2>1 DEF HasSRB
<1>4. \A u, v, g : HasSRB(u, g) /\ HasSRB(v, g) => u = v
  <2> SUFFICES ASSUME NEW u, NEW v, NEW g, HasSRB(u, g), HasSRB(v, g) PROVE u = v
    OBVIOUS
  <2>1. g \in Tags
    BY <1>2
  <2>2. /\ \A p, q \in posted : p.tag = q.tag => p = q
        /\ \A i, j \in Answered : replies[i].tag = replies[j].tag => i = j
        /\ \A p \in posted, i \in Answered : p.tag # replies[i].tag
    BY DEF IInv, TypeOK, Posts, NoTagShared, AtAdapter, Replied, Answered
  <2> QED
    BY <2>2 DEF HasSRB
<1>5. \A u \in Out : slot[u] \in D /\ HasSRB(u, slot[u])
  BY <1>3
<1>6. slot \in [Out -> D]
  BY <1>5
<1> HIDE DEF slot
<1>7. slot \in Injection(Out, D)
  BY <1>4, <1>5, <1>6 DEF Injection, IsInjective
<1>8. IsFiniteSet(Tags) /\ Cardinality(Tags) = MaxSRB
  BY PoolSize, FS_Interval DEF Tags
<1>9. IsFiniteSet(D) /\ Cardinality(D) = MaxSRB - 1
  BY <1>1, <1>8, FS_RemoveElement
<1> HIDE DEF D, Out
<1>10. IsFiniteSet(Out) /\ Cardinality(Out) <= Cardinality(D)
  BY <1>7, <1>9, FS_Injection
<1> QED
  BY <1>9, <1>10, PoolSize, FS_CardinalityType DEF Out

LEMMA SameCardinality == \A S : Service!Cardinality(S) = Cardinality(S)
BY DEF Service!Cardinality, Cardinality

\* The adapter is told what the stack asked for.
LEMMA PostServes ==
  ASSUME IInv, FramesFit, Settled, NEW t \in Tasks, PostSRB(t)
  PROVE  /\ \E list \in SegCounts : Service!HandOver(t, list)
         /\ Settled'
<1> DEFINE g == tag[t]
           p == [tag |-> g, task |-> t, large |-> srb[g].large]
<1>0. /\ UNCHANGED <<handler, live, req>>
      /\ pc[t] = "post" /\ pc' = [pc EXCEPT ![t] = "inProcess"]
      /\ nested' # NoTask => nested' = nested
  BY DEF PostSRB, stackVars, LeaveNested
<1>1. /\ Jobs' = Jobs \cup {JobOf(p)}
      /\ Answers' = Answers /\ Report' = Report
  BY <1>0, PostImages DEF Report
<1>2. Service!Wanted(t) /\ t \notin Service!Out
  BY <1>0, OutWhen, WantedWhen
<1>3. Cardinality(Service!Out) < MaxSRB
  BY <1>0, SlotLeft
<1>4. /\ req[t].segs > 0 => srb[g].sg_count = req[t].segs
      /\ srb[g].large = (req[t].segs > SmallSG)
      /\ req[t].target = TargetLun2ScsiTarget(srb[g].target, srb[g].lun)
  BY <1>0 DEF FramesFit, FrameBuilt, IInv, SRBsAddressed, Addressed
<1>5. srb[g].sg_count \in SegCounts
  BY <1>0 DEF IInv, IdentInSync, Building, TypeOK, SRBs
<1>6. JobOf(p) = [task   |-> t,
                  target |-> req[t].target,
                  list   |-> srb[g].sg_count,
                  large  |-> req[t].segs > SmallSG]
  BY <1>4 DEF JobOf
<1> DEFINE list == srb[g].sg_count
<1>7. Service!HandOver(t, list)
  <2>1. Jobs' = Jobs \cup {[task   |-> t,
                            target |-> req[t].target,
                            list   |-> list,
                            large  |-> req[t].segs > SmallSG]}
    BY <1>1, <1>6
  <2> HIDE DEF list
  <2>2. req[t].segs > 0 => list = req[t].segs
    BY <1>4 DEF list
  <2> QED
    BY <1>0, <1>1, <1>2, <1>3, <2>1, <2>2, SameCardinality DEF Service!HandOver
<1>8. \A u \in Tasks : pc'[u] = "abandoned" => pc[u] = "abandoned"
  BY <1>0 DEF IInv, TypeOK
<1>9. \A u \in Service!Out : u \in Service!Out'
  BY <1>1 DEF Service!Out
<1>10. Settled'
  BY <1>0, <1>8, <1>9 DEF Settled
<1> QED
  BY <1>5, <1>7, <1>10

\* The adapter answers a job with the job's own result.
LEMMA ReplyServes ==
  ASSUME IInv, Settled, NEW p \in posted, NEW o \in Outcomes, AdapterReply(p, o)
  PROVE  Service!Perform(JobOf(p), o) /\ JobOf(p) \in Jobs /\ Settled'
<1>0. UNCHANGED <<handler, live, req, nested, pc>>
  BY DEF AdapterReply, stackVars
<1>1. JobOf(p) \in Jobs /\ JobOf(p).task = p.task
  BY DEF Jobs, JobOf
<1>2. /\ Jobs' = Jobs \ {JobOf(p)}
      /\ Answers' = Answers \cup {[task |-> p.task, result |-> ResultOf[o]]}
      /\ Report' = Report
  BY <1>0, ReplyImages DEF Report
<1>3. \A u \in Service!Out : u \in Service!Out'
  BY <1>1, <1>2 DEF Service!Out
<1> QED
  BY <1>0, <1>1, <1>2, <1>3 DEF Service!Perform, Settled

LEMMA SpuriousServes ==
  ASSUME IInv, Settled, NEW g \in BadTags, AdapterSpurious(g)
  PROVE  UNCHANGED Service!vars /\ Settled'
<1>0. UNCHANGED <<handler, live, req, nested, pc>>
  BY DEF AdapterSpurious, stackVars
<1>1. Jobs' = Jobs /\ Answers' = Answers /\ Report' = Report
  BY <1>0, SpuriousImages DEF Report
<1>2. Service!Out' = Service!Out
  BY <1>1 DEF Service!Out
<1> QED
  BY <1>0, <1>1, <1>2 DEF Service!vars, Settled

\* A reply that is nobody's any more is discarded, or was none of the service.
LEMMA TailServes ==
  ASSUME IInv, Settled, DropReply \/ RecycleTag
  PROVE  /\ UNCHANGED Service!vars \/ \E a \in Answers : Service!Discard(a)
         /\ Settled'
<1> DEFINE h == Head(replies)
<1>0. /\ UNCHANGED <<srb, posted, handler, live, req, nested>>
      /\ replies # <<>> /\ replies' = Tail(replies)
  BY DEF DropReply, RecycleTag, stackVars
<1>1. Jobs' = Jobs /\ Report' = Report
  BY <1>0, TailImages DEF Report
<1>2. CASE DropReply
  <2>1. UNCHANGED pc /\ h.tag \notin Tags
    BY <1>2 DEF DropReply
  <2>2. Answers' = Answers
    BY <1>0, <2>1, TailImages
  <2>3. Service!Out' = Service!Out
    BY <1>1, <2>2 DEF Service!Out
  <2> QED
    BY <1>0, <1>1, <2>1, <2>2, <2>3 DEF Service!vars, Settled
<1>3. CASE RecycleTag
  <2>1. /\ h.tag \in Tags /\ FindTask(h.tag) = {}
        /\ pc' = [pc EXCEPT ![h.task] = "idle"]
    BY <1>3 DEF RecycleTag
  <2>2. 1 \in 1 .. Len(replies) /\ h = replies[1]
    BY <1>0, RepliesTail DEF IInv, TypeOK
  <2>3. h.task \in Tasks /\ pc[h.task] = "abandoned"
    BY <2>1, <2>2, FindTaskFinds DEF IInv, EntriesOwned, Owned
  <2>4. AnswerOf(h) \in Answers /\ Answers' = Answers \ {AnswerOf(h)}
    BY <1>0, <2>1, TailImages
  <2>5. AnswerOf(h).task = h.task
    BY DEF AnswerOf
  <2>6. ~Service!Wanted(h.task)
    BY <2>3, WantedWhen
  <2> HIDE DEF h
  <2>7. Service!Discard(AnswerOf(h))
    BY <1>0, <1>1, <2>4, <2>5, <2>6 DEF Service!Discard
  <2>8. \A u \in Service!Out : u # h.task => u \in Service!Out'
    BY <1>1, <2>4, <2>5 DEF Service!Out
  <2>9. \A u \in Tasks : pc'[u] = "abandoned" => pc[u] = "abandoned" /\ u # h.task
    BY <2>1 DEF IInv, TypeOK
  <2> QED
    BY <1>0, <2>4, <2>7, <2>8, <2>9 DEF Settled
<1> QED
  BY <1>2, <1>3

\* The request that is completed is the one whose answer it was.
LEMMA CompleteServes ==
  ASSUME IInv, Settled, CompleteParallelTask
  PROVE  (\E a \in Answers : Service!Complete(a)) /\ Settled'
<1> DEFINE h == Head(replies)
<1>0. /\ UNCHANGED <<srb, posted, nested>> /\ handler.pc = "drain"
      /\ replies # <<>> /\ replies' = Tail(replies) /\ h.tag \in Tags
  BY DEF CompleteParallelTask
<1>1. PICK t \in FindTask(h.tag) :
        /\ live' = live \ {t} /\ req' = [req EXCEPT ![t] = NoRequest]
        /\ pc' = [pc EXCEPT ![t] = "idle"]
        /\ handler' = [pc     |-> "complete",
                       task   |-> t,
                       reply  |-> h,
                       result |-> TaskResult(h.outcome # "good", srb[h.tag].device_status)]
  BY DEF CompleteParallelTask, Release
<1>2. 1 \in 1 .. Len(replies) /\ h = replies[1]
  BY <1>0, RepliesTail DEF IInv, TypeOK
<1>3. t = h.task /\ t \in Tasks /\ pc[t] = "inProcess"
  <2> HIDE DEF h
  <2>1. h.task \in Tasks
    BY <1>0, <1>2 DEF IInv, EntriesOwned, Owned
  <2>2. pc[h.task] = "inProcess" /\ FindTask(h.tag) = {h.task}
    BY <1>0, <1>1, <1>2, FindTaskFinds
  <2> QED
    BY <1>1, <2>1, <2>2
<1>4. /\ Jobs' = Jobs /\ AnswerOf(h) \in Answers
      /\ Answers' = Answers \ {AnswerOf(h)}
  BY <1>0, TailImages
<1>5. AnswerOf(h) = [task   |-> t,
                     result |-> TaskResult(h.outcome # "good", srb[h.tag].device_status)]
  BY <1>3 DEF AnswerOf
<1>6. Report = {} /\ Report' = {AnswerOf(h)}
  BY <1>0, <1>1, <1>5 DEF Report
<1>7. Service!Wanted(t)
  BY <1>3, WantedWhen
<1> HIDE DEF h
<1>8. AnswerOf(h).task = t
  BY <1>5
<1> DEFINE a == AnswerOf(h)
<1>9. Service!Complete(a)
  <2> HIDE DEF a
  <2>1. req' = [req EXCEPT ![a.task] = NoRequest] /\ Service!Wanted(a.task)
    BY <1>1, <1>7, <1>8 DEF a
  <2> QED
    BY <1>4, <1>6, <2>1 DEF Service!Complete, a
<1>10. \A u \in Service!Out : u # t => u \in Service!Out'
  BY <1>4, <1>8 DEF Service!Out
<1>11. \A u \in Tasks : pc'[u] = "abandoned" => pc[u] = "abandoned" /\ u # t
  BY <1>1, <1>3 DEF IInv, TypeOK
<1>12. \A u \in Tasks : u \notin live' => req'[u] = NoRequest
  BY <1>1 DEF IInv, TypeOK, Settled
<1>13. handler'.pc = "complete"
  BY <1>1
<1> QED
  BY <1>4, <1>9, <1>10, <1>11, <1>12, <1>13 DEF Settled

\* The other steps of the workloop begin or end a drain or a completion.
LEMMA HandlerServes ==
  ASSUME IInv, Settled, HandleInterruptRequest \/ QueueEmpty \/ FinishReply
  PROVE  /\ UNCHANGED Service!vars \/ Service!Completed
         /\ Settled'
<1>0. /\ UNCHANGED <<srb, posted, replies, pc, live, req, nested>>
      /\ handler' \in {Idle, Draining}
      /\ nested = NoTask \/ handler.pc # "complete"
  BY DEF HandleInterruptRequest, QueueEmpty, FinishReply, ioVars, stackVars
<1>1. Jobs' = Jobs /\ Answers' = Answers
  BY <1>0, ImagesSame
<1>2. Report' = {}
  BY <1>0 DEF Report, Idle, Draining
<1>3. Service!Out' = Service!Out
  BY <1>1 DEF Service!Out
<1> QED
  BY <1>0, <1>1, <1>2, <1>3 DEF Service!vars, Service!Completed, Settled

LEMMA ServiceStep ==
  ASSUME IInv, FramesFit, Settled, OverrunHasCause, [Next]_vars
  PROVE  [Service!Next]_(Service!vars) /\ Settled'
<1>1. CASE Stack
  <2>1. ASSUME NEW t \in Tasks, NEW r \in Requests,
               SubmitOnThread(t, r) \/ SubmitInCompletion(t, r)
        PROVE  Service!Next /\ Settled'
    BY <2>1, SubmitServes DEF Service!Next
  <2>2. ASSUME NEW t \in Tasks, HandleTimeout(t) PROVE Service!Next /\ Settled'
    BY <2>2, TimeoutServes DEF Service!Next
  <2> QED
    BY <1>1, <2>1, <2>2 DEF Stack
<1>2. ASSUME NEW t \in Tasks, ProcessParallelTask(t)
      PROVE  [Service!Next]_(Service!vars) /\ Settled'
  <2>1. CASE GetTag(t)
    BY <2>1, GetTagServes DEF Service!Next
  <2>2. CASE BuildSRB(t) \/ SetTaskIdentifier(t)
    BY <2>2, PrepareServes
  <2>3. CASE PostSRB(t)
    BY <2>3, PostServes DEF Service!Next
  <2> QED
    BY <1>2, <2>1, <2>2, <2>3 DEF ProcessParallelTask
<1>3. CASE Adapter
  <2>1. ASSUME NEW p \in posted, NEW o \in Outcomes, AdapterReply(p, o)
        PROVE  Service!Next /\ Settled'
    BY <2>1, ReplyServes DEF Service!Next
  <2>2. ASSUME NEW g \in BadTags, AdapterSpurious(g)
        PROVE  UNCHANGED Service!vars /\ Settled'
    BY <2>2, SpuriousServes
  <2> QED
    BY <1>3, <2>1, <2>2 DEF Adapter
<1>4. CASE Workloop
  <2>1. CASE DropReply \/ RecycleTag
    BY <2>1, TailServes DEF Service!Next
  <2>2. CASE CompleteParallelTask
    BY <2>2, CompleteServes DEF Service!Next
  <2>3. CASE HandleInterruptRequest \/ QueueEmpty \/ FinishReply
    BY <2>3, HandlerServes DEF Service!Next
  <2> QED
    BY <1>4, <2>1, <2>2, <2>3 DEF Workloop
<1>5. CASE UNCHANGED vars
  <2>1. UNCHANGED <<srb, posted, replies, handler, pc, live, req, nested>>
    BY <1>5 DEF vars
  <2>2. Jobs' = Jobs /\ Answers' = Answers /\ Report' = Report
    BY <2>1, ImagesSame DEF Report
  <2>3. Service!Out' = Service!Out
    BY <2>2 DEF Service!Out
  <2> QED
    BY <2>1, <2>2, <2>3 DEF Service!vars, Settled
<1> QED
  BY <1>1, <1>2, <1>3, <1>4, <1>5 DEF Next

-----------------------------------------------------------------------------
\* Whoever uses an SRB next and however late its last user was answered, the
\* adapter fetches a frame that holds the S/G list of the request.
THEOREM FramesCorrect == Spec => []PostedFrameFits
<1>1. Init => FramesFit
  BY DEF Init, FramesFit
<1>2. IInv /\ FramesFit => PostedFrameFits
  BY DEF PostedFrameFits, FramesFit, FrameBuilt
<1>3. IInv /\ FramesFit /\ [Next]_vars => FramesFit'
  BY FramesStep
<1> QED
  BY Invariance, <1>1, <1>2, <1>3, PTL DEF Spec

\* getTag fails for no reason but those two, whatever the pool's size.
THEOREM OverrunExplained == Spec => []OverrunHasCause
<1>1. Init => LiveBound
  BY PoolSize, FS_EmptySet DEF Init, LiveBound
<1>2. LiveBound /\ [Next]_vars => LiveBound'
  BY LiveStep
<1>3. IInv /\ LiveBound => OverrunHasCause
  BY OverrunCause
<1> QED
  BY Invariance, <1>1, <1>2, <1>3, PTL DEF Spec

\* The driver implements TaskService: whatever the adapter, the stack's threads
\* and the workloop do and in whatever order, the stack cannot tell the tags,
\* the SRBs and the queues from a service that performs each request and
\* reports its own result.
THEOREM ServiceImplemented == Spec => ImplementsService
<1>1. Init => Service!Init /\ Settled /\ FramesFit /\ LiveBound
  <2> SUFFICES ASSUME Init PROVE Service!Init /\ Settled /\ FramesFit /\ LiveBound
    OBVIOUS
  <2>1. Jobs = {} /\ Answers = {} /\ Report = {}
    BY DEF Init, Jobs, Answers, Answered, Report, Idle
  <2>2. Service!Init
    BY <2>1 DEF Init, Service!Init
  <2>3. Settled /\ FramesFit
    BY DEF Init, Settled, FramesFit
  <2>4. LiveBound
    BY PoolSize, FS_EmptySet DEF Init, LiveBound
  <2> QED
    BY <2>2, <2>3, <2>4
<1>2. IInv /\ FramesFit /\ [Next]_vars => FramesFit'
  BY FramesStep
<1>3. LiveBound /\ [Next]_vars => LiveBound'
  BY LiveStep
<1>4. IInv /\ FramesFit /\ Settled /\ LiveBound /\ [Next]_vars
        => [Service!Next]_(Service!vars) /\ Settled'
  BY OverrunCause, ServiceStep
<1> QED
  BY Invariance, <1>1, <1>2, <1>3, <1>4, PTL DEF Spec, ImplementsService, Service!Spec
=============================================================================
