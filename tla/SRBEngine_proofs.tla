-------------------------- MODULE SRBEngine_proofs --------------------------
(* Safety of the I/O path for any number of requests and tags. *)
EXTENDS SRBEngine, SRBAddress_proofs, FiniteSetTheorems

(***************************************************************************)
(* The inductive invariant.  NoTagLost and NoTagShared say where tags are; *)
(* the rest says which request each posted SRB and each reply belongs to,  *)
(* which is what keeps the completion of one request from touching another.*)
(***************************************************************************)
\* The stack knows a request from Submit until it is completed or timed out.
StackInSync ==
    \A t \in Tasks :
        /\ t \in live <=> pc[t] \notin {"idle", "abandoned"}
        /\ t \in live => req[t] \in Requests

\* A request can be looked up only once its SRB is built, under its own tag.
IdentInSync ==
    \A t \in Tasks :
        /\ ident[t] # NoTag => pc[t] \in {"post", "inProcess"}
        /\ pc[t] = "post" => ident[t] = tag[t]
        /\ Building(t) => tag[t] \in Tags

\* What is with the adapter or answered is with its request or abandoned.
Owned(e) ==
    /\ e.task \in Tasks
    /\ \/ pc[e.task] = "abandoned"
       \/ pc[e.task] = "inProcess" /\ ident[e.task] = e.tag

EntriesOwned ==
    /\ \A p \in posted : Owned(p)
    /\ \A i \in 1 .. Len(replies) : replies[i].tag \in Tags => Owned(replies[i])

\* No request is out twice.
OutOnce ==
    /\ \A p, q \in posted : p.task = q.task => p = q
    /\ \A i, j \in 1 .. Len(replies) :
         /\ replies[i].tag \in Tags /\ replies[j].tag \in Tags
         /\ replies[i].task = replies[j].task
         => i = j
    /\ \A p \in posted, i \in 1 .. Len(replies) :
         replies[i].tag \in Tags => p.task # replies[i].task

\* A request in process is out.
InProcessOut ==
    \A t \in Tasks :
        pc[t] = "inProcess" =>
            \/ \E p \in posted : p.task = t
            \/ \E i \in 1 .. Len(replies) : replies[i].tag \in Tags /\ replies[i].task = t

\* A reply with the error flag stands next to the status it announces.
ErrorRecorded ==
    \A i \in 1 .. Len(replies) :
        replies[i].tag \in Tags /\ replies[i].outcome # "good" =>
            srb[replies[i].tag].device_status = replies[i].outcome

\* From BuildSRB on, an SRB is addressed to the target of its request.
Addressed(g, t) ==
    req[t].target = TargetLun2ScsiTarget(srb[g].target, srb[g].lun)

SRBsAddressed ==
    /\ \A t \in Tasks : pc[t] \in {"identify", "post"} => Addressed(tag[t], t)
    /\ \A p \in posted : pc[p.task] = "inProcess" => Addressed(p.tag, p.task)
    /\ \A i \in 1 .. Len(replies) :
         replies[i].tag \in Tags /\ pc[replies[i].task] = "inProcess" =>
             Addressed(replies[i].tag, replies[i].task)

HandlerHasTag == handler.pc = "complete" => handler.reply.tag \in Tags

IInv ==
    /\ TypeOK
    /\ NoTagLost
    /\ NoTagShared
    /\ StackInSync
    /\ IdentInSync
    /\ EntriesOwned
    /\ OutOnce
    /\ InProcessOut
    /\ ErrorRecorded
    /\ SRBsAddressed
    /\ HandlerHasTag
    /\ CompletesItsOwner

-----------------------------------------------------------------------------
LEMMA PoolSize == MaxSRB \in Nat \ {0}
BY SRBAddressAssumption DEF SRBAddressAssumption

\* A word outside the pool names no SRB.
LEMMA BadTagsOutside == \A g \in BadTags : g \in {-1, MaxSRB}
<1> SUFFICES ASSUME NEW w \in BadWords PROVE ReplyTag(w) \in {-1, MaxSRB}
  BY DEF BadTags
<1>1. /\ w \in Nat
      /\ ReplyPhys(w) < SRBPhys \/ ReplyPhys(w) >= PoolEnd
  BY SRBEngineAssumption DEF SRBEngineAssumption
<1>2. WordSize \in Nat \ {0}
  BY SRBAddressAssumption DEF SRBAddressAssumption, WordSize
<1>3. ReplyPhys(w) \in Nat
  BY <1>1, <1>2 DEF ReplyPhys
<1> QED
  BY <1>1, <1>3, StrayAddress DEF ReplyTag

\* Initially every tag is in the ring once and no request exists.
LEMMA InitIInv == Init => IInv
<1> SUFFICES ASSUME Init PROVE IInv
  OBVIOUS
<1> USE SRBEngineAssumption DEF SRBEngineAssumption
<1>1. TypeOK
  <2>1. freeSRB \in Seq(Tags)
    BY PoolSize DEF Init, Tags
  <2>2. srb \in [Tags -> SRBs]
    BY DEF Init, SRBs, MaxTargetLun
  <2>3. /\ posted \subseteq Posts /\ postInt \in BOOLEAN /\ live \subseteq Tasks
        /\ nested \in Tasks \cup {NoTask}
    BY DEF Init
  <2>8. timeouts \in 0 .. MaxTimeouts
    BY DEF Init
  <2>7. replies \in Seq(Replies)
    BY DEF Init
  <2>4. handler \in {Idle, Draining}
    BY DEF Init
  <2>5. /\ tag \in [Tasks -> Tags \cup {NoTag}] /\ ident \in [Tasks -> Tags \cup {NoTag}]
        /\ req \in [Tasks -> Requests \cup {NoRequest}]
    BY DEF Init
  <2>6. pc \in [Tasks -> {"idle", "getTag", "build", "identify", "post",
                         "inProcess", "abandoned"}]
    BY DEF Init
  <2> QED
    BY <2>1, <2>2, <2>3, <2>4, <2>5, <2>6, <2>7, <2>8 DEF TypeOK
<1>2. NoTagLost /\ NoTagShared
  BY PoolSize DEF Init, NoTagLost, NoTagShared, Tags, Free, Held, AtAdapter, Replied,
         Finishing, Building, Idle
<1>3. /\ StackInSync /\ IdentInSync /\ EntriesOwned /\ OutOnce /\ InProcessOut
      /\ ErrorRecorded /\ SRBsAddressed /\ HandlerHasTag /\ CompletesItsOwner
  BY DEF Init, StackInSync, IdentInSync, EntriesOwned, OutOnce, InProcessOut,
         ErrorRecorded, SRBsAddressed, HandlerHasTag, CompletesItsOwner, Idle, Building, NoTag
<1> QED
  BY <1>1, <1>2, <1>3 DEF IInv

-----------------------------------------------------------------------------
(***************************************************************************)
(* The ring of free tags and the queue of replies, as sequences.           *)
(***************************************************************************)
\* The ring always has room for a tag that is not in it.
LEMMA RingHasRoom ==
  ASSUME freeSRB \in Seq(Tags), NEW g \in Tags, ~Free(g),
         \A i, j \in 1 .. Len(freeSRB) : freeSRB[i] = freeSRB[j] => i = j
  PROVE  Len(freeSRB) < MaxSRB
<1> SUFFICES ASSUME Len(freeSRB) >= MaxSRB PROVE FALSE
  BY PoolSize
<1> DEFINE S == 1 .. Len(freeSRB)
           T == Tags \ {g}
<1>1. Len(freeSRB) \in Nat /\ MaxSRB \in Nat \ {0}
  BY PoolSize
<1>2. IsFiniteSet(S) /\ Cardinality(S) = Len(freeSRB)
  BY SMTT(30), <1>1, FS_Interval
<1>3. IsFiniteSet(Tags) /\ Cardinality(Tags) = MaxSRB
  BY <1>1, FS_Interval DEF Tags
<1>4. IsFiniteSet(T) /\ Cardinality(T) = MaxSRB - 1
  BY <1>3, FS_RemoveElement
<1>5. freeSRB \in [S -> T]
  BY DEF Free
<1>6. Cardinality(T) < Cardinality(S)
  BY <1>1, <1>2, <1>4
<1> HIDE DEF S, T
<1>7. \E x, y \in S : x # y /\ freeSRB[x] = freeSRB[y]
  BY <1>2, <1>4, <1>5, <1>6, FS_PigeonHole
<1> QED
  BY <1>7 DEF S

\* Returning a tag that is not free adds exactly that tag to the ring.
LEMMA ReturnTagAdds ==
  ASSUME freeSRB \in Seq(Tags), NEW g \in Tags, ~Free(g),
         \A i, j \in 1 .. Len(freeSRB) : freeSRB[i] = freeSRB[j] => i = j,
         returnTag(g)
  PROVE  /\ freeSRB' \in Seq(Tags)
         /\ \A i, j \in 1 .. Len(freeSRB') : freeSRB'[i] = freeSRB'[j] => i = j
         /\ \A h \in Tags : Free(h)' <=> Free(h) \/ h = g
<1>1. freeSRB' = Append(freeSRB, g)
  BY RingHasRoom DEF returnTag
<1>2. /\ freeSRB' \in Seq(Tags)
      /\ Len(freeSRB') = Len(freeSRB) + 1
      /\ \A i \in 1 .. Len(freeSRB) : freeSRB'[i] = freeSRB[i]
      /\ freeSRB'[Len(freeSRB) + 1] = g
  BY <1>1
<1> QED
  BY <1>2 DEF Free

\* Taking the oldest free tag removes exactly that tag from the ring.
LEMMA HeadLeaves ==
  ASSUME freeSRB \in Seq(Tags), freeSRB # <<>>, freeSRB' = Tail(freeSRB),
         \A i, j \in 1 .. Len(freeSRB) : freeSRB[i] = freeSRB[j] => i = j
  PROVE  /\ Head(freeSRB) \in Tags /\ Free(Head(freeSRB))
         /\ freeSRB' \in Seq(Tags)
         /\ \A i, j \in 1 .. Len(freeSRB') : freeSRB'[i] = freeSRB'[j] => i = j
         /\ \A h \in Tags : Free(h)' <=> Free(h) /\ h # Head(freeSRB)
<1>1. /\ freeSRB' \in Seq(Tags)
      /\ Len(freeSRB') = Len(freeSRB) - 1 /\ Len(freeSRB) > 0
      /\ \A i \in 1 .. Len(freeSRB') : freeSRB'[i] = freeSRB[i + 1]
      /\ Head(freeSRB) = freeSRB[1]
  OBVIOUS
<1>2. \A h \in Tags : Free(h)' => Free(h) /\ h # Head(freeSRB)
  BY <1>1 DEF Free
<1>3. \A h \in Tags : Free(h) /\ h # Head(freeSRB) => Free(h)'
  <2> SUFFICES ASSUME NEW h \in Tags, NEW i \in 1 .. Len(freeSRB),
                      freeSRB[i] = h, h # Head(freeSRB)
               PROVE  \E j \in 1 .. Len(freeSRB') : freeSRB'[j] = h
    BY DEF Free
  <2>1. i - 1 \in 1 .. Len(freeSRB') /\ freeSRB'[i - 1] = h
    BY <1>1
  <2> QED
    BY <2>1
<1>4. Head(freeSRB) \in Tags /\ Free(Head(freeSRB))
  BY <1>1 DEF Free
<1>5. \A i, j \in 1 .. Len(freeSRB') : freeSRB'[i] = freeSRB'[j] => i = j
  <2> SUFFICES ASSUME NEW i \in 1 .. Len(freeSRB'), NEW j \in 1 .. Len(freeSRB'),
                      freeSRB'[i] = freeSRB'[j]
               PROVE  i = j
    OBVIOUS
  <2>1. /\ i + 1 \in 1 .. Len(freeSRB) /\ j + 1 \in 1 .. Len(freeSRB)
        /\ freeSRB[i + 1] = freeSRB[j + 1]
    BY <1>1
  <2>2. i + 1 = j + 1
    BY <2>1
  <2> QED
    BY <2>2
<1> QED
  BY <1>1, <1>2, <1>3, <1>4, <1>5

-----------------------------------------------------------------------------
\* A request that starts has no tag, no SRB and no reply yet.
LEMMA SubmitStep ==
  ASSUME IInv, NEW t \in Tasks, NEW r \in Requests, Submit(t, r),
         nested' \in Tasks \cup {NoTask}
  PROVE  IInv'
<1> USE SRBEngineAssumption DEF SRBEngineAssumption
<1>0. /\ UNCHANGED <<freeSRB, srb, posted, replies, postInt, handler, tag, ident, timeouts>>
      /\ pc[t] = "idle" /\ pc' = [pc EXCEPT ![t] = "getTag"]
      /\ live' = live \cup {t} /\ req' = [req EXCEPT ![t] = r]
  BY DEF Submit, ioVars
<1>t. TypeOK
  BY DEF IInv
<1>1. TypeOK'
  BY <1>0, <1>t DEF TypeOK
<1>2. \A u \in Tasks : Building(u)' <=> Building(u)
  BY <1>0, <1>t DEF Building, TypeOK
<1>3. NoTagLost' /\ NoTagShared'
  BY <1>0, <1>2 DEF IInv, NoTagLost, NoTagShared, Free, Held, AtAdapter, Replied, Finishing
<1>4. StackInSync' /\ IdentInSync'
  BY <1>0, <1>t, <1>2 DEF IInv, StackInSync, IdentInSync, TypeOK
<1>5. EntriesOwned'
  BY <1>0, <1>t DEF IInv, EntriesOwned, Owned, TypeOK
<1>6. OutOnce' /\ ErrorRecorded' /\ HandlerHasTag' /\ CompletesItsOwner'
  BY <1>0 DEF IInv, OutOnce, ErrorRecorded, HandlerHasTag, CompletesItsOwner
<1>7. InProcessOut'
  BY <1>0, <1>t DEF IInv, InProcessOut, TypeOK
<1>8. SRBsAddressed'
  BY <1>0, <1>t DEF IInv, EntriesOwned, Owned, SRBsAddressed, Addressed, TypeOK
<1> QED
  BY <1>1, <1>3, <1>4, <1>5, <1>6, <1>7, <1>8 DEF IInv

\* A request the stack gives up leaves its tag where it is.
LEMMA TimeoutStep ==
  ASSUME IInv, NEW t \in Tasks, HandleTimeout(t)
  PROVE  IInv'
<1> USE SRBEngineAssumption DEF SRBEngineAssumption
<1>0. /\ UNCHANGED <<srb, posted, replies, postInt, freeSRB, handler, tag, nested>>
      /\ pc[t] = "inProcess" /\ pc' = [pc EXCEPT ![t] = "abandoned"]
      /\ live' = live \ {t} /\ req' = [req EXCEPT ![t] = NoRequest]
      /\ ident' = [ident EXCEPT ![t] = NoTag]
      /\ timeouts < MaxTimeouts /\ timeouts' = timeouts + 1
  BY DEF HandleTimeout, Release, ioVars
<1>t. TypeOK
  BY DEF IInv
<1>1. TypeOK'
  BY <1>0, <1>t DEF TypeOK
<1>2. \A u \in Tasks : Building(u)' <=> Building(u)
  BY <1>0, <1>t DEF Building, TypeOK
<1>3. NoTagLost' /\ NoTagShared'
  BY <1>0, <1>2 DEF IInv, NoTagLost, NoTagShared, Free, Held, AtAdapter, Replied, Finishing
<1>4. StackInSync' /\ IdentInSync'
  BY <1>0, <1>t, <1>2 DEF IInv, StackInSync, IdentInSync, TypeOK
<1>5. EntriesOwned'
  BY <1>0, <1>t DEF IInv, EntriesOwned, Owned, TypeOK
<1>6. OutOnce' /\ ErrorRecorded' /\ HandlerHasTag' /\ CompletesItsOwner'
  BY <1>0 DEF IInv, OutOnce, ErrorRecorded, HandlerHasTag, CompletesItsOwner
<1>7. InProcessOut'
  BY <1>0, <1>t DEF IInv, InProcessOut, TypeOK
<1>8. SRBsAddressed'
  BY <1>0, <1>t DEF IInv, EntriesOwned, Owned, SRBsAddressed, Addressed, TypeOK
<1> QED
  BY <1>1, <1>3, <1>4, <1>5, <1>6, <1>7, <1>8 DEF IInv

-----------------------------------------------------------------------------
(***************************************************************************)
(* ProcessParallelTask.                                                    *)
(***************************************************************************)
\* A tag passes from the ring to a request, or the request is rejected.
LEMMA GetTagStep ==
  ASSUME IInv, NEW t \in Tasks, GetTag(t)
  PROVE  IInv'
<1> USE SRBEngineAssumption DEF SRBEngineAssumption
<1>0. /\ UNCHANGED <<srb, posted, replies, postInt, handler, timeouts>>
      /\ pc[t] = "getTag"
  BY DEF GetTag, ioVars
<1>t. TypeOK
  BY DEF IInv
<1>6. OutOnce' /\ ErrorRecorded' /\ HandlerHasTag' /\ CompletesItsOwner'
  BY <1>0 DEF IInv, OutOnce, ErrorRecorded, HandlerHasTag, CompletesItsOwner
<1>a. CASE /\ freeSRB # <<>>
           /\ tag' = [tag EXCEPT ![t] = Head(freeSRB)]
           /\ freeSRB' = Tail(freeSRB)
           /\ pc' = [pc EXCEPT ![t] = "build"]
           /\ UNCHANGED <<live, req, ident, nested>>
  <2> DEFINE g == Head(freeSRB)
  <2>1. /\ g \in Tags /\ Free(g) /\ freeSRB' \in Seq(Tags)
        /\ \A i, j \in 1 .. Len(freeSRB') : freeSRB'[i] = freeSRB'[j] => i = j
        /\ \A h \in Tags : Free(h)' <=> Free(h) /\ h # g
    BY <1>a, <1>t, HeadLeaves DEF TypeOK, IInv, NoTagShared
  <2> HIDE DEF g
  <2>2. /\ \A u \in Tasks : Building(u)' <=> Building(u) \/ u = t
        /\ ~Building(t)
        /\ tag' = [tag EXCEPT ![t] = g]
    BY <1>0, <1>a, <1>t DEF Building, TypeOK, g
  <2>3. TypeOK'
    BY <1>0, <1>a, <1>t, <2>1, <2>2 DEF TypeOK
  <2>4. \A h \in Tags : /\ Held(h)' <=> Held(h) \/ h = g
                        /\ AtAdapter(h)' <=> AtAdapter(h)
                        /\ Replied(h)' <=> Replied(h)
                        /\ Finishing(h)' <=> Finishing(h)
    BY <1>0, <1>t, <2>1, <2>2 DEF Held, AtAdapter, Replied, Finishing, TypeOK
  <2>5. NoTagLost'
    BY <2>1, <2>4 DEF IInv, NoTagLost
  <2>6. \A u, v \in Tasks : Building(u)' /\ Building(v)' /\ tag'[u] = tag'[v] => u = v
    BY <1>t, <2>1, <2>2 DEF IInv, NoTagShared, Held, TypeOK
  <2>7. NoTagShared'
    BY <1>0, <2>1, <2>4, <2>6 DEF IInv, NoTagShared
  <2>8. StackInSync' /\ IdentInSync'
    BY <1>0, <1>a, <1>t, <2>1, <2>2 DEF IInv, StackInSync, IdentInSync, TypeOK
  <2>9. EntriesOwned' /\ InProcessOut'
    BY SMTT(30), <1>0, <1>a, <1>t DEF IInv, EntriesOwned, Owned, InProcessOut, TypeOK
  <2>10. SRBsAddressed'
    BY <1>0, <1>a, <1>t, <2>2 DEF IInv, EntriesOwned, Owned, SRBsAddressed, Addressed, TypeOK
  <2> QED
    BY <1>6, <2>3, <2>5, <2>7, <2>8, <2>9, <2>10 DEF IInv
<1>b. CASE /\ freeSRB = <<>>
           /\ Release(t)
           /\ pc' = [pc EXCEPT ![t] = "idle"]
           /\ LeaveNested(t)
           /\ UNCHANGED <<freeSRB, tag>>
  <2>1. /\ live' = live \ {t} /\ req' = [req EXCEPT ![t] = NoRequest]
        /\ ident' = [ident EXCEPT ![t] = NoTag]
        /\ nested' \in {nested, NoTask}
    BY <1>b DEF Release, LeaveNested
  <2>2. \A u \in Tasks : Building(u)' <=> Building(u)
    BY <1>0, <1>b, <1>t DEF Building, TypeOK
  <2>3. TypeOK'
    BY <1>0, <1>b, <1>t, <2>1 DEF TypeOK
  <2>4. NoTagLost' /\ NoTagShared'
    BY <1>0, <1>b, <2>2 DEF IInv, NoTagLost, NoTagShared, Free, Held, AtAdapter, Replied, Finishing
  <2>5. StackInSync' /\ IdentInSync'
    BY <1>0, <1>b, <1>t, <2>1, <2>2 DEF IInv, StackInSync, IdentInSync, TypeOK
  <2>6. EntriesOwned' /\ InProcessOut'
    BY SMTT(30), <1>0, <1>b, <1>t, <2>1 DEF IInv, EntriesOwned, Owned, InProcessOut, TypeOK
  <2>7. SRBsAddressed'
    BY <1>0, <1>b, <1>t, <2>1 DEF IInv, EntriesOwned, Owned, SRBsAddressed, Addressed, TypeOK
  <2> QED
    BY <1>6, <2>3, <2>4, <2>5, <2>6, <2>7 DEF IInv
<1> QED
  BY <1>a, <1>b DEF GetTag

\* Only the SRB under construction is written, and nothing else owns it.
LEMMA BuildStep ==
  ASSUME IInv, NEW t \in Tasks, BuildSRB(t)
  PROVE  IInv'
<1> USE SRBEngineAssumption DEF SRBEngineAssumption
<1> DEFINE g == tag[t]
<1>0. /\ UNCHANGED <<freeSRB, posted, replies, postInt, handler, tag, live, req,
                     ident, timeouts, nested>>
      /\ pc[t] = "build" /\ pc' = [pc EXCEPT ![t] = "identify"]
  BY DEF BuildSRB, stackVars
<1>t. TypeOK
  BY DEF IInv
<1>1. g \in Tags /\ Held(g) /\ ~Replied(g)
  BY <1>0 DEF IInv, IdentInSync, Building, Held, NoTagShared
<1>2. PICK s \in SRBs :
        /\ srb' = [srb EXCEPT ![g] = s]
        /\ req[t].target = TargetLun2ScsiTarget(s.target, s.lun)
  <2> DEFINE n == req[t].segs
             T == ScsiTarget2Target(req[t].target)
             L == ScsiTarget2Lun(req[t].target)
             a == [srb[g] EXCEPT !.target = T, !.lun = L, !.large = FALSE]
             s == GenSegments(a, n)
  <2>1. req[t].target \in 0 .. 127 /\ n \in SegCounts
    BY <1>0, SRBEngineAssumption DEF SRBEngineAssumption, IInv, StackInSync
  <2>2. /\ T \in 0 .. 15 /\ L \in 0 .. MaxTargetLun - 1
        /\ req[t].target = TargetLun2ScsiTarget(T, L)
    BY <2>1 DEF ScsiTarget2Target, ScsiTarget2Lun, TargetLun2ScsiTarget, MaxTargetLun
  <2>3. srb[g] \in SRBs
    BY <1>t, <1>1 DEF TypeOK
  <2> HIDE DEF T, L, n
  <2>4. a \in SRBs /\ a.target = T /\ a.lun = L
    BY <2>2, <2>3 DEF SRBs
  <2> HIDE DEF a
  <2>5. s \in SRBs /\ s.target = T /\ s.lun = L
    <3>1. s \in {a, [a EXCEPT !.sg_count = n, !.large = n > SmallSG]}
      BY DEF GenSegments
    <3>2. /\ [a EXCEPT !.sg_count = n, !.large = TRUE] \in SRBs
          /\ [a EXCEPT !.sg_count = n, !.large = FALSE] \in SRBs
      BY <2>1, <2>4 DEF SRBs
    <3>3. (n > SmallSG) = TRUE \/ (n > SmallSG) = FALSE
      OBVIOUS
    <3>4. s \in SRBs
      BY <2>4, <3>1, <3>2, <3>3, Zenon
    <3>5. s.target = T /\ s.lun = L
      BY <2>4, <3>1 DEF SRBs
    <3> QED
      BY <3>4, <3>5
  <2>6. srb' = [srb EXCEPT ![g] = s]
    BY DEF BuildSRB, a, n, T, L
  <2> QED
    BY <2>2, <2>5, <2>6
<1>3. TypeOK'
  BY <1>0, <1>1, <1>2, <1>t DEF TypeOK
<1>4. \A u \in Tasks : Building(u)' <=> Building(u)
  BY <1>0, <1>t DEF Building, TypeOK
<1>5. NoTagLost' /\ NoTagShared'
  BY <1>0, <1>4 DEF IInv, NoTagLost, NoTagShared, Free, Held, AtAdapter, Replied, Finishing
<1>6. StackInSync' /\ IdentInSync'
  BY <1>0, <1>t, <1>4 DEF IInv, StackInSync, IdentInSync, TypeOK
<1>7. EntriesOwned' /\ InProcessOut'
  BY <1>0, <1>t DEF IInv, EntriesOwned, Owned, InProcessOut, TypeOK
<1>8. ErrorRecorded'
  BY <1>0, <1>1, <1>2, <1>t DEF IInv, ErrorRecorded, Replied, TypeOK
<1>9. OutOnce' /\ HandlerHasTag' /\ CompletesItsOwner'
  BY <1>0 DEF IInv, OutOnce, HandlerHasTag, CompletesItsOwner
<1>10. SRBsAddressed'
  <2>1. \A u \in Tasks : Building(u) /\ u # t => tag[u] # g
    BY <1>0 DEF IInv, NoTagShared, Building
  <2>2. \A p \in posted : p.tag # g
    BY <1>1 DEF IInv, NoTagShared, AtAdapter
  <2>3. srb'[g].target = s.target /\ srb'[g].lun = s.lun
    BY <1>1, <1>2, <1>t DEF TypeOK
  <2>4. \A h : h # g => srb'[h] = srb[h]
    BY <1>2, <1>t DEF TypeOK
  <2>5. \A u \in Tasks : pc'[u] \in {"identify", "post"} => Addressed(tag[u], u)'
    BY <1>0, <1>2, <1>t, <2>1, <2>3, <2>4
       DEF IInv, SRBsAddressed, Addressed, Building, TypeOK
  <2>6. \A p \in posted : pc'[p.task] = "inProcess" => Addressed(p.tag, p.task)'
    BY <1>0, <1>t, <2>2, <2>4 DEF IInv, SRBsAddressed, Addressed, TypeOK
  <2>7. \A i \in 1 .. Len(replies) :
          replies[i].tag \in Tags /\ pc'[replies[i].task] = "inProcess" =>
              Addressed(replies[i].tag, replies[i].task)'
    BY <1>0, <1>1, <1>t, <2>4 DEF IInv, SRBsAddressed, Addressed, Replied, TypeOK
  <2> QED
    BY <1>0, <2>5, <2>6, <2>7 DEF SRBsAddressed
<1> QED
  BY <1>3, <1>5, <1>6, <1>7, <1>8, <1>9, <1>10 DEF IInv

\* A request can be looked up from here on, and by its own tag only.
LEMMA IdentifyStep ==
  ASSUME IInv, NEW t \in Tasks, SetTaskIdentifier(t)
  PROVE  IInv'
<1> USE SRBEngineAssumption DEF SRBEngineAssumption
<1>0. /\ UNCHANGED <<srb, posted, replies, postInt, freeSRB, handler, tag, live, req,
                     nested, timeouts>>
      /\ pc[t] = "identify" /\ pc' = [pc EXCEPT ![t] = "post"]
      /\ ident' = [ident EXCEPT ![t] = tag[t]]
  BY DEF SetTaskIdentifier, ioVars
<1>t. TypeOK
  BY DEF IInv
<1>1. TypeOK'
  BY <1>0, <1>t DEF TypeOK
<1>2. \A u \in Tasks : Building(u)' <=> Building(u)
  BY <1>0, <1>t DEF Building, TypeOK
<1>3. NoTagLost' /\ NoTagShared'
  BY <1>0, <1>2 DEF IInv, NoTagLost, NoTagShared, Free, Held, AtAdapter, Replied, Finishing
<1>4. StackInSync' /\ IdentInSync'
  BY <1>0, <1>t, <1>2 DEF IInv, StackInSync, IdentInSync, TypeOK
<1>5. EntriesOwned' /\ InProcessOut'
  BY <1>0, <1>t DEF IInv, EntriesOwned, Owned, InProcessOut, TypeOK
<1>6. OutOnce' /\ ErrorRecorded' /\ HandlerHasTag' /\ CompletesItsOwner'
  BY <1>0 DEF IInv, OutOnce, ErrorRecorded, HandlerHasTag, CompletesItsOwner
<1>7. SRBsAddressed'
  BY <1>0, <1>t DEF IInv, SRBsAddressed, Addressed, TypeOK
<1> QED
  BY <1>1, <1>3, <1>4, <1>5, <1>6, <1>7 DEF IInv

\* The tag passes from the request to the adapter.
LEMMA PostStep ==
  ASSUME IInv, NEW t \in Tasks, PostSRB(t)
  PROVE  IInv'
<1> USE SRBEngineAssumption DEF SRBEngineAssumption
<1> DEFINE g == tag[t]
           p == [tag |-> g, task |-> t, large |-> srb[g].large]
<1>0. /\ UNCHANGED <<freeSRB, srb, replies, postInt, handler, live, req, ident,
                     timeouts>>
      /\ pc[t] = "post" /\ pc' = [pc EXCEPT ![t] = "inProcess"]
      /\ posted' = posted \cup {p}
      /\ tag' = [tag EXCEPT ![t] = NoTag]
      /\ nested' \in {nested, NoTask}
  BY DEF PostSRB, stackVars, LeaveNested
<1>t. TypeOK
  BY DEF IInv
<1>1. g \in Tags /\ Held(g) /\ ident[t] = g
  BY <1>0 DEF IInv, IdentInSync, Building, Held
<1>2. p \in Posts /\ p.tag = g /\ p.task = t
  BY <1>1, <1>t DEF Posts, TypeOK, SRBs
<1> HIDE DEF p
<1>3. TypeOK'
  BY <1>0, <1>2, <1>t DEF TypeOK
<1>4. \A u \in Tasks : Building(u)' <=> Building(u) /\ u # t
  BY <1>0, <1>t DEF Building, TypeOK
<1>5. \A h \in Tags : /\ Free(h)' <=> Free(h)
                      /\ Held(h)' <=> Held(h) /\ h # g
                      /\ AtAdapter(h)' <=> AtAdapter(h) \/ h = g
                      /\ Replied(h)' <=> Replied(h)
                      /\ Finishing(h)' <=> Finishing(h)
  <2>1. Building(t)
    BY <1>0 DEF Building
  <2>2. \A u \in Tasks : Building(u) /\ tag[u] = g => u = t
    BY <2>1 DEF IInv, NoTagShared
  <2>3. \A u \in Tasks : u # t => tag'[u] = tag[u]
    BY <1>0, <1>t DEF TypeOK
  <2>4. \A h \in Tags : Held(h)' <=> Held(h) /\ h # g
    BY <1>4, <2>1, <2>2, <2>3 DEF Held
  <2>5. \A h \in Tags : AtAdapter(h)' <=> AtAdapter(h) \/ h = g
    BY <1>0, <1>2 DEF AtAdapter
  <2> QED
    BY <1>0, <2>4, <2>5 DEF Free, Replied, Finishing
<1>6. NoTagLost'
  BY <1>5 DEF IInv, NoTagLost
<1>7. NoTagShared'
  <2>1. \A q, r \in posted' : q.tag = r.tag => q = r
    BY <1>0, <1>1, <1>2 DEF IInv, NoTagShared, AtAdapter
  <2>2. \A u, v \in Tasks : Building(u)' /\ Building(v)' /\ tag'[u] = tag'[v] => u = v
    BY <1>0, <1>4, <1>t DEF IInv, NoTagShared, TypeOK
  <2>3. \A h \in Tags :
          /\ Free(h) => ~(Held(h) \/ AtAdapter(h) \/ Replied(h) \/ Finishing(h))
          /\ Held(h) => ~(AtAdapter(h) \/ Replied(h) \/ Finishing(h))
          /\ AtAdapter(h) => ~(Replied(h) \/ Finishing(h))
          /\ Replied(h) => ~Finishing(h)
    BY DEF IInv, NoTagShared
  <2>4. \A h \in Tags :
          /\ Free(h)' => ~(Held(h)' \/ AtAdapter(h)' \/ Replied(h)' \/ Finishing(h)')
          /\ Held(h)' => ~(AtAdapter(h)' \/ Replied(h)' \/ Finishing(h)')
          /\ AtAdapter(h)' => ~(Replied(h)' \/ Finishing(h)')
          /\ Replied(h)' => ~Finishing(h)'
    BY <1>1, <1>5, <2>3
  <2> QED
    BY <1>0, <2>1, <2>2, <2>4 DEF IInv, NoTagShared
<1>8. StackInSync' /\ IdentInSync'
  BY <1>0, <1>t, <1>4 DEF IInv, StackInSync, IdentInSync, TypeOK
<1>9. EntriesOwned'
  BY <1>0, <1>1, <1>2, <1>t DEF IInv, EntriesOwned, Owned, TypeOK
<1>10. OutOnce'
  <2>1. \A q \in posted : q.task # t
    BY <1>0 DEF IInv, EntriesOwned, Owned
  <2>2. \A i \in 1 .. Len(replies) : replies[i].tag \in Tags => replies[i].task # t
    BY <1>0 DEF IInv, EntriesOwned, Owned
  <2> QED
    BY <1>0, <1>2, <2>1, <2>2 DEF IInv, OutOnce
<1>11. InProcessOut'
  BY <1>0, <1>2, <1>t DEF IInv, InProcessOut, TypeOK
<1>12. ErrorRecorded' /\ HandlerHasTag' /\ CompletesItsOwner'
  BY <1>0 DEF IInv, ErrorRecorded, HandlerHasTag, CompletesItsOwner
<1>13. SRBsAddressed'
  <2>1. req[t].target = TargetLun2ScsiTarget(srb[g].target, srb[g].lun)
    BY <1>0 DEF IInv, SRBsAddressed, Addressed
  <2>2. \A q \in posted : q.task # t
    BY <1>0 DEF IInv, EntriesOwned, Owned
  <2>3. \A i \in 1 .. Len(replies) : replies[i].tag \in Tags => replies[i].task # t
    BY <1>0 DEF IInv, EntriesOwned, Owned
  <2>4. \A u \in Tasks : u # t => pc'[u] = pc[u] /\ tag'[u] = tag[u]
    BY <1>0, <1>t DEF TypeOK
  <2>5. \A u \in Tasks : pc'[u] \in {"identify", "post"} => Addressed(tag[u], u)'
    BY <1>0, <1>t, <2>4 DEF IInv, SRBsAddressed, Addressed, TypeOK
  <2>6. \A q \in posted' : pc'[q.task] = "inProcess" => Addressed(q.tag, q.task)'
    BY <1>0, <1>2, <2>1, <2>2, <2>4
       DEF IInv, SRBsAddressed, Addressed, EntriesOwned, Owned
  <2>7. \A i \in 1 .. Len(replies) :
          replies[i].tag \in Tags /\ pc'[replies[i].task] = "inProcess" =>
              Addressed(replies[i].tag, replies[i].task)'
    BY <1>0, <2>3, <2>4 DEF IInv, SRBsAddressed, Addressed, EntriesOwned, Owned
  <2> QED
    BY <1>0, <2>5, <2>6, <2>7 DEF SRBsAddressed
<1> QED
  BY <1>3, <1>6, <1>7, <1>8, <1>9, <1>10, <1>11, <1>12, <1>13 DEF IInv

-----------------------------------------------------------------------------
(***************************************************************************)
(* The adapter.                                                            *)
(***************************************************************************)
\* Appending a reply keeps the replies before it.
LEMMA RepliesAppend ==
  ASSUME replies \in Seq(Replies), NEW e \in Replies, replies' = Append(replies, e)
  PROVE  /\ replies' \in Seq(Replies)
         /\ Len(replies) \in Nat
         /\ Len(replies') = Len(replies) + 1
         /\ \A i \in 1 .. Len(replies) : replies'[i] = replies[i]
         /\ replies'[Len(replies')] = e
         /\ \A i \in 1 .. Len(replies') : i \in 1 .. Len(replies) \/ i = Len(replies')
OBVIOUS

\* The tag passes from the adapter to the reply queue.
LEMMA ReplyStep ==
  ASSUME IInv, NEW p \in posted, NEW o \in Outcomes, AdapterReply(p, o)
  PROVE  IInv'
<1> USE SRBEngineAssumption DEF SRBEngineAssumption
<1> DEFINE g == p.tag
           e == [tag |-> p.tag, task |-> p.task, outcome |-> o]
           n == Len(replies')
<1>0. /\ UNCHANGED <<freeSRB, handler, pc, tag, live, req, ident, timeouts, nested>>
      /\ posted' = posted \ {p}
      /\ srb' = IF o = "good" THEN srb
                ELSE [srb EXCEPT ![g].device_status = o]
      /\ postInt' = TRUE
  BY DEF AdapterReply, stackVars
<1>t. TypeOK
  BY DEF IInv
<1>r. replies' = Append(replies, e)
  <2>1. g \in Tags /\ p.large \in BOOLEAN /\ (o # "good") \in BOOLEAN
    BY <1>t DEF TypeOK, Posts
  <2>2. ReplyTag(ReplyWord(PostWord(g, p.large), o # "good")) = g
    BY <2>1, TagRoundTrip
  <2> QED
    BY <2>2 DEF AdapterReply
<1>1. /\ p \in Posts /\ g \in Tags /\ p.task \in Tasks
      /\ e \in Replies /\ e.tag = g /\ e.task = p.task /\ e.outcome = o
  BY <1>t DEF TypeOK, Posts, Replies
<1>2. /\ AtAdapter(g) /\ Owned(p)
      /\ \A q \in posted : q.tag = g => q = p
      /\ \A q \in posted : q.task = p.task => q = p
      /\ \A i \in 1 .. Len(replies) : replies[i].tag # g
      /\ \A i \in 1 .. Len(replies) : replies[i].tag \in Tags => replies[i].task # p.task
  BY <1>1 DEF IInv, EntriesOwned, NoTagShared, OutOnce, AtAdapter, Replied
<1> HIDE DEF e
<1>3. /\ replies' \in Seq(Replies)
      /\ Len(replies) \in Nat
      /\ n = Len(replies) + 1
      /\ \A i \in 1 .. Len(replies) : replies'[i] = replies[i]
      /\ replies'[n] = e
      /\ \A i \in 1 .. n : i \in 1 .. Len(replies) \/ i = n
  BY <1>0, <1>r, <1>1, <1>t, RepliesAppend DEF TypeOK
<1> HIDE DEF n
<1>4. /\ srb' \in [Tags -> SRBs]
      /\ \A h \in Tags : srb'[h].target = srb[h].target /\ srb'[h].lun = srb[h].lun
      /\ \A h \in Tags : h # g => srb'[h] = srb[h]
      /\ o # "good" => srb'[g].device_status = o
  <2>1. CASE o = "good"
    BY <1>0, <1>t, <2>1 DEF TypeOK
  <2>2. CASE o # "good"
    <3>1. o \in Errors
      BY <2>2 DEF Outcomes
    <3>2. srb' = [srb EXCEPT ![g] = [srb[g] EXCEPT !.device_status = o]]
      BY <1>0, <2>2
    <3>3. srb[g] \in SRBs
      BY <1>1, <1>t DEF TypeOK
    <3>4. [srb[g] EXCEPT !.device_status = o] \in SRBs
      BY <3>1, <3>3 DEF SRBs
    <3> QED
      BY <1>1, <1>t, <3>2, <3>3, <3>4 DEF TypeOK, SRBs
  <2> QED
    BY <2>1, <2>2
<1>5. TypeOK'
  BY <1>0, <1>3, <1>4, <1>t DEF TypeOK
<1>6. \A h \in Tags : /\ Free(h)' <=> Free(h)
                      /\ Held(h)' <=> Held(h)
                      /\ AtAdapter(h)' <=> AtAdapter(h) /\ h # g
                      /\ Replied(h)' <=> Replied(h) \/ h = g
                      /\ Finishing(h)' <=> Finishing(h)
  <2>1. \A h \in Tags : AtAdapter(h)' <=> AtAdapter(h) /\ h # g
    BY <1>0, <1>2 DEF AtAdapter
  <2>2. \A h \in Tags : Replied(h)' <=> Replied(h) \/ h = g
    BY <1>1, <1>3 DEF Replied, n
  <2> QED
    BY <1>0, <2>1, <2>2 DEF Free, Held, Finishing, Building
<1>7. NoTagLost'
  BY <1>6 DEF IInv, NoTagLost
<1>8. NoTagShared'
  <2>1. \A t, u \in Tasks : Building(t)' /\ Building(u)' /\ tag'[t] = tag'[u] => t = u
    BY <1>0 DEF IInv, NoTagShared, Building
  <2>2. \A i, j \in 1 .. n :
          replies'[i].tag \in Tags /\ replies'[i].tag = replies'[j].tag => i = j
    BY <1>1, <1>2, <1>3 DEF IInv, NoTagShared
  <2>3. \A h \in Tags :
          /\ Free(h) => ~(Held(h) \/ AtAdapter(h) \/ Replied(h) \/ Finishing(h))
          /\ Held(h) => ~(AtAdapter(h) \/ Replied(h) \/ Finishing(h))
          /\ AtAdapter(h) => ~(Replied(h) \/ Finishing(h))
          /\ Replied(h) => ~Finishing(h)
    BY DEF IInv, NoTagShared
  <2>4. \A h \in Tags :
          /\ Free(h)' => ~(Held(h)' \/ AtAdapter(h)' \/ Replied(h)' \/ Finishing(h)')
          /\ Held(h)' => ~(AtAdapter(h)' \/ Replied(h)' \/ Finishing(h)')
          /\ AtAdapter(h)' => ~(Replied(h)' \/ Finishing(h)')
          /\ Replied(h)' => ~Finishing(h)'
    BY <1>1, <1>2, <1>6, <2>3
  <2> QED
    BY <1>0, <2>1, <2>2, <2>4 DEF IInv, NoTagShared, n
<1>9. StackInSync' /\ IdentInSync'
  BY <1>0 DEF IInv, StackInSync, IdentInSync, Building
<1>10. EntriesOwned'
  BY <1>0, <1>1, <1>2, <1>3 DEF IInv, EntriesOwned, Owned, n
<1>11. OutOnce'
  <2>1. \A q, r \in posted' : q.task = r.task => q = r
    BY <1>0 DEF IInv, OutOnce
  <2>2. \A i, j \in 1 .. n :
          /\ replies'[i].tag \in Tags /\ replies'[j].tag \in Tags
          /\ replies'[i].task = replies'[j].task
          => i = j
    BY <1>1, <1>2, <1>3 DEF IInv, OutOnce
  <2>3. \A q \in posted', i \in 1 .. n :
          replies'[i].tag \in Tags => q.task # replies'[i].task
    BY <1>0, <1>1, <1>2, <1>3 DEF IInv, OutOnce
  <2> QED
    BY <2>1, <2>2, <2>3 DEF OutOnce, n
<1>12. InProcessOut'
  <2> SUFFICES ASSUME NEW t \in Tasks, pc[t] = "inProcess"
               PROVE  \/ \E q \in posted' : q.task = t
                      \/ \E i \in 1 .. n : replies'[i].tag \in Tags /\ replies'[i].task = t
    BY <1>0 DEF InProcessOut, n
  <2>1. CASE t = p.task
    BY <1>1, <1>3, <2>1
  <2>2. CASE t # p.task
    BY <1>0, <1>3, <2>2 DEF IInv, InProcessOut
  <2> QED
    BY <2>1, <2>2
<1>13. ErrorRecorded'
  BY <1>1, <1>2, <1>3, <1>4 DEF IInv, ErrorRecorded, n
<1>14. SRBsAddressed'
  <2>1. \A h \in Tags, t \in Tasks :
          req[t].target = TargetLun2ScsiTarget(srb[h].target, srb[h].lun) =>
          req'[t].target = TargetLun2ScsiTarget(srb'[h].target, srb'[h].lun)
    BY <1>0, <1>4
  <2>2. \A t \in Tasks : pc'[t] \in {"identify", "post"} => Addressed(tag[t], t)'
    BY <1>0, <2>1 DEF IInv, SRBsAddressed, Addressed, IdentInSync, Building
  <2>3. \A q \in posted' : pc'[q.task] = "inProcess" => Addressed(q.tag, q.task)'
    BY <1>0, <1>t, <2>1 DEF IInv, SRBsAddressed, Addressed, TypeOK, Posts
  <2>4. \A i \in 1 .. n :
          replies'[i].tag \in Tags /\ pc'[replies'[i].task] = "inProcess" =>
              Addressed(replies[i].tag, replies[i].task)'
    <3> SUFFICES ASSUME NEW i \in 1 .. n, replies'[i].tag \in Tags,
                        pc[replies'[i].task] = "inProcess"
                 PROVE  Addressed(replies[i].tag, replies[i].task)'
      BY <1>0
    <3>1. CASE i = n
      <4>1. Addressed(p.tag, p.task)
        BY <1>1, <1>3, <3>1 DEF IInv, SRBsAddressed
      <4> QED
        BY <1>1, <1>3, <2>1, <3>1, <4>1 DEF Addressed
    <3>2. CASE i # n
      <4>1. i \in 1 .. Len(replies) /\ replies'[i] = replies[i]
        BY <1>3, <3>2
      <4>2. Addressed(replies[i].tag, replies[i].task) /\ replies[i].task \in Tasks
        BY <4>1 DEF IInv, SRBsAddressed, EntriesOwned, Owned
      <4> QED
        BY <2>1, <4>1, <4>2 DEF Addressed
    <3> QED
      BY <3>1, <3>2
  <2> QED
    BY <2>2, <2>3, <2>4 DEF SRBsAddressed, n
<1>15. HandlerHasTag' /\ CompletesItsOwner'
  BY <1>0 DEF IInv, HandlerHasTag, CompletesItsOwner
<1> QED
  BY <1>5, <1>7, <1>8, <1>9, <1>10, <1>11, <1>12, <1>13, <1>14, <1>15 DEF IInv

\* A reply outside the pool belongs to nobody.
LEMMA SpuriousStep ==
  ASSUME IInv, NEW g \in BadTags, AdapterSpurious(g)
  PROVE  IInv'
<1> USE SRBEngineAssumption DEF SRBEngineAssumption
<1> DEFINE e == [tag |-> g, task |-> NoTask, outcome |-> "good"]
           n == Len(replies')
<1>0. /\ UNCHANGED <<freeSRB, srb, posted, handler, pc, tag, live, req, ident,
                     timeouts, nested>>
      /\ replies' = Append(replies, e) /\ postInt' = TRUE
  BY DEF AdapterSpurious, stackVars
<1>t. TypeOK
  BY DEF IInv
<1>1. e \in Replies /\ e.tag \notin Tags
  BY PoolSize, BadTagsOutside DEF Replies, Outcomes, Tags
<1> HIDE DEF e
<1>2. /\ replies' \in Seq(Replies)
      /\ Len(replies) \in Nat
      /\ n = Len(replies) + 1
      /\ \A i \in 1 .. Len(replies) : replies'[i] = replies[i]
      /\ replies'[n] = e
      /\ \A i \in 1 .. n : i \in 1 .. Len(replies) \/ i = n
  BY <1>0, <1>1, <1>t, RepliesAppend DEF TypeOK
<1>3. TypeOK'
  BY <1>0, <1>2, <1>t DEF TypeOK
<1> HIDE DEF n
<1>4. \A h \in Tags : Replied(h)' <=> Replied(h)
  BY <1>1, <1>2 DEF Replied, n
<1>5. NoTagLost'
  BY <1>0, <1>4 DEF IInv, NoTagLost, Free, Held, AtAdapter, Finishing, Building
<1>6. NoTagShared'
  <2>1. \A i, j \in 1 .. n :
          replies'[i].tag \in Tags /\ replies'[i].tag = replies'[j].tag => i = j
    BY SMTT(30), <1>1, <1>2 DEF IInv, NoTagShared
  <2> QED
    BY <1>0, <1>4, <2>1
       DEF IInv, NoTagShared, Free, Held, AtAdapter, Finishing, Building, n
<1>7. StackInSync' /\ IdentInSync' /\ HandlerHasTag' /\ CompletesItsOwner'
  BY <1>0 DEF IInv, StackInSync, IdentInSync, HandlerHasTag, CompletesItsOwner, Building
<1>8. EntriesOwned' /\ ErrorRecorded' /\ InProcessOut'
  BY <1>0, <1>1, <1>2
     DEF IInv, EntriesOwned, Owned, ErrorRecorded, InProcessOut, n
<1>9. OutOnce'
  BY <1>0, <1>1, <1>2 DEF IInv, OutOnce, n
<1>10. SRBsAddressed'
  BY <1>0, <1>1, <1>2 DEF IInv, SRBsAddressed, Addressed, n
<1> QED
  BY <1>3, <1>5, <1>6, <1>7, <1>8, <1>9, <1>10 DEF IInv

-----------------------------------------------------------------------------
(***************************************************************************)
(* The workloop.                                                           *)
(***************************************************************************)
\* Entering and leaving the drain loop moves no tag.
LEMMA HandlerStep ==
  ASSUME IInv, HandleInterruptRequest \/ QueueEmpty
  PROVE  IInv'
<1>0. /\ UNCHANGED <<freeSRB, srb, posted, replies, pc, tag, live, req, ident,
                     timeouts, nested>>
      /\ postInt' \in BOOLEAN
      /\ handler.pc # "complete" /\ handler' \in {Idle, Draining}
  BY DEF IInv, TypeOK, HandleInterruptRequest, QueueEmpty, ioVars, stackVars
<1>1. handler'.pc # "complete"
  BY <1>0 DEF Idle, Draining
<1>2. TypeOK'
  BY <1>0 DEF IInv, TypeOK
<1>3. \A h : Finishing(h)' <=> Finishing(h)
  BY <1>0, <1>1 DEF Finishing
<1>4. NoTagLost' /\ NoTagShared'
  BY <1>0, <1>3
     DEF IInv, NoTagLost, NoTagShared, Free, Held, AtAdapter, Replied, Building
<1>5. /\ StackInSync' /\ IdentInSync' /\ EntriesOwned' /\ OutOnce'
      /\ InProcessOut' /\ ErrorRecorded' /\ SRBsAddressed'
  BY <1>0 DEF IInv, StackInSync, IdentInSync, EntriesOwned, Owned, OutOnce,
              InProcessOut, ErrorRecorded, SRBsAddressed, Addressed, Building
<1>6. HandlerHasTag' /\ CompletesItsOwner'
  BY <1>1 DEF HandlerHasTag, CompletesItsOwner
<1> QED
  BY <1>2, <1>4, <1>5, <1>6 DEF IInv

\* Taking the oldest reply moves the others up by one.
LEMMA RepliesTail ==
  ASSUME replies \in Seq(Replies), replies # <<>>, replies' = Tail(replies)
  PROVE  /\ replies' \in Seq(Replies)
         /\ Len(replies) \in Nat \ {0}
         /\ Len(replies') = Len(replies) - 1
         /\ Head(replies) = replies[1] /\ Head(replies) \in Replies
         /\ 1 \in 1 .. Len(replies)
         /\ \A i \in 1 .. Len(replies') :
              i + 1 \in 1 .. Len(replies) /\ replies'[i] = replies[i + 1]
         /\ \A i \in 1 .. Len(replies) :
              i # 1 => i - 1 \in 1 .. Len(replies') /\ replies'[i - 1] = replies[i]
OBVIOUS

\* What the invariant says of the replies stays true of those left behind.
LEMMA TailKeeps ==
  ASSUME IInv, replies # <<>>, replies' = Tail(replies)
  PROVE  /\ \A i, j \in 1 .. Len(replies') :
              replies'[i].tag \in Tags /\ replies'[i].tag = replies'[j].tag => i = j
         /\ \A i, j \in 1 .. Len(replies') :
              /\ replies'[i].tag \in Tags /\ replies'[j].tag \in Tags
              /\ replies'[i].task = replies'[j].task
              => i = j
         /\ \A i \in 1 .. Len(replies') :
              /\ \E j \in 1 .. Len(replies) : replies[j] = replies'[i]
              /\ replies'[i].tag \in Tags => replies'[i].tag # Head(replies).tag
              /\ /\ replies'[i].tag \in Tags /\ Head(replies).tag \in Tags
                 => replies'[i].task # Head(replies).task
         /\ \A i \in 1 .. Len(replies) :
              \/ replies[i] = Head(replies)
              \/ \E j \in 1 .. Len(replies') : replies'[j] = replies[i]
<1>1. replies \in Seq(Replies)
  BY DEF IInv, TypeOK
<1>2. /\ Len(replies') = Len(replies) - 1 /\ Len(replies) \in Nat \ {0}
      /\ Head(replies) = replies[1] /\ 1 \in 1 .. Len(replies)
      /\ \A i \in 1 .. Len(replies') :
           i + 1 \in 1 .. Len(replies) /\ replies'[i] = replies[i + 1]
      /\ \A i \in 1 .. Len(replies) :
           i # 1 => i - 1 \in 1 .. Len(replies') /\ replies'[i - 1] = replies[i]
  BY <1>1, RepliesTail
<1>3. \A i, j \in 1 .. Len(replies) :
         replies[i].tag \in Tags /\ replies[i].tag = replies[j].tag => i = j
  BY DEF IInv, NoTagShared
<1>4. \A i, j \in 1 .. Len(replies) :
         /\ replies[i].tag \in Tags /\ replies[j].tag \in Tags
         /\ replies[i].task = replies[j].task
         => i = j
  BY DEF IInv, OutOnce
<1> QED
  BY SMTT(30), <1>2, <1>3, <1>4

\* A reply that names no SRB holds no tag, so dropping it loses none.
LEMMA DropStep ==
  ASSUME IInv, DropReply
  PROVE  IInv'
<1> DEFINE r == Head(replies)
<1>0. /\ UNCHANGED <<freeSRB, srb, posted, postInt, handler, pc, tag, live, req,
                     ident, timeouts, nested>>
      /\ replies # <<>> /\ replies' = Tail(replies) /\ r.tag \notin Tags
  BY DEF DropReply, stackVars
<1>1. /\ \A i, j \in 1 .. Len(replies') :
           replies'[i].tag \in Tags /\ replies'[i].tag = replies'[j].tag => i = j
      /\ \A i, j \in 1 .. Len(replies') :
           /\ replies'[i].tag \in Tags /\ replies'[j].tag \in Tags
           /\ replies'[i].task = replies'[j].task
           => i = j
      /\ \A i \in 1 .. Len(replies') :
           \E j \in 1 .. Len(replies) : replies[j] = replies'[i]
      /\ \A i \in 1 .. Len(replies) :
           \/ replies[i] = r
           \/ \E j \in 1 .. Len(replies') : replies'[j] = replies[i]
  BY <1>0, TailKeeps
<1>2. TypeOK'
  BY <1>0, RepliesTail DEF IInv, TypeOK
<1> HIDE DEF r
<1>3. \A h \in Tags : Replied(h)' <=> Replied(h)
  BY <1>0, <1>1 DEF Replied
<1>4. NoTagLost' /\ NoTagShared'
  <2>1. \A h \in Tags : /\ Free(h)' <=> Free(h)
                        /\ Held(h)' <=> Held(h)
                        /\ AtAdapter(h)' <=> AtAdapter(h)
                        /\ Finishing(h)' <=> Finishing(h)
    BY <1>0 DEF Free, Held, AtAdapter, Finishing, Building
  <2>2. NoTagLost'
    BY <1>3, <2>1 DEF IInv, NoTagLost
  <2>3. \A t, u \in Tasks : Building(t)' /\ Building(u)' /\ tag'[t] = tag'[u] => t = u
    BY <1>0 DEF IInv, NoTagShared, Building
  <2>4. NoTagShared'
    BY <1>0, <1>1, <1>3, <2>1, <2>3 DEF IInv, NoTagShared
  <2> QED
    BY <2>2, <2>4
<1>5. StackInSync' /\ IdentInSync' /\ HandlerHasTag' /\ CompletesItsOwner'
  BY <1>0 DEF IInv, StackInSync, IdentInSync, HandlerHasTag, CompletesItsOwner, Building
<1>6. EntriesOwned' /\ ErrorRecorded' /\ OutOnce'
  BY <1>0, <1>1 DEF IInv, EntriesOwned, Owned, ErrorRecorded, OutOnce
<1>7. InProcessOut'
  <2>1. ASSUME NEW t \in Tasks, NEW i \in 1 .. Len(replies),
               replies[i].tag \in Tags, replies[i].task = t
        PROVE  \E j \in 1 .. Len(replies') : replies'[j].tag \in Tags /\ replies'[j].task = t
    BY <1>0, <1>1, <2>1
  <2> QED
    BY <1>0, <2>1 DEF IInv, InProcessOut
<1>8. SRBsAddressed'
  BY <1>0, <1>1 DEF IInv, SRBsAddressed, Addressed
<1> QED
  BY <1>2, <1>4, <1>5, <1>6, <1>7, <1>8 DEF IInv

(***************************************************************************)
(* The lookup: a reply finds its own request, and nothing exactly when     *)
(* that request was given up.                                              *)
(***************************************************************************)
LEMMA FindTaskFinds ==
  ASSUME IInv, NEW i \in 1 .. Len(replies), replies[i].tag \in Tags
  PROVE  /\ pc[replies[i].task] = "abandoned" => FindTask(replies[i].tag) = {}
         /\ pc[replies[i].task] # "abandoned" =>
              /\ pc[replies[i].task] = "inProcess"
              /\ ident[replies[i].task] = replies[i].tag
              /\ FindTask(replies[i].tag) = {replies[i].task}
<1> DEFINE r == replies[i]
<1>1. Owned(r) /\ Replied(r.tag) /\ r.tag # NoTag
  BY DEF IInv, EntriesOwned, Replied, Tags, NoTag
<1>2. ASSUME NEW t \in FindTask(r.tag) PROVE t = r.task /\ pc[t] = "inProcess"
  <2>1. t \in Tasks /\ ident[t] = r.tag
    BY DEF FindTask, IInv, TypeOK
  <2>2. pc[t] # "post"
    BY <1>1, <2>1 DEF IInv, IdentInSync, NoTagShared, Held, Building
  <2>3. pc[t] = "inProcess"
    BY <1>1, <2>1, <2>2 DEF IInv, IdentInSync
  <2>4. CASE \E p \in posted : p.task = t
    <3>1. PICK p \in posted : p.task = t
      BY <2>4
    <3>2. p.tag = r.tag
      BY <2>1, <2>3, <3>1 DEF IInv, EntriesOwned, Owned
    <3> QED
      BY <1>1, <3>1, <3>2 DEF IInv, NoTagShared, AtAdapter
  <2>5. CASE \E j \in 1 .. Len(replies) : replies[j].tag \in Tags /\ replies[j].task = t
    <3>1. PICK j \in 1 .. Len(replies) : replies[j].tag \in Tags /\ replies[j].task = t
      BY <2>5
    <3>2. replies[j].tag = r.tag
      BY <2>1, <2>3, <3>1 DEF IInv, EntriesOwned, Owned
    <3>3. i = j
      BY <3>1, <3>2 DEF IInv, NoTagShared
    <3> QED
      BY <2>3, <3>1, <3>3
  <2> QED
    BY <2>1, <2>3, <2>4, <2>5 DEF IInv, InProcessOut
<1>3. ASSUME pc[r.task] # "abandoned"
      PROVE  r.task \in FindTask(r.tag) /\ pc[r.task] = "inProcess" /\ ident[r.task] = r.tag
  <2>1. pc[r.task] = "inProcess" /\ ident[r.task] = r.tag /\ r.task \in Tasks
    BY <1>1, <1>3 DEF Owned
  <2>2. r.task \in live
    BY <2>1 DEF IInv, StackInSync
  <2>3. req[r.task].target = TargetLun2ScsiTarget(srb[r.tag].target, srb[r.tag].lun)
    BY <2>1 DEF IInv, SRBsAddressed, Addressed
  <2> QED
    BY <2>1, <2>2, <2>3 DEF FindTask
<1> QED
  BY <1>2, <1>3

\* The tag of a request that was given up passes from the reply to the ring.
LEMMA RecycleStep ==
  ASSUME IInv, RecycleTag
  PROVE  IInv'
<1> USE SRBEngineAssumption
<1> DEFINE r == Head(replies)
           g == r.tag
<1>0. /\ UNCHANGED <<srb, posted, postInt, handler, tag, live, req, ident,
                     timeouts, nested>>
      /\ replies # <<>> /\ replies' = Tail(replies)
      /\ handler.pc = "drain"
      /\ g \in Tags /\ FindTask(g) = {} /\ returnTag(g)
      /\ pc' = [pc EXCEPT ![r.task] = "idle"]
  BY DEF RecycleTag, stackVars
<1>t. TypeOK
  BY DEF IInv
<1>1. /\ \A i, j \in 1 .. Len(replies') :
           replies'[i].tag \in Tags /\ replies'[i].tag = replies'[j].tag => i = j
      /\ \A i, j \in 1 .. Len(replies') :
           /\ replies'[i].tag \in Tags /\ replies'[j].tag \in Tags
           /\ replies'[i].task = replies'[j].task
           => i = j
      /\ \A i \in 1 .. Len(replies') :
           /\ \E j \in 1 .. Len(replies) : replies[j] = replies'[i]
           /\ replies'[i].tag \in Tags =>
                replies'[i].tag # g /\ replies'[i].task # r.task
      /\ \A i \in 1 .. Len(replies) :
           \/ replies[i] = r
           \/ \E j \in 1 .. Len(replies') : replies'[j] = replies[i]
  BY <1>0, TailKeeps
<1>2. 1 \in 1 .. Len(replies) /\ r = replies[1] /\ r \in Replies /\ replies' \in Seq(Replies)
  BY <1>0, <1>t, RepliesTail DEF TypeOK
<1>3. r.task \in Tasks /\ pc[r.task] = "abandoned" /\ Replied(g)
  <2>1. replies[1].tag \in Tags /\ FindTask(replies[1].tag) = {}
    BY <1>0, <1>2
  <2>2. pc[replies[1].task] = "abandoned"
    BY <1>2, <2>1, FindTaskFinds
  <2>3. replies[1].task \in Tasks
    BY <1>2, <2>1 DEF IInv, EntriesOwned, Owned
  <2> QED
    BY <1>0, <1>2, <2>2, <2>3 DEF Replied
<1>4. /\ freeSRB' \in Seq(Tags)
      /\ \A i, j \in 1 .. Len(freeSRB') : freeSRB'[i] = freeSRB'[j] => i = j
      /\ \A h \in Tags : Free(h)' <=> Free(h) \/ h = g
  BY <1>0, <1>3, <1>t, ReturnTagAdds DEF IInv, TypeOK, NoTagShared
<1> HIDE DEF r
<1>5. TypeOK'
  BY <1>0, <1>2, <1>4, <1>t DEF TypeOK
<1>6. \A u \in Tasks : Building(u)' <=> Building(u)
  BY <1>0, <1>3, <1>t DEF Building, TypeOK
<1>7. \A h \in Tags : /\ Free(h)' <=> Free(h) \/ h = g
                      /\ Held(h)' <=> Held(h)
                      /\ AtAdapter(h)' <=> AtAdapter(h)
                      /\ Replied(h)' <=> Replied(h) /\ h # g
                      /\ Finishing(h)' <=> Finishing(h)
  <2>1. \A h \in Tags : Replied(h)' <=> Replied(h) /\ h # g
    BY <1>1 DEF Replied
  <2> QED
    BY <1>0, <1>4, <1>6, <2>1 DEF Held, AtAdapter, Finishing
<1>8. NoTagLost'
  BY <1>7 DEF IInv, NoTagLost
<1>9. NoTagShared'
  <2>1. \A t, u \in Tasks : Building(t)' /\ Building(u)' /\ tag'[t] = tag'[u] => t = u
    BY <1>0, <1>6 DEF IInv, NoTagShared
  <2>2. \A h \in Tags :
          /\ Free(h) => ~(Held(h) \/ AtAdapter(h) \/ Replied(h) \/ Finishing(h))
          /\ Held(h) => ~(AtAdapter(h) \/ Replied(h) \/ Finishing(h))
          /\ AtAdapter(h) => ~(Replied(h) \/ Finishing(h))
          /\ Replied(h) => ~Finishing(h)
    BY DEF IInv, NoTagShared
  <2>3. \A h \in Tags :
          /\ Free(h)' => ~(Held(h)' \/ AtAdapter(h)' \/ Replied(h)' \/ Finishing(h)')
          /\ Held(h)' => ~(AtAdapter(h)' \/ Replied(h)' \/ Finishing(h)')
          /\ AtAdapter(h)' => ~(Replied(h)' \/ Finishing(h)')
          /\ Replied(h)' => ~Finishing(h)'
    BY <1>0, <1>3, <1>7, <2>2
  <2> QED
    BY <1>0, <1>1, <1>4, <2>1, <2>3 DEF IInv, NoTagShared
<1>10. StackInSync' /\ IdentInSync'
  BY <1>0, <1>3, <1>6, <1>t DEF IInv, StackInSync, IdentInSync, TypeOK
<1>11. EntriesOwned'
  <2>1. \A p \in posted : p.task # r.task
    BY <1>0, <1>2 DEF IInv, OutOnce
  <2>2. \A u \in Tasks : u # r.task => pc'[u] = pc[u]
    BY <1>0, <1>t DEF TypeOK
  <2> QED
    BY <1>0, <1>1, <2>1, <2>2 DEF IInv, EntriesOwned, Owned
<1>12. OutOnce' /\ ErrorRecorded' /\ HandlerHasTag' /\ CompletesItsOwner'
  BY <1>0, <1>1 DEF IInv, OutOnce, ErrorRecorded, HandlerHasTag, CompletesItsOwner
<1>13. InProcessOut'
  <2> SUFFICES ASSUME NEW u \in Tasks, pc'[u] = "inProcess"
               PROVE  \/ \E p \in posted : p.task = u
                      \/ \E i \in 1 .. Len(replies') :
                           replies'[i].tag \in Tags /\ replies'[i].task = u
    BY <1>0 DEF InProcessOut
  <2>1. pc[u] = "inProcess" /\ u # r.task
    BY <1>0, <1>3, <1>t DEF TypeOK
  <2>2. CASE \E i \in 1 .. Len(replies) : replies[i].tag \in Tags /\ replies[i].task = u
    BY <1>1, <2>1, <2>2
  <2> QED
    BY <2>1, <2>2 DEF IInv, InProcessOut
<1>14. SRBsAddressed'
  <2>1. \A u \in Tasks : pc'[u] # "idle" => pc'[u] = pc[u]
    BY <1>0, <1>t DEF TypeOK
  <2> QED
    BY <1>0, <1>1, <2>1 DEF IInv, SRBsAddressed, Addressed, EntriesOwned, Owned
<1> QED
  BY <1>5, <1>8, <1>9, <1>10, <1>11, <1>12, <1>13, <1>14 DEF IInv

\* What the handler passes to CompleteParallelTask.
LEMMA TaskResultFacts ==
  ASSUME SRBEngineAssumption
  PROVE  /\ \A e \in BOOLEAN, d \in Errors : TaskResult(e, d) \in Results
         /\ \A d, c : TaskResult(FALSE, d) = TaskResult(FALSE, c)
<1>1. ASSUME NEW e \in BOOLEAN, NEW d \in Errors PROVE TaskResult(e, d) \in Results
  <2>1. (e /\ d = "check_condition") \in BOOLEAN
    OBVIOUS
  <2> DEFINE sense == e /\ d = "check_condition"
  <2> HIDE DEF sense
  <2>2. CASE ~e
    BY <2>1, <2>2 DEF TaskResult, Results, sense
  <2>3. CASE e
    BY <2>1, <2>3 DEF TaskResult, Results, sense, SRBEngineAssumption
  <2> QED
    BY <2>2, <2>3
<1>2. \A d, c : TaskResult(FALSE, d) = TaskResult(FALSE, c)
  BY DEF TaskResult
<1> QED
  BY <1>1, <1>2

\* A tag whose request is completed passes from the reply to the handler.
LEMMA CompleteStep ==
  ASSUME IInv, CompleteParallelTask
  PROVE  IInv'
<1> USE SRBEngineAssumption
<1> DEFINE r == Head(replies)
           g == r.tag
           t == r.task
           res == TaskResult(r.outcome # "good", srb[g].device_status)
<1>0. /\ UNCHANGED <<freeSRB, srb, posted, postInt, tag, timeouts, nested>>
      /\ replies # <<>> /\ replies' = Tail(replies)
      /\ handler.pc = "drain"
      /\ g \in Tags
  BY DEF CompleteParallelTask
<1>t. TypeOK
  BY DEF IInv
<1>1. /\ \A i, j \in 1 .. Len(replies') :
           replies'[i].tag \in Tags /\ replies'[i].tag = replies'[j].tag => i = j
      /\ \A i, j \in 1 .. Len(replies') :
           /\ replies'[i].tag \in Tags /\ replies'[j].tag \in Tags
           /\ replies'[i].task = replies'[j].task
           => i = j
      /\ \A i \in 1 .. Len(replies') :
           /\ \E j \in 1 .. Len(replies) : replies[j] = replies'[i]
           /\ replies'[i].tag \in Tags =>
                replies'[i].tag # g /\ replies'[i].task # r.task
      /\ \A i \in 1 .. Len(replies) :
           \/ replies[i] = r
           \/ \E j \in 1 .. Len(replies') : replies'[j] = replies[i]
  BY <1>0, TailKeeps
<1>2. 1 \in 1 .. Len(replies) /\ r = replies[1] /\ r \in Replies /\ replies' \in Seq(Replies)
  BY <1>0, <1>t, RepliesTail DEF TypeOK
<1>a. PICK u \in FindTask(g) :
        /\ Release(u)
        /\ pc' = [pc EXCEPT ![u] = "idle"]
        /\ handler' = [pc |-> "complete", task |-> u, reply |-> r, result |-> res]
  BY DEF CompleteParallelTask
<1>3. u = r.task /\ r.task \in Tasks /\ pc[r.task] = "inProcess" /\ Replied(g)
  <2>1. replies[1].tag \in Tags /\ u \in FindTask(replies[1].tag)
    BY <1>0, <1>2, <1>a
  <2>2. u = replies[1].task /\ pc[replies[1].task] = "inProcess"
    BY <1>2, <2>1, FindTaskFinds
  <2>3. replies[1].task \in Tasks
    BY <1>2, <2>1 DEF IInv, EntriesOwned, Owned
  <2> QED
    BY <1>0, <1>2, <2>2, <2>3 DEF Replied
<1> HIDE DEF r
<1>4. /\ live' = live \ {t} /\ req' = [req EXCEPT ![t] = NoRequest]
      /\ ident' = [ident EXCEPT ![t] = NoTag]
      /\ pc' = [pc EXCEPT ![t] = "idle"]
      /\ handler' = [pc |-> "complete", task |-> t, reply |-> r, result |-> res]
  BY <1>a, <1>3 DEF Release
<1>5. res \in Results /\ res = TaskResult(r.outcome # "good", r.outcome)
  <2>1. srb[g].device_status \in Errors
    BY <1>0, <1>t DEF TypeOK, SRBs
  <2>2. CASE r.outcome = "good"
    <3>1. res = TaskResult(FALSE, srb[g].device_status)
      BY <2>2, Zenon
    <3>2. TaskResult(r.outcome # "good", r.outcome) = TaskResult(FALSE, r.outcome)
      BY <2>2, Zenon
    <3> QED
      BY <2>1, <3>1, <3>2, TaskResultFacts
  <2>3. CASE r.outcome # "good"
    <3>1. srb[g].device_status = r.outcome
      BY <1>0, <1>2, <2>3 DEF IInv, ErrorRecorded
    <3>2. res = TaskResult(TRUE, srb[g].device_status)
      BY <2>3, Zenon
    <3> QED
      BY <2>1, <3>1, <3>2, TaskResultFacts
  <2> QED
    BY <2>2, <2>3
<1> HIDE DEF res
<1>6. TypeOK'
  <2>1. handler' \in [pc : {"complete"}, task : Tasks, reply : Replies, result : Results]
    BY <1>2, <1>3, <1>4, <1>5
  <2>2. pc' \in [Tasks -> {"idle", "getTag", "build", "identify", "post",
                          "inProcess", "abandoned"}]
    BY <1>4, <1>t DEF TypeOK
  <2> QED
    BY <1>0, <1>2, <1>4, <1>t, <2>1, <2>2 DEF TypeOK
<1>7. \A v \in Tasks : Building(v)' <=> Building(v)
  BY <1>3, <1>4, <1>t DEF Building, TypeOK
<1>8. \A h \in Tags : /\ Free(h)' <=> Free(h)
                      /\ Held(h)' <=> Held(h)
                      /\ AtAdapter(h)' <=> AtAdapter(h)
                      /\ Replied(h)' <=> Replied(h) /\ h # g
                      /\ Finishing(h)' <=> h = g
                      /\ ~Finishing(h)
  <2>1. \A h \in Tags : Replied(h)' <=> Replied(h) /\ h # g
    BY <1>1 DEF Replied
  <2>2. \A h \in Tags : (Finishing(h)' <=> h = g) /\ ~Finishing(h)
    BY <1>0, <1>4 DEF Finishing
  <2> QED
    BY <1>0, <1>7, <2>1, <2>2 DEF Free, Held, AtAdapter
<1>9. NoTagLost'
  BY <1>8 DEF IInv, NoTagLost
<1>10. NoTagShared'
  <2>1. \A v, w \in Tasks : Building(v)' /\ Building(w)' /\ tag'[v] = tag'[w] => v = w
    BY <1>0, <1>7 DEF IInv, NoTagShared
  <2>2. \A h \in Tags :
          /\ Free(h) => ~(Held(h) \/ AtAdapter(h) \/ Replied(h) \/ Finishing(h))
          /\ Held(h) => ~(AtAdapter(h) \/ Replied(h) \/ Finishing(h))
          /\ AtAdapter(h) => ~(Replied(h) \/ Finishing(h))
          /\ Replied(h) => ~Finishing(h)
    BY DEF IInv, NoTagShared
  <2>3. \A h \in Tags :
          /\ Free(h)' => ~(Held(h)' \/ AtAdapter(h)' \/ Replied(h)' \/ Finishing(h)')
          /\ Held(h)' => ~(AtAdapter(h)' \/ Replied(h)' \/ Finishing(h)')
          /\ AtAdapter(h)' => ~(Replied(h)' \/ Finishing(h)')
          /\ Replied(h)' => ~Finishing(h)'
    BY <1>0, <1>3, <1>8, <2>2
  <2> QED
    BY <1>0, <1>1, <2>1, <2>3 DEF IInv, NoTagShared
<1>11. StackInSync' /\ IdentInSync'
  BY <1>0, <1>3, <1>4, <1>7, <1>t DEF IInv, StackInSync, IdentInSync, TypeOK
<1>12. EntriesOwned'
  <2>1. \A p \in posted : p.task # r.task
    BY <1>0, <1>2 DEF IInv, OutOnce
  <2>2. \A v \in Tasks : v # r.task => pc'[v] = pc[v] /\ ident'[v] = ident[v]
    BY <1>4, <1>t DEF TypeOK
  <2>3. \A p \in posted : Owned(p)'
    BY <2>1, <2>2 DEF IInv, EntriesOwned, Owned
  <2>4. \A i \in 1 .. Len(replies') :
          replies'[i].tag \in Tags => Owned(replies[i])'
    <3> SUFFICES ASSUME NEW i \in 1 .. Len(replies'), replies'[i].tag \in Tags
                 PROVE  Owned(replies[i])'
      OBVIOUS
    <3>1. PICK j \in 1 .. Len(replies) : replies[j] = replies'[i]
      BY <1>1
    <3>2. Owned(replies[j]) /\ replies'[i].task # r.task
      BY <1>1, <3>1 DEF IInv, EntriesOwned
    <3> QED
      BY <2>2, <3>1, <3>2 DEF Owned
  <2> QED
    BY <1>0, <2>3, <2>4 DEF EntriesOwned
<1>13. InProcessOut'
  <2> SUFFICES ASSUME NEW v \in Tasks, pc'[v] = "inProcess"
               PROVE  \/ \E p \in posted : p.task = v
                      \/ \E i \in 1 .. Len(replies') :
                           replies'[i].tag \in Tags /\ replies'[i].task = v
    BY <1>0 DEF InProcessOut
  <2>1. pc[v] = "inProcess" /\ v # r.task
    BY <1>3, <1>4, <1>t DEF TypeOK
  <2>2. CASE \E i \in 1 .. Len(replies) : replies[i].tag \in Tags /\ replies[i].task = v
    BY <1>1, <2>1, <2>2
  <2> QED
    BY <2>1, <2>2 DEF IInv, InProcessOut
<1>14. OutOnce' /\ ErrorRecorded'
  BY <1>0, <1>1 DEF IInv, OutOnce, ErrorRecorded
<1>15. SRBsAddressed'
  <2>1. \A v \in Tasks : pc'[v] # "idle" => pc'[v] = pc[v] /\ req'[v] = req[v]
    BY <1>4, <1>t DEF TypeOK
  <2>2. \A v \in Tasks : pc'[v] \in {"identify", "post"} => Addressed(tag[v], v)'
    BY <1>0, <2>1 DEF IInv, SRBsAddressed, Addressed
  <2>3. \A p \in posted : pc'[p.task] = "inProcess" => Addressed(p.tag, p.task)'
    BY <1>0, <2>1 DEF IInv, SRBsAddressed, Addressed, EntriesOwned, Owned
  <2>4. \A i \in 1 .. Len(replies') :
          replies'[i].tag \in Tags /\ pc'[replies'[i].task] = "inProcess" =>
              Addressed(replies[i].tag, replies[i].task)'
    <3> SUFFICES ASSUME NEW i \in 1 .. Len(replies'), replies'[i].tag \in Tags,
                        pc'[replies'[i].task] = "inProcess"
                 PROVE  Addressed(replies[i].tag, replies[i].task)'
      OBVIOUS
    <3>1. PICK j \in 1 .. Len(replies) : replies[j] = replies'[i]
      BY <1>1
    <3>2. replies'[i].task \in Tasks
      BY <3>1 DEF IInv, EntriesOwned, Owned
    <3>3. pc[replies'[i].task] = "inProcess" /\ req'[replies'[i].task] = req[replies'[i].task]
      BY <2>1, <3>2
    <3>4. Addressed(replies[j].tag, replies[j].task)
      BY <3>1, <3>3 DEF IInv, SRBsAddressed
    <3> QED
      BY <1>0, <3>1, <3>3, <3>4 DEF Addressed
  <2> QED
    BY <1>0, <2>2, <2>3, <2>4 DEF SRBsAddressed
<1>16. HandlerHasTag' /\ CompletesItsOwner'
  BY <1>0, <1>4, <1>5 DEF HandlerHasTag, CompletesItsOwner
<1> QED
  BY <1>6, <1>9, <1>10, <1>11, <1>12, <1>13, <1>14, <1>15, <1>16 DEF IInv

\* The tag passes from the handler to the ring.
LEMMA FinishStep ==
  ASSUME IInv, FinishReply
  PROVE  IInv'
<1> USE SRBEngineAssumption
<1> DEFINE g == handler.reply.tag
<1>0. /\ UNCHANGED <<srb, posted, replies, postInt, pc, tag, live, req, ident,
                     timeouts, nested>>
      /\ handler.pc = "complete" /\ handler' = Draining /\ returnTag(g)
  BY DEF FinishReply, ioVars, stackVars
<1>t. TypeOK
  BY DEF IInv
<1>1. g \in Tags /\ Finishing(g) /\ \A h \in Tags : Finishing(h) => h = g
  BY <1>0 DEF IInv, HandlerHasTag, Finishing
<1>2. /\ freeSRB' \in Seq(Tags)
      /\ \A i, j \in 1 .. Len(freeSRB') : freeSRB'[i] = freeSRB'[j] => i = j
      /\ \A h \in Tags : Free(h)' <=> Free(h) \/ h = g
  BY <1>0, <1>1, <1>t, ReturnTagAdds DEF IInv, TypeOK, NoTagShared
<1>3. TypeOK'
  BY <1>0, <1>2, <1>t DEF TypeOK
<1>4. \A h \in Tags : /\ Held(h)' <=> Held(h)
                      /\ AtAdapter(h)' <=> AtAdapter(h)
                      /\ Replied(h)' <=> Replied(h)
                      /\ ~Finishing(h)'
  BY <1>0 DEF Held, AtAdapter, Replied, Finishing, Building, Draining
<1>5. NoTagLost'
  BY <1>1, <1>2, <1>4 DEF IInv, NoTagLost
<1>6. NoTagShared'
  <2>1. \A t, u \in Tasks : Building(t)' /\ Building(u)' /\ tag'[t] = tag'[u] => t = u
    BY <1>0 DEF IInv, NoTagShared, Building
  <2>2. \A h \in Tags :
          /\ Free(h)' => ~(Held(h)' \/ AtAdapter(h)' \/ Replied(h)' \/ Finishing(h)')
          /\ Held(h)' => ~(AtAdapter(h)' \/ Replied(h)' \/ Finishing(h)')
          /\ AtAdapter(h)' => ~(Replied(h)' \/ Finishing(h)')
          /\ Replied(h)' => ~Finishing(h)'
    BY <1>1, <1>2, <1>4 DEF IInv, NoTagShared
  <2> QED
    BY <1>0, <1>2, <2>1, <2>2 DEF IInv, NoTagShared
<1>7. /\ StackInSync' /\ IdentInSync' /\ EntriesOwned' /\ OutOnce'
      /\ InProcessOut' /\ ErrorRecorded' /\ SRBsAddressed'
  BY <1>0 DEF IInv, StackInSync, IdentInSync, EntriesOwned, Owned, OutOnce,
              InProcessOut, ErrorRecorded, SRBsAddressed, Addressed, Building
<1>8. HandlerHasTag' /\ CompletesItsOwner'
  BY <1>0 DEF HandlerHasTag, CompletesItsOwner, Draining
<1> QED
  BY <1>3, <1>5, <1>6, <1>7, <1>8 DEF IInv

\* The invariant depends on nothing but the variables of the specification.
LEMMA StutterStep ==
  ASSUME IInv, UNCHANGED vars
  PROVE  IInv'
<1>0. UNCHANGED <<freeSRB, srb, posted, replies, postInt, handler, pc, tag, live,
                  req, ident, nested, timeouts>>
  BY DEF vars
<1>1. TypeOK'
  BY <1>0 DEF IInv, TypeOK
<1>2. NoTagLost' /\ NoTagShared'
  BY <1>0
     DEF IInv, NoTagLost, NoTagShared, Free, Held, AtAdapter, Replied, Finishing, Building
<1>3. /\ StackInSync' /\ IdentInSync' /\ EntriesOwned' /\ OutOnce'
      /\ InProcessOut' /\ ErrorRecorded' /\ SRBsAddressed'
      /\ HandlerHasTag' /\ CompletesItsOwner'
  BY <1>0 DEF IInv, StackInSync, IdentInSync, EntriesOwned, Owned, OutOnce,
              InProcessOut, ErrorRecorded, SRBsAddressed, Addressed, Building,
              HandlerHasTag, CompletesItsOwner
<1> QED
  BY <1>1, <1>2, <1>3 DEF IInv

-----------------------------------------------------------------------------
(***************************************************************************)
(* The theorems.                                                           *)
(***************************************************************************)
\* The strengthened invariant holds in every reachable state.
LEMMA Invariance == Spec => []IInv
<1>1. IInv /\ [Next]_vars => IInv'
  <2> SUFFICES ASSUME IInv, [Next]_vars PROVE IInv'
    OBVIOUS
  <2>1. ASSUME NEW t \in Tasks, NEW r \in Requests, SubmitOnThread(t, r) PROVE IInv'
    BY <2>1, SubmitStep DEF SubmitOnThread, IInv, TypeOK
  <2>2. ASSUME NEW t \in Tasks, NEW r \in Requests, SubmitInCompletion(t, r) PROVE IInv'
    BY <2>2, SubmitStep DEF SubmitInCompletion
  <2>3. ASSUME NEW t \in Tasks, HandleTimeout(t) PROVE IInv'
    BY <2>3, TimeoutStep
  <2>4. ASSUME NEW t \in Tasks, ProcessParallelTask(t) PROVE IInv'
    BY <2>4, GetTagStep, BuildStep, IdentifyStep, PostStep DEF ProcessParallelTask
  <2>5. CASE Adapter
    BY <2>5, ReplyStep, SpuriousStep DEF Adapter
  <2>6. CASE Workloop
    BY <2>6, HandlerStep, DropStep, RecycleStep, CompleteStep, FinishStep DEF Workloop
  <2>7. CASE UNCHANGED vars
    BY <2>7, StutterStep
  <2> QED
    BY <2>1, <2>2, <2>3, <2>4, <2>5, <2>6, <2>7 DEF Next, Stack
<1> QED
  BY InitIInv, <1>1, PTL DEF Spec

\* Every variable keeps its type: in particular no request is built in an SRB
\* outside the pool, and no reply is completed without one.
THEOREM TypeCorrect == Spec => []TypeOK
BY Invariance, PTL DEF IInv

\* Whatever the order of replies, timeouts and new requests, no tag leaks.
THEOREM TagsConserved == Spec => []NoTagLost
BY Invariance, PTL DEF IInv

\* No SRB is reused while the adapter may still answer it.
THEOREM TagsExclusive == Spec => []NoTagShared
BY Invariance, PTL DEF IInv

\* A completion goes to the request the SRB was built for, with its own status.
THEOREM CompletionCorrect == Spec => []CompletesItsOwner
BY Invariance, PTL DEF IInv

\* A reply is thrown away only when the stack gave up on its request.
THEOREM LookupCorrect == Spec => []MissMeansTimeout
<1>1. IInv => MissMeansTimeout
  BY FindTaskFinds DEF MissMeansTimeout
<1> QED
  BY Invariance, <1>1, PTL
=============================================================================
