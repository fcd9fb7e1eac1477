-------------------------- MODULE UserClient_proofs --------------------------
(* What the client lock does promise, for any number of clients and threads. *)
EXTENDS UserClient, TLAPS

AllThreads == Threads \cup {Closer}

(***************************************************************************)
(* The properties speak of connections that are gone; inductive is what    *)
(* clientClose has already done for one that is going, step by step, if no *)
(* open() of the client overlaps it and the provider is not terminated.    *)
(***************************************************************************)

\* A call that is under way when clientClose has begun overlaps it.
CallOverlaps(c, t) ==
    /\ ~At(c, t, "idle") /\ (~At(c, Closer, "idle") \/ c \notin connected)
         => c \in overlapped
    /\ pc[c][t] \in Opening /\ (~At(c, Closer, "idle") \/ c \notin connected)
         => c \in openOverlapped
    /\ ~At(c, t, "forget") /\ ~At(c, t, "terminate")

CallsOverlap == \A c \in Clients, t \in Threads : CallOverlaps(c, t)

\* clientClose has gone through fProvider by the time it sets it to NULL.
CloserSteps(c) ==
    /\ pc[c][Closer] \in {"idle", "deactivate", "closeProvider", "forget", "terminate"}
    /\ ~At(c, Closer, "idle") => c \in connected
    /\ c \in connected /\ c \notin fProvider <=> At(c, Closer, "terminate")

CloserInOrder == \A c \in Clients : CloserSteps(c)

\* The flag is not this client's once clientClose has cleared it, nor the
\* provider once it has closed it.
HasGivenUp(c) ==
    c \notin openOverlapped /\ ~terminated =>
      /\ pc[c][Closer] \in {"closeProvider", "forget", "terminate"}
           => ~(clientActive /\ holder = c)
      /\ pc[c][Closer] \in {"forget", "terminate"} => provider # c

GivenUp == \A c \in Clients : HasGivenUp(c)

HolderIsClient == clientActive => holder \in Clients

IInv ==
    /\ TypeOK /\ CallsOverlap /\ CloserInOrder /\ GivenUp /\ HolderIsClient
    /\ LockHasOwner /\ ProviderHasOwner /\ NullUseNeedsOverlap

-----------------------------------------------------------------------------
\* How the program counters change when one thread of one client moves.
LEMMA OneMoves ==
  ASSUME TypeOK, NEW c \in Clients, NEW t \in AllThreads, NEW step, Goto(c, t, step)
  PROVE  /\ pc'[c][t] = step
         /\ \A d \in Clients : \A u \in AllThreads :
              d # c \/ u # t => pc'[d][u] = pc[d][u]
BY DEF TypeOK, Goto, AllThreads

LEMMA StepType ==
  ASSUME TypeOK, NEW c \in Clients, NEW t \in AllThreads,
         NEW step \in {"idle", "request", "activate", "openProvider", "deactivate",
                       "closeProvider", "forget", "terminate", "panic"},
         Goto(c, t, step)
  PROVE  pc' \in [Clients -> [Threads \cup {Closer} ->
                    {"idle", "request", "activate", "openProvider", "deactivate",
                     "closeProvider", "forget", "terminate", "panic"}]]
BY DEF TypeOK, Goto, AllThreads

\* Every variable keeps its type.
LEMMA TypeStep == IInv /\ [Next]_vars => TypeOK'
<1> SUFFICES ASSUME TypeOK, CloserInOrder, [Next]_vars PROVE TypeOK'
  BY DEF IInv
<1> USE UserClientAssumption DEF UserClientAssumption, TypeOK, AllThreads, shared, history
<1>1. ASSUME NEW c \in Clients, start(c) PROVE TypeOK'
  BY <1>1 DEF start
<1>2. CASE TerminateProvider \/ InitializeController
  BY <1>2 DEF TerminateProvider, InitializeController
<1>3. ASSUME NEW c \in Clients, NEW t \in Threads, Call(c, t) PROVE TypeOK'
  BY <1>3, StepType DEF Call, open, close, request, Begin, Overlap
<1>4. ASSUME NEW c \in Clients, NEW t \in AllThreads, requestDone(c, t) PROVE TypeOK'
  BY <1>4, StepType DEF requestDone
<1>5. ASSUME NEW c \in Clients, NEW t \in AllThreads, activate(c, t) PROVE TypeOK'
  <2>1. pc' = [pc EXCEPT ![c][t] = IF clientActive THEN "idle" ELSE "openProvider"]
    BY <1>5 DEF activate, Goto
  <2> QED
    BY <1>5, <2>1 DEF activate, Opening
<1>6. ASSUME NEW c \in Clients, NEW t \in AllThreads, openProvider(c, t) PROVE TypeOK'
  BY <1>6, StepType DEF openProvider
<1>7. ASSUME NEW c \in Clients, NEW t \in AllThreads, deactivate(c, t) PROVE TypeOK'
  BY <1>7, StepType DEF deactivate
<1>8. ASSUME NEW c \in Clients, NEW t \in AllThreads, closeProvider(c, t) PROVE TypeOK'
  <2>1. pc' = [pc EXCEPT ![c][t] = IF t = Closer THEN "forget" ELSE "idle"]
    BY <1>8 DEF closeProvider, Goto
  <2> QED
    BY <1>8, <2>1 DEF closeProvider
<1>9. ASSUME NEW c \in Clients, NEW t \in AllThreads, useNull(c, t) PROVE TypeOK'
  BY <1>9, StepType DEF useNull
<1>10. ASSUME NEW c \in Clients, clientClose(c) PROVE TypeOK'
  <2>1. pc' = [pc EXCEPT ![c][Closer] = IF Inactive(c) THEN "forget" ELSE "deactivate"]
    BY <1>10 DEF clientClose, Goto
  <2>2. overlapped' \subseteq Clients /\ openOverlapped' \subseteq Clients
    BY <1>10 DEF clientClose, Overlap
  <2> QED
    BY <1>10, <2>1, <2>2 DEF clientClose
<1>11. ASSUME NEW c \in Clients, forget(c) PROVE TypeOK'
  BY <1>11, StepType DEF forget
<1>12. ASSUME NEW c \in Clients, terminate(c) PROVE TypeOK'
  <2>1. c \notin fProvider
    BY <1>12 DEF terminate, CloserInOrder, CloserSteps, At
  <2> QED
    BY <1>12, <2>1, StepType DEF terminate
<1>13. CASE UNCHANGED vars
  BY <1>13 DEF vars
<1> QED
  BY <1>1, <1>2, <1>3, <1>4, <1>5, <1>6, <1>7, <1>8, <1>9, <1>10, <1>11, <1>12, <1>13
     DEF Next, Connection, Step

\* A call overlaps clientClose if it is under way when the other begins.
LEMMA CallsStep == IInv /\ [Next]_vars => CallsOverlap'
<1> SUFFICES ASSUME IInv, [Next]_vars, NEW d \in Clients, NEW u \in Threads
             PROVE  CallOverlaps(d, u)'
  BY DEF CallsOverlap
<1>0. TypeOK /\ CallsOverlap /\ CloserInOrder
  BY DEF IInv
<1>t. fProvider \subseteq connected
  BY <1>0 DEF TypeOK
<1> USE UserClientAssumption DEF UserClientAssumption, AllThreads, shared, history, At,
        CallsOverlap, CallOverlaps, CloserInOrder, CloserSteps
<1>1. ASSUME NEW c \in Clients, start(c)
      PROVE  CallOverlaps(d, u)'
  BY <1>1, <1>0, <1>t DEF start, Forgotten, Idle, Opening
<1>2. CASE TerminateProvider
  BY <1>2, <1>0, <1>t DEF TerminateProvider, Opening
<1>3. CASE InitializeController
  BY <1>3, <1>0, <1>t DEF InitializeController, Idle, Opening
<1>4. ASSUME NEW c \in Clients, NEW t \in Threads, Call(c, t)
      PROVE  CallOverlaps(d, u)'
  BY <1>4, <1>0, <1>t, OneMoves
     DEF Call, open, close, request, Begin, Overlap, Opening, Inactive
<1>5. ASSUME NEW c \in Clients, NEW t \in AllThreads, requestDone(c, t)
      PROVE  CallOverlaps(d, u)'
  BY <1>5, <1>0, <1>t, OneMoves DEF requestDone, Opening
<1>6. ASSUME NEW c \in Clients, NEW t \in AllThreads, activate(c, t)
      PROVE  CallOverlaps(d, u)'
  BY <1>6, <1>0, <1>t, OneMoves DEF activate, Opening
<1>7. ASSUME NEW c \in Clients, NEW t \in AllThreads, openProvider(c, t)
      PROVE  CallOverlaps(d, u)'
  BY <1>7, <1>0, <1>t, OneMoves DEF openProvider, Opening
<1>8. ASSUME NEW c \in Clients, NEW t \in AllThreads, deactivate(c, t)
      PROVE  CallOverlaps(d, u)'
  BY <1>8, <1>0, <1>t, OneMoves DEF deactivate, Opening
<1>9. ASSUME NEW c \in Clients, NEW t \in AllThreads, closeProvider(c, t)
      PROVE  CallOverlaps(d, u)'
  BY <1>9, <1>0, <1>t, OneMoves DEF closeProvider, Opening
<1>10. ASSUME NEW c \in Clients, NEW t \in AllThreads, useNull(c, t)
      PROVE  CallOverlaps(d, u)'
  BY <1>10, <1>0, <1>t, OneMoves DEF useNull, Opening
<1>11. ASSUME NEW c \in Clients, clientClose(c)
      PROVE  CallOverlaps(d, u)'
  <2>1. pc'[d][u] = pc[d][u]
    BY <1>11, <1>0, OneMoves DEF clientClose
  <2>2. connected' = connected /\ overlapped \subseteq overlapped'
        /\ openOverlapped \subseteq openOverlapped'
    BY <1>11 DEF clientClose, Overlap
  <2>3. CASE d # c
    <3>1. pc'[d][Closer] = pc[d][Closer]
      BY <2>3, <1>11, <1>0, OneMoves DEF clientClose
    <3> QED
      BY <2>1, <2>2, <3>1, <1>0
  <2>4. CASE d = c
    <3>1. pc[c][u] # "idle" => pc[c][u] \in Calls(c)
      BY DEF Calls
    <3>2. pc[c][u] # "idle" => c \in overlapped'
      BY <3>1, <1>11 DEF clientClose, Overlap
    <3>3. pc[c][u] \in Opening => c \in openOverlapped'
      BY <3>1, <1>11 DEF clientClose, Overlap, Opening
    <3> QED
      BY <2>1, <2>2, <2>4, <3>2, <3>3, <1>0
  <2> QED
    BY <2>3, <2>4
<1>12. ASSUME NEW c \in Clients, forget(c)
      PROVE  CallOverlaps(d, u)'
  BY <1>12, <1>0, <1>t, OneMoves DEF forget, Opening
<1>13. ASSUME NEW c \in Clients, terminate(c)
      PROVE  CallOverlaps(d, u)'
  BY <1>13, <1>0, <1>t, OneMoves DEF terminate, Opening
<1>14. CASE UNCHANGED vars
  BY <1>14, <1>0, <1>t DEF vars
<1> QED
  BY <1>1, <1>2, <1>3, <1>4, <1>5, <1>6, <1>7, <1>8, <1>9, <1>10, <1>11, <1>12, <1>13, <1>14
     DEF Next, Connection, Step

\* clientClose goes through its steps in order.
LEMMA CloserStep == IInv /\ [Next]_vars => CloserInOrder'
<1> SUFFICES ASSUME IInv, [Next]_vars, NEW d \in Clients
             PROVE  CloserSteps(d)'
  BY DEF CloserInOrder
<1>0. TypeOK /\ CloserInOrder /\ CallsOverlap
  BY DEF IInv
<1>t. fProvider \subseteq connected
  BY <1>0 DEF TypeOK
<1> USE UserClientAssumption DEF UserClientAssumption, AllThreads, shared, history, At,
        CloserInOrder, CloserSteps, CallsOverlap, CallOverlaps
<1>1. ASSUME NEW c \in Clients, start(c)
      PROVE  CloserSteps(d)'
  BY <1>1, <1>0, <1>t DEF start, Forgotten, Idle, Opening
<1>2. CASE TerminateProvider
  BY <1>2, <1>0, <1>t DEF TerminateProvider, Opening
<1>3. CASE InitializeController
  BY <1>3, <1>0, <1>t DEF InitializeController, Idle, Opening
<1>4. ASSUME NEW c \in Clients, NEW t \in Threads, Call(c, t)
      PROVE  CloserSteps(d)'
  BY <1>4, <1>0, <1>t, OneMoves
     DEF Call, open, close, request, Begin, Overlap, Opening, Inactive
<1>5. ASSUME NEW c \in Clients, NEW t \in AllThreads, requestDone(c, t)
      PROVE  CloserSteps(d)'
  BY <1>5, <1>0, <1>t, OneMoves DEF requestDone, Opening
<1>6. ASSUME NEW c \in Clients, NEW t \in AllThreads, activate(c, t)
      PROVE  CloserSteps(d)'
  BY <1>6, <1>0, <1>t, OneMoves DEF activate, Opening
<1>7. ASSUME NEW c \in Clients, NEW t \in AllThreads, openProvider(c, t)
      PROVE  CloserSteps(d)'
  BY <1>7, <1>0, <1>t, OneMoves DEF openProvider, Opening
<1>8. ASSUME NEW c \in Clients, NEW t \in AllThreads, deactivate(c, t)
      PROVE  CloserSteps(d)'
  BY <1>8, <1>0, <1>t, OneMoves DEF deactivate, Opening
<1>9. ASSUME NEW c \in Clients, NEW t \in AllThreads, closeProvider(c, t)
      PROVE  CloserSteps(d)'
  BY <1>9, <1>0, <1>t, OneMoves DEF closeProvider, Opening
<1>10. ASSUME NEW c \in Clients, NEW t \in AllThreads, useNull(c, t)
      PROVE  CloserSteps(d)'
  BY <1>10, <1>0, <1>t, OneMoves DEF useNull, Opening
<1>11. ASSUME NEW c \in Clients, clientClose(c)
      PROVE  CloserSteps(d)'
  BY <1>11, <1>0, <1>t, OneMoves DEF clientClose, Overlap, Calls, Opening, Inactive
<1>12. ASSUME NEW c \in Clients, forget(c)
      PROVE  CloserSteps(d)'
  BY <1>12, <1>0, <1>t, OneMoves DEF forget, Opening
<1>13. ASSUME NEW c \in Clients, terminate(c)
      PROVE  CloserSteps(d)'
  BY <1>13, <1>0, <1>t, OneMoves DEF terminate, Opening
<1>14. CASE UNCHANGED vars
  BY <1>14, <1>0, <1>t DEF vars
<1> QED
  BY <1>1, <1>2, <1>3, <1>4, <1>5, <1>6, <1>7, <1>8, <1>9, <1>10, <1>11, <1>12, <1>13, <1>14
     DEF Next, Connection, Step

\* Nobody but the client itself takes back for it what it has given up.
LEMMA GivenUpStep == IInv /\ [Next]_vars => GivenUp'
<1> SUFFICES ASSUME IInv, [Next]_vars, NEW d \in Clients
             PROVE  HasGivenUp(d)'
  BY DEF GivenUp
<1>0. TypeOK /\ GivenUp /\ CallsOverlap /\ CloserInOrder
  BY DEF IInv
<1>t. clientActive \in BOOLEAN
  BY <1>0 DEF TypeOK
<1> USE UserClientAssumption DEF UserClientAssumption, AllThreads, shared, history, At,
        GivenUp, HasGivenUp, CallsOverlap, CallOverlaps, CloserInOrder, CloserSteps
<1>1. ASSUME NEW c \in Clients, start(c)
      PROVE  HasGivenUp(d)'
  BY <1>1, <1>0, <1>t DEF start, Forgotten, Idle, Opening
<1>2. CASE TerminateProvider
  BY <1>2, <1>0, <1>t DEF TerminateProvider, Opening
<1>3. CASE InitializeController
  BY <1>3, <1>0, <1>t DEF InitializeController, Idle, Opening
<1>4. ASSUME NEW c \in Clients, NEW t \in Threads, Call(c, t)
      PROVE  HasGivenUp(d)'
  BY <1>4, <1>0, <1>t, OneMoves
     DEF Call, open, close, request, Begin, Overlap, Opening, Inactive
<1>5. ASSUME NEW c \in Clients, NEW t \in AllThreads, requestDone(c, t)
      PROVE  HasGivenUp(d)'
  BY <1>5, <1>0, <1>t, OneMoves DEF requestDone, Opening
<1>6. ASSUME NEW c \in Clients, NEW t \in AllThreads, activate(c, t)
      PROVE  HasGivenUp(d)'
  BY <1>6, <1>0, <1>t, OneMoves DEF activate, Opening
<1>7. ASSUME NEW c \in Clients, NEW t \in AllThreads, openProvider(c, t)
      PROVE  HasGivenUp(d)'
  BY <1>7, <1>0, <1>t, OneMoves DEF openProvider, Opening
<1>8. ASSUME NEW c \in Clients, NEW t \in AllThreads, deactivate(c, t)
      PROVE  HasGivenUp(d)'
  BY <1>8, <1>0, <1>t, OneMoves DEF deactivate, Opening
<1>9. ASSUME NEW c \in Clients, NEW t \in AllThreads, closeProvider(c, t)
      PROVE  HasGivenUp(d)'
  BY <1>9, <1>0, <1>t, OneMoves DEF closeProvider, Opening
<1>10. ASSUME NEW c \in Clients, NEW t \in AllThreads, useNull(c, t)
      PROVE  HasGivenUp(d)'
  BY <1>10, <1>0, <1>t, OneMoves DEF useNull, Opening
<1>11. ASSUME NEW c \in Clients, clientClose(c)
      PROVE  HasGivenUp(d)'
  BY <1>11, <1>0, <1>t, OneMoves DEF clientClose, Overlap, Calls, Opening, Inactive
<1>12. ASSUME NEW c \in Clients, forget(c)
      PROVE  HasGivenUp(d)'
  BY <1>12, <1>0, <1>t, OneMoves DEF forget, Opening
<1>13. ASSUME NEW c \in Clients, terminate(c)
      PROVE  HasGivenUp(d)'
  BY <1>13, <1>0, <1>t, OneMoves DEF terminate, Opening
<1>14. CASE UNCHANGED vars
  BY <1>14, <1>0, <1>t DEF vars
<1> QED
  BY <1>1, <1>2, <1>3, <1>4, <1>5, <1>6, <1>7, <1>8, <1>9, <1>10, <1>11, <1>12, <1>13, <1>14
     DEF Next, Connection, Step

\* The flag is set by a client that is connected or whose open() overlapped, and cleared or
\* taken over before it goes.
LEMMA LockStep == IInv /\ [Next]_vars => (HolderIsClient /\ LockHasOwner)'
<1> SUFFICES ASSUME IInv, [Next]_vars PROVE (HolderIsClient /\ LockHasOwner)'
  OBVIOUS
<1>0. TypeOK /\ CallsOverlap /\ CloserInOrder /\ GivenUp /\ HolderIsClient /\ LockHasOwner
  BY DEF IInv
<1>t. clientActive \in BOOLEAN /\ fProvider \subseteq connected
  BY DEF IInv, TypeOK
<1> USE UserClientAssumption DEF UserClientAssumption, AllThreads, shared, history, At,
        HolderIsClient, LockHasOwner, GivenUp, HasGivenUp, CallsOverlap,
        CallOverlaps, CloserInOrder, CloserSteps
<1>1. ASSUME NEW c \in Clients, start(c)
      PROVE  (HolderIsClient /\ LockHasOwner)'
  BY <1>1, <1>0, <1>t DEF start, Forgotten, Idle, Opening
<1>2. CASE TerminateProvider
  BY <1>2, <1>0, <1>t DEF TerminateProvider, Opening
<1>3. CASE InitializeController
  BY <1>3, <1>0, <1>t DEF InitializeController, Idle, Opening
<1>4. ASSUME NEW c \in Clients, NEW t \in Threads, Call(c, t)
      PROVE  (HolderIsClient /\ LockHasOwner)'
  BY <1>4, <1>0, <1>t DEF Call, open, close, request, Begin, Overlap, Opening, Inactive
<1>5. ASSUME NEW c \in Clients, NEW t \in AllThreads, requestDone(c, t)
      PROVE  (HolderIsClient /\ LockHasOwner)'
  BY <1>5, <1>0, <1>t DEF requestDone, Opening
<1>6. ASSUME NEW c \in Clients, NEW t \in AllThreads, activate(c, t)
      PROVE  (HolderIsClient /\ LockHasOwner)'
  BY <1>6, <1>0, <1>t DEF activate, Opening
<1>7. ASSUME NEW c \in Clients, NEW t \in AllThreads, openProvider(c, t)
      PROVE  (HolderIsClient /\ LockHasOwner)'
  BY <1>7, <1>0, <1>t DEF openProvider, Opening
<1>8. ASSUME NEW c \in Clients, NEW t \in AllThreads, deactivate(c, t)
      PROVE  (HolderIsClient /\ LockHasOwner)'
  BY <1>8, <1>0, <1>t DEF deactivate, Opening
<1>9. ASSUME NEW c \in Clients, NEW t \in AllThreads, closeProvider(c, t)
      PROVE  (HolderIsClient /\ LockHasOwner)'
  BY <1>9, <1>0, <1>t DEF closeProvider, Opening
<1>10. ASSUME NEW c \in Clients, NEW t \in AllThreads, useNull(c, t)
      PROVE  (HolderIsClient /\ LockHasOwner)'
  BY <1>10, <1>0, <1>t DEF useNull, Opening
<1>11. ASSUME NEW c \in Clients, clientClose(c)
      PROVE  (HolderIsClient /\ LockHasOwner)'
  BY <1>11, <1>0, <1>t DEF clientClose, Overlap, Calls, Opening, Inactive
<1>12. ASSUME NEW c \in Clients, forget(c)
      PROVE  (HolderIsClient /\ LockHasOwner)'
  BY <1>12, <1>0, <1>t DEF forget, Opening
<1>13. ASSUME NEW c \in Clients, terminate(c)
      PROVE  (HolderIsClient /\ LockHasOwner)'
  BY <1>13, <1>0, <1>t DEF terminate, Opening
<1>14. CASE UNCHANGED vars
  BY <1>14, <1>0, <1>t DEF vars
<1> QED
  BY <1>1, <1>2, <1>3, <1>4, <1>5, <1>6, <1>7, <1>8, <1>9, <1>10, <1>11, <1>12, <1>13, <1>14
     DEF Next, Connection, Step

\* A client that is gone had closed the provider, unless an open() overlapped or the
\* provider was terminated.
LEMMA ProviderStep == IInv /\ [Next]_vars => ProviderHasOwner'
<1> SUFFICES ASSUME IInv, [Next]_vars PROVE ProviderHasOwner'
  OBVIOUS
<1>0. TypeOK /\ CallsOverlap /\ CloserInOrder /\ GivenUp /\ ProviderHasOwner
  BY DEF IInv
<1>t. provider \in Clients \cup {NoClient} /\ fProvider \subseteq connected
  BY DEF IInv, TypeOK
<1> USE UserClientAssumption DEF UserClientAssumption, AllThreads, shared, history, At,
        ProviderHasOwner, GivenUp, HasGivenUp, CallsOverlap, CallOverlaps,
        CloserInOrder, CloserSteps
<1>1. ASSUME NEW c \in Clients, start(c)
      PROVE  ProviderHasOwner'
  BY <1>1, <1>0, <1>t DEF start, Forgotten, Idle, Opening
<1>2. CASE TerminateProvider
  BY <1>2, <1>0, <1>t DEF TerminateProvider, Opening
<1>3. CASE InitializeController
  BY <1>3, <1>0, <1>t DEF InitializeController, Idle, Opening
<1>4. ASSUME NEW c \in Clients, NEW t \in Threads, Call(c, t)
      PROVE  ProviderHasOwner'
  BY <1>4, <1>0, <1>t DEF Call, open, close, request, Begin, Overlap, Opening, Inactive
<1>5. ASSUME NEW c \in Clients, NEW t \in AllThreads, requestDone(c, t)
      PROVE  ProviderHasOwner'
  BY <1>5, <1>0, <1>t DEF requestDone, Opening
<1>6. ASSUME NEW c \in Clients, NEW t \in AllThreads, activate(c, t)
      PROVE  ProviderHasOwner'
  BY <1>6, <1>0, <1>t DEF activate, Opening
<1>7. ASSUME NEW c \in Clients, NEW t \in AllThreads, openProvider(c, t)
      PROVE  ProviderHasOwner'
  BY <1>7, <1>0, <1>t DEF openProvider, Opening
<1>8. ASSUME NEW c \in Clients, NEW t \in AllThreads, deactivate(c, t)
      PROVE  ProviderHasOwner'
  BY <1>8, <1>0, <1>t DEF deactivate, Opening
<1>9. ASSUME NEW c \in Clients, NEW t \in AllThreads, closeProvider(c, t)
      PROVE  ProviderHasOwner'
  BY <1>9, <1>0, <1>t DEF closeProvider, Opening
<1>10. ASSUME NEW c \in Clients, NEW t \in AllThreads, useNull(c, t)
      PROVE  ProviderHasOwner'
  BY <1>10, <1>0, <1>t DEF useNull, Opening
<1>11. ASSUME NEW c \in Clients, clientClose(c)
      PROVE  ProviderHasOwner'
  BY <1>11, <1>0, <1>t DEF clientClose, Overlap, Calls, Opening, Inactive
<1>12. ASSUME NEW c \in Clients, forget(c)
      PROVE  ProviderHasOwner'
  BY <1>12, <1>0, <1>t DEF forget, Opening
<1>13. ASSUME NEW c \in Clients, terminate(c)
      PROVE  ProviderHasOwner'
  BY <1>13, <1>0, <1>t DEF terminate, Opening
<1>14. CASE UNCHANGED vars
  BY <1>14, <1>0, <1>t DEF vars
<1> QED
  BY <1>1, <1>2, <1>3, <1>4, <1>5, <1>6, <1>7, <1>8, <1>9, <1>10, <1>11, <1>12, <1>13, <1>14
     DEF Next, Connection, Step

\* Only a call that overlaps clientClose comes upon a NULL fProvider.
LEMMA NullStep == IInv /\ [Next]_vars => NullUseNeedsOverlap'
<1> SUFFICES ASSUME IInv, [Next]_vars, NEW d \in Clients, NEW u \in AllThreads
             PROVE  (At(d, u, "panic") => d \in overlapped /\ u # Closer)'
  BY DEF NullUseNeedsOverlap, AllThreads
<1>0. TypeOK /\ CallsOverlap /\ CloserInOrder /\ NullUseNeedsOverlap 
  BY DEF IInv
<1>t. fProvider \subseteq connected
  BY <1>0 DEF TypeOK
<1> USE UserClientAssumption DEF UserClientAssumption, AllThreads, shared, history, At,
        NullUseNeedsOverlap, CallsOverlap, CallOverlaps, CloserInOrder, CloserSteps
<1>1. ASSUME NEW c \in Clients, start(c)
      PROVE  (At(d, u, "panic") => d \in overlapped /\ u # Closer)'
  BY <1>1, <1>0, <1>t DEF start, Forgotten, Idle, Opening
<1>2. CASE TerminateProvider
  BY <1>2, <1>0, <1>t DEF TerminateProvider, Opening
<1>3. CASE InitializeController
  BY <1>3, <1>0, <1>t DEF InitializeController, Idle, Opening
<1>4. ASSUME NEW c \in Clients, NEW t \in Threads, Call(c, t)
      PROVE  (At(d, u, "panic") => d \in overlapped /\ u # Closer)'
  BY <1>4, <1>0, <1>t, OneMoves
     DEF Call, open, close, request, Begin, Overlap, Opening, Inactive
<1>5. ASSUME NEW c \in Clients, NEW t \in AllThreads, requestDone(c, t)
      PROVE  (At(d, u, "panic") => d \in overlapped /\ u # Closer)'
  BY <1>5, <1>0, <1>t, OneMoves DEF requestDone, Opening
<1>6. ASSUME NEW c \in Clients, NEW t \in AllThreads, activate(c, t)
      PROVE  (At(d, u, "panic") => d \in overlapped /\ u # Closer)'
  BY <1>6, <1>0, <1>t, OneMoves DEF activate, Opening
<1>7. ASSUME NEW c \in Clients, NEW t \in AllThreads, openProvider(c, t)
      PROVE  (At(d, u, "panic") => d \in overlapped /\ u # Closer)'
  BY <1>7, <1>0, <1>t, OneMoves DEF openProvider, Opening
<1>8. ASSUME NEW c \in Clients, NEW t \in AllThreads, deactivate(c, t)
      PROVE  (At(d, u, "panic") => d \in overlapped /\ u # Closer)'
  BY <1>8, <1>0, <1>t, OneMoves DEF deactivate, Opening
<1>9. ASSUME NEW c \in Clients, NEW t \in AllThreads, closeProvider(c, t)
      PROVE  (At(d, u, "panic") => d \in overlapped /\ u # Closer)'
  BY <1>9, <1>0, <1>t, OneMoves DEF closeProvider, Opening
<1>10. ASSUME NEW c \in Clients, NEW t \in AllThreads, useNull(c, t)
      PROVE  (At(d, u, "panic") => d \in overlapped /\ u # Closer)'
  BY <1>10, <1>0, <1>t, OneMoves DEF useNull, Opening
<1>11. ASSUME NEW c \in Clients, clientClose(c)
      PROVE  (At(d, u, "panic") => d \in overlapped /\ u # Closer)'
  BY <1>11, <1>0, <1>t, OneMoves DEF clientClose, Overlap, Calls, Opening, Inactive
<1>12. ASSUME NEW c \in Clients, forget(c)
      PROVE  (At(d, u, "panic") => d \in overlapped /\ u # Closer)'
  BY <1>12, <1>0, <1>t, OneMoves DEF forget, Opening
<1>13. ASSUME NEW c \in Clients, terminate(c)
      PROVE  (At(d, u, "panic") => d \in overlapped /\ u # Closer)'
  BY <1>13, <1>0, <1>t, OneMoves DEF terminate, Opening
<1>14. CASE UNCHANGED vars
  BY <1>14, <1>0, <1>t DEF vars
<1> QED
  BY <1>1, <1>2, <1>3, <1>4, <1>5, <1>6, <1>7, <1>8, <1>9, <1>10, <1>11, <1>12, <1>13, <1>14
     DEF Next, Connection, Step

\* The strengthened invariant holds in every reachable state.
LEMMA Invariance == Spec => []IInv
<1>1. Init => IInv
  BY UserClientAssumption
     DEF UserClientAssumption, Init, Idle, At, Opening, IInv, TypeOK, CallsOverlap, CallOverlaps,
         CloserInOrder, CloserSteps, GivenUp, HasGivenUp, HolderIsClient, LockHasOwner,
         ProviderHasOwner, NullUseNeedsOverlap
<1>2. IInv /\ [Next]_vars => IInv'
  BY TypeStep, CallsStep, CloserStep, GivenUpStep, LockStep, ProviderStep, NullStep
     DEF IInv
<1> QED
  BY <1>1, <1>2, PTL DEF Spec

\* Every variable keeps its type: the calls of a thread follow each other in
\* the order open, close and clientClose make them.
THEOREM TypeCorrect == Spec => []TypeOK
BY Invariance, PTL DEF IInv

\* A client that dies never leaves the driver locked, unless one of its own
\* open() calls overlapped its clientClose or the provider was terminated.
THEOREM LockOwned == Spec => []LockHasOwner
BY Invariance, PTL DEF IInv

\* The provider is never left open by a connection that is gone, unless an
\* open() overlapped its clientClose or the provider was terminated under it.
THEOREM ProviderOwned == Spec => []ProviderHasOwner
BY Invariance, PTL DEF IInv

\* Only a call that overlaps clientClose uses a NULL fProvider.
THEOREM NullUseExplained == Spec => []NullUseNeedsOverlap
BY Invariance, PTL DEF IInv
=============================================================================
