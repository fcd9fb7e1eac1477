------------------------ MODULE MessageQueue_proofs ------------------------
(***************************************************************************)
(* Safety of the message queue for any ring and buffer sizes, any number   *)
(* of clients and any number of reloads.                                   *)
(***************************************************************************)
EXTENDS MessageQueue, TLAPS, FiniteSetTheorems, SequenceTheorems

(***************************************************************************)
(* Rings, buffers and byte numbers.                                        *)
(***************************************************************************)
LEMMA Sizes ==
  /\ Capacity \in Nat \ {0} /\ WBufSize \in Nat \ {0} /\ WBufSize <= Capacity
  /\ Numbers \in Nat \ {0}
  /\ \A n \in SendLens \cup RecvLens : n \in Nat \ {0} /\ n <= Capacity
  /\ \A n \in PostLens : n \in Nat \ {0} /\ n <= WBufSize
BY MessageQueueAssumption DEF MessageQueueAssumption

LEMMA Numbered == \A x \in Int : x % Numbers \in Byte
BY Sizes DEF Byte

\* What is taken from a ring and what stays are its first and its other bytes.
LEMMA Split ==
  ASSUME NEW S, NEW c \in Seq(S), NEW n \in Nat
  PROVE  LET k == IF n < Len(c) THEN n ELSE Len(c)
             f == Ring!Fetched(c, n)
             g == Ring!Remaining(c, n)
         IN  /\ k \in Nat /\ k <= n /\ k <= Len(c)
             /\ f \in Seq(S) /\ Len(f) = k /\ \A i \in 1 .. k : f[i] = c[i]
             /\ g \in Seq(S) /\ Len(g) = Len(c) - k
             /\ \A i \in 1 .. Len(g) : g[i] = c[k + i]
<1> DEFINE k == IF n < Len(c) THEN n ELSE Len(c)
           f == Ring!Fetched(c, n)
           g == Ring!Remaining(c, n)
<1>1. k \in Nat /\ k <= n /\ k <= Len(c) /\ Len(c) \in Nat
  OBVIOUS
<1>2. f = SubSeq(c, 1, k)
  BY DEF Ring!Fetched
<1> HIDE DEF k
<1>3. f \in Seq(S) /\ Len(f) = k /\ \A i \in 1 .. k : f[i] = c[i]
  BY <1>1, <1>2
<1>4. g = SubSeq(c, k + 1, Len(c))
  BY <1>3 DEF Ring!Remaining
<1> HIDE DEF f, g
<1>5. g \in Seq(S) /\ Len(g) = Len(c) - k
  BY <1>1, <1>4
<1>6. \A i \in 1 .. Len(g) : g[i] = c[k + i]
  BY <1>1, <1>4, <1>5
<1> QED
  BY <1>1, <1>3, <1>5, <1>6 DEF f, g, k

LEMMA SplitType ==
  ASSUME NEW S, NEW c \in Seq(S), NEW n \in Nat
  PROVE  /\ Ring!Fetched(c, n) \in Seq(S) /\ Ring!Remaining(c, n) \in Seq(S)
         /\ Len(c) \in Nat /\ Len(Ring!Remaining(c, n)) <= Len(c)
<1> DEFINE k == IF n < Len(c) THEN n ELSE Len(c)
<1>1. Len(c) \in Nat
  OBVIOUS
<1>2. /\ k \in Nat /\ Ring!Fetched(c, n) \in Seq(S) /\ Ring!Remaining(c, n) \in Seq(S)
      /\ Len(Ring!Remaining(c, n)) = Len(c) - k
  BY Split
<1> HIDE DEF k
<1> QED
  BY <1>1, <1>2

LEMMA Empty == <<>> \in Seq(Byte) /\ Len(<<>>) <= Capacity /\ Len(<<>>) <= WBufSize
BY Sizes

\* Asked for no byte, a ring keeps all it has, and asked for enough, none.
LEMMA SplitEnds ==
  ASSUME NEW S, NEW c \in Seq(S)
  PROVE  /\ Ring!Fetched(c, 0) = <<>> /\ Ring!Remaining(c, 0) = c
         /\ \A n \in Nat : n >= Len(c) => Ring!Fetched(c, n) = c /\ Ring!Remaining(c, n) = <<>>
<1>1. Ring!Fetched(c, 0) = <<>> /\ Ring!Remaining(c, 0) = c
  <2>1. Len(Ring!Fetched(c, 0)) = 0 /\ Ring!Fetched(c, 0) \in Seq(S)
    BY Split
  <2>2. /\ Ring!Remaining(c, 0) \in Seq(S) /\ Len(Ring!Remaining(c, 0)) = Len(c)
        /\ \A i \in 1 .. Len(c) : Ring!Remaining(c, 0)[i] = c[i]
    BY Split
  <2>3. Ring!Remaining(c, 0) = c
    BY <2>2, SeqEqual
  <2> QED
    BY <2>1, <2>3
<1>2. ASSUME NEW n \in Nat, n >= Len(c)
      PROVE  Ring!Fetched(c, n) = c /\ Ring!Remaining(c, n) = <<>>
  <2>1. /\ Ring!Fetched(c, n) \in Seq(S) /\ Len(Ring!Fetched(c, n)) = Len(c)
        /\ \A i \in 1 .. Len(c) : Ring!Fetched(c, n)[i] = c[i]
    BY <1>2, Split
  <2>2. Ring!Remaining(c, n) \in Seq(S) /\ Len(Ring!Remaining(c, n)) = 0
    BY <1>2, Split
  <2>3. Ring!Fetched(c, n) = c
    BY <2>1, SeqEqual
  <2> QED
    BY <2>2, <2>3
<1> QED
  BY <1>1, <1>2

\* A block the ring accepts is appended, or, if it fills the array, forgotten
\* with all the rest.
LEMMA Insertion ==
  ASSUME NEW c \in Seq(Byte), Len(c) <= Capacity, NEW s \in Seq(Byte)
  PROVE  LET q == Ring!Inserted(c, s)
         IN  /\ q \in Seq(Byte) /\ Len(q) <= Capacity
             /\ Ring!Accepts(c, Len(s)) => q \in {<<>>, c \o s}
             /\ ~Ring!Accepts(c, Len(s)) => q = c
             /\ Ring!Accepts(c, Len(s)) <=> Len(c) + Len(s) <= Capacity + 1
<1>1. Capacity \in Nat
  BY Sizes
<1>2. c \o s \in Seq(Byte) /\ Len(c \o s) = Len(c) + Len(s)
  OBVIOUS
<1> QED
  BY <1>1, <1>2 DEF Ring!Inserted, Ring!Accepts, Ring!Avail

LEMMA NextBytesAre ==
  ASSUME NEW k \in Byte, NEW n \in Nat
  PROVE  NextBytes(k, n) \in Seq(Byte) /\ Len(NextBytes(k, n)) = n
<1>1. \A i \in 1 .. n : (k + i) % Numbers \in Byte
  BY Numbered, Sizes DEF Byte
<1> QED
  BY <1>1 DEF NextBytes

LEMMA LastIs ==
  ASSUME NEW s \in Seq(Byte), NEW k \in Byte
  PROVE  LastOf(s, k) \in Byte
BY DEF LastOf

-----------------------------------------------------------------------------
(***************************************************************************)
(* Threads.                                                                *)
(***************************************************************************)
SendCalls == {NoCall} \cup [pc : {"gate", "asleep"}, len : SendLens]
RecvCalls == {NoCall} \cup [pc : {"gate", "asleep"}, len : RecvLens,
                            timeout : BOOLEAN, slept : BOOLEAN]

\* commandWakeup leaves nobody asleep and changes nothing else of a call.
LEMMA WokenSenders ==
  ASSUME NEW f \in [Senders -> SendCalls]
  PROVE  /\ Woken(f) \in [Senders -> SendCalls]
         /\ \A s \in Senders : Woken(f)[s].pc # "asleep"
BY DEF Woken, SendCalls, NoCall

LEMMA WokenReceivers ==
  ASSUME NEW f \in [Receivers -> RecvCalls]
  PROVE  /\ Woken(f) \in [Receivers -> RecvCalls]
         /\ \A r \in Receivers : Woken(f)[r].pc # "asleep"
BY DEF Woken, RecvCalls, NoCall

-----------------------------------------------------------------------------
(***************************************************************************)
(* The two larger operations of the driver, in terms of what they move.    *)
(***************************************************************************)
\* inboundMQWrite fills the adapter's buffer or flags underflow.
LEMMA WriteMoves ==
  ASSUME NEW q \in Seq(Byte), Len(q) <= Capacity,
         NEW flags \in SUBSET {"UNDERFLOW", "OVERFLOW"},
         NEW f \in [Senders -> SendCalls], inboundMQWrite(q, flags, f)
  PROVE  /\ inQ' = Ring!Remaining(q, WBufSize)
         /\ inQ' \in Seq(Byte) /\ Len(inQ') <= Capacity
         /\ \/ /\ q # <<>> /\ wbuf' = Ring!Fetched(q, WBufSize)
               /\ wbuf' \in Seq(Byte) /\ Len(wbuf') <= WBufSize
               /\ inDB' = inDB \cup {"WRITE_OK"} /\ MQFlags' = flags /\ sender' = f
            \/ /\ q = <<>> /\ inQ' = <<>> /\ UNCHANGED <<wbuf, inDB>>
               /\ MQFlags' = flags \cup {"UNDERFLOW"} /\ sender' = Woken(f)
<1> DEFINE d == Ring!Fetched(q, WBufSize)
           g == Ring!Remaining(q, WBufSize)
<1>1. /\ d \in Seq(Byte) /\ Len(d) = (IF WBufSize < Len(q) THEN WBufSize ELSE Len(q))
      /\ g \in Seq(Byte) /\ Len(g) = Len(q) - Len(d)
  BY Sizes, Split
<1>2. /\ inQ' = g
      /\ IF d # <<>>
         THEN /\ wbuf' = d /\ inDB' = inDB \cup {"WRITE_OK"}
              /\ MQFlags' = flags /\ sender' = f
         ELSE /\ MQFlags' = flags \cup {"UNDERFLOW"} /\ sender' = Woken(f)
              /\ UNCHANGED <<wbuf, inDB>>
  BY DEF inboundMQWrite
<1> HIDE DEF d, g
<1>3. d = <<>> <=> q = <<>>
  BY <1>1, Sizes
<1>4. q = <<>> => g = <<>>
  BY <1>1
<1>5. Len(d) <= WBufSize /\ Len(g) <= Capacity
  BY <1>1, Sizes
<1>6. CASE d # <<>>
  BY <1>1, <1>2, <1>3, <1>5, <1>6 DEF d, g
<1>7. CASE d = <<>>
  BY <1>1, <1>2, <1>3, <1>4, <1>5, <1>7 DEF d, g
<1> QED
  BY <1>6, <1>7

\* What outboundMQBufferRemove does when it leaves the stalled buffer alone,
Kept(r) ==
    LET n == receiver[r].len
    IN  /\ outQ' = Ring!Remaining(outQ, n)
        /\ read' = LastOf(Ring!Fetched(outQ, n), read)
        /\ MQFlags' = MQFlags /\ inDB' = inDB
        /\ Len(outQ) < n => "OVERFLOW" \notin MQFlags
        /\ \A t \in Receivers \ {r} : receiver'[t] = receiver[t]
        /\ receiver'[r].pc = "asleep" => outQ = <<>>

\* and when it takes that as well, as it can once the ring is empty.
Taken(r) ==
    LET more == receiver[r].len - Len(outQ)
    IN  /\ more > 0 /\ "OVERFLOW" \in MQFlags
        /\ outQ' = Ring!Remaining(rbuf, more)
        /\ read' = LastOf(outQ \o Ring!Fetched(rbuf, more), read)
        /\ MQFlags' = MQFlags \ {"OVERFLOW"}
        /\ inDB' = inDB \cup {"READ_OK"}
        /\ \A t \in Receivers \ {r} : receiver'[t].pc # "asleep"
        /\ receiver'[r].pc = "asleep" => outQ' = <<>>

LEMMA RemoveMoves ==
  ASSUME TypeOK, NEW r \in Receivers, outboundMQBufferRemove(r)
  PROVE  /\ UNCHANGED <<sender, handler, inQ, wbuf, sent, got, rbuf, posted, outDB,
                        dbInt, adapterFree, left>>
         /\ handler.pc = "idle" /\ receiver[r].pc = "gate" /\ receiver[r].len \in RecvLens
         /\ timer' \in BOOLEAN
         /\ receiver' \in [Receivers -> RecvCalls]
         /\ Kept(r) \/ Taken(r)
<1> DEFINE call == receiver[r]
           n     == call.len
           first == Ring!Fetched(outQ, n)
           rest  == Ring!Remaining(outQ, n)
           more  == n - Len(first)
           after == IF more > 0 /\ "OVERFLOW" \in MQFlags THEN TakeStalled(rest)
                    ELSE [ring |-> rest, flags |-> MQFlags,
                          receivers |-> receiver, bells |-> {}]
           data  == first \o Ring!Fetched(after.ring, more)
           sleep == data = <<>> /\ ~call.slept /\ call.timeout
           asleep == [call EXCEPT !.pc = "asleep", !.slept = TRUE]
<1>1. /\ UNCHANGED <<sender, handler, inQ, wbuf, sent, got, rbuf, posted, outDB,
                     dbInt, adapterFree, left>>
      /\ handler.pc = "idle" /\ call.pc = "gate"
  BY DEF outboundMQBufferRemove, GateOpen, inVars
<1>2. /\ outQ' = Ring!Remaining(after.ring, more)
      /\ MQFlags' = after.flags
      /\ inDB' = inDB \cup after.bells
      /\ read' = LastOf(data, read)
      /\ timer' = (timer \/ sleep)
      /\ receiver' = [after.receivers EXCEPT ![r] = IF sleep THEN asleep ELSE NoCall]
  BY DEF outboundMQBufferRemove
<1>3. /\ receiver \in [Receivers -> RecvCalls]
      /\ n \in RecvLens /\ asleep \in RecvCalls /\ asleep.pc = "asleep"
  <2>1. receiver \in [Receivers -> RecvCalls]
    BY DEF TypeOK, RecvCalls
  <2>2. call \in [pc : {"gate", "asleep"}, len : RecvLens,
                  timeout : BOOLEAN, slept : BOOLEAN]
    BY <1>1, <2>1 DEF RecvCalls, NoCall
  <2> HIDE DEF call
  <2>3. n \in RecvLens /\ asleep \in RecvCalls /\ asleep.pc = "asleep"
    BY <2>2 DEF RecvCalls
  <2> QED
    BY <2>1, <2>3
<1>4. timer' \in BOOLEAN
  BY <1>2
<1>5. /\ n \in Nat \ {0} /\ Len(outQ) \in Nat
      /\ Len(first) = (IF n < Len(outQ) THEN n ELSE Len(outQ))
      /\ Len(rest) = Len(outQ) - Len(first)
      /\ first \in Seq(Byte) /\ rest \in Seq(Byte)
      /\ \A i \in 1 .. Len(first) : first[i] = outQ[i]
  <2>1. n \in Nat \ {0} /\ outQ \in Seq(Byte) /\ Len(outQ) \in Nat
    BY <1>3, Sizes DEF TypeOK
  <2> HIDE DEF n
  <2> QED
    BY <2>1, Split
<1>6. more \in Nat /\ (more > 0 <=> Len(outQ) < n)
  BY <1>5
<1>7. more > 0 => first = outQ /\ rest = <<>>
  BY <1>5, <1>6, SplitEnds DEF TypeOK
<1> HIDE DEF call, first, rest, more
<1>8. CASE more > 0 /\ "OVERFLOW" \in MQFlags
  <2>1. /\ Ring!Accepts(rest, Len(rbuf)) /\ Ring!Inserted(rest, rbuf) = rbuf
    BY <1>7, <1>8, Sizes DEF TypeOK, Ring!Accepts, Ring!Inserted, Ring!Avail
  <2>2. after = [ring |-> rbuf, flags |-> MQFlags \ {"OVERFLOW"},
                 receivers |-> Woken(receiver), bells |-> {"READ_OK"}]
    BY <1>8, <2>1 DEF TakeStalled, outboundMQRead
  <2> HIDE DEF after
  <2>3. /\ outQ' = Ring!Remaining(rbuf, more)
        /\ MQFlags' = MQFlags \ {"OVERFLOW"}
        /\ inDB' = inDB \cup {"READ_OK"}
        /\ data = outQ \o Ring!Fetched(rbuf, more)
        /\ receiver' = [Woken(receiver) EXCEPT ![r] = IF sleep THEN asleep ELSE NoCall]
    BY <1>2, <1>7, <1>8, <2>2
  <2>4. /\ Len(Ring!Fetched(rbuf, more)) = (IF more < Len(rbuf) THEN more ELSE Len(rbuf))
        /\ Ring!Fetched(rbuf, more) \in Seq(Byte)
        /\ Len(Ring!Remaining(rbuf, more)) = Len(rbuf) - Len(Ring!Fetched(rbuf, more))
        /\ Ring!Remaining(rbuf, more) \in Seq(Byte)
    BY <1>6, Split DEF TypeOK
  <2> HIDE DEF data, asleep, sleep
  <2>5. data = <<>> => outQ' = <<>>
    <3>1. Len(data) = Len(outQ) + Len(Ring!Fetched(rbuf, more)) /\ Len(outQ) \in Nat
      <4> DEFINE taken == Ring!Fetched(rbuf, more)
      <4>1. outQ \in Seq(Byte) /\ taken \in Seq(Byte) /\ data = outQ \o taken
        BY <2>3, <2>4 DEF TypeOK
      <4> HIDE DEF taken
      <4> QED
        BY <4>1 DEF taken
    <3>2. ASSUME data = <<>> PROVE Len(Ring!Fetched(rbuf, more)) = 0
      BY <2>4, <3>1, <3>2
    <3> QED
      BY <1>6, <1>8, <2>3, <2>4, <3>2 DEF TypeOK
  <2>6. /\ receiver' \in [Receivers -> RecvCalls]
        /\ \A t \in Receivers \ {r} : receiver'[t].pc # "asleep"
        /\ receiver'[r] = IF sleep THEN asleep ELSE NoCall
    <3>1. NoCall \in RecvCalls /\ asleep \in RecvCalls
      BY <1>3 DEF RecvCalls
    <3> QED
      BY <1>3, <2>3, <3>1, WokenReceivers
  <2>7. receiver'[r].pc = "asleep" => outQ' = <<>>
    BY <2>5, <2>6 DEF sleep, NoCall
  <2>8. more = n - Len(outQ)
    BY <1>7, <1>8 DEF more
  <2> QED
    BY <1>1, <1>2, <1>3, <1>4, <1>8, <2>3, <2>6, <2>7, <2>8 DEF Taken, call
<1>9. CASE ~(more > 0 /\ "OVERFLOW" \in MQFlags)
  <2>1. after = [ring |-> rest, flags |-> MQFlags, receivers |-> receiver, bells |-> {}]
    BY <1>9
  <2> HIDE DEF after
  <2>2. Ring!Fetched(rest, more) = <<>> /\ Ring!Remaining(rest, more) = rest
    <3>1. CASE more = 0
      BY <1>5, <3>1, SplitEnds
    <3>2. CASE more > 0
      <4>1. rest = <<>> /\ Len(rest) <= more
        BY <1>6, <1>7, <3>2
      <4> QED
        BY <1>5, <1>6, <4>1, SplitEnds
    <3> QED
      BY <1>6, <3>1, <3>2
  <2>3. /\ outQ' = rest /\ MQFlags' = MQFlags /\ inDB' = inDB
        /\ data = first
        /\ receiver' = [receiver EXCEPT ![r] = IF sleep THEN asleep ELSE NoCall]
    BY <1>2, <1>5, <2>1, <2>2
  <2>4. data = <<>> => outQ = <<>>
    BY <1>5, <2>3 DEF TypeOK
  <2> HIDE DEF data, asleep, sleep
  <2>5. /\ receiver' \in [Receivers -> RecvCalls]
        /\ \A t \in Receivers \ {r} : receiver'[t] = receiver[t]
        /\ receiver'[r] = IF sleep THEN asleep ELSE NoCall
    <3>1. NoCall \in RecvCalls /\ asleep \in RecvCalls
      BY <1>3 DEF RecvCalls
    <3> QED
      BY <1>3, <2>3, <3>1
  <2>6. receiver'[r].pc = "asleep" => outQ = <<>>
    BY <2>4, <2>5 DEF sleep, NoCall
  <2> QED
    BY <1>1, <1>2, <1>3, <1>4, <1>6, <1>9, <2>3, <2>5, <2>6 DEF Kept, call, first, rest
<1> QED
  BY <1>8, <1>9

-----------------------------------------------------------------------------
(***************************************************************************)
(* Types.                                                                  *)
(***************************************************************************)
\* A call that goes to sleep or is woken is still the same call.
LEMMA SenderMoves ==
  ASSUME NEW f \in [Senders -> SendCalls], NEW s \in Senders, f[s].pc # "idle"
  PROVE  /\ f[s].len \in SendLens
         /\ \A p \in {"gate", "asleep"} : [f EXCEPT ![s].pc = p] \in [Senders -> SendCalls]
<1>1. f[s] \in [pc : {"gate", "asleep"}, len : SendLens]
  BY DEF SendCalls, NoCall
<1>2. \A p \in {"gate", "asleep"} :
        [f[s] EXCEPT !.pc = p] \in [pc : {"gate", "asleep"}, len : SendLens]
  BY <1>1
<1>3. \A p \in {"gate", "asleep"} : [f EXCEPT ![s].pc = p] = [f EXCEPT ![s] = [f[s] EXCEPT !.pc = p]]
  OBVIOUS
<1> QED
  BY <1>1, <1>2, <1>3 DEF SendCalls

LEMMA ReceiverMoves ==
  ASSUME NEW f \in [Receivers -> RecvCalls], NEW r \in Receivers, f[r].pc # "idle"
  PROVE  [f EXCEPT ![r].pc = "gate"] \in [Receivers -> RecvCalls]
<1>1. f[r] \in [pc : {"gate", "asleep"}, len : RecvLens, timeout : BOOLEAN, slept : BOOLEAN]
  BY DEF RecvCalls, NoCall
<1>2. [f[r] EXCEPT !.pc = "gate"] \in RecvCalls
  BY <1>1 DEF RecvCalls
<1>3. [f EXCEPT ![r].pc = "gate"] = [f EXCEPT ![r] = [f[r] EXCEPT !.pc = "gate"]]
  OBVIOUS
<1> QED
  BY <1>2, <1>3

LEMMA InitTypeOK == Init => TypeOK
<1> SUFFICES ASSUME Init PROVE TypeOK
  OBVIOUS
<1>1. 0 \in Byte
  BY Sizes DEF Byte
<1>2. NoHandler \in [pc : {"idle", "doorbell", "acknowledge", "WRITE_OK", "READ_OK"},
                     doorbell : SUBSET Bells]
  BY DEF NoHandler
<1>4. /\ sender \in [Senders -> {NoCall} \cup [pc : {"gate", "asleep"}, len : SendLens]]
      /\ receiver \in [Receivers -> {NoCall} \cup
                         [pc : {"gate", "asleep"}, len : RecvLens,
                          timeout : BOOLEAN, slept : BOOLEAN]]
  BY DEF Init
<1>5. /\ MQFlags \subseteq {"UNDERFLOW", "OVERFLOW"} /\ outDB \subseteq Bells
      /\ left \subseteq {"inbound", "outbound"}
  BY DEF Init
<1>10. timer \in BOOLEAN /\ dbInt \in BOOLEAN
  BY DEF Init
<1>8. inDB \subseteq Bells /\ adapterFree \in BOOLEAN
  <2>1. CASE inDB = {} /\ adapterFree = TRUE
    BY <2>1
  <2>2. CASE inDB = {"READ_OK"} /\ adapterFree = FALSE
    BY <2>2 DEF Bells
  <2> QED
    BY <2>1, <2>2 DEF Init
<1>6. /\ handler \in [pc : {"idle", "doorbell", "acknowledge", "WRITE_OK", "READ_OK"},
                       doorbell : SUBSET Bells]
      /\ {sent, got, posted, read} \subseteq Byte
  BY <1>1, <1>2 DEF Init
<1>7. inQ = <<>> /\ outQ = <<>> /\ wbuf = <<>> /\ rbuf = <<>>
  BY DEF Init
<1> QED
  BY <1>4, <1>5, <1>6, <1>7, <1>8, <1>10, Empty DEF TypeOK

\* inboundMQBufferInsert is refused and sleeps, or takes the message.
LEMMA InsertMoves ==
  ASSUME TypeOK, NEW s \in Senders, inboundMQBufferInsert(s)
  PROVE  LET n == sender[s].len
             q == Ring!Inserted(inQ, NextBytes(sent, n))
         IN  /\ UNCHANGED <<timer, receiver, handler, got, outQ, rbuf, posted, read,
                            outDB, dbInt, adapterFree, left>>
             /\ handler.pc = "idle" /\ n \in SendLens
             /\ q \in Seq(Byte) /\ Len(q) <= Capacity
             /\ \/ /\ ~Ring!Accepts(inQ, n)
                   /\ sender' = [sender EXCEPT ![s].pc = "asleep"]
                   /\ UNCHANGED <<MQFlags, inQ, wbuf, inDB, sent>>
                \/ /\ Ring!Accepts(inQ, n) /\ MayNumber(sent, n)
                   /\ sent' = (sent + n) % Numbers
                   /\ LET done == [sender EXCEPT ![s] = NoCall]
                      IN  /\ done \in [Senders -> SendCalls]
                          /\ \/ /\ "UNDERFLOW" \in MQFlags
                                /\ inboundMQWrite(q, MQFlags \ {"UNDERFLOW"}, done)
                             \/ /\ "UNDERFLOW" \notin MQFlags
                                /\ inQ' = q /\ sender' = done
                                /\ UNCHANGED <<MQFlags, wbuf, inDB>>
<1> DEFINE n == sender[s].len
           q == Ring!Inserted(inQ, NextBytes(sent, n))
           done == [sender EXCEPT ![s] = NoCall]
<1>1. sender \in [Senders -> SendCalls] /\ sender[s].pc = "gate"
  BY DEF TypeOK, SendCalls, inboundMQBufferInsert
<1>2. n \in SendLens /\ done \in [Senders -> SendCalls]
  BY <1>1, SenderMoves DEF SendCalls
<1>3. q \in Seq(Byte) /\ Len(q) <= Capacity
  BY <1>2, Sizes, Insertion, NextBytesAre DEF TypeOK
<1>4. /\ UNCHANGED <<timer, receiver, handler, got, outQ, rbuf, posted, read,
                     outDB, dbInt, adapterFree, left>>
      /\ handler.pc = "idle"
  BY DEF inboundMQBufferInsert, GateOpen, outVars
<1>5. IF Ring!Accepts(inQ, n)
      THEN /\ MayNumber(sent, n)
           /\ sent' = (sent + n) % Numbers
           /\ IF "UNDERFLOW" \in MQFlags
              THEN inboundMQWrite(q, MQFlags \ {"UNDERFLOW"}, done)
              ELSE /\ inQ' = q /\ sender' = done
                   /\ UNCHANGED <<MQFlags, wbuf, inDB>>
      ELSE /\ sender' = [sender EXCEPT ![s].pc = "asleep"]
           /\ UNCHANGED <<MQFlags, inQ, wbuf, inDB, sent>>
  BY DEF inboundMQBufferInsert
<1> HIDE DEF n, q, done
<1>6. CASE Ring!Accepts(inQ, n)
  BY <1>2, <1>3, <1>4, <1>5, <1>6 DEF n, q, done
<1>7. CASE ~Ring!Accepts(inQ, n)
  BY <1>2, <1>3, <1>4, <1>5, <1>7 DEF n, q, done
<1> QED
  BY <1>6, <1>7

\* HandleWriteOK accepts the adapter's message, stalls it, or has none.
LEMMA WriteOKMoves ==
  ASSUME TypeOK, HandleWriteOK
  PROVE  /\ UNCHANGED <<timer, sender, inQ, wbuf, sent, got, rbuf, posted, read, outDB,
                        dbInt, adapterFree, left>>
         /\ handler.pc = "WRITE_OK" /\ handler' = [handler EXCEPT !.pc = "READ_OK"]
         /\ \/ /\ "WRITE_OK" \in handler.doorbell
               /\ Ring!Accepts(outQ, Len(rbuf))
               /\ outQ' = Ring!Inserted(outQ, rbuf) /\ MQFlags' = MQFlags
               /\ receiver' = Woken(receiver) /\ inDB' = inDB \cup {"READ_OK"}
            \/ /\ "WRITE_OK" \in handler.doorbell
               /\ ~Ring!Accepts(outQ, Len(rbuf))
               /\ MQFlags' = MQFlags \cup {"OVERFLOW"}
               /\ UNCHANGED <<outQ, receiver, inDB>>
            \/ /\ "WRITE_OK" \notin handler.doorbell
               /\ UNCHANGED <<outQ, MQFlags, receiver, inDB>>
<1>1. /\ UNCHANGED <<timer, sender, inQ, wbuf, sent, got, rbuf, posted, read, outDB,
                     dbInt, adapterFree, left>>
      /\ handler.pc = "WRITE_OK" /\ handler' = [handler EXCEPT !.pc = "READ_OK"]
  BY DEF HandleWriteOK, inVars
<1>2. CASE "WRITE_OK" \notin handler.doorbell
  BY <1>1, <1>2 DEF HandleWriteOK
<1>3. CASE "WRITE_OK" \in handler.doorbell
  <2> DEFINE after == outboundMQRead(outQ, MQFlags, receiver)
  <2>1. /\ outQ' = after.ring /\ MQFlags' = after.flags
        /\ receiver' = after.receivers /\ inDB' = inDB \cup after.bells
    BY <1>3 DEF HandleWriteOK
  <2>2. CASE Ring!Accepts(outQ, Len(rbuf))
    <3>1. after = [ring |-> Ring!Inserted(outQ, rbuf), flags |-> MQFlags,
                   receivers |-> Woken(receiver), bells |-> {"READ_OK"}]
      BY <2>2 DEF outboundMQRead
    <3> HIDE DEF after
    <3> QED
      BY <1>1, <1>3, <2>1, <2>2, <3>1
  <2>3. CASE ~Ring!Accepts(outQ, Len(rbuf))
    <3>1. after = [ring |-> outQ, flags |-> MQFlags \cup {"OVERFLOW"},
                   receivers |-> receiver, bells |-> {}]
      BY <2>3 DEF outboundMQRead
    <3> HIDE DEF after
    <3> QED
      BY <1>1, <1>3, <2>1, <2>3, <3>1
  <2> QED
    BY <2>2, <2>3
<1> QED
  BY <1>2, <1>3

LEMMA WriteTypes ==
  ASSUME NEW q \in Seq(Byte), Len(q) <= Capacity,
         NEW flags \in SUBSET {"UNDERFLOW", "OVERFLOW"},
         NEW f \in [Senders -> SendCalls], inboundMQWrite(q, flags, f),
         wbuf \in Seq(Byte), Len(wbuf) <= WBufSize, inDB \subseteq Bells
  PROVE  /\ inQ' \in Seq(Byte) /\ Len(inQ') <= Capacity
         /\ wbuf' \in Seq(Byte) /\ Len(wbuf') <= WBufSize
         /\ inDB' \subseteq Bells /\ MQFlags' \subseteq {"UNDERFLOW", "OVERFLOW"}
         /\ sender' \in [Senders -> SendCalls]
<1>1. inQ' \in Seq(Byte) /\ Len(inQ') <= Capacity
  BY WriteMoves
<1>2. CASE /\ wbuf' \in Seq(Byte) /\ Len(wbuf') <= WBufSize
           /\ inDB' = inDB \cup {"WRITE_OK"} /\ MQFlags' = flags /\ sender' = f
  BY <1>1, <1>2 DEF Bells
<1>3. CASE /\ UNCHANGED <<wbuf, inDB>>
           /\ MQFlags' = flags \cup {"UNDERFLOW"} /\ sender' = Woken(f)
  BY <1>1, <1>3, WokenSenders
<1> QED
  BY <1>2, <1>3, WriteMoves

LEMMA TypeStep ==
  ASSUME TypeOK, [Next]_vars
  PROVE  TypeOK'
<1>t. /\ sender \in [Senders -> SendCalls] /\ receiver \in [Receivers -> RecvCalls]
      /\ inQ \in Seq(Byte) /\ Len(inQ) <= Capacity
      /\ outQ \in Seq(Byte) /\ Len(outQ) <= Capacity
      /\ wbuf \in Seq(Byte) /\ rbuf \in Seq(Byte) /\ Len(rbuf) <= WBufSize
      /\ MQFlags \in SUBSET {"UNDERFLOW", "OVERFLOW"}
      /\ sent \in Byte /\ got \in Byte /\ posted \in Byte /\ read \in Byte
  BY DEF TypeOK, SendCalls, RecvCalls
<1>s. sender' \in [Senders -> SendCalls] <=>
        (sender \in [Senders -> {NoCall} \cup [pc : {"gate", "asleep"}, len : SendLens]])'
  BY DEF SendCalls
<1>r. receiver' \in [Receivers -> RecvCalls] <=>
        (receiver \in [Receivers -> {NoCall} \cup
                       [pc : {"gate", "asleep"}, len : RecvLens,
                        timeout : BOOLEAN, slept : BOOLEAN]])'
  BY DEF RecvCalls
<1>1. ASSUME NEW s \in Senders, NEW n \in SendLens, send(s, n) PROVE TypeOK'
  <2>1. sender' \in [Senders -> SendCalls]
    BY <1>1, <1>t DEF send, SendCalls
  <2> QED
    BY <1>1, <1>s, <2>1 DEF send, TypeOK, inVars, outVars, bellVars
<1>2. ASSUME NEW s \in Senders, inboundMQBufferInsert(s) PROVE TypeOK'
  <2> DEFINE n == sender[s].len
             q == Ring!Inserted(inQ, NextBytes(sent, n))
             done == [sender EXCEPT ![s] = NoCall]
  <2>1. /\ UNCHANGED <<timer, receiver, handler, got, outQ, rbuf, posted, read,
                       outDB, dbInt, adapterFree, left>>
        /\ n \in SendLens
        /\ q \in Seq(Byte) /\ Len(q) <= Capacity
        /\ \/ /\ sender' = [sender EXCEPT ![s].pc = "asleep"]
              /\ UNCHANGED <<MQFlags, inQ, wbuf, inDB, sent>>
           \/ /\ sent' = (sent + n) % Numbers
              /\ done \in [Senders -> SendCalls]
              /\ \/ inboundMQWrite(q, MQFlags \ {"UNDERFLOW"}, done)
                 \/ /\ inQ' = q /\ sender' = done
                    /\ UNCHANGED <<MQFlags, wbuf, inDB>>
    BY <1>2, InsertMoves
  <2> HIDE DEF n, q, done
  <2>2. CASE /\ sender' = [sender EXCEPT ![s].pc = "asleep"]
             /\ UNCHANGED <<MQFlags, inQ, wbuf, inDB, sent>>
    <3>1. sender' \in [Senders -> SendCalls]
      BY <1>2, <1>t, <2>2, SenderMoves DEF inboundMQBufferInsert
    <3> QED
      BY <1>s, <2>1, <2>2, <3>1 DEF TypeOK
  <2>3. CASE sent' = (sent + n) % Numbers
    <3>1. sent' \in Byte
      BY SMTT(30), <1>t, <2>1, <2>3, Sizes, Numbered DEF Byte
    <3>2. CASE /\ inQ' = q /\ sender' = done /\ UNCHANGED <<MQFlags, wbuf, inDB>>
               /\ done \in [Senders -> SendCalls]
      BY <1>s, <2>1, <3>1, <3>2 DEF TypeOK
    <3>3. CASE inboundMQWrite(q, MQFlags \ {"UNDERFLOW"}, done)
               /\ done \in [Senders -> SendCalls]
      <4>1. /\ inQ' \in Seq(Byte) /\ Len(inQ') <= Capacity
            /\ wbuf' \in Seq(Byte) /\ Len(wbuf') <= WBufSize
            /\ inDB' \subseteq Bells /\ MQFlags' \subseteq {"UNDERFLOW", "OVERFLOW"}
            /\ sender' \in [Senders -> SendCalls]
        <5>1. MQFlags \ {"UNDERFLOW"} \in SUBSET {"UNDERFLOW", "OVERFLOW"}
          BY <1>t
        <5> QED
          BY <1>t, <2>1, <3>3, <5>1, WriteTypes DEF TypeOK
      <4> QED
        BY <1>s, <2>1, <3>1, <4>1 DEF TypeOK
    <3> QED
      BY <2>1, <2>2, <3>2, <3>3
  <2> QED
    BY <2>1, <2>2, <2>3
<1>3. ASSUME NEW s \in Senders, SenderInterrupted(s) PROVE TypeOK'
  <2>1. sender' \in [Senders -> SendCalls]
    BY <1>3, <1>t, SenderMoves DEF SenderInterrupted
  <2> QED
    BY <1>3, <1>s, <2>1 DEF SenderInterrupted, TypeOK, inVars, outVars, bellVars
<1>4. ASSUME NEW r \in Receivers, NEW n \in RecvLens, NEW b \in BOOLEAN, recv(r, n, b)
      PROVE  TypeOK'
  <2>1. receiver' \in [Receivers -> RecvCalls]
    BY <1>4, <1>t DEF recv, RecvCalls
  <2> QED
    BY <1>4, <1>r, <2>1 DEF recv, TypeOK, inVars, outVars, bellVars
<1>5. ASSUME NEW r \in Receivers, outboundMQBufferRemove(r) PROVE TypeOK'
  <2>1. /\ UNCHANGED <<sender, handler, inQ, wbuf, sent, got, rbuf, posted, outDB,
                       dbInt, adapterFree, left>>
        /\ receiver[r].len \in RecvLens
        /\ timer' \in BOOLEAN
        /\ receiver' \in [Receivers -> RecvCalls]
        /\ Kept(r) \/ Taken(r)
    BY <1>5, RemoveMoves
  <2> DEFINE n == receiver[r].len
  <2>2. n \in Nat /\ n > 0 /\ Len(outQ) \in Nat
    BY <1>t, <2>1, Sizes
  <2>3. /\ outQ' \in Seq(Byte) /\ Len(outQ') <= Capacity
        /\ MQFlags' \subseteq {"UNDERFLOW", "OVERFLOW"} /\ inDB' \subseteq Bells
        /\ read' \in Byte
    <3>1. CASE Kept(r)
      <4>1. /\ outQ' = Ring!Remaining(outQ, n) /\ read' = LastOf(Ring!Fetched(outQ, n), read)
            /\ MQFlags' = MQFlags /\ inDB' = inDB
        BY <3>1 DEF Kept
      <4> HIDE DEF n
      <4>2. /\ Ring!Fetched(outQ, n) \in Seq(Byte) /\ Ring!Remaining(outQ, n) \in Seq(Byte)
            /\ Len(Ring!Remaining(outQ, n)) <= Len(outQ)
        BY <1>t, <2>2, SplitType
      <4> QED
        BY <1>t, <2>2, <4>1, <4>2, Sizes, LastIs DEF TypeOK
    <3>2. CASE Taken(r)
      <4> DEFINE more == n - Len(outQ)
      <4>1. /\ more > 0
            /\ outQ' = Ring!Remaining(rbuf, more)
            /\ read' = LastOf(outQ \o Ring!Fetched(rbuf, more), read)
            /\ MQFlags' = MQFlags \ {"OVERFLOW"}
            /\ inDB' = inDB \cup {"READ_OK"}
        BY <3>2 DEF Taken
      <4>2. more \in Nat
        BY <2>2, <4>1
      <4> HIDE DEF n, more
      <4>3. /\ Ring!Fetched(rbuf, more) \in Seq(Byte) /\ Ring!Remaining(rbuf, more) \in Seq(Byte)
            /\ Len(Ring!Remaining(rbuf, more)) <= Len(rbuf) /\ Len(rbuf) \in Nat
        BY <1>t, <4>2, SplitType
      <4>4. outQ \o Ring!Fetched(rbuf, more) \in Seq(Byte)
        BY <1>t, <4>3
      <4>5. read' \in Byte
        BY <1>t, <4>1, <4>4, LastIs
      <4> QED
        BY <1>t, <4>1, <4>3, <4>5, Sizes DEF TypeOK, Bells
    <3> QED
      BY <2>1, <3>1, <3>2
  <2> QED
    BY <1>r, <2>1, <2>3 DEF TypeOK
<1>6. ASSUME NEW r \in Receivers, ReceiverInterrupted(r) PROVE TypeOK'
  <2>1. receiver' \in [Receivers -> RecvCalls]
    BY <1>6, <1>t, ReceiverMoves DEF ReceiverInterrupted
  <2> QED
    BY <1>6, <1>r, <2>1 DEF ReceiverInterrupted, TypeOK, inVars, outVars, bellVars
<1>7. CASE clearRQBuffer
  BY <1>7, Sizes DEF clearRQBuffer, TypeOK, outVars, bellVars
<1>8. CASE clearWQBuffer
  BY <1>8, Sizes DEF clearWQBuffer, TypeOK, Bells, inVars
<1>9. CASE HandleInterruptRequest
  BY <1>9 DEF HandleInterruptRequest, TypeOK, inVars, outVars
<1>10. CASE ReadDoorbell
  BY <1>10 DEF ReadDoorbell, TypeOK, inVars, outVars, bellVars
<1>11. CASE AcknowledgeDoorbell
  BY <1>11 DEF AcknowledgeDoorbell, TypeOK, inVars, outVars
<1>12. CASE HandleWriteOK
  <2>1. handler' \in [pc : {"idle", "doorbell", "acknowledge", "WRITE_OK", "READ_OK"},
                      doorbell : SUBSET Bells]
    BY <1>12, WriteOKMoves DEF TypeOK
  <2>2. /\ UNCHANGED <<timer, sender, inQ, wbuf, sent, got, rbuf, posted, read, outDB,
                       dbInt, adapterFree, left>>
        /\ outQ' \in {outQ, Ring!Inserted(outQ, rbuf)}
        /\ MQFlags' \in {MQFlags, MQFlags \cup {"OVERFLOW"}}
        /\ receiver' \in {receiver, Woken(receiver)}
        /\ inDB' \in {inDB, inDB \cup {"READ_OK"}}
    BY <1>12, WriteOKMoves
  <2>3. outQ' \in Seq(Byte) /\ Len(outQ') <= Capacity
    BY <1>t, <2>2, Insertion
  <2>4. receiver' \in [Receivers -> RecvCalls]
    BY <1>t, <2>2, WokenReceivers
  <2> QED
    BY <1>r, <2>1, <2>2, <2>3, <2>4 DEF TypeOK, Bells
<1>13. CASE HandleReadOK
  <2>1. handler' \in [pc : {"idle", "doorbell", "acknowledge", "WRITE_OK", "READ_OK"},
                      doorbell : SUBSET Bells]
    BY <1>13 DEF HandleReadOK, NoHandler
  <2>2. UNCHANGED <<timer, receiver, sent, got, outQ, rbuf, posted, read, outDB, dbInt,
                    adapterFree, left>>
    BY <1>13 DEF HandleReadOK, outVars
  <2>3. /\ inQ' \in Seq(Byte) /\ Len(inQ') <= Capacity
        /\ wbuf' \in Seq(Byte) /\ Len(wbuf') <= WBufSize
        /\ inDB' \subseteq Bells /\ MQFlags' \subseteq {"UNDERFLOW", "OVERFLOW"}
        /\ sender' \in [Senders -> SendCalls]
    <3>1. CASE inboundMQWrite(inQ, MQFlags, sender)
      BY <1>t, <3>1, WriteTypes DEF TypeOK
    <3>2. CASE UNCHANGED <<inQ, wbuf, inDB, MQFlags, sender>>
      BY <1>t, <3>2 DEF TypeOK
    <3> QED
      BY <1>13, <3>1, <3>2 DEF HandleReadOK
  <2> QED
    BY <1>s, <2>1, <2>2, <2>3 DEF TypeOK
<1>14. CASE outboundMQWakeup
  <2>1. receiver' \in [Receivers -> RecvCalls]
    BY <1>14, <1>t, WokenReceivers DEF outboundMQWakeup
  <2> QED
    BY <1>14, <1>r, <2>1 DEF outboundMQWakeup, TypeOK, inVars, outVars, bellVars
<1>15. CASE AdapterReads
  <2>1. got' \in Byte
    BY <1>15, <1>t, LastIs DEF AdapterReads
  <2> QED
    BY <1>15, <2>1 DEF AdapterReads, TypeOK, Bells, outVars
<1>16. CASE AdapterSeesReadOK
  BY <1>16 DEF AdapterSeesReadOK, TypeOK, inVars, outVars
<1>17. ASSUME NEW n \in PostLens, AdapterPosts(n) PROVE TypeOK'
  <2>1. rbuf' \in Seq(Byte) /\ Len(rbuf') <= WBufSize
    BY <1>17, <1>t, Sizes, NextBytesAre DEF AdapterPosts
  <2>2. posted' \in Byte
    <3>1. posted + n \in Int
      BY <1>t, Sizes DEF Byte
    <3> QED
      BY <1>17, <3>1, Numbered DEF AdapterPosts
  <2> QED
    BY <1>17, <2>1, <2>2 DEF AdapterPosts, TypeOK, Bells, inVars
<1>18. CASE Reload
  <2>2. /\ inQ' = <<>> /\ outQ' = <<>> /\ MQFlags' = {"UNDERFLOW"} /\ timer' = FALSE
        /\ inDB' \subseteq Bells /\ outDB' \subseteq Bells
        /\ left' \subseteq {"inbound", "outbound"}
        /\ UNCHANGED <<sender, receiver, handler, wbuf, sent, got, rbuf, posted, read,
                       dbInt, adapterFree>>
    BY <1>18 DEF Reload, TypeOK, Bells
  <2> QED
    BY <2>2, Empty DEF TypeOK
<1>19. CASE UNCHANGED vars
  BY <1>19 DEF vars, inVars, outVars, bellVars, TypeOK
<1>20. CASE Clients
  BY <1>1, <1>2, <1>3, <1>4, <1>5, <1>6, <1>7, <1>8, <1>20 DEF Clients
<1> QED
  BY <1>9, <1>10, <1>11, <1>12, <1>13, <1>14, <1>15, <1>16, <1>17, <1>18, <1>19, <1>20
     DEF Next, Workloop, Adapter

-----------------------------------------------------------------------------
(***************************************************************************)
(* The turns.  Each is in some of a few places; the lemmas below follow it *)
(* from one place to the next.                                             *)
(***************************************************************************)
\* What the handler acknowledges, it has read and will act on.
DoorbellRead == handler.pc = "acknowledge" => handler.doorbell \subseteq outDB

InPlaces == [driver  |-> "UNDERFLOW" \in MQFlags,
             adapter |-> "WRITE_OK" \in inDB,
             back    |-> "READ_OK" \in outDB,
             handler |-> HandlerHas("READ_OK")]

OutPlaces == [adapter |-> adapterFree,
              driver  |-> "WRITE_OK" \in outDB,
              handler |-> HandlerHas("WRITE_OK"),
              stalled |-> "OVERFLOW" \in MQFlags,
              back    |-> "READ_OK" \in inDB]

InSomewhere ==
    \/ "UNDERFLOW" \in MQFlags \/ "WRITE_OK" \in inDB
    \/ "READ_OK" \in outDB \/ HandlerHas("READ_OK")

InOnce ==
    /\ "UNDERFLOW" \in MQFlags => /\ "WRITE_OK" \notin inDB
                                  /\ "READ_OK" \notin outDB
                                  /\ ~HandlerHas("READ_OK")
    /\ "WRITE_OK" \in inDB => "READ_OK" \notin outDB /\ ~HandlerHas("READ_OK")
    /\ "READ_OK" \in outDB => ~HandlerHas("READ_OK")

InTurns == InSomewhere /\ ("inbound" \notin left => InOnce)

OutSomewhere ==
    \/ adapterFree \/ "WRITE_OK" \in outDB \/ HandlerHas("WRITE_OK")
    \/ "OVERFLOW" \in MQFlags \/ "READ_OK" \in inDB

OutOnce ==
    /\ adapterFree => /\ "WRITE_OK" \notin outDB /\ ~HandlerHas("WRITE_OK")
                      /\ "OVERFLOW" \notin MQFlags /\ "READ_OK" \notin inDB
    /\ "WRITE_OK" \in outDB => /\ ~HandlerHas("WRITE_OK")
                               /\ "OVERFLOW" \notin MQFlags /\ "READ_OK" \notin inDB
    /\ HandlerHas("WRITE_OK") => "OVERFLOW" \notin MQFlags /\ "READ_OK" \notin inDB
    /\ "OVERFLOW" \in MQFlags => "READ_OK" \notin inDB

OutTurns == OutOnce /\ ("outbound" \notin left => OutSomewhere)

Turns == DoorbellRead /\ InTurns /\ OutTurns

\* Nothing moves unless a flag, a doorbell bit or the handler changes.
LEMMA TurnsKeep ==
  ASSUME Turns, UNCHANGED <<MQFlags, handler, inDB, outDB, adapterFree, left>>
  PROVE  Turns'
BY DEF Turns, DoorbellRead, InTurns, InSomewhere, InOnce, OutTurns, OutSomewhere, OutOnce,
       HandlerHas

\* Writing to the adapter takes the inbound turn and leaves it in the doorbell
\* or, with nothing to write, with the driver.
LEMMA WriteTurns ==
  ASSUME NEW q \in Seq(Byte), Len(q) <= Capacity,
         NEW flags \in SUBSET {"UNDERFLOW", "OVERFLOW"}, "UNDERFLOW" \notin flags,
         NEW f \in [Senders -> SendCalls], inboundMQWrite(q, flags, f)
  PROVE  /\ "OVERFLOW" \in MQFlags' <=> "OVERFLOW" \in flags
         /\ "READ_OK" \in inDB' <=> "READ_OK" \in inDB
         /\ \/ "UNDERFLOW" \in MQFlags' /\ inDB' = inDB
            \/ "UNDERFLOW" \notin MQFlags' /\ "WRITE_OK" \in inDB'
<1>1. \/ MQFlags' = flags /\ inDB' = inDB \cup {"WRITE_OK"}
      \/ MQFlags' = flags \cup {"UNDERFLOW"} /\ inDB' = inDB
  BY WriteMoves
<1> QED
  BY <1>1

\* Writing while the driver had the turn as well keeps it.
LEMMA WriteAgain ==
  ASSUME NEW q \in Seq(Byte), Len(q) <= Capacity,
         NEW flags \in SUBSET {"UNDERFLOW", "OVERFLOW"}, "UNDERFLOW" \in flags,
         NEW f \in [Senders -> SendCalls], inboundMQWrite(q, flags, f)
  PROVE  /\ "OVERFLOW" \in MQFlags' <=> "OVERFLOW" \in flags
         /\ "READ_OK" \in inDB' <=> "READ_OK" \in inDB
         /\ "UNDERFLOW" \in MQFlags'
<1>1. \/ MQFlags' = flags /\ inDB' = inDB \cup {"WRITE_OK"}
      \/ MQFlags' = flags \cup {"UNDERFLOW"} /\ inDB' = inDB
  BY WriteMoves
<1> QED
  BY <1>1

LEMMA TurnsStep ==
  ASSUME TypeOK, Turns, [Next]_vars
  PROVE  Turns'
<1>t. /\ sender \in [Senders -> SendCalls] /\ inQ \in Seq(Byte) /\ Len(inQ) <= Capacity
      /\ MQFlags \in SUBSET {"UNDERFLOW", "OVERFLOW"}
      /\ handler \in [pc : {"idle", "doorbell", "acknowledge", "WRITE_OK", "READ_OK"},
                      doorbell : SUBSET Bells]
      /\ inDB \subseteq Bells /\ outDB \subseteq Bells
  BY DEF TypeOK, SendCalls
<1> USE DEF DoorbellRead, InTurns, InSomewhere, InOnce, OutTurns, OutSomewhere, OutOnce,
            HandlerHas
<1>1. ASSUME NEW s \in Senders, inboundMQBufferInsert(s) PROVE Turns'
  <2> DEFINE q == Ring!Inserted(inQ, NextBytes(sent, sender[s].len))
             done == [sender EXCEPT ![s] = NoCall]
  <2>1. /\ UNCHANGED <<handler, outDB, adapterFree, left>>
        /\ handler.pc = "idle"
        /\ q \in Seq(Byte) /\ Len(q) <= Capacity
        /\ \/ UNCHANGED <<MQFlags, inDB>>
           \/ /\ "UNDERFLOW" \in MQFlags /\ done \in [Senders -> SendCalls]
              /\ inboundMQWrite(q, MQFlags \ {"UNDERFLOW"}, done)
    BY <1>1, InsertMoves
  <2>2. CASE UNCHANGED <<MQFlags, inDB>>
    BY <2>1, <2>2, TurnsKeep
  <2>3. CASE /\ "UNDERFLOW" \in MQFlags /\ done \in [Senders -> SendCalls]
             /\ inboundMQWrite(q, MQFlags \ {"UNDERFLOW"}, done)
    <3> HIDE DEF q, done
    <3>1. /\ MQFlags \ {"UNDERFLOW"} \in SUBSET {"UNDERFLOW", "OVERFLOW"}
          /\ "UNDERFLOW" \notin MQFlags \ {"UNDERFLOW"}
      BY <1>t
    <3>2. /\ "OVERFLOW" \in MQFlags' <=> "OVERFLOW" \in MQFlags
          /\ "READ_OK" \in inDB' <=> "READ_OK" \in inDB
          /\ \/ "UNDERFLOW" \in MQFlags' /\ inDB' = inDB
             \/ "UNDERFLOW" \notin MQFlags' /\ "WRITE_OK" \in inDB'
      BY <2>1, <2>3, <3>1, WriteTurns
    <3> QED
      BY <2>1, <2>3, <3>2 DEF Turns
  <2> QED
    BY <2>1, <2>2, <2>3
<1>2. ASSUME NEW r \in Receivers, outboundMQBufferRemove(r) PROVE Turns'
  <2>1. UNCHANGED <<handler, outDB, adapterFree, left>> /\ (Kept(r) \/ Taken(r))
    BY <1>2, RemoveMoves
  <2>2. CASE Kept(r)
    BY <2>1, <2>2, TurnsKeep DEF Kept
  <2>3. CASE Taken(r)
    <3>1. /\ "OVERFLOW" \in MQFlags /\ MQFlags' = MQFlags \ {"OVERFLOW"}
          /\ inDB' = inDB \cup {"READ_OK"}
      BY <2>3 DEF Taken
    <3> QED
      BY <2>1, <3>1 DEF Turns
  <2> QED
    BY <2>1, <2>2, <2>3
<1>3. CASE clearWQBuffer
  <2>1. /\ UNCHANGED <<handler, outDB, adapterFree, left>>
        /\ MQFlags' = MQFlags \ {"OVERFLOW"}
        /\ inDB' = IF "OVERFLOW" \in MQFlags THEN inDB \cup {"READ_OK"} ELSE inDB
    BY <1>3 DEF clearWQBuffer
  <2> QED
    BY <2>1 DEF Turns
<1>4. CASE HandleInterruptRequest
  <2>1. /\ UNCHANGED <<MQFlags, inDB, outDB, adapterFree, left>>
        /\ handler.pc = "idle" /\ handler'.pc = "doorbell"
    BY <1>4 DEF HandleInterruptRequest
  <2> QED
    BY <2>1 DEF Turns
<1>5. CASE ReadDoorbell
  <2>1. /\ UNCHANGED <<MQFlags, inDB, outDB, adapterFree, left>>
        /\ handler.pc = "doorbell"
        /\ handler'.pc = "acknowledge" /\ handler'.doorbell = outDB
    BY <1>5 DEF ReadDoorbell, bellVars
  <2> QED
    BY <2>1 DEF Turns
<1>6. CASE AcknowledgeDoorbell
  <2>1. /\ UNCHANGED <<MQFlags, inDB, adapterFree, left>>
        /\ handler.pc = "acknowledge" /\ outDB' = outDB \ handler.doorbell
        /\ handler'.pc = "WRITE_OK" /\ handler'.doorbell = handler.doorbell
    BY <1>6, <1>t DEF AcknowledgeDoorbell
  <2> QED
    BY <1>t, <2>1 DEF Turns
<1>7. CASE HandleWriteOK
  <2>1. /\ UNCHANGED <<outDB, adapterFree, left>>
        /\ handler.pc = "WRITE_OK"
        /\ handler'.pc = "READ_OK" /\ handler'.doorbell = handler.doorbell
        /\ \/ /\ "WRITE_OK" \in handler.doorbell
              /\ MQFlags' = MQFlags /\ inDB' = inDB \cup {"READ_OK"}
           \/ /\ "WRITE_OK" \in handler.doorbell
              /\ MQFlags' = MQFlags \cup {"OVERFLOW"} /\ inDB' = inDB
           \/ /\ "WRITE_OK" \notin handler.doorbell
              /\ UNCHANGED <<MQFlags, inDB>>
    BY <1>7, <1>t, WriteOKMoves
  <2> QED
    BY <2>1 DEF Turns
<1>8. CASE HandleReadOK
  <2>1. /\ UNCHANGED <<outDB, adapterFree, left>>
        /\ handler.pc = "READ_OK" /\ handler'.pc = "idle"
        /\ IF "READ_OK" \in handler.doorbell
           THEN inboundMQWrite(inQ, MQFlags, sender)
           ELSE UNCHANGED <<inDB, MQFlags>>
    BY <1>8 DEF HandleReadOK, NoHandler
  <2>2. CASE "READ_OK" \notin handler.doorbell
    BY <2>1, <2>2 DEF Turns
  <2>3. CASE "READ_OK" \in handler.doorbell /\ "UNDERFLOW" \notin MQFlags
    <3>1. /\ "OVERFLOW" \in MQFlags' <=> "OVERFLOW" \in MQFlags
          /\ "READ_OK" \in inDB' <=> "READ_OK" \in inDB
          /\ \/ "UNDERFLOW" \in MQFlags' /\ inDB' = inDB
             \/ "UNDERFLOW" \notin MQFlags' /\ "WRITE_OK" \in inDB'
      BY <1>t, <2>1, <2>3, WriteTurns
    <3> QED
      BY <2>1, <2>3, <3>1 DEF Turns
  <2>4. CASE "READ_OK" \in handler.doorbell /\ "UNDERFLOW" \in MQFlags
    <3>1. /\ "OVERFLOW" \in MQFlags' <=> "OVERFLOW" \in MQFlags
          /\ "READ_OK" \in inDB' <=> "READ_OK" \in inDB
          /\ "UNDERFLOW" \in MQFlags'
      BY <1>t, <2>1, <2>4, WriteAgain
    <3> QED
      BY <2>1, <2>4, <3>1 DEF Turns
  <2> QED
    BY <2>2, <2>3, <2>4
<1>9. CASE AdapterReads
  <2>1. /\ UNCHANGED <<MQFlags, handler, adapterFree, left>>
        /\ "WRITE_OK" \in inDB /\ inDB' = inDB \ {"WRITE_OK"}
        /\ outDB' = outDB \cup {"READ_OK"}
    BY <1>9 DEF AdapterReads
  <2> QED
    BY <2>1 DEF Turns
<1>10. CASE AdapterSeesReadOK
  <2>1. /\ UNCHANGED <<MQFlags, handler, outDB, left>>
        /\ "READ_OK" \in inDB /\ inDB' = inDB \ {"READ_OK"} /\ adapterFree' = TRUE
    BY <1>10 DEF AdapterSeesReadOK
  <2> QED
    BY <2>1 DEF Turns
<1>11. ASSUME NEW n \in PostLens, AdapterPosts(n) PROVE Turns'
  <2>1. /\ UNCHANGED <<MQFlags, handler, inDB, left>>
        /\ adapterFree /\ adapterFree' = FALSE /\ outDB' = outDB \cup {"WRITE_OK"}
    BY <1>11 DEF AdapterPosts
  <2> QED
    BY <2>1 DEF Turns
<1>12. CASE Reload
  <2>1. /\ UNCHANGED <<handler, adapterFree>>
        /\ handler.pc = "idle"
        /\ MQFlags' = {"UNDERFLOW"}
        /\ \/ "WRITE_OK" \in outDB /\ outDB' = {} /\ inDB' = inDB \cup {"READ_OK"}
           \/ "WRITE_OK" \notin outDB /\ UNCHANGED <<outDB, inDB>>
        /\ "inbound" \in left' <=> "WRITE_OK" \in inDB' \/ "READ_OK" \in outDB'
        /\ "outbound" \in left' <=> "outbound" \in left \/ "OVERFLOW" \in MQFlags
    BY <1>12 DEF Reload
  <2> QED
    BY <2>1 DEF Turns
<1>13. CASE UNCHANGED <<MQFlags, handler, inDB, outDB, adapterFree, left>>
  BY <1>13, TurnsKeep
<1>14. CASE Clients
  <2>1. ASSUME NEW s \in Senders, NEW n \in SendLens, send(s, n) PROVE Turns'
    BY <1>13, <2>1 DEF send, bellVars
  <2>2. ASSUME NEW s \in Senders, SenderInterrupted(s) PROVE Turns'
    BY <1>13, <2>2 DEF SenderInterrupted, bellVars
  <2>3. ASSUME NEW r \in Receivers, NEW n \in RecvLens, NEW b \in BOOLEAN, recv(r, n, b)
        PROVE  Turns'
    BY <1>13, <2>3 DEF recv, bellVars
  <2>4. ASSUME NEW r \in Receivers, ReceiverInterrupted(r) PROVE Turns'
    BY <1>13, <2>4 DEF ReceiverInterrupted, bellVars
  <2>5. CASE clearRQBuffer
    BY <1>13, <2>5 DEF clearRQBuffer, bellVars
  <2> QED
    BY <1>1, <1>2, <1>3, <1>14, <2>1, <2>2, <2>3, <2>4, <2>5 DEF Clients
<1>15. CASE outboundMQWakeup
  BY <1>13, <1>15 DEF outboundMQWakeup, bellVars
<1>16. CASE UNCHANGED vars
  BY <1>13, <1>16 DEF vars, bellVars
<1> QED
  BY <1>4, <1>5, <1>6, <1>7, <1>8, <1>9, <1>10, <1>11, <1>12, <1>14, <1>15, <1>16
     DEF Next, Workloop, Adapter

-----------------------------------------------------------------------------
(***************************************************************************)
(* Who sleeps.                                                             *)
(***************************************************************************)
\* The driver has the turn to write only while there is nothing to write: this
\* is why a sender that is refused may count on the adapter to call back.
UnderflowEmpty == "UNDERFLOW" \in MQFlags => inQ = <<>>

SenderSleep == UnderflowEmpty /\ SendersSleepWithCause

\* Nobody falls asleep while queue and flags stay as they are.
LEMMA SendersKeep ==
  ASSUME SenderSleep, "UNDERFLOW" \in MQFlags' => "UNDERFLOW" \in MQFlags,
         inQ' = inQ \/ inQ' = <<>>,
         \A s \in Senders : sender'[s].pc = "asleep" => sender[s].pc = "asleep"
  PROVE  SenderSleep'
BY DEF SenderSleep, UnderflowEmpty, SendersSleepWithCause

LEMMA WriteWakes ==
  ASSUME NEW q \in Seq(Byte), Len(q) <= Capacity,
         NEW flags \in SUBSET {"UNDERFLOW", "OVERFLOW"},
         NEW f \in [Senders -> SendCalls], inboundMQWrite(q, flags, f),
         "UNDERFLOW" \in flags => q = <<>>
  PROVE  SenderSleep'
<1>1. CASE q # <<>> /\ MQFlags' = flags
  BY <1>1 DEF SenderSleep, UnderflowEmpty, SendersSleepWithCause
<1>2. CASE inQ' = <<>> /\ sender' = Woken(f)
  BY <1>2, WokenSenders DEF SenderSleep, UnderflowEmpty, SendersSleepWithCause
<1> QED
  BY <1>1, <1>2, WriteMoves

LEMMA SendersStep ==
  ASSUME TypeOK, SenderSleep, [Next]_vars
  PROVE  SenderSleep'
<1>t. /\ sender \in [Senders -> SendCalls] /\ inQ \in Seq(Byte) /\ Len(inQ) <= Capacity
      /\ MQFlags \in SUBSET {"UNDERFLOW", "OVERFLOW"}
  BY DEF TypeOK, SendCalls
<1>1. ASSUME NEW s \in Senders, inboundMQBufferInsert(s) PROVE SenderSleep'
  <2> DEFINE n == sender[s].len
             q == Ring!Inserted(inQ, NextBytes(sent, n))
             done == [sender EXCEPT ![s] = NoCall]
  <2>1. /\ n \in SendLens /\ q \in Seq(Byte) /\ Len(q) <= Capacity
        /\ \/ /\ ~Ring!Accepts(inQ, n) /\ UNCHANGED <<MQFlags, inQ>>
              /\ sender' = [sender EXCEPT ![s].pc = "asleep"]
           \/ /\ done \in [Senders -> SendCalls]
              /\ inboundMQWrite(q, MQFlags \ {"UNDERFLOW"}, done)
           \/ /\ "UNDERFLOW" \notin MQFlags /\ MQFlags' = MQFlags
    BY <1>1, InsertMoves
  <2> HIDE DEF n, q, done
  <2>2. CASE ~Ring!Accepts(inQ, n) /\ UNCHANGED <<MQFlags, inQ>>
    <3>1. Len(inQ) # 0
      BY <2>1, <2>2, Sizes DEF Ring!Accepts, Ring!Avail
    <3>2. "UNDERFLOW" \notin MQFlags'
      BY <2>2, <3>1 DEF SenderSleep, UnderflowEmpty
    <3> QED
      BY <3>2 DEF SenderSleep, UnderflowEmpty, SendersSleepWithCause
  <2>3. CASE /\ done \in [Senders -> SendCalls]
             /\ inboundMQWrite(q, MQFlags \ {"UNDERFLOW"}, done)
    <3>1. MQFlags \ {"UNDERFLOW"} \in SUBSET {"UNDERFLOW", "OVERFLOW"}
      BY <1>t
    <3> QED
      BY <2>1, <2>3, <3>1, WriteWakes
  <2>4. CASE "UNDERFLOW" \notin MQFlags /\ MQFlags' = MQFlags
    BY <2>4 DEF SenderSleep, UnderflowEmpty, SendersSleepWithCause
  <2> QED
    BY <2>1, <2>2, <2>3, <2>4
<1>2. CASE HandleReadOK
  <2>1. CASE inboundMQWrite(inQ, MQFlags, sender)
    BY <1>t, <2>1, WriteWakes DEF SenderSleep, UnderflowEmpty
  <2>2. CASE UNCHANGED <<inQ, MQFlags, sender>>
    BY <2>2, SendersKeep
  <2> QED
    BY <1>2, <2>1, <2>2 DEF HandleReadOK
<1>3. CASE Reload
  BY <1>3 DEF Reload, SenderSleep, UnderflowEmpty, SendersSleepWithCause
<1>4. CASE UNCHANGED <<MQFlags, inQ, sender>>
  BY <1>4, SendersKeep
<1>5. CASE Clients
  <2>1. ASSUME NEW s \in Senders, NEW n \in SendLens, send(s, n) PROVE SenderSleep'
    BY <1>t, <2>1, SendersKeep DEF send, inVars
  <2>2. ASSUME NEW s \in Senders, SenderInterrupted(s) PROVE SenderSleep'
    BY <1>t, <2>2, SendersKeep DEF SenderInterrupted, inVars
  <2>3. ASSUME NEW r \in Receivers, NEW n \in RecvLens, NEW b \in BOOLEAN, recv(r, n, b)
        PROVE  SenderSleep'
    BY <1>4, <2>3 DEF recv, inVars
  <2>4. ASSUME NEW r \in Receivers, outboundMQBufferRemove(r) PROVE SenderSleep'
    <3>1. UNCHANGED <<inQ, sender>> /\ ("UNDERFLOW" \in MQFlags' => "UNDERFLOW" \in MQFlags)
      BY <2>4, RemoveMoves DEF Kept, Taken
    <3> QED
      BY <3>1, SendersKeep
  <2>5. ASSUME NEW r \in Receivers, ReceiverInterrupted(r) PROVE SenderSleep'
    BY <1>4, <2>5 DEF ReceiverInterrupted, inVars
  <2>6. CASE clearRQBuffer
    BY <2>6, SendersKeep DEF clearRQBuffer
  <2>7. CASE clearWQBuffer
    BY <2>7, SendersKeep DEF clearWQBuffer, inVars
  <2> QED
    BY <1>1, <1>5, <2>1, <2>2, <2>3, <2>4, <2>5, <2>6, <2>7 DEF Clients
<1>6. CASE HandleWriteOK
  <2>1. UNCHANGED <<inQ, sender>> /\ ("UNDERFLOW" \in MQFlags' => "UNDERFLOW" \in MQFlags)
    BY <1>6, WriteOKMoves
  <2> QED
    BY <2>1, SendersKeep
<1>7. CASE \/ HandleInterruptRequest \/ ReadDoorbell \/ AcknowledgeDoorbell
           \/ outboundMQWakeup \/ Adapter \/ UNCHANGED vars
  BY <1>4, <1>7 DEF HandleInterruptRequest, ReadDoorbell, AcknowledgeDoorbell, outboundMQWakeup,
                    Adapter, AdapterReads, AdapterSeesReadOK, AdapterPosts, vars, inVars
<1> QED
  BY <1>2, <1>3, <1>5, <1>6, <1>7 DEF Next, Workloop

\* Nobody falls asleep while the ring and the flags stay as they are.
LEMMA ReceiversKeep ==
  ASSUME ReceiversSleepWithCause, "OVERFLOW" \in MQFlags' => "OVERFLOW" \in MQFlags,
         outQ' = outQ \/ outQ' = <<>>,
         \A r \in Receivers : receiver'[r].pc = "asleep" => receiver[r].pc = "asleep"
  PROVE  ReceiversSleepWithCause'
BY DEF ReceiversSleepWithCause

LEMMA ReceiversStep ==
  ASSUME TypeOK, ReceiversSleepWithCause, [Next]_vars
  PROVE  ReceiversSleepWithCause'
<1>t. /\ receiver \in [Receivers -> RecvCalls] /\ outQ \in Seq(Byte)
      /\ Len(outQ) \in Nat
      /\ rbuf \in Seq(Byte) /\ Len(rbuf) <= WBufSize /\ Len(rbuf) \in Nat
      /\ MQFlags \in SUBSET {"UNDERFLOW", "OVERFLOW"}
  BY DEF TypeOK, RecvCalls
<1>1. ASSUME NEW r \in Receivers, outboundMQBufferRemove(r) PROVE ReceiversSleepWithCause'
  <2>1. receiver[r].len \in RecvLens /\ (Kept(r) \/ Taken(r))
    BY <1>1, RemoveMoves
  <2> DEFINE n == receiver[r].len
  <2>2. CASE Kept(r)
    <3>1. /\ outQ' = Ring!Remaining(outQ, n) /\ MQFlags' = MQFlags
          /\ Len(outQ) < n => "OVERFLOW" \notin MQFlags
          /\ \A t \in Receivers \ {r} : receiver'[t] = receiver[t]
          /\ receiver'[r].pc = "asleep" => outQ = <<>>
      BY <2>2 DEF Kept
    <3>2. n \in Nat \ {0}
      BY <2>1, Sizes
    <3> HIDE DEF n
    <3>3. outQ = <<>> => outQ' = <<>> /\ "OVERFLOW" \notin MQFlags'
      <4>1. ASSUME outQ = <<>> PROVE Len(outQ) <= n /\ Len(outQ) < n
        BY <3>2, <4>1
      <4>2. outQ = <<>> => Ring!Remaining(outQ, n) = <<>>
        BY <1>t, <3>2, <4>1, SplitEnds
      <4> QED
        BY <3>1, <4>1, <4>2
    <3>4. ASSUME NEW t \in Receivers, receiver'[t].pc = "asleep" PROVE outQ = <<>>
      BY <3>1, <3>4 DEF ReceiversSleepWithCause
    <3> QED
      BY <3>3, <3>4 DEF ReceiversSleepWithCause
  <2>3. CASE Taken(r)
    BY <2>3 DEF Taken, ReceiversSleepWithCause
  <2> QED
    BY <2>1, <2>2, <2>3
<1>2. CASE HandleWriteOK
  <2>1. CASE receiver' = Woken(receiver)
    BY <1>t, <2>1, WokenReceivers DEF ReceiversSleepWithCause
  <2>2. CASE /\ ~Ring!Accepts(outQ, Len(rbuf)) /\ UNCHANGED <<outQ, receiver>>
    <3>1. Len(outQ) # 0
      BY <1>t, <2>2, Sizes DEF Ring!Accepts, Ring!Avail
    <3> QED
      BY <2>2, <3>1 DEF ReceiversSleepWithCause
  <2>3. CASE UNCHANGED <<outQ, MQFlags, receiver>>
    BY <2>3, ReceiversKeep
  <2> QED
    BY <1>2, <2>1, <2>2, <2>3, WriteOKMoves
<1>3. CASE Reload
  BY <1>3 DEF Reload, ReceiversSleepWithCause
<1>4. CASE UNCHANGED <<MQFlags, outQ, receiver>>
  BY <1>4, ReceiversKeep
<1>5. CASE Clients
  <2>1. ASSUME NEW s \in Senders, NEW n \in SendLens, send(s, n)
        PROVE  ReceiversSleepWithCause'
    BY <1>4, <2>1 DEF send, outVars
  <2>2. ASSUME NEW s \in Senders, SenderInterrupted(s) PROVE ReceiversSleepWithCause'
    BY <1>4, <2>2 DEF SenderInterrupted, outVars
  <2>3. ASSUME NEW r \in Receivers, NEW n \in RecvLens, NEW b \in BOOLEAN, recv(r, n, b)
        PROVE  ReceiversSleepWithCause'
    BY <1>t, <2>3, ReceiversKeep DEF recv, outVars
  <2>4. ASSUME NEW s \in Senders, inboundMQBufferInsert(s) PROVE ReceiversSleepWithCause'
    <3>1. UNCHANGED <<outQ, receiver>>
      BY <2>4, InsertMoves
    <3>2. "OVERFLOW" \in MQFlags' => "OVERFLOW" \in MQFlags
      BY <2>4 DEF inboundMQBufferInsert, inboundMQWrite
    <3> QED
      BY <3>1, <3>2, ReceiversKeep
  <2>5. ASSUME NEW r \in Receivers, ReceiverInterrupted(r) PROVE ReceiversSleepWithCause'
    BY <1>t, <2>5, ReceiversKeep DEF ReceiverInterrupted, outVars
  <2>6. CASE clearRQBuffer
    BY <1>4, <2>6 DEF clearRQBuffer, outVars
  <2>7. CASE clearWQBuffer
    BY <2>7, ReceiversKeep DEF clearWQBuffer
  <2> QED
    BY <1>1, <1>5, <2>1, <2>2, <2>3, <2>4, <2>5, <2>6, <2>7 DEF Clients
<1>6. CASE HandleReadOK
  <2>1. UNCHANGED <<outQ, receiver>>
    BY <1>6 DEF HandleReadOK, outVars
  <2>2. "OVERFLOW" \in MQFlags' => "OVERFLOW" \in MQFlags
    BY <1>6 DEF HandleReadOK, inboundMQWrite
  <2> QED
    BY <2>1, <2>2, ReceiversKeep
<1>7. CASE outboundMQWakeup
  <2>1. UNCHANGED <<MQFlags, outQ>> /\ receiver' \in {receiver, Woken(receiver)}
    BY <1>7 DEF outboundMQWakeup, outVars
  <2> QED
    BY <1>t, <2>1, WokenReceivers, ReceiversKeep
<1>8. CASE \/ HandleInterruptRequest \/ ReadDoorbell \/ AcknowledgeDoorbell
           \/ Adapter \/ UNCHANGED vars
  BY <1>4, <1>8 DEF HandleInterruptRequest, ReadDoorbell, AcknowledgeDoorbell, Adapter,
                    AdapterReads, AdapterSeesReadOK, AdapterPosts, vars, outVars
<1> QED
  BY <1>2, <1>3, <1>5, <1>6, <1>7, <1>8 DEF Next, Workloop

-----------------------------------------------------------------------------
(***************************************************************************)
(* Order, for bytes whose numbers do not start over.  Each direction rises *)
(* from the last byte that arrived, by way of the byte x that separates    *)
(* the adapter's buffer from the ring, to the last byte sent.              *)
(***************************************************************************)
Rising(k, s, m) ==
    /\ k <= m
    /\ \A i \in 1 .. Len(s) : k < s[i] /\ s[i] <= m
    /\ \A i, j \in 1 .. Len(s) : i < j => s[i] < s[j]

InBuffer  == IF "WRITE_OK" \in inDB THEN wbuf ELSE <<>>
OutBuffer == IF OutboundUnread THEN rbuf ELSE <<>>

InRising == \E x \in Byte : Rising(got, InBuffer, x) /\ Rising(x, inQ, sent)

OutRising == \E x \in Byte : Rising(read, outQ, x) /\ Rising(x, OutBuffer, posted)

LEMMA RisingNothing ==
  ASSUME NEW k \in Byte, NEW m \in Byte, k <= m
  PROVE  Rising(k, <<>>, m)
BY DEF Rising

LEMMA RisingBounds ==
  ASSUME NEW k \in Byte, NEW m \in Byte, NEW s \in Seq(Byte), Rising(k, s, m)
  PROVE  LastOf(s, k) \in Byte /\ k <= LastOf(s, k) /\ LastOf(s, k) <= m
<1>1. CASE s = <<>>
  <2>1. LastOf(s, k) = k /\ k <= m /\ k \in Int
    BY <1>1 DEF Rising, LastOf, Byte
  <2> QED
    BY <2>1
<1>2. CASE s # <<>>
  <2>1. Len(s) \in 1 .. Len(s) /\ s[Len(s)] \in Byte
    BY <1>2
  <2> QED
    BY <1>2, <2>1 DEF Rising, LastOf, Byte
<1> QED
  BY <1>1, <1>2

LEMMA RisingWider ==
  ASSUME NEW k \in Byte, NEW m \in Byte, NEW s \in Seq(Byte), Rising(k, s, m),
         NEW j \in Byte, j <= k, NEW n \in Byte, m <= n
  PROVE  Rising(j, s, n)
<1>1. \A i \in 1 .. Len(s) : s[i] \in Byte
  OBVIOUS
<1> QED
  BY <1>1 DEF Rising, Byte

LEMMA RisingSplit ==
  ASSUME NEW k \in Byte, NEW m \in Byte, NEW s \in Seq(Byte), Rising(k, s, m),
         NEW n \in Nat
  PROVE  LET f == Ring!Fetched(s, n)
         IN  /\ LastOf(f, k) \in Byte
             /\ Rising(k, f, LastOf(f, k))
             /\ Rising(LastOf(f, k), Ring!Remaining(s, n), m)
<1> DEFINE l == IF n < Len(s) THEN n ELSE Len(s)
           f == Ring!Fetched(s, n)
           g == Ring!Remaining(s, n)
<1>1. /\ l \in Nat /\ l <= Len(s) /\ Len(s) \in Nat
      /\ f \in Seq(Byte) /\ Len(f) = l /\ \A i \in 1 .. l : f[i] = s[i]
      /\ g \in Seq(Byte) /\ Len(g) = Len(s) - l
      /\ \A i \in 1 .. Len(g) : g[i] = s[l + i]
  BY Split
<1> HIDE DEF l, f, g
<1>2. \A i \in 1 .. Len(s) : s[i] \in Byte
  OBVIOUS
<1>3. CASE l = 0
  <2>1. f = <<>>
    BY <1>1, <1>3
  <2>2. LastOf(f, k) = k
    BY <2>1 DEF LastOf
  <2>3. Rising(k, f, k)
    BY <2>1, RisingNothing DEF Byte
  <2>4. Rising(k, g, m)
    BY <1>1, <1>2, <1>3 DEF Rising, Byte
  <2> QED
    BY <2>2, <2>3, <2>4 DEF f, g
<1>4. CASE l > 0
  <2>1. LastOf(f, k) = s[l] /\ l \in 1 .. Len(s)
    BY <1>1, <1>4 DEF LastOf
  <2>5. /\ \A i \in 1 .. Len(s) : s[i] \in Int /\ k < s[i] /\ s[i] <= m
        /\ \A i, j \in 1 .. Len(s) : i < j => s[i] < s[j]
        /\ k \in Int /\ m \in Int
    BY <1>2 DEF Rising, Byte
  <2>2. Rising(k, f, s[l])
    <3>1. \A i \in 1 .. l : i \in 1 .. Len(s) /\ (i < l \/ i = l)
      BY <1>1
    <3>2. k <= s[l] /\ \A i \in 1 .. l : k < s[i] /\ s[i] <= s[l]
      BY <2>1, <2>5, <3>1
    <3> QED
      BY <1>1, <2>5, <3>1, <3>2 DEF Rising
  <2>3. Rising(s[l], g, m)
    <3>1. s[l] <= m
      BY <2>1, <2>5
    <3>2. \A i \in 1 .. Len(g) : l + i \in 1 .. Len(s) /\ l < l + i /\ g[i] = s[l + i]
      BY <1>1, <1>4
    <3>3. \A i \in 1 .. Len(g) : s[l] < g[i] /\ g[i] <= m
      BY <2>1, <2>5, <3>2
    <3>4. \A i, j \in 1 .. Len(g) : i < j => g[i] < g[j]
      <4> SUFFICES ASSUME NEW i \in 1 .. Len(g), NEW j \in 1 .. Len(g), i < j
                   PROVE  g[i] < g[j]
        OBVIOUS
      <4>1. l + i < l + j
        BY <1>1
      <4> QED
        BY <2>5, <3>2, <4>1
    <3> QED
      BY <3>1, <3>3, <3>4 DEF Rising
  <2> QED
    BY <1>2, <2>1, <2>2, <2>3 DEF f, g
<1> QED
  BY <1>1, <1>3, <1>4

LEMMA RisingJoin ==
  ASSUME NEW k \in Byte, NEW x \in Byte, NEW m \in Byte,
         NEW s \in Seq(Byte), NEW t \in Seq(Byte),
         Rising(k, s, x), Rising(x, t, m)
  PROVE  s \o t \in Seq(Byte) /\ Rising(k, s \o t, m)
<1> DEFINE u == s \o t
<1>1. /\ u \in Seq(Byte) /\ Len(u) = Len(s) + Len(t)
      /\ Len(s) \in Nat /\ Len(t) \in Nat
      /\ \A i \in 1 .. Len(s) : u[i] = s[i]
      /\ \A i \in Len(s) + 1 .. Len(u) : u[i] = t[i - Len(s)] /\ i - Len(s) \in 1 .. Len(t)
  OBVIOUS
<1>2. /\ \A i \in 1 .. Len(s) : s[i] \in Int
      /\ \A i \in 1 .. Len(t) : t[i] \in Int
      /\ k \in Int /\ x \in Int /\ m \in Int
  <2>1. \A b \in Byte : b \in Int
    BY DEF Byte
  <2> QED
    BY <2>1
<1> HIDE DEF u
<1>3. k <= m
  BY <1>2 DEF Rising
<1>4. \A i \in 1 .. Len(u) : k < u[i] /\ u[i] <= m
  <2> SUFFICES ASSUME NEW i \in 1 .. Len(u) PROVE k < u[i] /\ u[i] <= m
    OBVIOUS
  <2>1. CASE i \in 1 .. Len(s)
    BY <1>1, <1>2, <2>1 DEF Rising
  <2>2. CASE i \in Len(s) + 1 .. Len(u)
    <3>1. u[i] = t[i - Len(s)] /\ i - Len(s) \in 1 .. Len(t)
      BY <1>1, <2>2
    <3>2. k <= x /\ x < u[i] /\ u[i] <= m /\ u[i] \in Int
      BY <1>2, <3>1 DEF Rising
    <3> QED
      BY <1>2, <3>2
  <2> QED
    BY <1>1, <2>1, <2>2
<1>5. \A i, j \in 1 .. Len(u) : i < j => u[i] < u[j]
  <2> SUFFICES ASSUME NEW i \in 1 .. Len(u), NEW j \in 1 .. Len(u), i < j
               PROVE  u[i] < u[j]
    OBVIOUS
  <2>1. CASE j \in 1 .. Len(s)
    <3>1. i \in 1 .. Len(s)
      BY <1>1, <2>1
    <3>2. u[i] = s[i] /\ u[j] = s[j]
      BY <1>1, <2>1, <3>1
    <3>3. s[i] < s[j]
      BY <2>1, <3>1 DEF Rising
    <3> QED
      BY <3>2, <3>3
  <2>2. CASE i \in 1 .. Len(s) /\ j \in Len(s) + 1 .. Len(u)
    <3>1. u[i] = s[i] /\ u[i] <= x
      BY <1>1, <2>2 DEF Rising
    <3>2. u[j] = t[j - Len(s)] /\ j - Len(s) \in 1 .. Len(t) /\ x < u[j]
      BY <1>1, <2>2 DEF Rising
    <3>3. u[i] \in Int /\ u[j] \in Int /\ x \in Int
      BY <1>2, <2>2, <3>1, <3>2
    <3> QED
      BY <3>1, <3>2, <3>3
  <2>3. CASE i \in Len(s) + 1 .. Len(u)
    <3>1. j \in Len(s) + 1 .. Len(u) /\ i - Len(s) < j - Len(s)
      BY <1>1, <2>3
    <3> QED
      BY <1>1, <2>3, <3>1 DEF Rising
  <2> QED
    BY <1>1, <2>1, <2>2, <2>3
<1> QED
  BY <1>1, <1>3, <1>4, <1>5 DEF Rising, u

LEMMA RisingNext ==
  ASSUME ~Endless, NEW k \in Byte, NEW n \in Nat, MayNumber(k, n)
  PROVE  /\ (k + n) % Numbers = k + n /\ k + n \in Byte
         /\ Rising(k, NextBytes(k, n), k + n)
<1>1. k + n < Numbers /\ k \in Nat
  BY DEF MayNumber, Byte
<1>2. \A i \in 0 .. n : (k + i) % Numbers = k + i
  BY <1>1, Sizes
<1>3. NextBytes(k, n) = [i \in 1 .. n |-> (k + i) % Numbers]
  BY DEF NextBytes
<1>4. Len(NextBytes(k, n)) = n /\ \A i \in 1 .. n : NextBytes(k, n)[i] = k + i
  BY <1>2, <1>3
<1>5. k + n \in Byte
  BY <1>1, Sizes DEF Byte
<1>6. (k + n) % Numbers = k + n
  BY <1>2
<1> QED
  BY <1>1, <1>4, <1>5, <1>6 DEF Rising

\* Writing part of a rising ring to the adapter keeps the order, even over a
\* message the adapter has not read.
LEMMA WriteRises ==
  ASSUME TypeOK, NEW q \in Seq(Byte), Len(q) <= Capacity,
         NEW flags \in SUBSET {"UNDERFLOW", "OVERFLOW"},
         NEW f \in [Senders -> SendCalls], inboundMQWrite(q, flags, f),
         UNCHANGED got, sent' \in Byte,
         NEW x \in Byte, Rising(got, InBuffer, x),
         NEW y \in Byte, x <= y, Rising(y, q, sent')
  PROVE  InRising'
<1>1. InBuffer \in Seq(Byte) /\ got \in Byte
  BY DEF InBuffer, TypeOK
<1>2. got <= x /\ got <= y /\ y <= sent' /\ x <= sent'
  BY <1>1 DEF Rising, Byte
<1>3. CASE /\ wbuf' = Ring!Fetched(q, WBufSize) /\ inQ' = Ring!Remaining(q, WBufSize)
           /\ inDB' = inDB \cup {"WRITE_OK"}
  <2> DEFINE z == LastOf(Ring!Fetched(q, WBufSize), y)
  <2>1. /\ z \in Byte /\ Rising(y, Ring!Fetched(q, WBufSize), z)
        /\ Rising(z, Ring!Remaining(q, WBufSize), sent')
    BY RisingSplit, Sizes
  <2>2. Ring!Fetched(q, WBufSize) \in Seq(Byte)
    BY SplitType, Sizes
  <2> HIDE DEF z
  <2>3. Rising(got, Ring!Fetched(q, WBufSize), z)
    BY <1>1, <1>2, <2>1, <2>2, RisingWider DEF Byte
  <2>4. InBuffer' = Ring!Fetched(q, WBufSize)
    BY <1>3 DEF InBuffer
  <2> QED
    BY <1>3, <2>1, <2>3, <2>4 DEF InRising
<1>4. CASE inQ' = <<>> /\ UNCHANGED <<wbuf, inDB>>
  <2>1. Rising(x, <<>>, sent')
    BY <1>2, RisingNothing
  <2>2. InBuffer' = InBuffer
    BY <1>4 DEF InBuffer
  <2> QED
    BY <1>4, <2>1, <2>2 DEF InRising
<1> QED
  BY <1>3, <1>4, WriteMoves

LEMMA InKeep ==
  ASSUME TypeOK, InRising, UNCHANGED <<wbuf, got>>, sent' \in Byte, sent <= sent',
         "WRITE_OK" \in inDB' <=> "WRITE_OK" \in inDB,
         inQ' = inQ \/ inQ' = <<>>
  PROVE  InRising'
<1>1. PICK x \in Byte : Rising(got, InBuffer, x) /\ Rising(x, inQ, sent)
  BY DEF InRising
<1>2. InBuffer' = InBuffer
  BY DEF InBuffer
<1>3. sent \in Byte /\ inQ \in Seq(Byte)
  BY DEF TypeOK
<1>4. Rising(x, inQ, sent')
  BY <1>1, <1>3, RisingWider DEF Byte
<1>5. Rising(x, <<>>, sent')
  BY <1>4 DEF Rising
<1> QED
  BY <1>1, <1>2, <1>4, <1>5 DEF InRising

\* Bytes sent come after all that are on their way, and none overtakes.
LEMMA InStep ==
  ASSUME ~Endless, TypeOK, UnderflowEmpty, InRising, [Next]_vars
  PROVE  InRising'
<1>t. /\ sender \in [Senders -> SendCalls] /\ inQ \in Seq(Byte) /\ Len(inQ) <= Capacity
      /\ MQFlags \in SUBSET {"UNDERFLOW", "OVERFLOW"}
      /\ sent \in Byte /\ got \in Byte /\ wbuf \in Seq(Byte)
      /\ sent \in Int /\ got \in Int
  BY DEF TypeOK, SendCalls, Byte
<1>x. PICK x \in Byte : Rising(got, InBuffer, x) /\ Rising(x, inQ, sent)
  BY DEF InRising
<1>1. ASSUME NEW s \in Senders, inboundMQBufferInsert(s) PROVE InRising'
  <2> DEFINE n == sender[s].len
             b == NextBytes(sent, n)
             q == Ring!Inserted(inQ, b)
             done == [sender EXCEPT ![s] = NoCall]
  <2>1. /\ UNCHANGED got /\ n \in SendLens
        /\ q \in Seq(Byte) /\ Len(q) <= Capacity
        /\ \/ UNCHANGED <<inQ, wbuf, inDB, sent>>
           \/ /\ Ring!Accepts(inQ, n) /\ MayNumber(sent, n)
              /\ sent' = (sent + n) % Numbers
              /\ \/ /\ "UNDERFLOW" \in MQFlags /\ done \in [Senders -> SendCalls]
                    /\ inboundMQWrite(q, MQFlags \ {"UNDERFLOW"}, done)
                 \/ inQ' = q /\ UNCHANGED <<wbuf, inDB>>
    BY <1>1, InsertMoves
  <2>2. n \in Nat
    BY <2>1, Sizes
  <2>3. b \in Seq(Byte) /\ Len(b) = n
    BY <1>t, <2>2, NextBytesAre
  <2> HIDE DEF n, b, done
  <2>4. Ring!Accepts(inQ, n) => q \in {<<>>, inQ \o b}
    BY <1>t, <2>3, Insertion
  <2> HIDE DEF q
  <2>5. CASE UNCHANGED <<inQ, wbuf, inDB, sent>>
    BY <1>t, <2>1, <2>5, InKeep
  <2>6. CASE Ring!Accepts(inQ, n) /\ MayNumber(sent, n) /\ sent' = (sent + n) % Numbers
    <3>1. sent' = sent + n /\ sent' \in Byte /\ Rising(sent, b, sent') /\ sent <= sent'
      BY <1>t, <2>2, <2>6, RisingNext DEF b
    <3>2. CASE inQ' = q /\ UNCHANGED <<wbuf, inDB>>
      <4>1. CASE q = <<>>
        BY <1>t, <2>1, <3>1, <3>2, <4>1, InKeep
      <4>2. CASE q = inQ \o b
        <5>1. Rising(x, q, sent')
          BY <1>t, <1>x, <2>3, <3>1, <4>2, RisingJoin
        <5>2. InBuffer' = InBuffer
          BY <3>2 DEF InBuffer
        <5> QED
          BY <1>x, <2>1, <3>2, <5>1, <5>2 DEF InRising
      <4> QED
        BY <2>4, <2>6, <4>1, <4>2
    <3>3. CASE /\ "UNDERFLOW" \in MQFlags /\ done \in [Senders -> SendCalls]
               /\ inboundMQWrite(q, MQFlags \ {"UNDERFLOW"}, done)
      <4>1. inQ = <<>>
        BY <3>3 DEF UnderflowEmpty
      <4>2. q \in {<<>>, b}
        BY <2>3, <2>4, <2>6, <4>1, ConcatEmptySeq
      <4>3. Rising(sent, q, sent')
        BY <1>t, <3>1, <4>2, RisingNothing
      <4>4. x <= sent
        BY <1>x DEF Rising
      <4>5. MQFlags \ {"UNDERFLOW"} \in SUBSET {"UNDERFLOW", "OVERFLOW"}
        BY <1>t
      <4> QED
        BY <1>t, <1>x, <2>1, <3>1, <3>3, <4>3, <4>4, <4>5, WriteRises
    <3> QED
      BY <2>1, <2>5, <3>2, <3>3
  <2> QED
    BY <2>1, <2>5, <2>6
<1>2. CASE HandleReadOK
  <2>1. UNCHANGED <<sent, got>>
    BY <1>2 DEF HandleReadOK
  <2>2. CASE inboundMQWrite(inQ, MQFlags, sender)
    <3>1. x <= x
      BY DEF Byte
    <3> QED
      BY <1>t, <1>x, <2>1, <2>2, <3>1, WriteRises
  <2>3. CASE UNCHANGED <<inQ, wbuf, inDB>>
    BY <1>t, <2>1, <2>3, InKeep
  <2> QED
    BY <1>2, <2>2, <2>3 DEF HandleReadOK
<1>3. CASE AdapterReads
  <2>1. /\ UNCHANGED <<inQ, wbuf, sent>> /\ got' = LastOf(wbuf, got)
        /\ "WRITE_OK" \in inDB /\ "WRITE_OK" \notin inDB'
    BY <1>3 DEF AdapterReads
  <2>2. InBuffer = wbuf /\ InBuffer' = <<>>
    BY <2>1 DEF InBuffer
  <2>3. got' \in Byte /\ got' <= x
    BY <1>t, <1>x, <2>1, <2>2, RisingBounds
  <2>4. Rising(got', <<>>, x)
    BY <2>3, RisingNothing
  <2> QED
    BY <1>x, <2>1, <2>2, <2>4 DEF InRising
<1>4. CASE /\ UNCHANGED <<wbuf, got, sent>> /\ (inQ' = inQ \/ inQ' = <<>>)
           /\ "WRITE_OK" \in inDB' <=> "WRITE_OK" \in inDB
  BY <1>t, <1>4, InKeep
<1>5. CASE Clients
  <2>1. ASSUME NEW s \in Senders, NEW n \in SendLens, send(s, n) PROVE InRising'
    BY <1>4, <2>1 DEF send, inVars, bellVars
  <2>2. ASSUME NEW s \in Senders, SenderInterrupted(s) PROVE InRising'
    BY <1>4, <2>2 DEF SenderInterrupted, inVars, bellVars
  <2>3. ASSUME NEW r \in Receivers, NEW n \in RecvLens, NEW b \in BOOLEAN, recv(r, n, b)
        PROVE  InRising'
    BY <1>4, <2>3 DEF recv, inVars, bellVars
  <2>4. ASSUME NEW r \in Receivers, outboundMQBufferRemove(r) PROVE InRising'
    <3>1. /\ UNCHANGED <<wbuf, got, sent, inQ>>
          /\ "WRITE_OK" \in inDB' <=> "WRITE_OK" \in inDB
      BY <2>4, RemoveMoves DEF Kept, Taken
    <3> QED
      BY <1>4, <3>1
  <2>5. ASSUME NEW r \in Receivers, ReceiverInterrupted(r) PROVE InRising'
    BY <1>4, <2>5 DEF ReceiverInterrupted, inVars, bellVars
  <2>6. CASE clearRQBuffer
    BY <1>4, <2>6 DEF clearRQBuffer, bellVars
  <2>7. CASE clearWQBuffer
    BY <1>4, <2>7 DEF clearWQBuffer, inVars
  <2> QED
    BY <1>1, <1>5, <2>1, <2>2, <2>3, <2>4, <2>5, <2>6, <2>7 DEF Clients
<1>6. CASE HandleWriteOK
  <2>1. /\ UNCHANGED <<wbuf, got, sent, inQ>>
        /\ "WRITE_OK" \in inDB' <=> "WRITE_OK" \in inDB
    BY <1>6, WriteOKMoves
  <2> QED
    BY <1>4, <2>1
<1>7. CASE \/ HandleInterruptRequest \/ ReadDoorbell \/ AcknowledgeDoorbell
           \/ outboundMQWakeup \/ UNCHANGED vars
  BY <1>4, <1>7 DEF HandleInterruptRequest, ReadDoorbell, AcknowledgeDoorbell,
                    outboundMQWakeup, vars, inVars, bellVars
<1>8. CASE AdapterSeesReadOK \/ Reload
  BY <1>4, <1>8 DEF AdapterSeesReadOK, Reload, inVars
<1>9. ASSUME NEW n \in PostLens, AdapterPosts(n) PROVE InRising'
  BY <1>4, <1>9 DEF AdapterPosts, inVars
<1> QED
  BY <1>2, <1>3, <1>5, <1>6, <1>7, <1>8, <1>9 DEF Next, Workloop, Adapter

\* The adapter's buffer stays to be read, or is given up with the ring.
LEMMA OutKeep ==
  ASSUME TypeOK, OutRising, UNCHANGED <<rbuf, posted, read>>,
         OutboundUnread' => OutboundUnread,
         outQ' = outQ \/ outQ' = <<>>
  PROVE  OutRising'
<1>1. PICK x \in Byte : Rising(read, outQ, x) /\ Rising(x, OutBuffer, posted)
  BY DEF OutRising
<1>2. Rising(read, outQ', x)
  BY <1>1 DEF Rising
<1>3. OutBuffer' = OutBuffer \/ OutBuffer' = <<>>
  BY DEF OutBuffer
<1>4. Rising(x, OutBuffer', posted)
  BY <1>1, <1>3 DEF Rising
<1> QED
  BY <1>1, <1>2, <1>4 DEF OutRising

\* Bytes posted come after all that are on their way, and none overtakes: the
\* adapter posts only when it has the turn, so never over a stalled message.
LEMMA OutStep ==
  ASSUME ~Endless, TypeOK, Turns, OutRising, [Next]_vars
  PROVE  OutRising'
<1>t. /\ outQ \in Seq(Byte) /\ Len(outQ) <= Capacity /\ rbuf \in Seq(Byte)
      /\ posted \in Byte /\ read \in Byte /\ posted \in Int /\ read \in Int
      /\ handler \in [pc : {"idle", "doorbell", "acknowledge", "WRITE_OK", "READ_OK"},
                      doorbell : SUBSET Bells]
  BY DEF TypeOK, Byte
<1>x. PICK x \in Byte : Rising(read, outQ, x) /\ Rising(x, OutBuffer, posted)
  BY DEF OutRising
<1>1. ASSUME NEW r \in Receivers, outboundMQBufferRemove(r) PROVE OutRising'
  <2> DEFINE n == receiver[r].len
  <2>1. /\ UNCHANGED <<rbuf, posted, outDB, handler>> /\ n \in Nat
        /\ Kept(r) \/ Taken(r)
    BY <1>1, RemoveMoves, Sizes
  <2>2. CASE Kept(r)
    <3>1. /\ outQ' = Ring!Remaining(outQ, n)
          /\ read' = LastOf(Ring!Fetched(outQ, n), read)
          /\ MQFlags' = MQFlags
      BY <2>2 DEF Kept
    <3> HIDE DEF n
    <3>2. Rising(read', outQ', x)
      BY <1>t, <1>x, <2>1, <3>1, RisingSplit
    <3>3. OutBuffer' = OutBuffer
      BY <2>1, <3>1 DEF OutBuffer, OutboundUnread, HandlerHas
    <3> QED
      BY <1>x, <2>1, <3>2, <3>3 DEF OutRising
  <2>3. CASE Taken(r)
    <3> DEFINE more == n - Len(outQ)
               f    == Ring!Fetched(rbuf, more)
    <3>1. /\ more > 0 /\ "OVERFLOW" \in MQFlags
          /\ outQ' = Ring!Remaining(rbuf, more)
          /\ read' = LastOf(outQ \o f, read)
          /\ MQFlags' = MQFlags \ {"OVERFLOW"}
      BY <2>3 DEF Taken
    <3>2. more \in Nat /\ OutBuffer = rbuf
      BY <1>t, <2>1, <3>1 DEF OutBuffer, OutboundUnread
    <3> HIDE DEF n, more
    <3>3. f \in Seq(Byte)
      BY <1>t, <3>2, SplitType
    <3>4. /\ LastOf(f, x) \in Byte /\ Rising(x, f, LastOf(f, x))
          /\ Rising(LastOf(f, x), Ring!Remaining(rbuf, more), posted)
      BY <1>t, <1>x, <3>2, RisingSplit
    <3> HIDE DEF f
    <3>5. outQ \o f \in Seq(Byte) /\ Rising(read, outQ \o f, LastOf(f, x))
      BY <1>t, <1>x, <3>3, <3>4, RisingJoin
    <3>6. read' \in Byte /\ read' <= LastOf(f, x)
      BY <1>t, <3>1, <3>4, <3>5, RisingBounds
    <3>7. Ring!Remaining(rbuf, more) \in Seq(Byte) /\ posted <= posted
      BY <1>t, <3>2, SplitType
    <3>8. Rising(read', outQ', posted)
      BY <1>t, <3>1, <3>4, <3>6, <3>7, RisingWider
    <3>9. OutBuffer' = <<>>
      BY <2>1, <3>1 DEF Turns, OutTurns, OutOnce, OutBuffer, OutboundUnread, HandlerHas
    <3>10. Rising(posted, <<>>, posted)
      BY <1>t, <3>7, RisingNothing
    <3> QED
      BY <1>t, <2>1, <3>8, <3>9, <3>10 DEF OutRising
  <2> QED
    BY <2>1, <2>2, <2>3
<1>2. CASE HandleWriteOK
  <2>1. /\ UNCHANGED <<rbuf, posted, read, outDB>>
        /\ handler.pc = "WRITE_OK"
        /\ handler'.pc = "READ_OK" /\ handler'.doorbell = handler.doorbell
    BY <1>2, <1>t, WriteOKMoves
  <2>2. CASE /\ "WRITE_OK" \in handler.doorbell /\ Ring!Accepts(outQ, Len(rbuf))
             /\ outQ' = Ring!Inserted(outQ, rbuf) /\ MQFlags' = MQFlags
    <3>1. OutBuffer = rbuf /\ ~OutboundUnread'
      BY <2>1, <2>2 DEF Turns, OutTurns, OutOnce, OutBuffer, OutboundUnread, HandlerHas
    <3>2. outQ' \in {<<>>, outQ \o rbuf}
      BY <1>t, <2>2, Insertion
    <3>3. CASE outQ' = <<>>
      BY <2>1, <3>1, <3>3, OutKeep
    <3>4. CASE outQ' = outQ \o rbuf
      <4>1. Rising(read, outQ', posted)
        BY <1>t, <1>x, <3>1, <3>4, RisingJoin
      <4>2. Rising(posted, <<>>, posted) /\ OutBuffer' = <<>>
        BY <1>t, <3>1, RisingNothing DEF OutBuffer
      <4> QED
        BY <1>t, <2>1, <4>1, <4>2 DEF OutRising
    <3> QED
      BY <3>2, <3>3, <3>4
  <2>3. CASE "WRITE_OK" \in handler.doorbell /\ outQ' = outQ
    BY <2>1, <2>3, OutKeep DEF OutboundUnread, HandlerHas
  <2>4. CASE "WRITE_OK" \notin handler.doorbell /\ UNCHANGED <<outQ, MQFlags>>
    BY <2>1, <2>4, OutKeep DEF OutboundUnread, HandlerHas
  <2> QED
    BY <1>2, <2>2, <2>3, <2>4, WriteOKMoves
<1>3. ASSUME NEW n \in PostLens, AdapterPosts(n) PROVE OutRising'
  <2>1. /\ UNCHANGED <<outQ, read>> /\ adapterFree /\ MayNumber(posted, n)
        /\ rbuf' = NextBytes(posted, n) /\ posted' = (posted + n) % Numbers
        /\ "WRITE_OK" \in outDB'
    BY <1>3, <1>t DEF AdapterPosts, TypeOK
  <2>2. n \in Nat
    BY Sizes
  <2>3. posted' \in Byte /\ Rising(posted, rbuf', posted')
    BY <1>t, <2>1, <2>2, RisingNext
  <2>4. OutBuffer = <<>>
    BY <2>1 DEF Turns, OutTurns, OutOnce, OutBuffer, OutboundUnread
  <2>5. x <= posted
    BY <1>x DEF Rising
  <2>6. read <= x /\ posted <= posted
    BY <1>t, <1>x DEF Rising
  <2>7. Rising(read, outQ, posted)
    BY <1>t, <1>x, <2>5, RisingWider
  <2>8. OutBuffer' = rbuf'
    BY <2>1 DEF OutBuffer, OutboundUnread
  <2> QED
    BY <1>t, <2>1, <2>3, <2>7, <2>8 DEF OutRising
<1>4. CASE /\ UNCHANGED <<rbuf, posted, read>> /\ (outQ' = outQ \/ outQ' = <<>>)
           /\ OutboundUnread' => OutboundUnread
  BY <1>4, OutKeep
<1>5. CASE Clients
  <2>1. ASSUME NEW s \in Senders, NEW n \in SendLens, send(s, n) PROVE OutRising'
    BY <1>4, <2>1 DEF send, outVars, bellVars, OutboundUnread, HandlerHas
  <2>2. ASSUME NEW s \in Senders, SenderInterrupted(s) PROVE OutRising'
    BY <1>4, <2>2 DEF SenderInterrupted, outVars, bellVars, OutboundUnread, HandlerHas
  <2>3. ASSUME NEW r \in Receivers, NEW n \in RecvLens, NEW b \in BOOLEAN, recv(r, n, b)
        PROVE  OutRising'
    BY <1>4, <2>3 DEF recv, outVars, bellVars, OutboundUnread, HandlerHas
  <2>4. ASSUME NEW s \in Senders, inboundMQBufferInsert(s) PROVE OutRising'
    <3>1. UNCHANGED <<rbuf, posted, read, outQ, outDB, handler>>
      BY <2>4, InsertMoves
    <3>2. "OVERFLOW" \in MQFlags' => "OVERFLOW" \in MQFlags
      BY <2>4 DEF inboundMQBufferInsert, inboundMQWrite
    <3> QED
      BY <1>4, <3>1, <3>2 DEF OutboundUnread, HandlerHas
  <2>5. ASSUME NEW r \in Receivers, ReceiverInterrupted(r) PROVE OutRising'
    BY <1>4, <2>5 DEF ReceiverInterrupted, outVars, bellVars, OutboundUnread, HandlerHas
  <2>6. CASE clearRQBuffer
    BY <1>4, <2>6 DEF clearRQBuffer, outVars, bellVars, OutboundUnread, HandlerHas
  <2>7. CASE clearWQBuffer
    BY <1>4, <2>7 DEF clearWQBuffer, OutboundUnread, HandlerHas
  <2> QED
    BY <1>1, <1>5, <2>1, <2>2, <2>3, <2>4, <2>5, <2>6, <2>7 DEF Clients
<1>6. CASE HandleInterruptRequest \/ ReadDoorbell
  BY <1>4, <1>6 DEF HandleInterruptRequest, ReadDoorbell, outVars, bellVars, OutboundUnread,
                    HandlerHas
<1>7. CASE AcknowledgeDoorbell
  <2>1. /\ UNCHANGED <<rbuf, posted, read, outQ, MQFlags>>
        /\ handler.pc = "acknowledge" /\ outDB' = outDB \ handler.doorbell
        /\ handler'.doorbell = handler.doorbell
    BY <1>7, <1>t DEF AcknowledgeDoorbell, outVars
  <2>2. OutboundUnread' => OutboundUnread
    BY <2>1 DEF Turns, DoorbellRead, OutboundUnread, HandlerHas
  <2> QED
    BY <1>4, <2>1, <2>2
<1>8. CASE HandleReadOK
  <2>1. /\ UNCHANGED <<rbuf, posted, read, outQ, outDB>> /\ handler'.pc = "idle"
    BY <1>8 DEF HandleReadOK, outVars, NoHandler
  <2>2. "OVERFLOW" \in MQFlags' => "OVERFLOW" \in MQFlags
    BY <1>8 DEF HandleReadOK, inboundMQWrite
  <2> QED
    BY <1>4, <2>1, <2>2 DEF OutboundUnread, HandlerHas
<1>9. CASE outboundMQWakeup \/ UNCHANGED vars
  BY <1>4, <1>9 DEF outboundMQWakeup, vars, outVars, bellVars, OutboundUnread, HandlerHas
<1>10. CASE AdapterReads \/ AdapterSeesReadOK
  BY <1>4, <1>10 DEF AdapterReads, AdapterSeesReadOK, outVars, OutboundUnread, HandlerHas
<1>11. CASE Reload
  BY <1>4, <1>11 DEF Reload, OutboundUnread, HandlerHas
<1> QED
  BY <1>2, <1>3, <1>5, <1>6, <1>7, <1>8, <1>9, <1>10, <1>11 DEF Next, Workloop, Adapter

-----------------------------------------------------------------------------
(***************************************************************************)
(* From the invariants to the properties.                                  *)
(***************************************************************************)
LEMMA CountPlaces ==
  ASSUME NEW P, IsFiniteSet(DOMAIN P)
  PROVE  /\ Count(P) \in Nat
         /\ (\E p \in DOMAIN P : P[p]) => Count(P) >= 1
         /\ (\A p, r \in DOMAIN P : P[p] /\ P[r] => p = r) => Count(P) <= 1
<1> DEFINE S == {p \in DOMAIN P : P[p]}
<1>1. IsFiniteSet(S) /\ Count(P) = Cardinality(S)
  BY FS_Subset DEF Count
<1>2. Cardinality(S) \in Nat
  BY <1>1, FS_CardinalityType
<1>3. ASSUME NEW p \in DOMAIN P, P[p] PROVE Cardinality(S) >= 1
  <2>1. S # {}
    BY <1>3
  <2>2. Cardinality(S) # 0
    BY <1>1, <2>1, FS_EmptySet
  <2> QED
    BY <1>2, <2>2
<1>4. ASSUME \A p, r \in DOMAIN P : P[p] /\ P[r] => p = r PROVE Cardinality(S) <= 1
  <2>1. CASE S = {}
    BY <2>1, FS_EmptySet
  <2>2. CASE S # {}
    <3>1. PICK p \in S : TRUE
      BY <2>2
    <3>2. S = {p}
      BY <1>4, <3>1
    <3>3. Cardinality({p}) = 1
      BY FS_Singleton
    <3> HIDE DEF S
    <3> QED
      BY <3>2, <3>3
  <2> QED
    BY <2>1, <2>2
<1> QED
  BY <1>1, <1>2, <1>3, <1>4

LEMMA FewPlaces ==
  /\ IsFiniteSet({"driver", "adapter", "back", "handler"})
  /\ IsFiniteSet({"adapter", "driver", "handler", "stalled", "back"})
<1>1. IsFiniteSet({"driver"})
  BY FS_Singleton
<1>2. IsFiniteSet({"driver"} \cup {"adapter"})
  BY <1>1, FS_AddElement
<1>3. IsFiniteSet(({"driver"} \cup {"adapter"}) \cup {"back"})
  BY <1>2, FS_AddElement
<1>4. IsFiniteSet((({"driver"} \cup {"adapter"}) \cup {"back"}) \cup {"handler"})
  BY <1>3, FS_AddElement
<1>5. IsFiniteSet(((({"driver"} \cup {"adapter"}) \cup {"back"}) \cup {"handler"})
                      \cup {"stalled"})
  BY <1>4, FS_AddElement
<1>6. (({"driver"} \cup {"adapter"}) \cup {"back"}) \cup {"handler"} =
        {"driver", "adapter", "back", "handler"}
  OBVIOUS
<1>7. ((({"driver"} \cup {"adapter"}) \cup {"back"}) \cup {"handler"}) \cup {"stalled"} =
        {"adapter", "driver", "handler", "stalled", "back"}
  OBVIOUS
<1> QED
  BY <1>4, <1>5, <1>6, <1>7

LEMMA InCounted == InTurns => InboundTurn
<1> SUFFICES ASSUME InTurns PROVE InboundTurn
  OBVIOUS
<1>1. DOMAIN InPlaces = {"driver", "adapter", "back", "handler"}
  BY DEF InPlaces
<1>2. /\ InPlaces["driver"] <=> "UNDERFLOW" \in MQFlags
      /\ InPlaces["adapter"] <=> "WRITE_OK" \in inDB
      /\ InPlaces["back"] <=> "READ_OK" \in outDB
      /\ InPlaces["handler"] <=> HandlerHas("READ_OK")
  BY DEF InPlaces
<1>3. Count(InPlaces) \in Nat /\ Count(InPlaces) >= 1
  BY <1>1, <1>2, FewPlaces, CountPlaces DEF InTurns, InSomewhere
<1>4. ASSUME "inbound" \notin left PROVE Count(InPlaces) <= 1
  <2>1. \A p, r \in DOMAIN InPlaces : InPlaces[p] /\ InPlaces[r] => p = r
    BY <1>1, <1>2, <1>4 DEF InTurns, InOnce
  <2> QED
    BY <1>1, <2>1, FewPlaces, CountPlaces
<1> QED
  BY <1>3, <1>4 DEF InboundTurn, InPlaces

LEMMA OutCounted == OutTurns => OutboundTurn
<1> SUFFICES ASSUME OutTurns PROVE OutboundTurn
  OBVIOUS
<1>1. DOMAIN OutPlaces = {"adapter", "driver", "handler", "stalled", "back"}
  BY DEF OutPlaces
<1>2. /\ OutPlaces["adapter"] <=> adapterFree
      /\ OutPlaces["driver"] <=> "WRITE_OK" \in outDB
      /\ OutPlaces["handler"] <=> HandlerHas("WRITE_OK")
      /\ OutPlaces["stalled"] <=> "OVERFLOW" \in MQFlags
      /\ OutPlaces["back"] <=> "READ_OK" \in inDB
  BY DEF OutPlaces
<1>3. Count(OutPlaces) \in Nat /\ Count(OutPlaces) <= 1
  <2>1. \A p, r \in DOMAIN OutPlaces : OutPlaces[p] /\ OutPlaces[r] => p = r
    BY <1>1, <1>2 DEF OutTurns, OutOnce
  <2> QED
    BY <1>1, <2>1, FewPlaces, CountPlaces
<1>4. ASSUME "outbound" \notin left PROVE Count(OutPlaces) >= 1
  BY <1>1, <1>2, <1>4, FewPlaces, CountPlaces DEF OutTurns, OutSomewhere
<1> QED
  BY <1>3, <1>4 DEF OutboundTurn, OutPlaces

\* What rises behind a byte is ascending with that byte in front.
LEMMA RisingAscends ==
  ASSUME NEW k \in Byte, NEW m \in Byte, NEW s \in Seq(Byte), Rising(k, s, m)
  PROVE  Ascending(<<k>> \o s, m)
<1> DEFINE u == <<k>> \o s
<1>1. /\ Len(s) \in Nat /\ Len(u) = Len(s) + 1 /\ u[1] = k
      /\ \A i \in 1 .. Len(s) : u[i + 1] = s[i]
  OBVIOUS
<1> HIDE DEF u
<1>2. \A i \in 1 .. Len(u) - 1 : u[i] < u[i + 1]
  <2> SUFFICES ASSUME NEW i \in 1 .. Len(u) - 1 PROVE u[i] < u[i + 1]
    OBVIOUS
  <2>1. CASE i = 1
    BY <1>1, <2>1 DEF Rising
  <2>2. CASE i > 1
    <3>1. i - 1 \in 1 .. Len(s) /\ i \in 1 .. Len(s) /\ i - 1 < i /\ (i - 1) + 1 = i
      BY <1>1, <2>2
    <3>2. u[i] = s[i - 1] /\ u[i + 1] = s[i]
      BY <1>1, <3>1
    <3> QED
      BY <3>1, <3>2 DEF Rising
  <2> QED
    BY <1>1, <2>1, <2>2
<1>3. u[Len(u)] <= m
  <2>1. CASE Len(s) = 0
    BY <1>1, <2>1 DEF Rising
  <2>2. CASE Len(s) # 0
    BY <1>1, <2>2 DEF Rising
  <2> QED
    BY <2>1, <2>2
<1> QED
  BY <1>2, <1>3 DEF Ascending, u

LEMMA StreamsAscend ==
  ASSUME TypeOK, InRising, OutRising
  PROVE  InOrder
<1>1. Ascending(InboundStream, sent)
  <2>1. PICK x \in Byte : Rising(got, InBuffer, x) /\ Rising(x, inQ, sent)
    BY DEF InRising
  <2>2. InBuffer \in Seq(Byte) /\ inQ \in Seq(Byte) /\ got \in Byte /\ sent \in Byte
    BY DEF InBuffer, TypeOK
  <2>3. InBuffer \o inQ \in Seq(Byte) /\ Rising(got, InBuffer \o inQ, sent)
    BY <2>1, <2>2, RisingJoin
  <2>4. Ascending(<<got>> \o (InBuffer \o inQ), sent)
    BY <2>2, <2>3, RisingAscends
  <2>5. <<got>> \o (InBuffer \o inQ) = (<<got>> \o InBuffer) \o inQ
    <3>1. <<got>> \in Seq(Byte)
      BY <2>2
    <3> QED
      BY <2>2, <3>1, ConcatAssociative
  <2> QED
    BY <2>4, <2>5 DEF InboundStream, InBuffer
<1>2. Ascending(OutboundStream, posted)
  <2>1. PICK x \in Byte : Rising(read, outQ, x) /\ Rising(x, OutBuffer, posted)
    BY DEF OutRising
  <2>2. OutBuffer \in Seq(Byte) /\ outQ \in Seq(Byte) /\ read \in Byte /\ posted \in Byte
    BY DEF OutBuffer, TypeOK
  <2>3. outQ \o OutBuffer \in Seq(Byte) /\ Rising(read, outQ \o OutBuffer, posted)
    BY <2>1, <2>2, RisingJoin
  <2>4. Ascending(<<read>> \o (outQ \o OutBuffer), posted)
    BY <2>2, <2>3, RisingAscends
  <2>5. <<read>> \o (outQ \o OutBuffer) = (<<read>> \o outQ) \o OutBuffer
    <3>1. <<read>> \in Seq(Byte)
      BY <2>2
    <3> QED
      BY <2>2, <3>1, ConcatAssociative
  <2> QED
    BY <2>4, <2>5 DEF OutboundStream, OutBuffer
<1> QED
  BY <1>1, <1>2 DEF InOrder

-----------------------------------------------------------------------------
(***************************************************************************)
(* Flow.  A step that loses nothing delivers from the front of a stream or *)
(* appends to its end.                                                     *)
(***************************************************************************)
InFlow  == Flows(InboundStream, sent, InboundStream', sent')
OutFlow == Flows(OutboundStream, posted, OutboundStream', posted')

\* A ring is what is taken from it and what stays, one behind the other.
LEMMA RingSplits ==
  ASSUME NEW c \in Seq(Byte), NEW n \in Nat
  PROVE  c = Ring!Fetched(c, n) \o Ring!Remaining(c, n)
<1> DEFINE k == IF n < Len(c) THEN n ELSE Len(c)
           f == Ring!Fetched(c, n)
           g == Ring!Remaining(c, n)
<1>1. /\ k \in Nat /\ k <= Len(c) /\ Len(c) \in Nat
      /\ f \in Seq(Byte) /\ Len(f) = k /\ \A i \in 1 .. k : f[i] = c[i]
      /\ g \in Seq(Byte) /\ Len(g) = Len(c) - k
      /\ \A i \in 1 .. Len(g) : g[i] = c[k + i]
  BY Split
<1> HIDE DEF k, f, g
<1>2. /\ f \o g \in Seq(Byte) /\ Len(f \o g) = Len(c)
      /\ \A i \in 1 .. Len(c) : (f \o g)[i] = IF i <= k THEN f[i] ELSE g[i - k]
  BY <1>1
<1>3. \A i \in 1 .. Len(c) : (f \o g)[i] = c[i]
  <2> SUFFICES ASSUME NEW i \in 1 .. Len(c) PROVE (f \o g)[i] = c[i]
    OBVIOUS
  <2>1. CASE i <= k
    BY <1>1, <1>2, <2>1
  <2>2. CASE i > k
    <3>1. i - k \in 1 .. Len(g) /\ k + (i - k) = i
      BY <1>1, <2>2
    <3> QED
      BY <1>1, <1>2, <2>2, <3>1
  <2> QED
    BY <1>1, <2>1, <2>2
<1>4. f \o g = c
  BY <1>2, <1>3, SeqEqual
<1> QED
  BY <1>4 DEF f, g

\* Delivering f from the front of a stream leaves its last byte and the rest.
LEMMA FrontDelivered ==
  ASSUME NEW k \in Byte, NEW f \in Seq(Byte), NEW g \in Seq(Byte), NEW last
  PROVE  Flows(<<k>> \o (f \o g), last, <<LastOf(f, k)>> \o g, last)
<1> DEFINE s == <<k>> \o (f \o g)
           t == <<LastOf(f, k)>> \o g
           j == Len(f) + 1
<1>1. /\ Len(f) \in Nat /\ Len(g) \in Nat /\ LastOf(f, k) \in Byte
      /\ f \o g \in Seq(Byte) /\ Len(f \o g) = Len(f) + Len(g)
      /\ \A i \in 1 .. Len(f) : (f \o g)[i] = f[i]
      /\ \A i \in 1 .. Len(g) : (f \o g)[Len(f) + i] = g[i]
  BY LastIs
<1>2. /\ s \in Seq(Byte) /\ Len(s) = 1 + Len(f) + Len(g) /\ s[1] = k
      /\ \A i \in 1 .. Len(f) + Len(g) : s[1 + i] = (f \o g)[i]
  BY <1>1
<1>3. /\ t \in Seq(Byte) /\ Len(t) = 1 + Len(g) /\ t[1] = LastOf(f, k)
      /\ \A i \in 1 .. Len(g) : t[1 + i] = g[i]
  BY <1>1
<1> HIDE DEF s, t
<1>4. s[j] = LastOf(f, k)
  <2>1. CASE f = <<>>
    BY <1>2, <2>1 DEF LastOf
  <2>2. CASE f # <<>>
    BY <1>1, <1>2, <2>2 DEF LastOf
  <2> QED
    BY <2>1, <2>2
<1>5. \A i \in 1 .. Len(g) : s[j + i] = g[i]
  <2> SUFFICES ASSUME NEW i \in 1 .. Len(g) PROVE s[j + i] = g[i]
    OBVIOUS
  <2>1. /\ Len(f) + i \in 1 .. Len(f) + Len(g) /\ j + i = 1 + (Len(f) + i)
    BY <1>1
  <2> QED
    BY <1>1, <1>2, <2>1
<1>6. j \in 1 .. Len(s) /\ Len(s) - j + 1 = Len(t)
  BY <1>1, <1>2, <1>3
<1>7. /\ SubSeq(s, j, Len(s)) \in Seq(Byte) /\ Len(SubSeq(s, j, Len(s))) = Len(t)
      /\ \A i \in 1 .. Len(t) : SubSeq(s, j, Len(s))[i] = s[j + i - 1]
  BY <1>2, <1>6
<1>8. \A i \in 1 .. Len(t) : s[j + i - 1] = t[i]
  <2> SUFFICES ASSUME NEW i \in 1 .. Len(t) PROVE s[j + i - 1] = t[i]
    OBVIOUS
  <2>1. CASE i = 1
    BY <1>1, <1>3, <1>4, <2>1
  <2>2. CASE i > 1
    <3>1. i - 1 \in 1 .. Len(g) /\ j + i - 1 = j + (i - 1) /\ 1 + (i - 1) = i
      BY <1>1, <1>3, <2>2
    <3> QED
      BY <1>3, <1>5, <3>1
  <2> QED
    BY <1>3, <2>1, <2>2
<1>9. t = SubSeq(s, j, Len(s))
  BY <1>3, <1>7, <1>8, SeqEqual
<1> QED
  BY <1>6, <1>9 DEF Flows, s, t

LEMMA FlowsOn ==
  ASSUME NEW s \in Seq(Byte), s # <<>>, NEW last
  PROVE  Flows(s, last, s, last)
<1>1. 1 \in 1 .. Len(s) /\ SubSeq(s, 1, Len(s)) = s
  OBVIOUS
<1> QED
  BY <1>1 DEF Flows

LEMMA Joined ==
  ASSUME NEW a \in Seq(Byte), NEW b \in Seq(Byte)
  PROVE  /\ Len(a \o b) = Len(a) + Len(b)
         /\ \A i \in 1 .. Len(a) : (a \o b)[i] = a[i]
         /\ \A i \in 1 .. Len(b) : (a \o b)[Len(a) + i] = b[i]
OBVIOUS

LEMMA Associates ==
  \A a, b, c \in Seq(Byte) : a \o (b \o c) = (a \o b) \o c
BY SMTT(30), ConcatAssociative

\* The two ends of a stream may be taken together or apart.
LEMMA StreamIs ==
  ASSUME NEW k \in Byte, NEW s \in Seq(Byte), NEW t \in Seq(Byte)
  PROVE  /\ (<<k>> \o s) \o t = <<k>> \o (s \o t)
         /\ <<k>> \o s \in Seq(Byte) /\ (<<k>> \o s) \o t \in Seq(Byte)
         /\ (<<k>> \o s) \o t # <<>>
         /\ <<>> \o s = s /\ s \o <<>> = s
<1>1. <<k>> \in Seq(Byte) /\ Len(<<k>>) = 1
  OBVIOUS
<1>2. (<<k>> \o s) \o t = <<k>> \o (s \o t)
  BY <1>1, ConcatAssociative
<1>3. <<k>> \o s \in Seq(Byte) /\ Len(<<k>> \o s) = 1 + Len(s)
  BY <1>1
<1>4. (<<k>> \o s) \o t \in Seq(Byte) /\ Len((<<k>> \o s) \o t) = 1 + Len(s) + Len(t)
  BY <1>3
<1>5. Len(s) \in Nat /\ Len(t) \in Nat
  OBVIOUS
<1>6. (<<k>> \o s) \o t # <<>>
  BY <1>4, <1>5
<1>7. <<>> \o s = s /\ s \o <<>> = s
  OBVIOUS
<1> QED
  BY <1>2, <1>3, <1>4, <1>6, <1>7

LEMMA InboundIs ==
  ASSUME TypeOK
  PROVE  /\ InBuffer \in Seq(Byte) /\ inQ \in Seq(Byte) /\ got \in Byte
         /\ InboundStream = (<<got>> \o InBuffer) \o inQ
         /\ InboundStream = <<got>> \o (InBuffer \o inQ)
         /\ InboundStream \in Seq(Byte) /\ InboundStream # <<>>
<1>1. InBuffer \in Seq(Byte) /\ inQ \in Seq(Byte) /\ got \in Byte
  BY DEF InBuffer, TypeOK
<1>2. InboundStream = (<<got>> \o InBuffer) \o inQ
  BY DEF InboundStream, InBuffer
<1> QED
  BY <1>1, <1>2, StreamIs

LEMMA OutboundIs ==
  ASSUME TypeOK
  PROVE  /\ OutBuffer \in Seq(Byte) /\ outQ \in Seq(Byte) /\ read \in Byte
         /\ OutboundStream = (<<read>> \o outQ) \o OutBuffer
         /\ OutboundStream = <<read>> \o (outQ \o OutBuffer)
         /\ OutboundStream \in Seq(Byte) /\ OutboundStream # <<>>
<1>1. OutBuffer \in Seq(Byte) /\ outQ \in Seq(Byte) /\ read \in Byte
  BY DEF OutBuffer, TypeOK
<1>2. OutboundStream = (<<read>> \o outQ) \o OutBuffer
  BY DEF OutboundStream, OutBuffer
<1> QED
  BY <1>1, <1>2, StreamIs

\* An insertion that does not fill the ring appends the block.
LEMMA InsertAppends ==
  ASSUME NEW c \in Seq(Byte), NEW s \in Seq(Byte), Ring!Accepts(c, Len(s)),
         Len(s) # Ring!Avail(c)
  PROVE  Ring!Inserted(c, s) = c \o s
BY DEF Ring!Inserted

LEMMA InFlowsOn ==
  ASSUME TypeOK, UNCHANGED <<inQ, wbuf, sent, got>>,
         "WRITE_OK" \in inDB' <=> "WRITE_OK" \in inDB
  PROVE  InFlow
<1>1. InboundStream' = InboundStream
  BY DEF InboundStream
<1> QED
  BY <1>1, InboundIs, FlowsOn DEF InFlow

\* Writing to the adapter moves bytes along the stream if its buffer is empty.
LEMMA WriteFlows ==
  ASSUME NEW q \in Seq(Byte), Len(q) <= Capacity,
         NEW flags \in SUBSET {"UNDERFLOW", "OVERFLOW"},
         NEW f \in [Senders -> SendCalls], inboundMQWrite(q, flags, f),
         "WRITE_OK" \notin inDB, got \in Byte, UNCHANGED got
  PROVE  InboundStream' = <<got>> \o q
<1>1. CASE /\ inQ' = Ring!Remaining(q, WBufSize) /\ wbuf' = Ring!Fetched(q, WBufSize)
           /\ inDB' = inDB \cup {"WRITE_OK"}
  <2>1. WBufSize \in Nat
    BY Sizes
  <2>2. /\ Ring!Fetched(q, WBufSize) \in Seq(Byte)
        /\ Ring!Remaining(q, WBufSize) \in Seq(Byte)
    BY <2>1, SplitType
  <2>3. InboundStream' = (<<got>> \o Ring!Fetched(q, WBufSize)) \o Ring!Remaining(q, WBufSize)
    BY <1>1 DEF InboundStream
  <2>4. InboundStream' = <<got>> \o (Ring!Fetched(q, WBufSize) \o Ring!Remaining(q, WBufSize))
    BY <2>2, <2>3, StreamIs
  <2> QED
    BY <2>1, <2>4, RingSplits
<1>2. CASE q = <<>> /\ inQ' = <<>> /\ UNCHANGED <<wbuf, inDB>>
  <2>1. InboundStream' = (<<got>> \o <<>>) \o <<>>
    BY <1>2 DEF InboundStream
  <2>2. <<>> \in Seq(Byte) /\ <<>> \o <<>> = <<>>
    OBVIOUS
  <2> QED
    BY <1>2, <2>1, <2>2, StreamIs
<1> QED
  BY <1>1, <1>2, WriteMoves

\* What is sent is appended to the inbound stream, the adapter takes it from the
\* front, and everything else leaves the stream as it is or is named a loss.
LEMMA InFlowStep ==
  ASSUME TypeOK, InTurns, [Next]_vars
  PROVE  InFlow \/ InboundLoss
<1>t. /\ sender \in [Senders -> SendCalls] /\ inQ \in Seq(Byte) /\ Len(inQ) <= Capacity
      /\ MQFlags \in SUBSET {"UNDERFLOW", "OVERFLOW"}
      /\ sent \in Byte /\ got \in Byte /\ wbuf \in Seq(Byte)
  BY DEF TypeOK, SendCalls
<1>e. "WRITE_OK" \notin inDB => InboundStream = <<got>> \o inQ
  <2> SUFFICES ASSUME "WRITE_OK" \notin inDB PROVE InboundStream = <<got>> \o inQ
    OBVIOUS
  <2>1. InBuffer = <<>>
    BY DEF InBuffer
  <2>2. <<>> \o inQ = inQ
    BY <1>t, StreamIs
  <2> QED
    BY <2>1, <2>2, InboundIs
<1>1. ASSUME NEW s \in Senders, inboundMQBufferInsert(s) PROVE InFlow \/ InboundLoss
  <2> DEFINE n == sender[s].len
             b == NextBytes(sent, n)
             q == Ring!Inserted(inQ, b)
             done == [sender EXCEPT ![s] = NoCall]
  <2>1. /\ UNCHANGED got /\ n \in SendLens
        /\ q \in Seq(Byte) /\ Len(q) <= Capacity
        /\ \/ UNCHANGED <<inQ, wbuf, inDB, sent>>
           \/ /\ Ring!Accepts(inQ, n) /\ sent' = (sent + n) % Numbers
              /\ \/ /\ "UNDERFLOW" \in MQFlags /\ done \in [Senders -> SendCalls]
                    /\ inboundMQWrite(q, MQFlags \ {"UNDERFLOW"}, done)
                 \/ inQ' = q /\ UNCHANGED <<wbuf, inDB>>
    BY <1>1, InsertMoves
  <2>2. b \in Seq(Byte) /\ Len(b) = n
    BY <1>t, <2>1, Sizes, NextBytesAre
  <2>3. CASE UNCHANGED <<inQ, wbuf, inDB, sent>>
    BY <2>1, <2>3, InFlowsOn
  <2>4. CASE n = Ring!Avail(inQ)
    BY <1>1, <2>4 DEF InboundLoss
  <2>5. CASE "UNDERFLOW" \in MQFlags /\ "WRITE_OK" \in inDB
    <3>1. "inbound" \in left
      BY <2>5 DEF InTurns, InOnce
    <3> QED
      BY <1>1, <2>5, <3>1 DEF InboundLoss, Overwrites
  <2>6. CASE /\ Ring!Accepts(inQ, n) /\ sent' = (sent + n) % Numbers /\ n # Ring!Avail(inQ)
             /\ ~("UNDERFLOW" \in MQFlags /\ "WRITE_OK" \in inDB)
             /\ \/ /\ "UNDERFLOW" \in MQFlags /\ done \in [Senders -> SendCalls]
                   /\ inboundMQWrite(q, MQFlags \ {"UNDERFLOW"}, done)
                \/ inQ' = q /\ UNCHANGED <<wbuf, inDB>>
    <3>1. q = inQ \o b
      BY <1>t, <2>2, <2>6, InsertAppends
    <3>2. InboundStream' = InboundStream \o b
      <4> HIDE DEF n, b, q, done
      <4>1. CASE inQ' = q /\ UNCHANGED <<wbuf, inDB>>
        <5>1. InboundStream' = (<<got>> \o InBuffer) \o (inQ \o b)
          BY <2>1, <3>1, <4>1 DEF InboundStream, InBuffer
        <5>2. /\ <<got>> \o InBuffer \in Seq(Byte)
              /\ InboundStream = (<<got>> \o InBuffer) \o inQ
          BY InboundIs, StreamIs
        <5> DEFINE p == <<got>> \o InBuffer
        <5> HIDE DEF p
        <5>3. p \o (inQ \o b) = (p \o inQ) \o b
          <6>1. p \in Seq(Byte) /\ inQ \in Seq(Byte) /\ b \in Seq(Byte)
            BY <1>t, <2>2, <5>2 DEF p
          <6> QED
            BY <6>1, Associates
        <5> QED
          BY <5>1, <5>2, <5>3 DEF p
      <4>2. CASE /\ "UNDERFLOW" \in MQFlags /\ done \in [Senders -> SendCalls]
                 /\ inboundMQWrite(q, MQFlags \ {"UNDERFLOW"}, done)
        <5>1. "WRITE_OK" \notin inDB /\ MQFlags \ {"UNDERFLOW"} \in SUBSET {"UNDERFLOW", "OVERFLOW"}
          BY <1>t, <2>6, <4>2
        <5>2. InboundStream' = <<got>> \o (inQ \o b)
          BY <1>t, <2>1, <3>1, <4>2, <5>1, WriteFlows
        <5>3. <<got>> \o (inQ \o b) = (<<got>> \o inQ) \o b
          BY <1>t, <2>2, StreamIs
        <5> QED
          BY <1>e, <5>1, <5>2, <5>3
      <4> QED
        BY <2>6, <4>1, <4>2
    <3> QED
      BY <2>1, <2>6, <3>2 DEF InFlow, Flows
  <2> QED
    BY <2>1, <2>3, <2>4, <2>5, <2>6
<1>2. CASE HandleReadOK
  <2>1. UNCHANGED <<sent, got>> /\ handler.pc = "READ_OK"
    BY <1>2 DEF HandleReadOK
  <2>2. CASE "READ_OK" \in handler.doorbell /\ inboundMQWrite(inQ, MQFlags, sender)
    <3>1. CASE "WRITE_OK" \in inDB
      <4>1. "inbound" \in left
        BY <2>1, <2>2, <3>1 DEF InTurns, InOnce, HandlerHas
      <4> QED
        BY <1>2, <3>1, <4>1 DEF InboundLoss, Overwrites
    <3>2. CASE "WRITE_OK" \notin inDB
      <4>1. InboundStream' = <<got>> \o inQ
        BY <1>t, <2>1, <2>2, <3>2, WriteFlows
      <4>2. InboundStream' = InboundStream
        BY <1>e, <3>2, <4>1
      <4> QED
        BY <2>1, <4>2, InboundIs, FlowsOn DEF InFlow
    <3> QED
      BY <3>1, <3>2
  <2>3. CASE UNCHANGED <<inQ, wbuf, inDB>>
    BY <2>1, <2>3, InFlowsOn
  <2> QED
    BY <1>2, <2>2, <2>3 DEF HandleReadOK
<1>3. CASE AdapterReads
  <2>1. /\ UNCHANGED <<inQ, wbuf, sent>> /\ got' = LastOf(wbuf, got)
        /\ "WRITE_OK" \in inDB /\ "WRITE_OK" \notin inDB'
    BY <1>3 DEF AdapterReads
  <2>2. InboundStream = <<got>> \o (wbuf \o inQ)
    BY <2>1, InboundIs DEF InBuffer
  <2>3. LastOf(wbuf, got) \in Byte
    BY <1>t, LastIs
  <2>4. InboundStream' = (<<LastOf(wbuf, got)>> \o <<>>) \o inQ
    BY <2>1 DEF InboundStream
  <2>5. InboundStream' = <<LastOf(wbuf, got)>> \o inQ
    <3>1. <<>> \in Seq(Byte) /\ <<>> \o inQ = inQ
      BY <1>t, StreamIs
    <3> QED
      BY <1>t, <2>3, <2>4, <3>1, StreamIs
  <2>6. Flows(<<got>> \o (wbuf \o inQ), sent, <<LastOf(wbuf, got)>> \o inQ, sent)
    BY <1>t, FrontDelivered
  <2> QED
    BY <2>1, <2>2, <2>5, <2>6 DEF InFlow
<1>4. CASE /\ UNCHANGED <<inQ, wbuf, got, sent>>
           /\ "WRITE_OK" \in inDB' <=> "WRITE_OK" \in inDB
  BY <1>4, InFlowsOn
<1>5. CASE Clients
  <2>1. ASSUME NEW s \in Senders, NEW n \in SendLens, send(s, n) PROVE InFlow
    BY <2>1, InFlowsOn DEF send, inVars, bellVars
  <2>2. ASSUME NEW s \in Senders, SenderInterrupted(s) PROVE InFlow
    BY <2>2, InFlowsOn DEF SenderInterrupted, inVars, bellVars
  <2>3. ASSUME NEW r \in Receivers, NEW n \in RecvLens, NEW b \in BOOLEAN, recv(r, n, b)
        PROVE  InFlow
    BY <2>3, InFlowsOn DEF recv, inVars, bellVars
  <2>4. ASSUME NEW r \in Receivers, outboundMQBufferRemove(r) PROVE InFlow
    <3>1. /\ UNCHANGED <<wbuf, got, sent, inQ>>
          /\ "WRITE_OK" \in inDB' <=> "WRITE_OK" \in inDB
      BY <2>4, RemoveMoves DEF Kept, Taken
    <3> QED
      BY <3>1, InFlowsOn
  <2>5. ASSUME NEW r \in Receivers, ReceiverInterrupted(r) PROVE InFlow
    BY <2>5, InFlowsOn DEF ReceiverInterrupted, inVars, bellVars
  <2>6. CASE clearRQBuffer
    BY <2>6 DEF InboundLoss
  <2>7. CASE clearWQBuffer
    BY <2>7, InFlowsOn DEF clearWQBuffer, inVars
  <2> QED
    BY <1>1, <1>5, <2>1, <2>2, <2>3, <2>4, <2>5, <2>6, <2>7 DEF Clients
<1>6. CASE HandleWriteOK
  <2>1. /\ UNCHANGED <<wbuf, got, sent, inQ>>
        /\ "WRITE_OK" \in inDB' <=> "WRITE_OK" \in inDB
    BY <1>6, WriteOKMoves
  <2> QED
    BY <2>1, InFlowsOn
<1>7. CASE \/ HandleInterruptRequest \/ ReadDoorbell \/ AcknowledgeDoorbell
           \/ outboundMQWakeup \/ UNCHANGED vars
  BY <1>4, <1>7 DEF HandleInterruptRequest, ReadDoorbell, AcknowledgeDoorbell,
                    outboundMQWakeup, vars, inVars, bellVars
<1>8. CASE AdapterSeesReadOK
  BY <1>4, <1>8 DEF AdapterSeesReadOK, inVars
<1>9. ASSUME NEW n \in PostLens, AdapterPosts(n) PROVE InFlow
  BY <1>9, InFlowsOn DEF AdapterPosts, inVars
<1>10. CASE Reload
  BY <1>10 DEF InboundLoss
<1> QED
  BY <1>2, <1>3, <1>5, <1>6, <1>7, <1>8, <1>9, <1>10 DEF Next, Workloop, Adapter

LEMMA OutFlowsOn ==
  ASSUME TypeOK, UNCHANGED <<outQ, rbuf, posted, read>>,
         OutboundUnread' <=> OutboundUnread
  PROVE  OutFlow
<1>1. OutboundStream' = OutboundStream
  BY DEF OutboundStream
<1> QED
  BY <1>1, OutboundIs, FlowsOn DEF OutFlow

\* What is posted is appended to the outbound stream, clients take it from the
\* front, and everything else leaves the stream as it is or is named a loss.
LEMMA OutFlowStep ==
  ASSUME TypeOK, DoorbellRead, OutOnce, [Next]_vars
  PROVE  OutFlow \/ OutboundLoss
<1>t. /\ outQ \in Seq(Byte) /\ Len(outQ) <= Capacity /\ Len(outQ) \in Nat
      /\ rbuf \in Seq(Byte) /\ posted \in Byte /\ read \in Byte
      /\ MQFlags \in SUBSET {"UNDERFLOW", "OVERFLOW"}
      /\ handler \in [pc : {"idle", "doorbell", "acknowledge", "WRITE_OK", "READ_OK"},
                      doorbell : SUBSET Bells]
  BY DEF TypeOK
<1>s. /\ OutboundStream = (<<read>> \o outQ) \o OutBuffer
      /\ OutboundStream = <<read>> \o (outQ \o OutBuffer)
      /\ OutBuffer \in Seq(Byte)
  BY OutboundIs
<1>p. OutboundStream' = (<<read'>> \o outQ') \o OutBuffer'
  BY DEF OutboundStream, OutBuffer
<1>1. ASSUME NEW r \in Receivers, outboundMQBufferRemove(r) PROVE OutFlow
  <2> DEFINE n == receiver[r].len
  <2>1. /\ UNCHANGED <<rbuf, posted, outDB, handler>> /\ n \in Nat
        /\ Kept(r) \/ Taken(r)
    BY <1>1, RemoveMoves, Sizes
  <2>2. CASE Kept(r)
    <3> DEFINE f == Ring!Fetched(outQ, n)
               g == Ring!Remaining(outQ, n)
    <3>1. outQ' = g /\ read' = LastOf(f, read) /\ MQFlags' = MQFlags
      BY <2>2 DEF Kept
    <3> HIDE DEF n
    <3>2. /\ f \in Seq(Byte) /\ g \in Seq(Byte) /\ LastOf(f, read) \in Byte
          /\ outQ = f \o g
      BY <1>t, <2>1, SplitType, RingSplits, LastIs
    <3>3. OutBuffer' = OutBuffer
      BY <2>1, <3>1 DEF OutBuffer, OutboundUnread, HandlerHas
    <3> HIDE DEF f, g
    <3>4. OutboundStream' = <<LastOf(f, read)>> \o (g \o OutBuffer)
      BY SMTT(30), <1>s, <1>p, <3>1, <3>2, <3>3, StreamIs
    <3>5. OutboundStream = <<read>> \o (f \o (g \o OutBuffer))
      <4>1. f \o (g \o OutBuffer) = (f \o g) \o OutBuffer
        BY <1>s, <3>2, Associates
      <4> QED
        BY <1>s, <3>2, <4>1
    <3>6. g \o OutBuffer \in Seq(Byte)
      BY <1>s, <3>2
    <3>7. Flows(<<read>> \o (f \o (g \o OutBuffer)), posted,
                <<LastOf(f, read)>> \o (g \o OutBuffer), posted)
      BY <1>t, <3>2, <3>6, FrontDelivered
    <3> QED
      BY <2>1, <3>4, <3>5, <3>7 DEF OutFlow
  <2>3. CASE Taken(r)
    <3> DEFINE more == n - Len(outQ)
               f == Ring!Fetched(rbuf, more)
               g == Ring!Remaining(rbuf, more)
    <3>1. /\ more > 0 /\ "OVERFLOW" \in MQFlags
          /\ outQ' = g /\ read' = LastOf(outQ \o f, read)
          /\ MQFlags' = MQFlags \ {"OVERFLOW"}
      BY <2>3 DEF Taken
    <3> HIDE DEF n
    <3>2. more \in Nat
      BY <1>t, <2>1, <3>1
    <3>3. OutBuffer = rbuf
      BY <3>1 DEF OutBuffer, OutboundUnread
    <3>4. OutBuffer' = <<>>
      BY <2>1, <3>1 DEF OutOnce, OutBuffer, OutboundUnread, HandlerHas
    <3> HIDE DEF more
    <3>5. /\ f \in Seq(Byte) /\ g \in Seq(Byte) /\ rbuf = f \o g
      BY <1>t, <3>2, SplitType, RingSplits
    <3> HIDE DEF f, g
    <3>6. /\ outQ \o f \in Seq(Byte) /\ LastOf(outQ \o f, read) \in Byte
      <4>1. outQ \o f \in Seq(Byte)
        BY <1>t, <3>5
      <4> QED
        BY <1>t, <4>1, LastIs
    <3>7. OutboundStream' = <<LastOf(outQ \o f, read)>> \o g
      <4>1. OutboundStream' = (<<LastOf(outQ \o f, read)>> \o g) \o <<>>
        BY <1>p, <3>1, <3>4
      <4>2. <<LastOf(outQ \o f, read)>> \o g \in Seq(Byte)
        BY <3>5, <3>6, StreamIs
      <4> QED
        BY <3>6, <4>1, <4>2, StreamIs
    <3>8. OutboundStream = <<read>> \o ((outQ \o f) \o g)
      <4>1. outQ \o (f \o g) = (outQ \o f) \o g
        <5>1. outQ \in Seq(Byte)
          BY <1>t
        <5> QED
          BY <3>5, <5>1, Associates
      <4> QED
        BY <1>s, <3>3, <3>5, <4>1
    <3>9. Flows(<<read>> \o ((outQ \o f) \o g), posted, <<LastOf(outQ \o f, read)>> \o g, posted)
      BY <1>t, <3>5, <3>6, FrontDelivered
    <3> QED
      BY <2>1, <3>7, <3>8, <3>9 DEF OutFlow
  <2> QED
    BY <2>1, <2>2, <2>3
<1>2. CASE HandleWriteOK
  <2>1. /\ UNCHANGED <<rbuf, posted, read, outDB>>
        /\ handler.pc = "WRITE_OK"
        /\ handler'.pc = "READ_OK" /\ handler'.doorbell = handler.doorbell
    BY <1>2, <1>t, WriteOKMoves
  <2>2. CASE /\ "WRITE_OK" \in handler.doorbell /\ Ring!Accepts(outQ, Len(rbuf))
             /\ outQ' = Ring!Inserted(outQ, rbuf) /\ MQFlags' = MQFlags
    <3>1. CASE Len(rbuf) = Ring!Avail(outQ)
      BY <1>2, <3>1 DEF OutboundLoss
    <3>2. CASE Len(rbuf) # Ring!Avail(outQ)
      <4>1. OutBuffer = rbuf /\ OutBuffer' = <<>>
        BY <2>1, <2>2 DEF OutOnce, OutBuffer, OutboundUnread, HandlerHas
      <4>2. outQ' = outQ \o rbuf
        BY <1>t, <2>2, <3>2, InsertAppends
      <4>3. OutboundStream' = (<<read>> \o (outQ \o rbuf)) \o <<>>
        BY <1>p, <2>1, <4>1, <4>2
      <4>4. OutboundStream = <<read>> \o (outQ \o rbuf)
        BY <1>s, <4>1
      <4>5. OutboundStream' = OutboundStream
        BY <1>t, <4>3, <4>4, OutboundIs, StreamIs
      <4> QED
        BY <2>1, <4>5, OutboundIs, FlowsOn DEF OutFlow
    <3> QED
      BY <3>1, <3>2
  <2>3. CASE /\ "WRITE_OK" \in handler.doorbell /\ outQ' = outQ
             /\ MQFlags' = MQFlags \cup {"OVERFLOW"}
    BY <2>1, <2>3, OutFlowsOn DEF OutboundUnread, HandlerHas
  <2>4. CASE "WRITE_OK" \notin handler.doorbell /\ UNCHANGED <<outQ, MQFlags>>
    BY <2>1, <2>4, OutFlowsOn DEF OutboundUnread, HandlerHas
  <2> QED
    BY <1>2, <2>2, <2>3, <2>4, WriteOKMoves
<1>3. ASSUME NEW n \in PostLens, AdapterPosts(n) PROVE OutFlow
  <2> DEFINE b == NextBytes(posted, n)
  <2>1. /\ UNCHANGED <<outQ, read>> /\ adapterFree
        /\ rbuf' = b /\ posted' = (posted + n) % Numbers
        /\ "WRITE_OK" \in outDB'
    BY <1>3, <1>t DEF AdapterPosts, TypeOK
  <2>2. b \in Seq(Byte)
    BY <1>t, Sizes, NextBytesAre
  <2> HIDE DEF b
  <2>3. OutBuffer = <<>> /\ OutBuffer' = b
    BY <2>1 DEF OutOnce, OutBuffer, OutboundUnread
  <2>4. OutboundStream = <<read>> \o outQ
    <3>1. OutboundStream = (<<read>> \o outQ) \o <<>>
      BY <1>s, <2>3
    <3>2. <<read>> \o outQ \in Seq(Byte)
      BY <1>t, StreamIs
    <3> QED
      BY <1>t, <3>1, <3>2, StreamIs
  <2>5. OutboundStream' = OutboundStream \o b
    BY <1>p, <2>1, <2>3, <2>4
  <2> QED
    BY <2>1, <2>5 DEF OutFlow, Flows, b
<1>4. CASE Clients
  <2>1. ASSUME NEW s \in Senders, NEW n \in SendLens, send(s, n) PROVE OutFlow
    BY <2>1, OutFlowsOn DEF send, outVars, bellVars, OutboundUnread, HandlerHas
  <2>2. ASSUME NEW s \in Senders, SenderInterrupted(s) PROVE OutFlow
    BY <2>2, OutFlowsOn DEF SenderInterrupted, outVars, bellVars, OutboundUnread, HandlerHas
  <2>3. ASSUME NEW r \in Receivers, NEW n \in RecvLens, NEW b \in BOOLEAN, recv(r, n, b)
        PROVE  OutFlow
    BY <2>3, OutFlowsOn DEF recv, outVars, bellVars, OutboundUnread, HandlerHas
  <2>4. ASSUME NEW s \in Senders, inboundMQBufferInsert(s) PROVE OutFlow
    <3>1. UNCHANGED <<rbuf, posted, read, outQ, outDB, handler>>
      BY <2>4, InsertMoves
    <3>2. "OVERFLOW" \in MQFlags' <=> "OVERFLOW" \in MQFlags
      BY <2>4 DEF inboundMQBufferInsert, inboundMQWrite
    <3> QED
      BY <3>1, <3>2, OutFlowsOn DEF OutboundUnread, HandlerHas
  <2>5. ASSUME NEW r \in Receivers, ReceiverInterrupted(r) PROVE OutFlow
    BY <2>5, OutFlowsOn DEF ReceiverInterrupted, outVars, bellVars, OutboundUnread, HandlerHas
  <2>6. CASE clearRQBuffer
    BY <2>6, OutFlowsOn DEF clearRQBuffer, outVars, bellVars, OutboundUnread, HandlerHas
  <2>7. CASE clearWQBuffer
    BY <2>7 DEF OutboundLoss
  <2> QED
    BY <1>1, <1>4, <2>1, <2>2, <2>3, <2>4, <2>5, <2>6, <2>7 DEF Clients
<1>5. CASE HandleInterruptRequest \/ ReadDoorbell
  BY <1>5, OutFlowsOn DEF HandleInterruptRequest, ReadDoorbell, outVars, bellVars,
                          OutboundUnread, HandlerHas
<1>6. CASE AcknowledgeDoorbell
  <2>1. /\ UNCHANGED <<rbuf, posted, read, outQ, MQFlags>>
        /\ handler.pc = "acknowledge" /\ outDB' = outDB \ handler.doorbell
        /\ handler'.pc = "WRITE_OK" /\ handler'.doorbell = handler.doorbell
    BY <1>6, <1>t DEF AcknowledgeDoorbell, outVars
  <2>2. OutboundUnread' <=> OutboundUnread
    BY <2>1 DEF DoorbellRead, OutboundUnread, HandlerHas
  <2> QED
    BY <2>1, <2>2, OutFlowsOn
<1>7. CASE HandleReadOK
  <2>1. /\ UNCHANGED <<rbuf, posted, read, outQ, outDB>>
        /\ handler.pc = "READ_OK" /\ handler'.pc = "idle"
    BY <1>7 DEF HandleReadOK, outVars, NoHandler
  <2>2. "OVERFLOW" \in MQFlags' <=> "OVERFLOW" \in MQFlags
    BY <1>7 DEF HandleReadOK, inboundMQWrite
  <2> QED
    BY <2>1, <2>2, OutFlowsOn DEF OutboundUnread, HandlerHas
<1>8. CASE outboundMQWakeup \/ UNCHANGED vars
  BY <1>8, OutFlowsOn DEF outboundMQWakeup, vars, outVars, bellVars, OutboundUnread, HandlerHas
<1>9. CASE AdapterReads \/ AdapterSeesReadOK
  BY <1>9, OutFlowsOn DEF AdapterReads, AdapterSeesReadOK, outVars, OutboundUnread, HandlerHas
<1>10. CASE Reload
  BY <1>10 DEF OutboundLoss
<1> QED
  BY <1>2, <1>3, <1>4, <1>5, <1>6, <1>7, <1>8, <1>9, <1>10 DEF Next, Workloop, Adapter

-----------------------------------------------------------------------------
(***************************************************************************)
(* Counting modulo Numbers.                                                *)
(***************************************************************************)
LEMMA Division ==
  ASSUME NEW N \in Nat \ {0}, NEW x \in Int
  PROVE  x % N \in 0 .. N - 1 /\ x \div N \in Int /\ x = N * (x \div N) + (x % N)
<1> DEFINE q == x \div N
           r == x % N
<1>1. q \in Int /\ r \in 0 .. N - 1 /\ x = N * q + r
  OBVIOUS
<1> QED
  BY <1>1

LEMMA SmallMultiple ==
  ASSUME NEW N \in Nat \ {0}, NEW d \in Int, N * d > -N, N * d < N
  PROVE  d = 0
<1>1. CASE d >= 1
  <2>1. N * d >= N * 1
    BY <1>1
  <2> QED
    BY <2>1
<1>2. CASE d <= -1
  <2>1. N * (-d) >= N * 1
    BY <1>2
  <2> QED
    BY <2>1
<1> QED
  BY <1>1, <1>2

LEMMA OneRemainder ==
  ASSUME NEW N \in Nat \ {0}, NEW q \in Int, NEW r \in 0 .. N - 1
  PROVE  (N * q + r) % N = r
<1> DEFINE x == N * q + r
           p == x \div N
           s == x % N
           d == p - q
<1>1. x \in Int
  OBVIOUS
<1> HIDE DEF x
<1>2. s \in 0 .. N - 1 /\ p \in Int /\ x = N * p + s
  BY <1>1, Division
<1> HIDE DEF p, s
<1>3. N * d = r - s
  <2>1. N * p + s = N * q + r
    BY <1>2 DEF x
  <2>2. N * d = N * p - N * q
    BY <1>2
  <2> QED
    BY <1>2, <2>1, <2>2
<1>4. d \in Int /\ N * d > -N /\ N * d < N
  BY <1>2, <1>3
<1> HIDE DEF d
<1>5. d = 0
  BY <1>4, SmallMultiple
<1> QED
  BY <1>2, <1>3, <1>5 DEF x, s

LEMMA ModSuccessor ==
  ASSUME NEW N \in Nat \ {0}, NEW x \in Int
  PROVE  ((x % N) + 1) % N = (x + 1) % N
<1> DEFINE q == x \div N
           r == x % N
<1>1. q \in Int /\ r \in 0 .. N - 1 /\ x = N * q + r
  BY Division
<1> HIDE DEF q, r
<1>2. CASE r + 1 < N
  <2>1. /\ x + 1 = N * q + (r + 1) /\ r + 1 = N * 0 + (r + 1)
        /\ r + 1 \in 0 .. N - 1
    BY <1>1, <1>2
  <2>2. (N * q + (r + 1)) % N = r + 1 /\ (N * 0 + (r + 1)) % N = r + 1
    BY <1>1, <2>1, OneRemainder
  <2> QED
    BY <2>1, <2>2 DEF r
<1>3. CASE r + 1 = N
  <2>1. x + 1 = N * (q + 1) + 0 /\ r + 1 = N * 1 + 0 /\ 0 \in 0 .. N - 1
    BY <1>1, <1>3
  <2>2. (N * (q + 1) + 0) % N = 0 /\ (N * 1 + 0) % N = 0
    BY <1>1, <2>1, OneRemainder
  <2> QED
    BY <2>1, <2>2 DEF r
<1> QED
  BY <1>1, <1>2, <1>3

\* What flows on stays unbroken, also where the numbers start over.
LEMMA FlowKeepsUnbroken ==
  ASSUME NEW s \in Seq(Byte), s # <<>>, NEW last \in Byte, Unbroken(s, last),
         NEW t, NEW newLast, Flows(s, last, t, newLast)
  PROVE  Unbroken(t, newLast)
<1>1. /\ Len(s) \in Nat \ {0} /\ s[Len(s)] = last
      /\ \A i \in 1 .. Len(s) - 1 : s[i + 1] = (s[i] + 1) % Numbers
  BY DEF Unbroken
<1>2. ASSUME NEW k \in 1 .. Len(s), t = SubSeq(s, k, Len(s)), newLast = last
      PROVE  Unbroken(t, newLast)
  <2>1. /\ Len(t) = Len(s) - k + 1
        /\ \A i \in 1 .. Len(t) : t[i] = s[k + i - 1]
    BY <1>1, <1>2
  <2>2. \A i \in 1 .. Len(t) - 1 : t[i + 1] = (t[i] + 1) % Numbers
    <3> SUFFICES ASSUME NEW i \in 1 .. Len(t) - 1
                 PROVE  t[i + 1] = (t[i] + 1) % Numbers
      OBVIOUS
    <3>1. /\ i \in 1 .. Len(t) /\ i + 1 \in 1 .. Len(t)
          /\ k + i - 1 \in 1 .. Len(s) - 1 /\ k + (i + 1) - 1 = (k + i - 1) + 1
      BY <1>1, <2>1
    <3> QED
      BY <1>1, <2>1, <3>1
  <2>3. t[Len(t)] = newLast
    <3>1. Len(t) \in 1 .. Len(t) /\ k + Len(t) - 1 = Len(s)
      BY <1>1, <2>1
    <3> QED
      BY <1>1, <1>2, <2>1, <3>1
  <2> QED
    BY <2>2, <2>3 DEF Unbroken
<1>3. ASSUME NEW n \in SendLens \cup PostLens, t = s \o NextBytes(last, n),
             newLast = (last + n) % Numbers
      PROVE  Unbroken(t, newLast)
  <2> DEFINE b == NextBytes(last, n)
             m == Len(s)
  <2>1. n \in Nat \ {0} /\ last \in Int /\ last % Numbers = last
    BY Sizes DEF Byte
  <2>2. /\ b \in Seq(Byte) /\ Len(b) = n
        /\ \A i \in 1 .. n : b[i] = (last + i) % Numbers
    BY <2>1, NextBytesAre DEF NextBytes
  <2> HIDE DEF b
  <2>3. /\ Len(t) = m + n
        /\ \A i \in 1 .. m : t[i] = s[i]
        /\ \A i \in 1 .. n : t[m + i] = b[i]
    <3>1. t = s \o b
      BY <1>3 DEF b
    <3> QED
      BY <2>2, <3>1, Joined
  \* Byte i after the last one, counting it as byte 0.
  <2>4. \A i \in 0 .. n : t[m + i] = (last + i) % Numbers
    <3> SUFFICES ASSUME NEW i \in 0 .. n PROVE t[m + i] = (last + i) % Numbers
      OBVIOUS
    <3>1. CASE i = 0
      BY <1>1, <2>1, <2>3, <3>1
    <3>2. CASE i > 0
      BY <2>2, <2>3, <3>2
    <3> QED
      BY <2>1, <3>1, <3>2
  <2>5. \A i \in 1 .. Len(t) - 1 : t[i + 1] = (t[i] + 1) % Numbers
    <3> SUFFICES ASSUME NEW i \in 1 .. Len(t) - 1
                 PROVE  t[i + 1] = (t[i] + 1) % Numbers
      OBVIOUS
    <3>1. CASE i < m
      BY <1>1, <2>3, <3>1
    <3>2. CASE i >= m
      <4> DEFINE j == i - m
      <4>1. j \in 0 .. n /\ j + 1 \in 0 .. n /\ m + j = i /\ m + (j + 1) = i + 1
        BY <1>1, <2>1, <2>3, <3>2
      <4> HIDE DEF j
      <4>2. t[i] = (last + j) % Numbers /\ t[i + 1] = (last + (j + 1)) % Numbers
        BY <2>4, <4>1
      <4>3. last + j \in Int /\ last + (j + 1) = (last + j) + 1
        BY <2>1, <4>1
      <4>4. (((last + j) % Numbers) + 1) % Numbers = ((last + j) + 1) % Numbers
        BY <4>3, Sizes, ModSuccessor
      <4> QED
        BY <4>2, <4>3, <4>4
    <3> QED
      BY <1>1, <2>3, <3>1, <3>2
  <2>6. t[Len(t)] = newLast
    <3>1. n \in 0 .. n
      BY <2>1
    <3> QED
      BY <1>3, <2>3, <2>4, <3>1
  <2> QED
    BY <2>5, <2>6 DEF Unbroken
<1> QED
  BY <1>2, <1>3 DEF Flows

-----------------------------------------------------------------------------
(***************************************************************************)
(* The theorems.                                                           *)
(***************************************************************************)
IInv == TypeOK /\ Turns /\ SenderSleep /\ ReceiversSleepWithCause

LEMMA Invariance == Spec => []IInv
<1>1. Init => IInv
  <2> SUFFICES ASSUME Init PROVE IInv
    OBVIOUS
  <2>1. Turns
    BY DEF Init, Turns, DoorbellRead, InTurns, InSomewhere, InOnce, OutTurns, OutSomewhere,
           OutOnce, HandlerHas, NoHandler
  <2>2. SenderSleep /\ ReceiversSleepWithCause
    BY DEF Init, SenderSleep, UnderflowEmpty, SendersSleepWithCause,
           ReceiversSleepWithCause, NoCall
  <2> QED
    BY <2>1, <2>2, InitTypeOK DEF IInv
<1>2. IInv /\ [Next]_vars => IInv'
  BY TypeStep, TurnsStep, SendersStep, ReceiversStep DEF IInv
<1> QED
  BY <1>1, <1>2, PTL DEF Spec

\* The queue keeps its types for any sizes, lengths, clients and reloads: in
\* particular no ring and no buffer ever holds more than it has room for.
THEOREM TypeCorrect == Spec => []TypeOK
BY Invariance, PTL DEF IInv

\* The turn to write to the adapter is never lost, and doubled by a reload only.
THEOREM InboundTurnKept == Spec => []InboundTurn
<1>1. IInv => InboundTurn
  BY InCounted DEF IInv, Turns
<1> QED
  BY Invariance, <1>1, PTL

\* The turn to write to the driver is never doubled, and lost by a reload only.
THEOREM OutboundTurnKept == Spec => []OutboundTurn
<1>1. IInv => OutboundTurn
  BY OutCounted DEF IInv, Turns
<1> QED
  BY Invariance, <1>1, PTL

\* However many senders there are, none sleeps while the queue is idle.
THEOREM SendersWakened == Spec => []SendersSleepWithCause
BY Invariance, PTL DEF IInv, SenderSleep

\* However many receivers there are, none sleeps while there is something for it.
THEOREM ReceiversWakened == Spec => []ReceiversSleepWithCause
BY Invariance, PTL DEF IInv

\* While the byte numbers last, nothing is delivered twice or out of order,
\* whatever is cleared, reloaded or forgotten by a ring that is filled exactly.
THEOREM OrderKept ==
  ASSUME ~Endless
  PROVE  Spec => []InOrder
<1>1. Init => InRising /\ OutRising
  <2> SUFFICES ASSUME Init PROVE InRising /\ OutRising
    OBVIOUS
  <2>1. 0 \in Byte
    BY Sizes DEF Byte
  <2>2. Rising(0, <<>>, 0)
    BY <2>1, RisingNothing
  <2>3. InBuffer = <<>> /\ OutBuffer = <<>>
    BY DEF Init, InBuffer, OutBuffer
  <2> QED
    BY <2>1, <2>2, <2>3 DEF Init, InRising, OutRising
<1>2. IInv /\ InRising /\ OutRising /\ [Next]_vars => (InRising /\ OutRising)'
  BY InStep, OutStep DEF IInv, SenderSleep
<1>3. IInv /\ InRising /\ OutRising => InOrder
  BY StreamsAscend DEF IInv
<1> QED
  BY Invariance, <1>1, <1>2, <1>3, PTL DEF Spec

\* Whatever the sizes, lengths, clients, clears and reloads: a step either has
\* one of the causes of loss that BytesFlow names, or takes bytes off the front
\* of a stream and appends the next ones to its end.
THEOREM StreamsFlow == Spec => BytesFlow
<1>1. IInv /\ [Next]_vars =>
        [/\ InFlow \/ InboundLoss
         /\ OutFlow \/ OutboundLoss]_vars
  BY InFlowStep, OutFlowStep DEF IInv, Turns, OutTurns
<1> QED
  BY <1>1, Invariance, PTL DEF Spec, BytesFlow, InFlow, OutFlow

\* No byte is ever lost by anything else: as long as nobody clears a queue, loads
\* the driver again or fills a ring to its last byte, what a client was told was
\* sent and what the adapter posted is delivered or on its way, for any sizes,
\* lengths and clients, and however often the numbers start over.
THEOREM NothingLost ==
  Spec /\ [][~InboundLoss /\ ~OutboundLoss]_vars => []NoByteLost
<1>1. Init => NoByteLost
  <2> SUFFICES ASSUME Init PROVE NoByteLost
    OBVIOUS
  <2>1. InboundStream = <<0>> /\ OutboundStream = <<0>>
    BY DEF Init, InboundStream, OutboundStream
  <2>2. Unbroken(<<0>>, 0)
    BY DEF Unbroken
  <2> QED
    BY <2>1, <2>2 DEF Init, NoByteLost
<1>2. IInv /\ NoByteLost /\ [Next]_vars /\ [~InboundLoss /\ ~OutboundLoss]_vars
        => NoByteLost'
  <2> SUFFICES ASSUME IInv, NoByteLost, [Next]_vars,
                      [~InboundLoss /\ ~OutboundLoss]_vars
               PROVE  NoByteLost'
    OBVIOUS
  <2>1. TypeOK /\ InTurns /\ DoorbellRead /\ OutOnce
    BY DEF IInv, Turns, OutTurns
  <2>2. CASE UNCHANGED vars
    BY <2>2 DEF vars, inVars, outVars, bellVars, NoByteLost, InboundStream,
               OutboundStream, OutboundUnread, HandlerHas
  <2>3. CASE ~InboundLoss /\ ~OutboundLoss
    <3>1. InFlow /\ OutFlow
      BY <2>1, <2>3, InFlowStep, OutFlowStep
    <3>2. sent \in Byte /\ posted \in Byte
      BY <2>1 DEF TypeOK
    <3>3. Unbroken(InboundStream, sent)'
      BY <2>1, <3>1, <3>2, InboundIs, FlowKeepsUnbroken DEF InFlow, NoByteLost
    <3>4. Unbroken(OutboundStream, posted)'
      BY <2>1, <3>1, <3>2, OutboundIs, FlowKeepsUnbroken DEF OutFlow, NoByteLost
    <3> QED
      BY <3>3, <3>4 DEF NoByteLost
  <2> QED
    BY <2>2, <2>3
<1> QED
  BY <1>1, <1>2, Invariance, PTL DEF Spec
=============================================================================
