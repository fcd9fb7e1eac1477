------------------------- MODULE RingBuffer_proofs -------------------------
(* RingBuffer does what RingContents says for every size of the array and   *)
(* every block length, the insertion that fills the array included.        *)
EXTENDS RingBuffer, SequenceTheorems, TLAPS

\* A sum of two indices is wrapped by one subtraction.
Wrap(i) == IF i < size THEN i ELSE i - size

\* The number of bytes between tail t and head h.
Used(h, t) == IF h >= t THEN h - t ELSE h + size - t

\* The contents of a ring with the given head, tail and array.
Held(h, t, d) == [i \in 1 .. Used(h, t) |-> d[Wrap(t + i - 1)]]

LEMMA SizeType == size \in Nat /\ size >= 2
BY RingBufferAssumption DEF size

LEMMA CapacityType == DesiredSize \in Nat /\ DesiredSize + 1 = size
BY RingBufferAssumption DEF size

\* The remainder of a number below twice the divisor.
LEMMA ModOnce ==
  ASSUME NEW n \in Nat \ {0}, NEW a \in 0 .. 2 * n - 1
  PROVE  a % n = IF a < n THEN a ELSE a - n
<1>1. CASE a < n
  BY <1>1
<1>2. CASE a >= n
  BY <1>2
<1> QED
  BY <1>1, <1>2

LEMMA UsedType ==
  ASSUME NEW h \in Index, NEW t \in Index
  PROVE  /\ Used(h, t) \in 0 .. size - 1
         /\ ((h + size) - t) % size = Used(h, t)
<1>1. (h + size) - t \in 0 .. 2 * size - 1
  BY SizeType DEF Index
<1>2. size \in Nat \ {0}
  BY SizeType
<1>3. ((h + size) - t) % size =
        IF (h + size) - t < size THEN (h + size) - t ELSE (h + size) - t - size
  BY ONLY <1>1, <1>2, ModOnce
<1> QED
  BY <1>1, <1>3, SizeType DEF Used, Index

LEMMA WrapType ==
  ASSUME NEW i \in 0 .. 2 * size - 1
  PROVE  Wrap(i) \in Index /\ i % size = Wrap(i)
<1>1. size \in Nat \ {0}
  BY SizeType
<1>2. i % size = IF i < size THEN i ELSE i - size
  BY ONLY <1>1, ModOnce
<1> QED
  BY <1>1, <1>2 DEF Wrap, Index

LEMMA HeldType ==
  ASSUME NEW h \in Index, NEW t \in Index, NEW d \in [Index -> Bytes]
  PROVE  /\ Held(h, t, d) \in Seq(Bytes)
         /\ Len(Held(h, t, d)) = Used(h, t)
<1>1. Used(h, t) \in Nat
  BY UsedType, SizeType
<1>2. \A i \in 1 .. Used(h, t) : d[Wrap(t + i - 1)] \in Bytes
  <2> TAKE i \in 1 .. Used(h, t)
  <2>0. Used(h, t) \in 0 .. size - 1
    BY UsedType
  <2>1. t + i - 1 \in 0 .. 2 * size - 1
    BY ONLY <2>0, SizeType, i \in 1 .. Used(h, t), t \in 0 .. size - 1 DEF Index
  <2> QED
    BY <2>1, WrapType
<1> QED
  BY <1>1, <1>2 DEF Held

LEMMA ContentsAreHeld ==
  ASSUME NEW h \in Index, NEW t \in Index, NEW d \in [Index -> Bytes]
  PROVE  [i \in 1 .. ((h + size) - t) % size |-> d[(t + i - 1) % size]] = Held(h, t, d)
<1>1. ((h + size) - t) % size = Used(h, t)
  BY UsedType
<1>2. \A i \in 1 .. Used(h, t) : (t + i - 1) % size = Wrap(t + i - 1)
  <2> TAKE i \in 1 .. Used(h, t)
  <2>0. Used(h, t) \in 0 .. size - 1
    BY UsedType
  <2>1. t + i - 1 \in 0 .. 2 * size - 1
    BY ONLY <2>0, SizeType, i \in 1 .. Used(h, t), t \in 0 .. size - 1 DEF Index
  <2> QED
    BY <2>1, WrapType
<1> QED
  BY <1>1, <1>2 DEF Held

-----------------------------------------------------------------------------
(* Insertion. *)

\* The head and the array after s is inserted at head h.
InsertedHead(h, s) ==
    LET frag == LesserOf(size - h, Len(s))
    IN  IF Len(s) > frag THEN Len(s) - frag ELSE (h + frag) % size

InsertedData(h, d, s) ==
    LET frag == LesserOf(size - h, Len(s))
    IN  [i \in Index |->
           IF i \in h .. h + frag - 1 THEN s[i - h + 1]
           ELSE IF i < Len(s) - frag THEN s[frag + i + 1]
           ELSE d[i]]

\* The head moves on by the length inserted.
LEMMA InsertedHeadWraps ==
  ASSUME NEW h \in Index, NEW s \in Seq(Bytes), Len(s) <= size
  PROVE  /\ InsertedHead(h, s) = Wrap(h + Len(s))
         /\ InsertedHead(h, s) \in Index
<1>1. CASE Len(s) < size - h
  <2>1. h + Len(s) \in 0 .. 2 * size - 1
    BY <1>1, SizeType DEF Index
  <2>2. InsertedHead(h, s) = (h + Len(s)) % size
    <3>1. LesserOf(size - h, Len(s)) = Len(s)
      BY <1>1, SizeType DEF LesserOf, Index
    <3> QED
      BY <3>1 DEF InsertedHead
  <2> QED
    BY <2>1, <2>2, WrapType
<1>2. CASE Len(s) >= size - h
  <2>1. LesserOf(size - h, Len(s)) = size - h
    BY <1>2, SizeType DEF LesserOf, Index
  <2>2. size \in 0 .. 2 * size - 1
    BY SizeType
  <2>3. size % size = 0
    BY <2>2, WrapType, SizeType DEF Wrap
  <2> QED
    BY <1>2, <2>1, <2>3, SizeType DEF InsertedHead, Wrap, Index
<1> QED
  BY <1>1, <1>2, SizeType DEF Index

\* The bytes inserted are found from the old head on.
LEMMA InsertedBytes ==
  ASSUME NEW h \in Index, NEW d \in [Index -> Bytes], NEW s \in Seq(Bytes),
         Len(s) <= size
  PROVE  /\ InsertedData(h, d, s) \in [Index -> Bytes]
         /\ \A k \in 1 .. Len(s) : InsertedData(h, d, s)[Wrap(h + k - 1)] = s[k]
<1> DEFINE frag == LesserOf(size - h, Len(s))
<1>1. /\ frag \in Nat /\ frag <= Len(s) /\ h + frag <= size
      /\ Len(s) - frag <= h
      /\ frag < Len(s) => h + frag = size
  BY SizeType DEF LesserOf, Index
<1>2. \A i \in Index :
        InsertedData(h, d, s)[i] =
          IF i \in h .. h + frag - 1 THEN s[i - h + 1]
          ELSE IF i < Len(s) - frag THEN s[frag + i + 1]
          ELSE d[i]
  BY DEF InsertedData
<1>3. InsertedData(h, d, s) \in [Index -> Bytes]
  <2> SUFFICES ASSUME NEW i \in Index
               PROVE  (IF i \in h .. h + frag - 1 THEN s[i - h + 1]
                       ELSE IF i < Len(s) - frag THEN s[frag + i + 1]
                       ELSE d[i]) \in Bytes
    BY DEF InsertedData
  <2> QED
    BY <1>1, SizeType DEF Index
<1>4. ASSUME NEW k \in 1 .. Len(s)
      PROVE  InsertedData(h, d, s)[Wrap(h + k - 1)] = s[k]
  <2>1. h + k - 1 \in 0 .. 2 * size - 1
    BY SizeType DEF Index
  <2>2. Wrap(h + k - 1) \in Index
    BY <2>1, WrapType
  <2>3. CASE h + k - 1 < size
    <3>1. Wrap(h + k - 1) = h + k - 1 /\ h + k - 1 \in h .. h + frag - 1
      BY <1>1, <2>3, SizeType DEF Wrap, Index
    <3>2. (h + k - 1) - h + 1 = k
      BY DEF Index
    <3> QED
      BY <1>2, <2>2, <3>1, <3>2
  <2>4. CASE h + k - 1 >= size
    <3>1. /\ Wrap(h + k - 1) = k - 1 - frag
          /\ k - 1 - frag \notin h .. h + frag - 1
          /\ k - 1 - frag < Len(s) - frag
      BY <1>1, <2>4, SizeType DEF Wrap, Index
    <3>2. frag + (k - 1 - frag) + 1 = k
      BY <1>1
    <3> QED
      BY <1>2, <2>2, <3>1, <3>2
  <2> QED
    BY <2>3, <2>4, SizeType DEF Index
<1> QED
  BY <1>3, <1>4

\* The bytes the ring holds already are not touched.
LEMMA InsertedKeeps ==
  ASSUME NEW h \in Index, NEW t \in Index, NEW d \in [Index -> Bytes],
         NEW s \in Seq(Bytes), Len(s) <= size - Used(h, t),
         NEW k \in 1 .. Used(h, t)
  PROVE  InsertedData(h, d, s)[Wrap(t + k - 1)] = d[Wrap(t + k - 1)]
<1> DEFINE frag == LesserOf(size - h, Len(s))
           i == Wrap(t + k - 1)
<1>1. Used(h, t) \in 0 .. size - 1
  BY UsedType
<1>2. i \in Index
  <2>1. t + k - 1 \in 0 .. 2 * size - 1
    BY <1>1, SizeType DEF Index
  <2> QED
    BY <2>1, WrapType
<1>3. i \notin h .. h + frag - 1 /\ ~(i < Len(s) - frag)
  BY <1>1, SizeType DEF LesserOf, Wrap, Used, Index
<1> QED
  BY <1>2, <1>3 DEF InsertedData

\* Counting on from the head is counting on from the tail.
LEMMA WrapPastHead ==
  ASSUME NEW h \in Index, NEW t \in Index, NEW j \in 1 .. size - Used(h, t)
  PROVE  Wrap(t + (Used(h, t) + j) - 1) = Wrap(h + j - 1)
<1>1. CASE h >= t
  <2>1. t + (Used(h, t) + j) - 1 = h + j - 1
    BY <1>1, SizeType DEF Used, Index
  <2> QED
    BY <2>1
<1>2. CASE h < t
  <2>1. Used(h, t) = h + size - t
    BY <1>2, SizeType DEF Used, Index
  <2> QED
    BY <1>2, <2>1, SizeType DEF Wrap, Index
<1> QED
  BY <1>1, <1>2, SizeType DEF Index

\* What the ring holds after an insertion that fits.
LEMMA InsertHolds ==
  ASSUME NEW h \in Index, NEW t \in Index, NEW d \in [Index -> Bytes],
         NEW s \in Seq(Bytes), Len(s) <= size - Used(h, t)
  PROVE  Held(InsertedHead(h, s), t, InsertedData(h, d, s)) =
           IF Len(s) = size - Used(h, t) THEN <<>> ELSE Held(h, t, d) \o s
<1> DEFINE h2 == InsertedHead(h, s)
           d2 == InsertedData(h, d, s)
<1>1. Used(h, t) \in 0 .. size - 1 /\ Len(s) \in Nat /\ Len(s) <= size
  BY UsedType, SizeType
<1>2. h2 = Wrap(h + Len(s))
  BY <1>1, InsertedHeadWraps
<1>3. CASE Len(s) = size - Used(h, t)
  <2>1. Used(h2, t) = 0
    BY <1>1, <1>2, <1>3, SizeType DEF Used, Wrap, Index
  <2> QED
    BY <1>3, <2>1 DEF Held
<1>4. CASE Len(s) < size - Used(h, t)
  <2>1. Used(h2, t) = Used(h, t) + Len(s)
    <3> DEFINE len == Len(s)
    <3>0. h2 = Wrap(h + len) /\ len \in Nat /\ len < size - Used(h, t)
      BY <1>1, <1>2, <1>4
    <3> SUFFICES Used(h2, t) = Used(h, t) + len
      OBVIOUS
    <3> HIDE DEF h2, len
    <3>1. CASE h >= t
      <4>1. Used(h, t) = h - t
        BY <3>1 DEF Used
      <4>2. h \in Nat /\ h < size /\ t \in Nat /\ t <= h /\ len < size - (h - t)
        BY <3>0, <3>1, <4>1, SizeType DEF Index
      <4>3. CASE h + len < size
        <5>1. h2 = h + len
          BY <3>0, <4>2, <4>3, SizeType DEF Wrap
        <5> QED
          BY <3>0, <4>1, <4>2, <5>1, SizeType DEF Used
      <4>4. CASE h + len >= size
        <5>1. h2 = h + len - size
          BY <3>0, <4>2, <4>4, SizeType DEF Wrap
        <5> QED
          BY SMTT(30), <3>0, <4>1, <4>2, <4>4, <5>1, SizeType DEF Used
      <4> QED
        BY <3>0, <4>2, <4>3, <4>4, SizeType
    <3>2. CASE h < t
      <4>1. Used(h, t) = h + size - t
        BY <3>2, SizeType DEF Used, Index
      <4>2. h2 = h + len /\ h2 < t
        BY <3>0, <3>2, <4>1, SizeType DEF Wrap, Index
      <4> QED
        BY <3>0, <4>1, <4>2, SizeType DEF Used, Index
    <3> QED
      BY <3>1, <3>2, SizeType DEF Index
  <2>2. ASSUME NEW k \in 1 .. Used(h, t) + Len(s)
        PROVE  d2[Wrap(t + k - 1)] =
                 IF k <= Used(h, t) THEN Held(h, t, d)[k] ELSE s[k - Used(h, t)]
    <3>1. CASE k <= Used(h, t)
      <4>1. d2[Wrap(t + k - 1)] = d[Wrap(t + k - 1)]
        BY <1>1, <3>1, InsertedKeeps
      <4> QED
        BY <1>1, <3>1, <4>1 DEF Held
    <3>2. CASE k > Used(h, t)
      <4> DEFINE j == k - Used(h, t)
      <4>0. j \in 1 .. Len(s)
        BY <1>1, <3>2, SizeType
      <4>1. Wrap(t + k - 1) = Wrap(h + j - 1)
        <5>1. j \in 1 .. size - Used(h, t) /\ k = Used(h, t) + j
          BY <1>1, <1>4, <4>0, SizeType
        <5> HIDE DEF j
        <5> QED
          BY <5>1, WrapPastHead
      <4>2. d2[Wrap(h + j - 1)] = s[j]
        BY <1>1, <4>0, InsertedBytes
      <4> QED
        BY <1>1, <3>2, <4>0, <4>1, <4>2
    <3> QED
      BY <1>1, <3>1, <3>2
  <2>3. Held(h, t, d) \in Seq(Bytes) /\ Len(Held(h, t, d)) = Used(h, t)
    BY HeldType
  <2>4. /\ Held(h, t, d) \o s \in Seq(Bytes)
        /\ Len(Held(h, t, d) \o s) = Used(h, t) + Len(s)
        /\ \A k \in 1 .. Used(h, t) + Len(s) :
             (Held(h, t, d) \o s)[k] =
               IF k <= Used(h, t) THEN Held(h, t, d)[k] ELSE s[k - Used(h, t)]
    BY <2>3, ConcatProperties
  <2>5. h2 \in Index /\ d2 \in [Index -> Bytes]
    BY <1>1, InsertedHeadWraps, InsertedBytes
  <2>6. /\ Held(h2, t, d2) \in Seq(Bytes)
        /\ Len(Held(h2, t, d2)) = Used(h, t) + Len(s)
    BY <2>1, <2>5, HeldType
  <2>7. \A k \in 1 .. Used(h, t) + Len(s) : Held(h2, t, d2)[k] = d2[Wrap(t + k - 1)]
    BY <2>1 DEF Held
  <2>8. \A k \in 1 .. Used(h, t) + Len(s) :
          Held(h2, t, d2)[k] = (Held(h, t, d) \o s)[k]
    BY <2>2, <2>4, <2>7
  <2>9. Held(h2, t, d2) = Held(h, t, d) \o s
    BY <2>4, <2>6, <2>8, SeqEqual
  <2> QED
    BY <1>1, <1>4, <2>9, SizeType
<1> QED
  BY <1>1, <1>3, <1>4, SizeType

-----------------------------------------------------------------------------
(* Removal. *)

\* A removal that takes k bytes and moves the tail past them leaves the rest.
LEMMA RemoveHolds ==
  ASSUME NEW h \in Index, NEW t \in Index, NEW d \in [Index -> Bytes],
         NEW k \in 0 .. Used(h, t)
  PROVE  /\ Wrap(t + k) \in Index
         /\ Held(h, Wrap(t + k), d) =
              SubSeq(Held(h, t, d), k + 1, Len(Held(h, t, d)))
<1> DEFINE c  == Held(h, t, d)
           t2 == Wrap(t + k)
<1>1. Used(h, t) \in 0 .. size - 1
  BY UsedType
<1>2. t2 \in Index
  <2>1. t + k \in 0 .. 2 * size - 1
    BY <1>1, SizeType DEF Index
  <2> QED
    BY <2>1, WrapType
<1>3. Used(h, t2) = Used(h, t) - k
  BY <1>1, SizeType DEF Used, Wrap, Index
<1>4. c \in Seq(Bytes) /\ Len(c) = Used(h, t)
  BY HeldType
<1>5. Held(h, t2, d) \in Seq(Bytes) /\ Len(Held(h, t2, d)) = Used(h, t) - k
  BY <1>2, <1>3, HeldType
<1>6. /\ SubSeq(c, k + 1, Len(c)) \in Seq(Bytes)
      /\ Len(SubSeq(c, k + 1, Len(c))) = Used(h, t) - k
      /\ \A i \in 1 .. Used(h, t) - k : SubSeq(c, k + 1, Len(c))[i] = c[k + i]
  <2>1. \A i \in k + 1 .. Len(c) : c[i] \in Bytes
    BY <1>1, <1>4, SizeType
  <2> HIDE DEF c
  <2> QED
    BY <1>1, <1>4, <2>1, SizeType, SubSeqProperties
<1>7. ASSUME NEW i \in 1 .. Used(h, t) - k
      PROVE  Held(h, t2, d)[i] = c[k + i]
  <2>1. Wrap(t2 + i - 1) = Wrap(t + (k + i) - 1)
    BY <1>1, SizeType DEF Used, Wrap, Index
  <2>2. Held(h, t2, d)[i] = d[Wrap(t2 + i - 1)]
    BY <1>3 DEF Held
  <2>3. c[k + i] = d[Wrap(t + (k + i) - 1)]
    BY <1>1, SizeType DEF Held
  <2> QED
    BY <2>1, <2>2, <2>3
<1>8. Held(h, t2, d) = SubSeq(c, k + 1, Len(c))
  <2> HIDE DEF c, t2
  <2> QED
    BY <1>5, <1>6, <1>7, SeqEqual
<1> QED
  BY <1>2, <1>8

\* A sequence of the first k bytes from the tail on is what a removal of n
\* bytes fetches, if k is the lesser of n and the length of the contents.
LEMMA FetchedHolds ==
  ASSUME NEW h \in Index, NEW t \in Index, NEW d \in [Index -> Bytes],
         NEW n \in Nat, NEW copied \in Seq(Bytes),
         Len(copied) = LesserOf(n, Used(h, t)),
         \A i \in 1 .. Len(copied) : copied[i] = d[Wrap(t + i - 1)]
  PROVE  copied = Ring!Fetched(Held(h, t, d), n)
<1> DEFINE c == Held(h, t, d)
           k == LesserOf(n, Used(h, t))
<1>1. Used(h, t) \in 0 .. size - 1 /\ k \in 0 .. Used(h, t) /\ k \in Nat
  BY UsedType, SizeType DEF LesserOf
<1>2. c \in Seq(Bytes) /\ Len(c) = Used(h, t)
  BY HeldType
<1>3. Ring!Fetched(c, n) = SubSeq(c, 1, k)
  BY <1>1, <1>2, SizeType DEF Ring!Fetched, LesserOf
<1>4. \A i \in 1 .. k : c[i] \in Bytes /\ c[i] = d[Wrap(t + i - 1)]
  BY <1>1, <1>2, SizeType DEF Held
<1>5. /\ SubSeq(c, 1, k) \in Seq(Bytes)
      /\ Len(SubSeq(c, 1, k)) = k
      /\ \A i \in 1 .. k : SubSeq(c, 1, k)[i] = c[i]
  <2> HIDE DEF c, k
  <2> QED
    BY <1>1, <1>4, SubSeqProperties
<1>6. copied = SubSeq(c, 1, k)
  <2> HIDE DEF c
  <2> QED
    BY <1>1, <1>4, <1>5, SeqEqual
<1> QED
  BY <1>3, <1>6

-----------------------------------------------------------------------------
(* The steps of the ring. *)

\* The lengths and the blocks of a call.
LEMMA CallTypes ==
  ASSUME NEW n \in InsertLens, NEW s \in [1 .. n -> Bytes]
  PROVE  s \in Seq(Bytes) /\ Len(s) = n
BY RingBufferAssumption

\* avail counts the one byte more than desiredSize.
LEMMA AvailType ==
  ASSUME TypeOK
  PROVE  /\ contents = Held(head, tail, data)
         /\ Len(contents) = Used(head, tail)
         /\ Used(head, tail) \in 0 .. size - 1
         /\ avail = size - Used(head, tail)
         /\ Ring!Avail(contents) = avail
         /\ \A n \in Nat : Ring!Accepts(contents, n) = (n <= avail)
<1>1. ((head + size) - tail) % size = Used(head, tail) /\ Used(head, tail) \in 0 .. size - 1
  BY UsedType DEF TypeOK
<1>2. contents = Held(head, tail, data)
  BY ContentsAreHeld DEF TypeOK, contents
<1>3. Len(contents) = Used(head, tail)
  BY <1>2, HeldType DEF TypeOK
<1>4. avail = size - Used(head, tail)
  BY <1>1 DEF avail
<1>5. Ring!Avail(contents) = avail
  BY <1>1, <1>3, <1>4, CapacityType DEF Ring!Avail
<1>6. ASSUME NEW n \in Nat PROVE Ring!Accepts(contents, n) = (n <= avail)
  <2>1. avail \in Int
    BY <1>1, <1>4, SizeType
  <2> QED
    BY <1>5, <2>1 DEF Ring!Accepts
<1> QED
  BY <1>1, <1>2, <1>3, <1>4, <1>5, <1>6

\* insert() as it is written, in terms of the lemmas above.
LEMMA InsertStep ==
  ASSUME TypeOK, NEW n \in InsertLens, NEW s \in [1 .. n -> Bytes], insert(s)
  PROVE  /\ TypeOK'
         /\ contents' = Ring!Inserted(contents, s)
         /\ out'.result = Ring!Accepts(contents, Len(s))
         /\ out'.op = "insert" /\ out'.arg = s
<1>1. s \in Seq(Bytes) /\ Len(s) \in Nat
  BY CallTypes, LenProperties
<1>2. head \in Index /\ tail \in Index /\ data \in [Index -> Bytes]
  BY DEF TypeOK
<1>3. /\ out' = Call("insert", s, Len(s) <= avail)
      /\ tail' = tail
      /\ Len(s) <= avail => /\ head' = InsertedHead(head, s)
                            /\ data' = InsertedData(head, data, s)
      /\ ~(Len(s) <= avail) => head' = head /\ data' = data
  BY DEF insert, InsertedHead, InsertedData
<1>4. Ring!Accepts(contents, Len(s)) = (Len(s) <= avail)
  BY <1>1, AvailType
<1>5. /\ out'.op = "insert" /\ out'.arg = s
      /\ out'.result = Ring!Accepts(contents, Len(s))
  BY <1>3, <1>4 DEF Call
<1>6. CASE Len(s) <= avail
  <2>1. Len(s) <= size - Used(head, tail) /\ Len(s) <= size
    BY <1>1, <1>6, AvailType, SizeType
  <2>2. TypeOK'
    BY <1>1, <1>2, <1>3, <1>6, <2>1, InsertedHeadWraps, InsertedBytes DEF TypeOK
  <2>3. contents' = Held(head', tail', data')
    BY <2>2, ContentsAreHeld DEF TypeOK, contents
  <2>4. contents' = IF Len(s) = size - Used(head, tail) THEN <<>>
                    ELSE Held(head, tail, data) \o s
    <3>1. head' = InsertedHead(head, s) /\ tail' = tail /\ data' = InsertedData(head, data, s)
      BY <1>3, <1>6
    <3>2. contents' = Held(InsertedHead(head, s), tail, InsertedData(head, data, s))
      BY <2>3, <3>1
    <3> QED
      BY <1>1, <1>2, <2>1, <3>2, InsertHolds
  <2>5. Ring!Inserted(contents, s) =
          IF Len(s) = size - Used(head, tail) THEN <<>> ELSE contents \o s
    <3>1. Ring!Accepts(contents, Len(s)) /\ Ring!Avail(contents) = size - Used(head, tail)
      BY <1>4, <1>6, AvailType
    <3> QED
      BY <3>1 DEF Ring!Inserted
  <2> QED
    BY <1>5, <2>2, <2>4, <2>5, AvailType
<1>7. CASE ~(Len(s) <= avail)
  <2>1. TypeOK' /\ contents' = contents
    BY <1>2, <1>3, <1>7 DEF TypeOK, contents
  <2> QED
    BY <1>4, <1>5, <1>7, <2>1 DEF Ring!Inserted
<1> QED
  BY <1>6, <1>7

\* The bytes copied from one stretch of the array.
LEMMA ChunkType ==
  ASSUME data \in [Index -> Bytes], NEW i \in Nat, NEW m \in Nat, i + m <= size
  PROVE  /\ Chunk(i, m) \in Seq(Bytes)
         /\ Len(Chunk(i, m)) = m
         /\ \A j \in 1 .. m : Chunk(i, m)[j] = data[i + j - 1]
<1>1. \A j \in 1 .. m : data[i + j - 1] \in Bytes
  BY SizeType DEF Index
<1> QED
  BY <1>1 DEF Chunk

\* c is what a removal of k bytes copies.
Copies(c, k) ==
    /\ c \in Seq(Bytes) /\ Len(c) = k
    /\ \A i \in 1 .. k : c[i] = data[Wrap(tail + i - 1)]

\* The bytes from the tail to the head, when they are in one piece.
LEMMA CopyInOnePiece ==
  ASSUME TypeOK, head >= tail, NEW n \in Nat
  PROVE  /\ Copies(Chunk(tail, LesserOf(head - tail, n)), LesserOf(n, Used(head, tail)))
         /\ tail + LesserOf(head - tail, n) = Wrap(tail + LesserOf(n, Used(head, tail)))
<1> DEFINE k == LesserOf(n, Used(head, tail))
<1>1. head \in Index /\ tail \in Index /\ data \in [Index -> Bytes]
  BY DEF TypeOK
<1>2. /\ k = LesserOf(head - tail, n) /\ k \in Nat /\ tail \in Nat
      /\ tail + k <= head /\ tail + k < size
  BY <1>1, SizeType DEF LesserOf, Used, Index
<1>3. Wrap(tail + k) = tail + k
  BY <1>2 DEF Wrap
<1>4. \A i \in 1 .. k : Wrap(tail + i - 1) = tail + i - 1
  BY <1>2, SizeType DEF Wrap
<1>5. Copies(Chunk(tail, k), k)
  <2> HIDE DEF k
  <2>1. tail + k <= size
    BY <1>2, SizeType
  <2> QED
    <3>1. /\ Chunk(tail, k) \in Seq(Bytes) /\ Len(Chunk(tail, k)) = k
          /\ \A j \in 1 .. k : Chunk(tail, k)[j] = data[tail + j - 1]
      BY <1>1, <1>2, <2>1, ChunkType
    <3> QED
      BY <1>4, <3>1 DEF Copies
<1> QED
  BY <1>2, <1>3, <1>5

\* The bytes from the tail to the end of the array, and on from its start.
LEMMA CopyInTwoPieces ==
  ASSUME TypeOK, head < tail, NEW n \in Nat,
         NEW frag, frag = LesserOf(size - tail, n),
         NEW frag2, frag2 = LesserOf(head, n - frag)
  PROVE  /\ Copies(Chunk(tail, frag) \o Chunk(0, frag2), LesserOf(n, Used(head, tail)))
         /\ (IF n > frag THEN frag2 ELSE (tail + frag) % size) =
              Wrap(tail + LesserOf(n, Used(head, tail)))
<1> DEFINE k == LesserOf(n, Used(head, tail))
<1>1. head \in Index /\ tail \in Index /\ data \in [Index -> Bytes]
  BY DEF TypeOK
<1>2. /\ frag \in Nat /\ frag2 \in Nat /\ tail \in Nat
      /\ tail + frag <= size /\ 0 + frag2 <= size
      /\ k = frag + frag2
      /\ frag2 > 0 => tail + frag = size
  BY <1>1, SizeType DEF LesserOf, Used, Index
<1>3. (IF n > frag THEN frag2 ELSE (tail + frag) % size) = Wrap(tail + k)
  <2>1. CASE n > frag
    <3>1. frag = size - tail /\ frag2 <= head /\ head < size
      BY <1>1, <2>1, SizeType DEF LesserOf, Index
    <3>0. /\ k = frag + frag2 /\ frag = size - tail /\ frag2 \in Nat
          /\ tail \in Nat /\ frag2 <= head /\ head < size /\ head \in Nat
      BY <1>1, <1>2, <3>1 DEF Index
    <3> HIDE DEF k
    <3>2. tail + k = size + frag2 /\ frag2 < size
      BY <3>0, SizeType
    <3>3. Wrap(tail + k) = frag2
      BY <1>2, <3>2, SizeType DEF Wrap
    <3> QED
      BY <2>1, <3>3
  <2>2. CASE ~(n > frag)
    <3>1. frag2 = 0 /\ tail + k = tail + frag /\ tail + frag \in 0 .. 2 * size - 1
      BY <1>1, <1>2, <2>2, SizeType DEF LesserOf, Index
    <3> QED
      BY <2>2, <3>1, WrapType
  <2> QED
    BY <2>1, <2>2
<1>4. /\ Chunk(tail, frag) \in Seq(Bytes) /\ Len(Chunk(tail, frag)) = frag
      /\ \A i \in 1 .. frag : Chunk(tail, frag)[i] = data[tail + i - 1]
  BY <1>1, <1>2, ChunkType
<1>5. /\ Chunk(0, frag2) \in Seq(Bytes) /\ Len(Chunk(0, frag2)) = frag2
      /\ \A i \in 1 .. frag2 : Chunk(0, frag2)[i] = data[0 + i - 1]
  BY <1>1, <1>2, ChunkType
<1> DEFINE c == Chunk(tail, frag) \o Chunk(0, frag2)
<1>6. /\ c \in Seq(Bytes) /\ Len(c) = k
      /\ \A i \in 1 .. k :
           c[i] = IF i <= frag THEN Chunk(tail, frag)[i] ELSE Chunk(0, frag2)[i - frag]
  <2> DEFINE c1 == Chunk(tail, frag)
             c2 == Chunk(0, frag2)
  <2>1. /\ c1 \in Seq(Bytes) /\ Len(c1) = frag
        /\ c2 \in Seq(Bytes) /\ Len(c2) = frag2
    BY <1>4, <1>5
  <2> HIDE DEF c1, c2
  <2>2. /\ c1 \o c2 \in Seq(Bytes) /\ Len(c1 \o c2) = frag + frag2
        /\ \A i \in 1 .. frag + frag2 :
             (c1 \o c2)[i] = IF i <= frag THEN c1[i] ELSE c2[i - frag]
    <3>1. /\ c1 \o c2 \in Seq(Bytes) /\ Len(c1 \o c2) = Len(c1) + Len(c2)
          /\ \A i \in 1 .. Len(c1) + Len(c2) :
               (c1 \o c2)[i] = IF i <= Len(c1) THEN c1[i] ELSE c2[i - Len(c1)]
      BY <2>1, ConcatProperties
    <3> QED
      BY ONLY <2>1, <3>1
  <2> QED
    BY <1>2, <2>2 DEF c1, c2
<1> HIDE DEF c
<1>7. ASSUME NEW i \in 1 .. k PROVE c[i] = data[Wrap(tail + i - 1)]
  <2>1. CASE i <= frag
    <3>1. i \in 1 .. frag /\ Wrap(tail + i - 1) = tail + i - 1
      BY <1>2, <2>1, SizeType DEF Wrap
    <3> QED
      BY <1>4, <1>6, <2>1, <3>1
  <2>2. CASE i > frag
    <3>1. i - frag \in 1 .. frag2
      BY <1>2, <2>2
    <3>2. Wrap(tail + i - 1) = 0 + (i - frag) - 1
      BY <1>2, <2>2, <3>1, SizeType DEF Wrap
    <3>3. c[i] = Chunk(0, frag2)[i - frag]
      BY <1>2, <1>6, <2>2
    <3>4. Chunk(0, frag2)[i - frag] = data[0 + (i - frag) - 1]
      BY <1>5, <3>1
    <3> QED
      BY <3>2, <3>3, <3>4
  <2>3. i \in Int /\ frag \in Int
    BY <1>2
  <2> QED
    BY <2>1, <2>2, <2>3
<1> QED
  BY <1>3, <1>6, <1>7 DEF Copies, c

\* remove() as it is written: the bytes it copies, and where the tail goes.
LEMMA RemoveStep ==
  ASSUME TypeOK, NEW n \in Nat \ {0}, remove(n)
  PROVE  /\ TypeOK'
         /\ contents' = Ring!Remaining(contents, n)
         /\ out'.result = Ring!Fetched(contents, n)
         /\ out'.op = "remove" /\ out'.arg = n
<1> DEFINE k == LesserOf(n, Used(head, tail))
<1>1. head \in Index /\ tail \in Index /\ data \in [Index -> Bytes]
  BY DEF TypeOK
<1>2. Used(head, tail) \in 0 .. size - 1 /\ k \in 0 .. Used(head, tail) /\ k \in Nat
  BY <1>1, UsedType, SizeType DEF LesserOf
<1>3. head' = head /\ data' = data
  BY DEF remove
<1>4. PICK copied : /\ out' = Call("remove", n, copied)
                    /\ Copies(copied, k)
                    /\ tail' = Wrap(tail + k)
  <2>1. CASE head >= tail
    BY <1>1, <2>1, CopyInOnePiece, SizeType DEF remove, Index
  <2>2. CASE head < tail
    BY <1>1, <2>2, CopyInTwoPieces, SizeType DEF remove, Index
  <2> QED
    BY <1>1, <2>1, <2>2, SizeType DEF Index
<1>5. /\ Wrap(tail + k) \in Index
      /\ Held(head, Wrap(tail + k), data) =
           SubSeq(Held(head, tail, data), k + 1, Len(Held(head, tail, data)))
  BY <1>1, <1>2, RemoveHolds
<1>6. TypeOK'
  BY <1>1, <1>3, <1>4, <1>5 DEF TypeOK
<1>7. contents' = Held(head, Wrap(tail + k), data)
  <2>1. contents' = Held(head', tail', data')
    BY <1>6, ContentsAreHeld DEF TypeOK, contents
  <2> QED
    BY <1>3, <1>4, <2>1
<1>8. copied = Ring!Fetched(contents, n) /\ Len(Ring!Fetched(contents, n)) = k
  <2>1. copied = Ring!Fetched(Held(head, tail, data), n)
    BY <1>1, <1>4, FetchedHolds DEF Copies
  <2> QED
    BY <1>4, <2>1, AvailType DEF Copies
<1>9. contents' = Ring!Remaining(contents, n)
  BY <1>5, <1>7, <1>8, AvailType DEF Ring!Remaining
<1> QED
  BY <1>4, <1>6, <1>8, <1>9 DEF Call

-----------------------------------------------------------------------------
\* Every step does what RingContents says.
LEMMA Step ==
  ASSUME TypeOK, [Next]_vars
  PROVE  /\ TypeOK'
         /\ [CASE out'.op = "insert" ->
                     /\ contents' = Ring!Inserted(contents, out'.arg)
                     /\ out'.result = Ring!Accepts(contents, Len(out'.arg))
                [] out'.op = "remove" ->
                     /\ contents' = Ring!Remaining(contents, out'.arg)
                     /\ out'.result = Ring!Fetched(contents, out'.arg)
                [] OTHER -> contents' = <<>>]_vars
<1>1. ASSUME NEW n \in InsertLens, NEW s \in [1 .. n -> Bytes], insert(s)
      PROVE  /\ TypeOK'
             /\ out'.op = "insert" /\ out'.op # "remove"
             /\ contents' = Ring!Inserted(contents, out'.arg)
             /\ out'.result = Ring!Accepts(contents, Len(out'.arg))
  BY <1>1, InsertStep
<1>2. ASSUME NEW n \in RemoveLens, remove(n)
      PROVE  /\ TypeOK'
             /\ out'.op = "remove" /\ out'.op # "insert"
             /\ contents' = Ring!Remaining(contents, out'.arg)
             /\ out'.result = Ring!Fetched(contents, out'.arg)
  <2>1. n \in Nat \ {0}
    BY RingBufferAssumption
  <2> QED
    BY <1>2, <2>1, RemoveStep
<1>3. ASSUME clear
      PROVE  /\ TypeOK'
             /\ out'.op # "remove" /\ out'.op # "insert"
             /\ contents' = <<>>
  <2>1. head' = 0 /\ tail' = 0 /\ data' = data /\ out' = Call("clear", <<>>, <<>>)
    BY <1>3 DEF clear
  <2>2. 0 \in Index /\ Used(0, 0) = 0
    BY SizeType DEF Index, Used
  <2>3. TypeOK'
    BY <2>1, <2>2 DEF TypeOK
  <2>4. contents' = Held(0, 0, data)
    BY <2>1, <2>2, ContentsAreHeld DEF TypeOK, contents
  <2>5. Held(0, 0, data) = <<>>
    BY <2>2 DEF Held
  <2> QED
    BY <2>1, <2>3, <2>4, <2>5 DEF Call
<1>4. CASE UNCHANGED vars
  BY <1>4 DEF vars, TypeOK
<1> QED
  BY <1>1, <1>2, <1>3, <1>4 DEF Next

LEMMA InitTypeOK == Init => TypeOK
BY SizeType DEF Init, TypeOK, Index

\* Head and tail stay inside the array and never point to its end, whatever
\* lengths are inserted and removed.
THEOREM TypeCorrect == Spec => []TypeOK
<1>1. TypeOK /\ [Next]_vars => TypeOK'
  BY Step
<1> QED
  BY InitTypeOK, <1>1, PTL DEF Spec

\* For every size and every block length each call changes the contents and
\* answers as RingContents says: across the wrap of the array no byte is lost,
\* doubled or reordered, and the insertion that fills the array empties it.
THEOREM ContentsCorrect == Spec => ImplementsContents
<1>1. TypeOK /\ [Next]_vars =>
        [CASE out'.op = "insert" ->
                /\ contents' = Ring!Inserted(contents, out'.arg)
                /\ out'.result = Ring!Accepts(contents, Len(out'.arg))
           [] out'.op = "remove" ->
                /\ contents' = Ring!Remaining(contents, out'.arg)
                /\ out'.result = Ring!Fetched(contents, out'.arg)
           [] OTHER -> contents' = <<>>]_vars
  BY Step
<1> QED
  BY <1>1, TypeCorrect, PTL DEF Spec, ImplementsContents

-----------------------------------------------------------------------------
(***************************************************************************)
(* The ring as a queue.  When blocks and array are multiples of some block *)
(* size the spare byte is never taken: the free tags of the driver are     *)
(* such a ring, four bytes to a tag.                                       *)
(***************************************************************************)
Multiple(b, n) == \E k \in Nat : n = b * k

LEMMA MultipleSum ==
  ASSUME NEW b \in Nat, NEW m \in Nat, NEW n \in Nat, Multiple(b, m), Multiple(b, n)
  PROVE  Multiple(b, m + n)
<1>1. PICK j \in Nat, k \in Nat : m = b * j /\ n = b * k
  BY DEF Multiple
<1>2. j + k \in Nat /\ b * (j + k) = b * j + b * k
  OBVIOUS
<1> QED
  BY <1>1, <1>2 DEF Multiple

LEMMA MultipleDifference ==
  ASSUME NEW b \in Nat \ {0}, NEW m \in Nat, NEW n \in Nat, n <= m,
         Multiple(b, m), Multiple(b, n)
  PROVE  Multiple(b, m - n)
<1>1. PICK j \in Nat, k \in Nat : m = b * j /\ n = b * k
  BY DEF Multiple
<1>2. CASE j >= k
  <2>1. j - k \in Nat /\ b * (j - k) = b * j - b * k
    BY <1>2
  <2> QED
    BY <1>1, <2>1 DEF Multiple
<1>3. CASE j < k
  <2>1. PICK i \in Nat \ {0} : k = j + i
    <3>1. k - j \in Nat \ {0} /\ k = j + (k - j)
      BY <1>3
    <3> QED
      BY <3>1
  <2>2. b * k = b * j + b * i /\ b * i >= 1
    BY <2>1
  <2> QED
    BY <1>1, <1>3, <2>2
<1> QED
  BY <1>2, <1>3

\* No two multiples of a block longer than one byte are one byte apart.
LEMMA MultiplesApart ==
  ASSUME NEW b \in Nat, b > 1, NEW m \in Nat, Multiple(b, m), Multiple(b, m + 1)
  PROVE  FALSE
<1>1. Multiple(b, (m + 1) - m)
  BY MultipleDifference
<1>2. PICK k \in Nat : 1 = b * k
  BY <1>1 DEF Multiple
<1>3. CASE k = 0
  BY <1>2, <1>3
<1>4. CASE k >= 1
  <2>1. b * k >= b
    BY <1>4
  <2> QED
    BY <1>2, <2>1
<1> QED
  BY <1>3, <1>4

LEMMA ContentsType ==
  ASSUME TypeOK
  PROVE  contents \in Seq(Bytes) /\ Len(contents) \in 0 .. DesiredSize
<1>1. contents \in Seq(Bytes)
  BY AvailType, HeldType DEF TypeOK
<1> QED
  BY <1>1, AvailType, CapacityType

\* An insertion of whole blocks into whole blocks is one of the queue.
LEMMA InsertIsQueued ==
  ASSUME NEW b \in Nat, b > 1, Multiple(b, DesiredSize),
         TypeOK, Multiple(b, Len(contents)),
         NEW n \in InsertLens, Multiple(b, n), NEW s \in [1 .. n -> Bytes], insert(s)
  PROVE  Queue!Insert(s) /\ Multiple(b, Len(contents)')
<1> DEFINE fits == Len(contents) + Len(s) <= DesiredSize
<1>1. s \in Seq(Bytes) /\ Len(s) = n /\ n \in Nat
  BY CallTypes, LenProperties, RingBufferAssumption
<1>2. contents \in Seq(Bytes) /\ Len(contents) \in 0 .. DesiredSize /\ DesiredSize \in Nat
  BY ContentsType, CapacityType
<1>3. Len(contents) + Len(s) # DesiredSize + 1
  <2>1. Len(contents) + n \in Nat /\ Multiple(b, Len(contents) + n)
    BY <1>1, <1>2, MultipleSum
  <2> QED
    BY <1>1, <1>2, <2>1, MultiplesApart
<1>4. contents' = Ring!Inserted(contents, s) /\ out'.result = Ring!Accepts(contents, Len(s))
  BY InsertStep
<1>5. Ring!Avail(contents) = DesiredSize + 1 - Len(contents)
  BY DEF Ring!Avail
<1>6. Ring!Accepts(contents, Len(s)) = fits
  BY <1>1, <1>2, <1>3, <1>5 DEF Ring!Accepts
<1>7. contents' = IF fits THEN contents \o s ELSE contents
  <2>1. CASE fits
    <3>1. Len(s) # Ring!Avail(contents)
      BY <1>1, <1>2, <1>3, <1>5
    <3> QED
      BY <1>4, <1>6, <2>1, <3>1 DEF Ring!Inserted
  <2>2. CASE ~fits
    BY <1>4, <1>6, <2>2 DEF Ring!Inserted
  <2> QED
    BY <2>1, <2>2
<1>8. out' = Queue!Call("insert", s, fits)
  <2>1. out' = Call("insert", s, Len(s) <= avail)
    BY DEF insert
  <2> QED
    BY <1>4, <1>6, <2>1 DEF Call, Queue!Call
<1>9. Multiple(b, Len(contents)')
  <2>1. CASE fits
    <3>1. Len(contents \o s) = Len(contents) + n
      BY <1>1, <1>2
    <3> QED
      BY <1>1, <1>2, <1>7, <2>1, <3>1, MultipleSum
  <2>2. CASE ~fits
    BY <1>7, <2>2
  <2> QED
    BY <2>1, <2>2
<1> QED
  BY <1>7, <1>8, <1>9 DEF Queue!Insert

\* A removal of whole blocks from whole blocks is one of the queue.
LEMMA RemoveIsQueued ==
  ASSUME NEW b \in Nat, b > 1, TypeOK, Multiple(b, Len(contents)),
         NEW n \in Nat \ {0}, Multiple(b, n), remove(n)
  PROVE  Queue!Remove(n) /\ Multiple(b, Len(contents)')
<1> DEFINE k == IF n < Len(contents) THEN n ELSE Len(contents)
<1>1. contents \in Seq(Bytes) /\ Len(contents) \in Nat
  BY ContentsType, CapacityType
<1>2. /\ contents' = Ring!Remaining(contents, n)
      /\ out'.result = Ring!Fetched(contents, n)
  BY RemoveStep
<1>3. k \in 0 .. Len(contents) /\ Multiple(b, k)
  BY <1>1
<1>4. /\ Ring!Fetched(contents, n) = SubSeq(contents, 1, k)
      /\ Len(SubSeq(contents, 1, k)) = k
  BY <1>1, <1>3 DEF Ring!Fetched
<1>5. contents' = SubSeq(contents, k + 1, Len(contents))
  BY <1>2, <1>4 DEF Ring!Remaining
<1>6. out' = Queue!Call("remove", n, SubSeq(contents, 1, k))
  <2>1. PICK c : out' = Call("remove", n, c)
    BY DEF remove
  <2> QED
    BY <1>2, <1>4, <2>1 DEF Call, Queue!Call
<1>7. Multiple(b, Len(contents)')
  <2> HIDE DEF k
  <2>1. Len(SubSeq(contents, k + 1, Len(contents))) = Len(contents) - k
    BY <1>1, <1>3, SubSeqProperties
  <2>2. k \in Nat /\ k <= Len(contents) /\ b \in Nat \ {0}
    BY <1>1, <1>3
  <2>3. Multiple(b, Len(contents) - k)
    BY <1>1, <1>3, <2>2, MultipleDifference
  <2> QED
    BY <1>5, <2>1, <2>3
<1> QED
  BY <1>5, <1>6, <1>7 DEF Queue!Remove

\* With whole blocks only, every step is a step of the queue.
LEMMA StepIsQueued ==
  ASSUME NEW b \in Nat, b > 1, Multiple(b, DesiredSize),
         \A n \in InsertLens \cup RemoveLens : Multiple(b, n),
         TypeOK, Multiple(b, Len(contents)), [Next]_vars
  PROVE  [Queue!Next]_(Queue!vars) /\ Multiple(b, Len(contents)')
<1>1. ASSUME NEW n \in InsertLens, NEW s \in [1 .. n -> Bytes], insert(s)
      PROVE  Queue!Next /\ Multiple(b, Len(contents)')
  BY <1>1, InsertIsQueued DEF Queue!Next
<1>2. ASSUME NEW n \in RemoveLens, remove(n)
      PROVE  Queue!Next /\ Multiple(b, Len(contents)')
  <2>1. n \in Nat \ {0}
    BY RingBufferAssumption
  <2> QED
    BY <1>2, <2>1, RemoveIsQueued DEF Queue!Next
<1>3. ASSUME clear
      PROVE  Queue!Next /\ Multiple(b, Len(contents)')
  <2>1. head' = 0 /\ tail' = 0 /\ data' = data /\ out' = Call("clear", <<>>, <<>>)
    BY <1>3 DEF clear
  <2>2. 0 \in Index /\ Used(0, 0) = 0
    BY SizeType DEF Index, Used
  <2>3. contents' = <<>>
    BY <2>1, <2>2, ContentsAreHeld DEF TypeOK, contents, Held
  <2>4. Len(<<>>) = 0 /\ Multiple(b, 0)
    BY DEF Multiple
  <2> QED
    BY <2>1, <2>3, <2>4 DEF Queue!Next, Queue!Clear, Call, Queue!Call
<1>4. ASSUME UNCHANGED vars
      PROVE  UNCHANGED <<contents, out>>
  BY <1>4 DEF vars, contents
<1> QED
  BY <1>1, <1>2, <1>3, <1>4 DEF Next, Queue!vars

\* A ring of whole blocks longer than a byte is a bounded queue: whatever the
\* order of the calls, what it accepts it yields once and in order.
\* InitializeController makes such a ring of freeSRB.
THEOREM QueueCorrect ==
  ASSUME NEW CONSTANT b \in Nat, b > 1, Multiple(b, DesiredSize),
         \A n \in InsertLens \cup RemoveLens : Multiple(b, n)
  PROVE  Spec => ImplementsQueue
<1> DEFINE Whole == Multiple(b, Len(contents))
<1>1. Init => Queue!Init /\ Whole
  <2> SUFFICES ASSUME Init PROVE Queue!Init /\ Whole
    OBVIOUS
  <2>1. contents = Held(0, 0, data) /\ Used(0, 0) = 0
    <3>1. head = 0 /\ tail = 0
      BY DEF Init
    <3>2. contents = Held(head, tail, data)
      BY InitTypeOK, AvailType
    <3> QED
      BY <3>1, <3>2, SizeType DEF Used
  <2>2. contents = <<>>
    BY <2>1 DEF Held
  <2>3. Len(<<>>) = 0 /\ Multiple(b, 0)
    BY DEF Multiple
  <2> QED
    BY <2>2, <2>3 DEF Init, Queue!Init, Call, Queue!Call
<1>2. TypeOK /\ Whole /\ [Next]_vars => [Queue!Next]_(Queue!vars) /\ Whole'
  BY StepIsQueued
<1> QED
  BY <1>1, <1>2, TypeCorrect, PTL DEF Spec, ImplementsQueue, Queue!Spec
=============================================================================
