----------------------------- MODULE RingBuffer -----------------------------
(***************************************************************************)
(* RingBuffer (ArcMSRUtils.cpp): a byte array with a head, where the next  *)
(* byte goes, and a tail, where the oldest byte is.  The driver keeps      *)
(* three: the free tags, four bytes at a time (freeSRB), and the message   *)
(* bytes in each direction, in blocks of any size.  All calls are made     *)
(* behind the command gate, so each is one step.                           *)
(***************************************************************************)
EXTENDS Integers, Sequences

CONSTANTS
    Bytes,         \* the byte values used
    DesiredSize,   \* the argument of init
    InsertLens,    \* the lengths callers insert
    RemoveLens     \* the lengths callers ask for

ASSUME RingBufferAssumption ==
    /\ DesiredSize \in Nat \ {0}
    /\ InsertLens \subseteq Nat \ {0} /\ RemoveLens \subseteq Nat \ {0}

VARIABLES
    head, tail, data,
    out            \* the last call, with its argument and what it returned

vars == <<head, tail, data, out>>

size  == DesiredSize + 1
Index == 0 .. size - 1

LesserOf(a, b) == IF a < b THEN a ELSE b

Call(op, arg, result) == [op |-> op, arg |-> arg, result |-> result]

\* The memory comes from IOMalloc: it holds any bytes.
Init ==
    /\ head = 0 /\ tail = 0
    /\ \E b \in Bytes : data = [i \in Index |-> b]
    /\ out = Call("init", <<>>, <<>>)

clear ==
    /\ head' = 0 /\ tail' = 0
    /\ out' = Call("clear", <<>>, <<>>)
    /\ UNCHANGED data

\* Mutant: the distance from tail to head taken without the wrap.
availForgetsWrap == size - (IF head >= tail THEN head - tail ELSE tail - head)

avail == size - (((head + size) - tail) % size)

\* Mutant: head may point to the end of the array.
insertUnwrapped(s) ==
    LET frag == LesserOf(size - head, Len(s))
        fits == Len(s) <= avail
    IN  /\ out' = Call("insert", s, fits)
        /\ IF ~fits THEN UNCHANGED <<head, data>>
           ELSE /\ data' = [i \in Index |->
                              IF i \in head .. head + frag - 1 THEN s[i - head + 1]
                              ELSE IF i < Len(s) - frag THEN s[frag + i + 1]
                              ELSE data[i]]
                /\ head' = IF Len(s) > frag THEN Len(s) - frag ELSE head + frag
        /\ UNCHANGED tail

insert(s) ==
    LET len  == Len(s)
        frag == LesserOf(size - head, len)       \* head to end first
        fits == len <= avail
    IN  /\ out' = Call("insert", s, fits)
        /\ IF ~fits THEN UNCHANGED <<head, data>>
           ELSE /\ data' = [i \in Index |->
                              IF i \in head .. head + frag - 1 THEN s[i - head + 1]
                              ELSE IF i < len - frag THEN s[frag + i + 1]
                              ELSE data[i]]
                /\ head' = IF len > frag THEN len - frag
                           ELSE (head + frag) % size
        /\ UNCHANGED tail

\* The bytes of the array from index i on, k of them.
Chunk(i, k) == [j \in 1 .. k |-> data[i + j - 1]]

\* Mutant: a removal stops at the end of the array.
removeUpToEnd(n) ==
    LET frag == LesserOf(IF head >= tail THEN head - tail ELSE size - tail, n)
    IN  /\ out' = Call("remove", n, Chunk(tail, frag))
        /\ tail' = (tail + frag) % size
        /\ UNCHANGED <<head, data>>

remove(n) ==
    \/ /\ head >= tail
       /\ LET frag == LesserOf(head - tail, n)   \* from tail to head
          IN  /\ out' = Call("remove", n, Chunk(tail, frag))
              /\ tail' = tail + frag
       /\ UNCHANGED <<head, data>>
    \/ /\ head < tail
       /\ LET frag  == LesserOf(size - tail, n)  \* from tail to end
              frag2 == LesserOf(head, n - frag)  \* maybe wrap
          IN  /\ out' = Call("remove", n, Chunk(tail, frag) \o Chunk(0, frag2))
              /\ tail' = IF n > frag THEN frag2 ELSE (tail + frag) % size
       /\ UNCHANGED <<head, data>>

Next ==
    \/ \E n \in InsertLens : \E s \in [1 .. n -> Bytes] : insert(s)
    \/ \E n \in RemoveLens : remove(n)
    \/ clear

Spec == Init /\ [][Next]_vars

-----------------------------------------------------------------------------
TypeOK ==
    /\ head \in Index /\ tail \in Index
    /\ data \in [Index -> Bytes]

\* The bytes the ring holds.
contents ==
    [i \in 1 .. ((head + size) - tail) % size |-> data[(tail + i - 1) % size]]

Ring  == INSTANCE RingContents WITH Capacity <- DesiredSize
Queue == INSTANCE RingQueue WITH q <- contents, Capacity <- DesiredSize

\* Wherever head and tail are, each call changes the contents and answers as
\* RingContents says: no byte is lost, doubled or reordered at the wrap of the
\* array, except by the insertion that fills it.
ImplementsContents ==
    [][CASE out'.op = "insert" ->
              /\ contents' = Ring!Inserted(contents, out'.arg)
              /\ out'.result = Ring!Accepts(contents, Len(out'.arg))
         [] out'.op = "remove" ->
              /\ contents' = Ring!Remaining(contents, out'.arg)
              /\ out'.result = Ring!Fetched(contents, out'.arg)
         [] OTHER -> contents' = <<>>]_vars

\* The ring is a bounded byte queue ("General-purpose byte-holding
\* ringbuffer", ArcMSRUtils.cpp:119): its insertions keep what it holds.
ImplementsQueue == Queue!Spec
=============================================================================
