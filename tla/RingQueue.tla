------------------------------ MODULE RingQueue ------------------------------
(***************************************************************************)
(* What a bounded byte queue promises its users: an insertion is accepted  *)
(* whole when it fits and refused without effect when it does not; a       *)
(* removal yields the oldest bytes; nothing else ever leaves the queue.    *)
(***************************************************************************)
EXTENDS Naturals, Sequences

CONSTANTS Bytes, Capacity, InsertLens, RemoveLens

VARIABLES
    q,      \* the bytes held, oldest first
    out     \* the last call, with its argument and what it returned

vars == <<q, out>>

Call(op, arg, result) == [op |-> op, arg |-> arg, result |-> result]

Init == q = <<>> /\ out = Call("init", <<>>, <<>>)

Insert(s) ==
    LET fits == Len(q) + Len(s) <= Capacity
    IN  /\ q' = IF fits THEN q \o s ELSE q
        /\ out' = Call("insert", s, fits)

Remove(n) ==
    LET k == IF n < Len(q) THEN n ELSE Len(q)
    IN  /\ q' = SubSeq(q, k + 1, Len(q))
        /\ out' = Call("remove", n, SubSeq(q, 1, k))

Clear == q' = <<>> /\ out' = Call("clear", <<>>, <<>>)

Next ==
    \/ \E n \in InsertLens : \E s \in [1 .. n -> Bytes] : Insert(s)
    \/ \E n \in RemoveLens : Remove(n)
    \/ Clear

Spec == Init /\ [][Next]_vars
=============================================================================
