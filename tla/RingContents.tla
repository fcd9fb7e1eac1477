---------------------------- MODULE RingContents ----------------------------
(***************************************************************************)
(* What the operations of RingBuffer (ArcMSRUtils.cpp) do to the sequence  *)
(* of bytes the ring holds, as the code is written.  RingBuffer is checked *)
(* against these operators; the modules of the driver's other parts hold   *)
(* their rings as sequences and change them only through these operators.  *)
(***************************************************************************)
EXTENDS Naturals, Sequences

CONSTANT Capacity      \* desiredSize, the argument of RingBuffer::init

\* avail(): the array has one byte more than desiredSize, and avail counts it.
Avail(c) == Capacity + 1 - Len(c)

\* insert() answers true.
Accepts(c, n) == n <= Avail(c)

\* The contents after insert().  An insertion that takes the last byte of the
\* array makes head meet tail, and the ring is then empty.
Inserted(c, s) ==
    IF ~Accepts(c, Len(s)) THEN c
    ELSE IF Len(s) = Avail(c) THEN <<>> ELSE c \o s

\* What remove() copies out when n bytes are asked for, and what stays.
Fetched(c, n)   == SubSeq(c, 1, IF n < Len(c) THEN n ELSE Len(c))
Remaining(c, n) == SubSeq(c, Len(Fetched(c, n)) + 1, Len(c))
=============================================================================
