----------------------------- MODULE SRBAddress -----------------------------
(***************************************************************************)
(* Tags, SRB addresses and the 32-bit words of the two queue ports         *)
(* (getSRBPhys and getSRBTag of ArcMSRControllerIO.cpp, and the shifts in  *)
(* ProcessParallelTask and handlePostQueueInterrupt).  A word has an       *)
(* address without its low five bits in its low 27, and flags in its high  *)
(* five.  Addresses are 32 bits wide as well.                              *)
(***************************************************************************)
EXTENDS Integers

CONSTANTS
    MaxSRB,     \* maxSRB: the number of tags and of SRBs in the pool
    sizeSRB,    \* the size of an SRB, as the adapter asks for
    SRBPhys,    \* where the pool is
    Frames      \* 2^27: the addresses a word can hold (fewer in a run)

\* Nothing in the driver checks that the pool lies below the end of the
\* address space, nor that the size the adapter asks for keeps its SRBs "32
\* bytes aligned" (ArcMSRRegisters.h:158); the pool is aligned to that size.
ASSUME SRBAddressAssumption ==
    /\ MaxSRB \in Nat \ {0} /\ sizeSRB \in Nat \ {0}
    /\ SRBPhys \in Nat /\ Frames \in Nat \ {0}
    /\ sizeSRB % 32 = 0 /\ SRBPhys % 32 = 0
    /\ SRBPhys + MaxSRB * sizeSRB < 32 * Frames

Tags     == 0 .. MaxSRB - 1
WordSize == 32 * Frames

PoolEnd == (SRBPhys + MaxSRB * sizeSRB) % WordSize

getSRBPhys(tag) == (SRBPhys + tag * sizeSRB) % WordSize

\* One past the pool is let through.
getSRBTag(physAddr) ==
    IF physAddr < SRBPhys \/ physAddr > PoolEnd THEN -1
    ELSE (physAddr - SRBPhys) \div sizeSRB

\* ARCMSR_SRBPOST_FLAG_SGL_BSIZE is bit 31, ARCMSR_SRBREPLY_FLAG_ERROR bit 28.
PostWord(tag, large) ==
    getSRBPhys(tag) \div 32 + (IF large THEN 16 * Frames ELSE 0)

\* The adapter's answer to a posted word.
ReplyWord(word, error) == (word % Frames) + (IF error THEN 2 * Frames ELSE 0)

\* response << 5, in 32 bits.
ReplyPhys(response) == (response * 32) % WordSize

\* What the driver makes of a word it reads from the outbound queue port.
ReplyTag(response) == getSRBTag(ReplyPhys(response))
=============================================================================
