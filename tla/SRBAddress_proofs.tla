-------------------------- MODULE SRBAddress_proofs --------------------------
(* Tag, address, word and back, for every pool that fits. *)
EXTENDS SRBAddress, TLAPS

LEMMA Factor == ASSUME NEW n \in Nat, n % 32 = 0 PROVE n = 32 * (n \div 32) /\ n \div 32 \in Nat
OBVIOUS

LEMMA MulBounds ==
  ASSUME NEW g \in Nat, NEW m \in Nat, NEW s \in Nat \ {0}, g < m
  PROVE  /\ g * s \in Nat /\ m * s \in Nat
         /\ g * s + s <= m * s
<1>1. g + 1 <= m
  OBVIOUS
<1>2. (g + 1) * s <= m * s
  BY <1>1, SMT
<1>3. (g + 1) * s = g * s + s
  BY SMT
<1> QED
  BY <1>2, <1>3, SMT

LEMMA MulDiv ==
  ASSUME NEW n \in Nat, NEW s \in Nat \ {0}
  PROVE  (n * s) \div s = n
BY SMT

LEMMA ModSmall ==
  ASSUME NEW n \in Nat, NEW w \in Nat, n < w
  PROVE  n % w = n
OBVIOUS

-----------------------------------------------------------------------------
\* No SRB's address, nor the end of the pool, wraps around.
LEMMA PoolFits ==
  /\ WordSize \in Nat /\ MaxSRB * sizeSRB \in Nat
  /\ PoolEnd = SRBPhys + MaxSRB * sizeSRB
  /\ \A g \in Tags : /\ g * sizeSRB \in Nat
                     /\ g * sizeSRB + sizeSRB <= MaxSRB * sizeSRB
                     /\ getSRBPhys(g) = SRBPhys + g * sizeSRB
<1> USE SRBAddressAssumption DEF SRBAddressAssumption
<1>1. WordSize \in Nat /\ SRBPhys + MaxSRB * sizeSRB < WordSize
  BY DEF WordSize
<1>2. MaxSRB * sizeSRB \in Nat
  BY SMT
<1>3. PoolEnd = SRBPhys + MaxSRB * sizeSRB
  BY <1>1, <1>2, ModSmall DEF PoolEnd
<1>4. ASSUME NEW g \in Tags
      PROVE  /\ g * sizeSRB \in Nat
             /\ g * sizeSRB + sizeSRB <= MaxSRB * sizeSRB
             /\ getSRBPhys(g) = SRBPhys + g * sizeSRB
  <2>1. g \in Nat /\ g < MaxSRB
    BY DEF Tags
  <2>2. g * sizeSRB \in Nat /\ g * sizeSRB + sizeSRB <= MaxSRB * sizeSRB
    BY <2>1, MulBounds
  <2>3. SRBPhys + g * sizeSRB \in Nat /\ SRBPhys + g * sizeSRB < WordSize
    BY <1>1, <1>2, <2>2
  <2> QED
    BY <1>1, <2>2, <2>3, ModSmall DEF getSRBPhys
<1> QED
  BY <1>1, <1>2, <1>3, <1>4

\* An SRB's address is a multiple of 32 that fits in 27 bits without them.
LEMMA AddressAligned ==
  ASSUME NEW g \in Tags
  PROVE  \E f \in 0 .. Frames - 1 : getSRBPhys(g) = 32 * f
<1> USE SRBAddressAssumption DEF SRBAddressAssumption
<1> DEFINE base == SRBPhys \div 32
           size == sizeSRB \div 32
<1>1. SRBPhys = 32 * base /\ sizeSRB = 32 * size /\ base \in Nat /\ size \in Nat
  BY Factor
<1> HIDE DEF base, size
<1>2. g \in Nat
  BY DEF Tags
<1>3. getSRBPhys(g) = SRBPhys + g * sizeSRB /\ g * sizeSRB + sizeSRB <= MaxSRB * sizeSRB
      /\ g * sizeSRB \in Nat /\ MaxSRB * sizeSRB \in Nat
  BY PoolFits
<1>4. g * sizeSRB = 32 * (g * size) /\ g * size \in Nat
  BY <1>1, <1>2, SMT
<1>5. getSRBPhys(g) = 32 * (base + g * size)
  BY <1>1, <1>3, <1>4
<1>6. 32 * (base + g * size) < 32 * Frames
  BY <1>3, <1>5
<1>7. base + g * size \in 0 .. Frames - 1
  BY <1>1, <1>4, <1>6
<1> QED
  BY <1>5, <1>7

\* The address of an SRB names its tag.
LEMMA TagOfAddress ==
  ASSUME NEW g \in Tags
  PROVE  getSRBTag(getSRBPhys(g)) = g
<1> USE SRBAddressAssumption DEF SRBAddressAssumption
<1>1. /\ getSRBPhys(g) = SRBPhys + g * sizeSRB /\ g * sizeSRB + sizeSRB <= MaxSRB * sizeSRB
      /\ g * sizeSRB \in Nat /\ MaxSRB * sizeSRB \in Nat
      /\ PoolEnd = SRBPhys + MaxSRB * sizeSRB
  BY PoolFits
<1>2. g \in Nat
  BY DEF Tags
<1>3. (g * sizeSRB) \div sizeSRB = g
  BY <1>2, MulDiv
<1>4. getSRBPhys(g) - SRBPhys = g * sizeSRB
  BY <1>1
<1>5. ~(getSRBPhys(g) < SRBPhys) /\ ~(getSRBPhys(g) > PoolEnd)
  BY <1>1
<1> QED
  BY <1>3, <1>4, <1>5 DEF getSRBTag

\* The flags of either word do not touch the address.
LEMMA FlagsApart ==
  ASSUME NEW f \in 0 .. Frames - 1, NEW large \in BOOLEAN, NEW error \in BOOLEAN
  PROVE  /\ (f + (IF large THEN 16 * Frames ELSE 0)) % Frames = f
         /\ ((f + (IF error THEN 2 * Frames ELSE 0)) * 32) % WordSize = 32 * f
         /\ f + (IF error THEN 2 * Frames ELSE 0) < WordSize - 1
<1> USE SRBAddressAssumption DEF SRBAddressAssumption, WordSize
<1>1. (f + 16 * Frames) % Frames = f /\ f % Frames = f
  BY SMT
<1>2. (f * 32) % (32 * Frames) = 32 * f
  BY SMT
<1>3. ((f + 2 * Frames) * 32) % (32 * Frames) = 32 * f
  BY SMT
<1> QED
  BY <1>1, <1>2, <1>3

\* An SRB's tag comes back from the adapter's answer to its word, whatever the
\* size of its frame and whether or not the answer reports an error; and that
\* answer is never taken for the end of the queue, 0xffffffff.
THEOREM TagRoundTrip ==
  ASSUME NEW g \in Tags, NEW large \in BOOLEAN, NEW error \in BOOLEAN
  PROVE  /\ ReplyTag(ReplyWord(PostWord(g, large), error)) = g
         /\ ReplyWord(PostWord(g, large), error) # WordSize - 1
<1> USE SRBAddressAssumption DEF SRBAddressAssumption
<1>1. PICK f \in 0 .. Frames - 1 : getSRBPhys(g) = 32 * f
  BY AddressAligned
<1>2. PostWord(g, large) = f + (IF large THEN 16 * Frames ELSE 0)
  BY <1>1 DEF PostWord
<1>3. ReplyWord(PostWord(g, large), error) = f + (IF error THEN 2 * Frames ELSE 0)
  BY <1>2, FlagsApart DEF ReplyWord
<1>4. ReplyPhys(ReplyWord(PostWord(g, large), error)) = getSRBPhys(g)
  BY <1>1, <1>3, FlagsApart DEF ReplyPhys
<1> QED
  BY <1>3, <1>4, TagOfAddress, FlagsApart DEF ReplyTag

\* Outside the pool lies what getSRBTag refuses, and the one tag it lets
\* through that getSRBPtr refuses.
THEOREM StrayAddress ==
  ASSUME NEW a \in Nat, a < SRBPhys \/ a >= PoolEnd
  PROVE  getSRBTag(a) \in {-1, MaxSRB}
<1> USE SRBAddressAssumption DEF SRBAddressAssumption
<1>1. PoolEnd = SRBPhys + MaxSRB * sizeSRB /\ MaxSRB * sizeSRB \in Nat
  BY PoolFits
<1>2. CASE a = PoolEnd
  <2>1. a - SRBPhys = MaxSRB * sizeSRB
    BY <1>1, <1>2
  <2>2. (a - SRBPhys) \div sizeSRB = MaxSRB
    BY <2>1, MulDiv
  <2> QED
    BY <1>1, <1>2, <2>2 DEF getSRBTag
<1>3. CASE a # PoolEnd
  BY <1>1, <1>3 DEF getSRBTag
<1> QED
  BY <1>2, <1>3
=============================================================================
