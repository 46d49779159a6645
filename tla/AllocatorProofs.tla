-------------------------- MODULE AllocatorProofs ---------------------------
(***************************************************************************)
(* The promise of module Allocator is enough: whatever the arena and the   *)
(* sizes, no two blocks in use share a byte and none is in use twice.      *)
(***************************************************************************)
EXTENDS Allocator, TLAPS

Blocks == [ptr : Arena, size : Sizes]

(* The strengthening: a block has bytes of its own, so that a new block    *)
(* that overlaps no other is not among those in use.                       *)
AInv ==
  /\ live \in [DOMAIN live -> {1}]
  /\ DOMAIN live \subseteq Blocks
  /\ \A b, c \in DOMAIN live : b # c => ~Overlap(b, c)

LEMMA OwnBytes ==
  ASSUME AllocatorAssumption, NEW b \in Blocks
  PROVE  Overlap(b, b)
<1>1. b.ptr \in Nat /\ b.size \in Nat \ {0}
  BY Zenon DEF AllocatorAssumption, Blocks
<1>2. b.ptr \in b.ptr .. b.ptr + b.size - 1
  BY <1>1
<1> QED BY <1>2 DEF Overlap, Bytes

LEMMA OverlapSymmetric ==
  ASSUME NEW b, NEW c, Overlap(b, c)
  PROVE  Overlap(c, b)
BY DEF Overlap

(* In every behaviour of the promise the callers' blocks stay apart: what  *)
(* the heap of phy_mem_mgr.c owes kernel_main and pong.                    *)
THEOREM BlocksStayApart ==
  ASSUME AllocatorAssumption
  PROVE  Spec => []Disjoint
<1>1. Init => AInv
  BY DEF Init, AInv, EmptyBag, SetToBag
<1>2. AInv /\ [Next]_live => AInv'
  <2> SUFFICES ASSUME AInv, [Next]_live PROVE AInv'
    OBVIOUS
  <2>1. ASSUME NEW ptr \in Arena, NEW size \in Sizes, Malloc(ptr, size)
        PROVE  AInv'
    <3> DEFINE b == [ptr |-> ptr, size |-> size]
    <3>1. b \in Blocks
      BY DEF Blocks
    <3>2. \A c \in DOMAIN live : ~Overlap(b, c)
      BY <2>1 DEF Malloc, BagToSet
    <3>3. b \notin DOMAIN live
      BY <3>1, <3>2, OwnBytes
    <3>4. live' = [x \in DOMAIN live \cup {b} |-> 1]
      BY <2>1, <3>3 DEF Malloc, AInv, SetToBag, (+), BagIn, BagToSet
    <3> HIDE DEF b
    <3>5. \A c, d \in DOMAIN live \cup {b} : c # d => ~Overlap(c, d)
      BY <3>2, OverlapSymmetric DEF AInv
    <3> QED BY <3>1, <3>4, <3>5 DEF AInv
  <2>2. ASSUME NEW b \in BagToSet(live), Free(b)
        PROVE  AInv'
    <3>1. live' = [x \in DOMAIN live \ {b} |-> 1]
      BY <2>2 DEF Free, AInv, SetToBag, (-), BagIn, BagToSet
    <3> QED BY <3>1 DEF AInv
  <2>3. CASE UNCHANGED live
    BY <2>3 DEF AInv
  <2> QED BY <2>1, <2>2, <2>3 DEF Next
<1>3. AInv => Disjoint
  BY DEF AInv, Disjoint, BagToSet
<1> QED BY <1>1, <1>2, <1>3, PTL DEF Spec
=============================================================================
