----------------------------- MODULE Allocator ------------------------------
(***************************************************************************)
(* What the kernel heap promises its callers: ph_malloc hands out a range  *)
(* of the arena that overlaps no range still in use, or NULL; ph_free      *)
(* gives a range back.  Nothing is said of where blocks lie or of headers. *)
(***************************************************************************)
EXTENDS Naturals, Bags

CONSTANTS Arena,   \* the addresses ph_malloc may hand out
          Sizes    \* the sizes asked for

(* No request is for nothing.                                              *)
AllocatorAssumption ==
  Arena \subseteq Nat \ {0} /\ Sizes \subseteq Nat \ {0}

VARIABLE live      \* the bag of blocks in use: one handed out twice counts twice

Bytes(b) == b.ptr .. b.ptr + b.size - 1
Overlap(b, c) == Bytes(b) \cap Bytes(c) # {}

Init == live = EmptyBag

Malloc(ptr, size) ==
  LET b == [ptr |-> ptr, size |-> size]
  IN  /\ live' = live (+) SetToBag({b})
      /\ Bytes(b) \subseteq Arena
      /\ \A c \in BagToSet(live) : ~Overlap(b, c)

Free(b) ==
  /\ BagIn(b, live)
  /\ live' = live (-) SetToBag({b})

Next ==
  \/ \E ptr \in Arena, size \in Sizes : Malloc(ptr, size)
  \/ \E b \in BagToSet(live) : Free(b)

Spec == Init /\ [][Next]_live

(* Two callers never hold a byte in common.                                *)
Disjoint ==
  /\ \A b, c \in BagToSet(live) : b # c => ~Overlap(b, c)
  /\ \A b \in BagToSet(live) : live[b] = 1
=============================================================================
