------------------------------- MODULE Frames -------------------------------
(***************************************************************************)
(* The frame allocator of phy_mem_mgr.c: a bitmap of the frames of user    *)
(* memory.  Nothing in src/ gives a frame back (ph_page_free has no        *)
(* caller), so a bit that is set stays set.                                *)
(***************************************************************************)
EXTENDS Integers

CONSTANTS
  UMEM_BEGIN,  \* where user memory begins
  UMEM_SIZE    \* its length in bytes (32 MB in the code)

ASSUME FramesAssumption ==
  /\ UMEM_BEGIN \in Nat \ {0}
  /\ UMEM_SIZE \in Nat \ {0}

NULL       == 0
FRAME_SIZE == 4096

VARIABLE UMEM_BITMAP  \* the frames whose bit is set

(* ph_mem_initialize keeps the bitmap's length in bytes in eight bits.     *)
UMEM_BITMAP_SZ == (((UMEM_SIZE - 1) \div FRAME_SIZE) \div 8) % 256

FrameNumbers   == 0 .. 8 * UMEM_BITMAP_SZ - 1
Frame(n)       == UMEM_BEGIN + n * FRAME_SIZE

FramesInit == UMEM_BITMAP = {}

Unused == FrameNumbers \ UMEM_BITMAP

(* Mutant of FirstUnused: the search runs downwards.                       *)
LastUnused == CHOOSE n \in Unused : \A m \in Unused : m <= n

FirstUnused == CHOOSE n \in Unused : \A m \in Unused : n <= m

(* What ph_frame_alloc returns: the first frame whose bit is clear, or     *)
(* NULL.                                                                   *)
FrameAllocated == IF Unused = {} THEN NULL ELSE Frame(FirstUnused)

(* Mutant of MarkFrame: the bit is not set.                                *)
MarkNothing == UNCHANGED UMEM_BITMAP

(* What ph_frame_alloc does to the bitmap.                                 *)
MarkFrame ==
  UMEM_BITMAP' = UMEM_BITMAP \cup (IF Unused = {} THEN {} ELSE {FirstUnused})
=============================================================================
