----------------------------- MODULE KernelHeap -----------------------------
(***************************************************************************)
(* The kernel heap of phy_mem_mgr.c: a list of blocks, each with a header  *)
(* before and a footer behind its bytes, all of it in one array of bytes.  *)
(* Memory is modelled byte by byte, because the headers and footers the    *)
(* code writes may overlap others: a word is four bytes, little end first. *)
(* A word is a 32-bit value, written as a signed number.                   *)
(*                                                                         *)
(* The heap runs with interrupts disabled (before sti, or inside IRQ 1),   *)
(* so one call at a time; one step is one iteration of one of its loops.   *)
(***************************************************************************)
EXTENDS Integers, FiniteSetsExt, Bags

CONSTANTS
  HEAP_BEGIN, HEAP_END,
  MaxBlocks  \* bound: how many blocks of the free list the properties follow

ASSUME HeapAssumption ==
  /\ {HEAP_BEGIN, HEAP_END, MaxBlocks} \subseteq Nat
  /\ 4 <= HEAP_BEGIN /\ HEAP_BEGIN + 20 < HEAP_END

NULL     == 0
HDR_SIZE == 16
FTR_SIZE == 4

VARIABLES
  mem,        \* the bytes written since memset cleared the heap
  free_head,
  call,       \* the running call: where it is and its local variables
  live        \* history: the bag of blocks handed out and not given back

heapVars == <<mem, free_head, call, live>>

BlocksInUse == BagToSet(live)

-----------------------------------------------------------------------------
(* Memory.                                                                 *)

Weight == <<1, 256, 256 * 256, 256 * (256 * 256)>>
Byte(v, k) == (v \div Weight[k + 1]) % 256
Peek(m, a) == IF a \in DOMAIN m THEN m[a] ELSE 0
Load(m, a) ==
  LET top == Peek(m, a + 3)
  IN  Peek(m, a) + 256 * (Peek(m, a + 1) + 256 * (Peek(m, a + 2)
        + 256 * (IF top >= 128 THEN top - 256 ELSE top)))
Poke(m, a, b) == [x \in DOMAIN m \cup {a} |-> IF x = a THEN b ELSE m[x]]
Store(m, a, v) ==
  [x \in DOMAIN m \cup a..a+3 |-> IF x \in a..a+3 THEN Byte(v, x - a) ELSE m[x]]

(* Unsigned comparison of 32-bit words.                                    *)
Below(a, b) == IF (a < 0) = (b < 0) THEN a < b ELSE b < 0

(* heap_hdr_mdata_t: size, free, next, prev.                               *)
SizeOf(m, h)   == Load(m, h)
IsFree(m, h)   == Peek(m, h + 4) # 0
NextOf(m, h)   == Load(m, h + 8)
PrevOf(m, h)   == Load(m, h + 12)
SetSize(m, h, v) == Store(m, h, v)
SetFree(m, h, b) == Poke(m, h + 4, IF b THEN 1 ELSE 0)
SetNext(m, h, v) == Store(m, h + 8, v)
SetPrev(m, h, v) == Store(m, h + 12, v)

-----------------------------------------------------------------------------
Idle == [at |-> "idle", sz |-> 0, hdr |-> NULL, tmp |-> NULL, ret |-> NULL]
Return(p) == call' = [Idle EXCEPT !.ret = p]

(* Mutant of HeapInit: the footer goes behind the heap.                    *)
HeapInitFooterBehind ==
  LET size == HEAP_END - HEAP_BEGIN - HDR_SIZE - FTR_SIZE
      m1   == SetFree(SetSize(<<>>, HEAP_BEGIN, size), HEAP_BEGIN, TRUE)
  IN  /\ mem = Store(m1, HEAP_END, HEAP_BEGIN)
      /\ free_head = HEAP_BEGIN
      /\ call = Idle
      /\ live = EmptyBag

(* k_heap_initialize: one free block, the whole heap.                      *)
HeapInit ==
  LET size == HEAP_END - HEAP_BEGIN - HDR_SIZE - FTR_SIZE
      m1   == SetFree(SetSize(<<>>, HEAP_BEGIN, size), HEAP_BEGIN, TRUE)
  IN  /\ mem = Store(m1, HEAP_END - FTR_SIZE, HEAP_BEGIN)
      /\ free_head = HEAP_BEGIN
      /\ call = Idle
      /\ live = EmptyBag

-----------------------------------------------------------------------------
(* ph_malloc                                                               *)

CallMalloc(sz) ==
  /\ call.at = "idle"
  /\ call' = [Idle EXCEPT !.at = "malloc", !.sz = sz, !.tmp = free_head]
  /\ UNCHANGED <<mem, free_head, live>>

InReach(t) == t # NULL /\ Below(t + call.sz + HDR_SIZE + FTR_SIZE, HEAP_END)

MallocNull ==
  /\ call.at = "malloc" /\ ~InReach(call.tmp)
  /\ Return(NULL)
  /\ UNCHANGED <<mem, free_head, live>>

MallocSkip ==
  /\ call.at = "malloc" /\ InReach(call.tmp)
  /\ Below(SizeOf(mem, call.tmp), call.sz)
  /\ call' = [call EXCEPT !.tmp = NextOf(mem, call.tmp)]
  /\ UNCHANGED <<mem, free_head, live>>

(* The rest of the block becomes a free block of its own; the footer goes  *)
(* to t + size, HDR_SIZE short of the end of the block.                    *)
NewFree(t, sz) == t + HDR_SIZE + sz + FTR_SIZE

(* Mutant of Split: the footer of block t is not taken off what remains.   *)
SplitForgetsFooter(m, t, sz) ==
  LET new == NewFree(t, sz)
      m1  == SetPrev(SetFree(m, new, TRUE), new, PrevOf(m, t))
      m2  == SetNext(m1, new, NextOf(m1, t))
      m3  == SetSize(m2, new, SizeOf(m2, t) - sz - HDR_SIZE)
      m4  == Store(m3, t + SizeOf(m3, t), new)
  IN  SetSize(m4, t, sz)

Split(m, t, sz) ==
  LET new == NewFree(t, sz)
      m1  == SetPrev(SetFree(m, new, TRUE), new, PrevOf(m, t))
      m2  == SetNext(m1, new, NextOf(m1, t))
      m3  == SetSize(m2, new, SizeOf(m2, t) - sz - HDR_SIZE - FTR_SIZE)
      m4  == Store(m3, t + SizeOf(m3, t), new)
  IN  SetSize(m4, t, sz)

(* Mutant of Take: the block stays marked free.                            *)
TakeLeavesFree(m, t, sz) ==
  LET m2 == IF PrevOf(m, t) # NULL THEN SetNext(m, PrevOf(m, t), NextOf(m, t)) ELSE m
      m3 == IF NextOf(m2, t) # NULL THEN SetPrev(m2, NextOf(m2, t), PrevOf(m2, t)) ELSE m2
      m4 == SetPrev(SetNext(m3, t, NULL), t, NULL)
  IN  Store(m4, t + HDR_SIZE + sz, t)

(* Marks block t used, takes it out of the list and writes its footer.     *)
Take(m, t, sz) ==
  LET m1 == SetFree(m, t, FALSE)
      m2 == IF PrevOf(m1, t) # NULL THEN SetNext(m1, PrevOf(m1, t), NextOf(m1, t)) ELSE m1
      m3 == IF NextOf(m2, t) # NULL THEN SetPrev(m2, NextOf(m2, t), PrevOf(m2, t)) ELSE m2
      m4 == SetPrev(SetNext(m3, t, NULL), t, NULL)
  IN  Store(m4, t + HDR_SIZE + sz, t)

(* Mutant of HeadAfter: an exact fit does not move the head.               *)
HeadAfterSplitOnly(t, sz) ==
  IF t = free_head /\ Below(sz, SizeOf(mem, t)) THEN NewFree(t, sz) ELSE free_head

(* Mutant of HeadAfter: an exact fit moves the head to prev, not to next.  *)
HeadAfterPrev(t, sz) ==
  IF t # free_head THEN free_head
  ELSE IF Below(sz, SizeOf(mem, t)) THEN NewFree(t, sz)
  ELSE PrevOf(mem, t)

HeadAfter(t, sz) ==
  IF t # free_head THEN free_head
  ELSE IF Below(sz, SizeOf(mem, t)) THEN NewFree(t, sz)
  ELSE NextOf(mem, t)

MallocTake ==
  /\ call.at = "malloc" /\ InReach(call.tmp)
  /\ LET t     == call.tmp
         sz    == call.sz
         split == Below(sz, SizeOf(mem, t))
     IN  /\ ~Below(SizeOf(mem, t), sz)
         /\ mem' = Take(IF split THEN Split(mem, t, sz) ELSE mem, t, sz)
         /\ free_head' = HeadAfter(t, sz)
         /\ Return(t + HDR_SIZE)
         /\ live' = live (+) SetToBag({[ptr |-> t + HDR_SIZE, size |-> sz]})

-----------------------------------------------------------------------------
(* ph_free                                                                 *)

CallFree(ptr) ==
  /\ call.at = "idle"
  /\ IF ptr = NULL \/ Below(HEAP_END, ptr) \/ Below(ptr, HEAP_BEGIN)
     THEN Return(NULL) /\ UNCHANGED <<mem, live>>
     ELSE /\ mem' = SetFree(mem, ptr - HDR_SIZE, TRUE)
          /\ live' = live (-) SetToBag({b \in BlocksInUse : b.ptr = ptr})
          /\ call' = [Idle EXCEPT !.at = "coalesce", !.hdr = ptr - HDR_SIZE,
                                  !.tmp = Load(mem, ptr - HDR_SIZE - FTR_SIZE)]
  /\ UNCHANGED free_head

(* Mutant of Mergeable: the block before may be in use.                    *)
MergeableInUse == call.tmp # NULL /\ ~Below(call.tmp, free_head) /\ call.hdr # NULL

(* The block before (call.tmp) is free too.                                *)
Mergeable == /\ call.tmp # NULL /\ ~Below(call.tmp, free_head)
             /\ call.hdr # NULL /\ IsFree(mem, call.tmp)

FreeMerge ==
  /\ call.at = "coalesce" /\ Mergeable
  /\ LET h  == call.hdr
         p  == call.tmp
         m1 == SetNext(mem, p, NextOf(mem, h))
         m2 == SetPrev(m1, p, PrevOf(m1, h))
         m3 == Store(m2, h + HDR_SIZE + SizeOf(m2, h), p)
         m4 == SetSize(m3, p, SizeOf(m3, p) + SizeOf(m3, h) + HDR_SIZE + FTR_SIZE)
     IN  /\ mem' = m4
         /\ call' = [call EXCEPT !.hdr = p, !.tmp = Load(m4, p - FTR_SIZE)]
  /\ UNCHANGED <<free_head, live>>

(* Mutants of First: every block is put first, and none but HEAP_BEGIN is. *)
FirstAlways(h) == TRUE
FirstAtBeginOnly(h) == h = HEAP_BEGIN

First(h) == h = HEAP_BEGIN \/ Below(h, free_head)

FreePush ==
  /\ call.at = "coalesce" /\ ~Mergeable /\ First(call.hdr)
  /\ mem' = SetNext(mem, call.hdr, free_head)
  /\ free_head' = call.hdr
  /\ Return(NULL)
  /\ UNCHANGED live

FreeSearch ==
  /\ call.at = "coalesce" /\ ~Mergeable /\ ~First(call.hdr)
  /\ call' = [call EXCEPT !.at = "insert", !.tmp = free_head]
  /\ UNCHANGED <<mem, free_head, live>>

FreeInsert ==
  /\ call.at = "insert"
  /\ LET h == call.hdr
         t == call.tmp
         between == t # NULL /\ Below(t, h) /\ Below(h, NextOf(mem, t))
         m1 == SetNext(SetPrev(mem, h, t), h, NextOf(mem, t))
         m2 == SetNext(m1, t, h)
     IN  IF t = NULL THEN Return(NULL) /\ UNCHANGED mem
         ELSE IF between THEN /\ mem' = SetPrev(m2, NextOf(m2, h), h)
                              /\ Return(NULL)
         ELSE call' = [call EXCEPT !.tmp = NextOf(mem, t)] /\ UNCHANGED mem
  /\ UNCHANGED <<free_head, live>>

HeapStep == \/ MallocNull \/ MallocSkip \/ MallocTake
            \/ FreeMerge \/ FreePush \/ FreeSearch \/ FreeInsert

(* A loop of the heap that has come round to where it was: its next step   *)
(* is a stutter, and so are all that follow.                               *)
Spinning ==
  /\ call.tmp # NULL /\ NextOf(mem, call.tmp) = call.tmp
  /\ \/ call.at = "malloc" /\ InReach(call.tmp) /\ Below(SizeOf(mem, call.tmp), call.sz)
     \/ call.at = "insert"

-----------------------------------------------------------------------------
(* Properties of the heap, whoever calls it.                               *)

HeapTypeOK ==
  /\ \A a \in DOMAIN mem : a \in HEAP_BEGIN..HEAP_END-1 /\ mem[a] \in 0..255
  /\ call.at \in {"idle", "malloc", "coalesce", "insert"}

(* The free list, followed for MaxBlocks blocks; NULL after its end.       *)
ListAt[n \in 0..MaxBlocks] ==
  IF n = 0 THEN free_head
  ELSE LET h == ListAt[n - 1] IN IF h = NULL THEN NULL ELSE NextOf(mem, h)
FreeBlocks == {ListAt[n] : n \in 0..MaxBlocks} \ {NULL}

(* Where the blocks begin and end, header and footer included.             *)
Extent(h, size) == [from |-> h, to |-> h + HDR_SIZE + size + FTR_SIZE]
Apart(x, y) == x.to <= y.from \/ y.to <= x.from
FreeExtents == {Extent(h, SizeOf(mem, h)) : h \in FreeBlocks}
LiveExtents == {Extent(b.ptr - HDR_SIZE, b.size) : b \in BlocksInUse}

(* phy_mem_mgr.h: the size of a block excludes its header and footer.  So  *)
(* every block on the free list lies in the heap with both of them, and    *)
(* touches no other free block and no block in use.                        *)
FreeBlocksFit ==
  call.at = "idle" =>
    /\ \A h \in FreeBlocks : SizeOf(mem, h) >= 0
    /\ \A x \in FreeExtents :
         /\ HEAP_BEGIN <= x.from /\ x.to <= HEAP_END
         /\ \A y \in FreeExtents \cup LiveExtents : x = y \/ Apart(x, y)

(* Between calls the free list ends, runs upwards in memory, and holds     *)
(* only blocks marked free: what ph_malloc's walk and ph_free's search for *)
(* the place between two free blocks rely on.                              *)
FreeListSorted ==
  call.at = "idle" =>
    /\ ListAt[MaxBlocks] = NULL
    /\ \A h \in FreeBlocks : IsFree(mem, h)
    /\ \A n \in 1..MaxBlocks : ListAt[n] # NULL => ListAt[n - 1] < ListAt[n]

(* No call writes over the header or the footer of a block in use.         *)
LiveIntact ==
  \A b \in BlocksInUse :
    LET h == b.ptr - HDR_SIZE
    IN  /\ SizeOf(mem, h) = b.size /\ ~IsFree(mem, h)
        /\ Load(mem, b.ptr + b.size) = h

(* ph_free, on combining "consecutive free slots": a block is merged only  *)
(* into the block that ends where it begins.                               *)
MergesConsecutive ==
  [][FreeMerge => Extent(call.tmp, SizeOf(mem, call.tmp)).to = call.hdr]_heapVars

(* ph_malloc and ph_free return: no walk of the list goes round for ever.  *)
CallsReturn == call.at # "idle" ~> call.at = "idle"
=============================================================================
