------------------------------ MODULE PongHeap ------------------------------
(***************************************************************************)
(* How the kernel uses its heap: kernel_main takes and returns the memory  *)
(* map and keeps its own PCB, and every pong command takes a file, an      *)
(* address space and a PCB and returns the file and the PCB.  The address  *)
(* space is never returned, so each pong leaves the heap a little fuller.  *)
(***************************************************************************)
EXTENDS KernelHeap, Sequences

CONSTANTS
  MaxPongs,   \* bound: the pong commands typed
  MemoryMaps  \* the memory maps GRUB may report: the type of each region

FREE_REGION == 1

ASSUME PongHeapAssumption ==
  /\ MaxPongs \in Nat
  /\ \A map \in MemoryMaps : map \in Seq(Nat) /\ Len(map) <= 16

None == -1

VARIABLES
  pc,         \* the next call of kernel_main or pong
  ptr,        \* what each pointer variable of the callers holds
  pongs,      \* pong commands so far
  regions,    \* the memory map of this machine
  region,     \* the region get_free_mem_region looks at next
  dma_reg     \* the region kernel_main found for DMA, or None

memoryMap == <<regions, region, dma_reg>>
vars == <<heapVars, pc, ptr, pongs, memoryMap>>

-----------------------------------------------------------------------------
(* The callers' types: their sizes, and the bytes the callers write.       *)

Pointers == {"mem_info", "kernel_task", "f", "vas", "task"}
SizeFor == [mem_info |-> 385, kernel_task |-> 16, f |-> 24, vas |-> 16, task |-> 16]
Written == [mem_info |-> 0 .. 24 * Len(regions), kernel_task |-> 0..15,
            f |-> 8..11 \cup 16..23, vas |-> 0..15, task |-> 0..15]

Init ==
  /\ HeapInit
  /\ pc = "malloc mem_info"
  /\ ptr = [v \in Pointers |-> NULL]
  /\ pongs = 0
  /\ regions \in MemoryMaps /\ region = 1 /\ dma_reg = None

Call(here, there, v) ==
  /\ pc = here /\ pc' = there
  /\ CallMalloc(SizeFor[v])
  /\ UNCHANGED <<ptr, pongs, memoryMap>>

(* No caller tests for NULL; what it writes through NULL misses the heap.  *)
Obtain(here, there, v) ==
  /\ pc = here /\ pc' = there
  /\ call.at = "idle"
  /\ ptr' = [ptr EXCEPT ![v] = call.ret]
  /\ mem' = [a \in DOMAIN mem \ {call.ret + i : i \in Written[v]} |-> mem[a]]
  /\ UNCHANGED <<free_head, call, live, pongs, memoryMap>>

Release(here, there, v) ==
  /\ pc = here /\ pc' = there
  /\ CallFree(ptr[v])
  /\ UNCHANGED <<ptr, pongs, memoryMap>>

(* The loop of get_free_mem_region, one region a step.  Regions are        *)
(* counted from 0 and the first one is passed over; if none of the others  *)
(* is free, the number returned is no region's.                            *)
GetFreeMemRegion ==
  /\ pc = "get_free_mem_region"
  /\ \/ /\ region < Len(regions) /\ regions[region + 1] # FREE_REGION
        /\ region' = region + 1
        /\ UNCHANGED <<pc, dma_reg>>
     \/ /\ region < Len(regions) /\ regions[region + 1] = FREE_REGION
        /\ dma_reg' = region /\ pc' = "free mem_info"
        /\ UNCHANGED region
     \/ /\ region >= Len(regions)
        /\ dma_reg' = Len(regions) + 1 /\ pc' = "free mem_info"
        /\ UNCHANGED region
  /\ UNCHANGED <<heapVars, ptr, pongs, regions>>

KernelMain ==
  \/ Call("malloc mem_info", "mem_info =", "mem_info")
  \/ Obtain("mem_info =", "get_free_mem_region", "mem_info")
  \/ GetFreeMemRegion
  \/ Release("free mem_info", "malloc kernel_task", "mem_info")
  \/ Call("malloc kernel_task", "kernel_task =", "kernel_task")
  \/ Obtain("kernel_task =", "bsy_loop", "kernel_task")

PongCommand ==
  /\ pc = "bsy_loop" /\ call.at = "idle" /\ pongs < MaxPongs
  /\ pc' = "malloc f"
  /\ pongs' = pongs + 1
  /\ UNCHANGED <<heapVars, ptr, memoryMap>>

Pong ==
  \/ Call("malloc f", "f =", "f")
  \/ Obtain("f =", "malloc vas", "f")
  \/ Call("malloc vas", "vas =", "vas")
  \/ Obtain("vas =", "malloc task", "vas")
  \/ Call("malloc task", "task =", "task")
  \/ Obtain("task =", "free f", "task")
  \/ Release("free f", "free task", "f")
  \/ Release("free task", "bsy_loop", "task")

BsyLoop == pc = "bsy_loop" /\ UNCHANGED vars

HeapRuns == HeapStep /\ UNCHANGED <<pc, ptr, pongs, memoryMap>>

Next == KernelMain \/ PongCommand \/ Pong \/ BsyLoop \/ HeapRuns

Spec == Init /\ [][Next]_vars

-----------------------------------------------------------------------------
(* Properties.                                                             *)

TypeOK ==
  /\ HeapTypeOK
  /\ pongs \in 0..MaxPongs
  /\ \A b \in BlocksInUse : \E v \in Pointers : b.size = SizeFor[v]

(* The blocks in use and on the free list are the whole heap: what the     *)
(* callers gave back can be handed out again.                              *)
NothingLost ==
  call.at = "idle" =>
    LET blocks == FreeExtents \cup LiveExtents
    IN  \A a \in HEAP_BEGIN..HEAP_END-1 : \E x \in blocks : x.from <= a /\ a < x.to

(* kernel_main and pong write through what ph_malloc returns without a     *)
(* test for NULL: none of their requests is refused.                       *)
RequestsMet == [][~MallocNull]_vars

(* The heap keeps the promise of module Allocator.                         *)
Abstract == INSTANCE Allocator
  WITH Arena <- HEAP_BEGIN..HEAP_END-1,
       Sizes <- {SizeFor[v] : v \in Pointers}
ImplementsAllocator == Abstract!Spec
=============================================================================
