------------------------------ MODULE SlotHeap ------------------------------
(***************************************************************************)
(* The kernel heap under a client that takes and returns blocks of one     *)
(* size in any order, after kernel_main has taken the kernel's PCB, which  *)
(* it keeps.  The client also asks for more than any free block holds.     *)
(***************************************************************************)
EXTENDS KernelHeap

CONSTANTS
  Slots,        \* the client's pointer variables
  KernelTask,   \* kernel_main's
  SIZE,         \* the size asked for
  TOO_BIG       \* the size that no free block holds

ASSUME SlotHeapAssumption ==
  /\ SIZE \in Nat /\ TOO_BIG \in Nat /\ SIZE < TOO_BIG
  /\ KernelTask \notin Slots

Variables == Slots \cup {KernelTask}
None == -1

VARIABLES
  slot,      \* what each pointer variable holds
  waiting    \* the pointer variable the running ph_malloc is for, or None

vars == <<heapVars, slot, waiting>>

Init ==
  /\ HeapInit
  /\ slot = [s \in Variables |-> NULL]
  /\ waiting = None

Request(s) ==
  /\ waiting = None /\ slot[s] = NULL
  /\ s = KernelTask \/ slot[KernelTask] # NULL
  /\ CallMalloc(SIZE)
  /\ waiting' = s
  /\ UNCHANGED slot

RequestTooBig ==
  /\ waiting = None /\ slot[KernelTask] # NULL
  /\ \A h \in FreeBlocks : SizeOf(mem, h) < TOO_BIG
  /\ CallMalloc(TOO_BIG)
  /\ UNCHANGED <<slot, waiting>>

Obtain ==
  /\ waiting # None /\ call.at = "idle"
  /\ slot' = [slot EXCEPT ![waiting] = call.ret]
  /\ waiting' = None
  /\ UNCHANGED heapVars

Release(s) ==
  /\ waiting = None /\ slot[s] # NULL
  /\ CallFree(slot[s])
  /\ slot' = [slot EXCEPT ![s] = NULL]
  /\ UNCHANGED waiting

HeapRuns == HeapStep /\ UNCHANGED <<slot, waiting>>

Next ==
  \/ \E s \in Variables : Request(s)
  \/ \E s \in Slots : Release(s)
  \/ RequestTooBig \/ Obtain \/ HeapRuns

(* The CPU finishes what it runs.  This is WF_vars(HeapRuns) with ENABLED  *)
(* spelled out: HeapStep steps inside every call, unless it spins.         *)
Fairness == \/ []<>(call.at = "idle" \/ Spinning)
            \/ []<><<HeapRuns>>_vars

Spec == Init /\ [][Next]_vars /\ Fairness

-----------------------------------------------------------------------------
(* Every pointer the client holds is a block in use, and no two variables  *)
(* hold one block.                                                         *)
PointersValid ==
  /\ \A s \in Variables : slot[s] # NULL => \E b \in BlocksInUse : b.ptr = slot[s]
  /\ \A s, t \in Variables : slot[s] # NULL /\ slot[s] = slot[t] => s = t

Abstract == INSTANCE Allocator WITH Arena <- HEAP_BEGIN..HEAP_END-1, Sizes <- {SIZE}
ImplementsAllocator == Abstract!Spec
=============================================================================
