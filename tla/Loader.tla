------------------------------- MODULE Loader -------------------------------
(***************************************************************************)
(* load_proc.c and vfs.c, as pong runs them: take four frames, copy the    *)
(* floppy into the first one sector by sector, patch the code, start it.   *)
(* Memory is modelled by sectors: which sector of the floppy each holds.   *)
(* The requests to the kernel heap are in module PongHeap, the floppy      *)
(* controller in Floppy, its interrupts in Interrupts, tasks in PongTask.  *)
(* Here a read is its outcome.                                             *)
(***************************************************************************)
EXTENDS Frames, FiniteSets

CONSTANTS
  MaxPongs,   \* bound: the pong commands typed
  MaxErrors   \* bound: the reads that fail

ASSUME LoaderAssumption == MaxPongs \in Nat /\ MaxErrors \in Nat

SECTOR     == 512       \* buf_len
IMAGE_SIZE == 4096      \* 0x1000, what load reads
CODE_BASE  == 4194304   \* 0x400000, what load patches

UInt16 == {n \in Nat : n < 65536}

VARIABLES
  pc,        \* where load is, "bsy_loop" or "task" outside it
  pongs,     \* pong commands so far
  vas,       \* what the running pong's vas_t holds
  buf, idx, total_bytes_read,   \* load's loop
  image,     \* the sectors of the floppy this load has read, and where to
  patched,   \* the sectors that hold load's patch of the call of printf
  errors,    \* reads that failed
  given      \* history: the frames each pong was given, with their pong

loop == <<buf, idx, total_bytes_read>>
vars == <<UMEM_BITMAP, pc, pongs, vas, loop, image, patched, errors, given>>

-----------------------------------------------------------------------------
Fields == {"code_begin", "global_begin", "heap_begin", "stack_begin"}

Init ==
  /\ FramesInit
  /\ pc = "bsy_loop" /\ pongs = 0
  /\ vas = [v \in Fields |-> NULL]
  /\ buf = NULL /\ idx = 0 /\ total_bytes_read = 0
  /\ image = {} /\ patched = {}
  /\ errors = 0
  /\ given = {}

Pong ==
  /\ pc = "bsy_loop" /\ pongs < MaxPongs
  /\ pc' = "code_begin"
  /\ pongs' = pongs + 1
  /\ image' = {}
  /\ UNCHANGED <<UMEM_BITMAP, vas, loop, patched, errors, given>>

(* vas->field = ph_frame_alloc(), not tested for NULL; the stack begins at *)
(* the end of its frame.                                                   *)
TakeFrame(field) ==
  /\ MarkFrame
  /\ vas' = [vas EXCEPT ![field] = FrameAllocated +
               IF field = "stack_begin" THEN FRAME_SIZE ELSE 0]
  /\ given' = IF FrameAllocated = NULL THEN given
              ELSE given \cup {[pong |-> pongs, field |-> field, frame |-> FrameAllocated]}

After == [code_begin |-> "global_begin", global_begin |-> "heap_begin",
          heap_begin |-> "stack_begin"]

Allocate(field) ==
  /\ pc = field
  /\ TakeFrame(field)
  /\ pc' = After[field]
  /\ UNCHANGED <<pongs, loop, image, patched, errors>>

AllocateStack ==
  /\ pc = "stack_begin"
  /\ TakeFrame("stack_begin")
  /\ pc' = "read"
  /\ buf' = vas.code_begin /\ idx' = 0 /\ total_bytes_read' = IMAGE_SIZE
  /\ UNCHANGED <<pongs, image, patched, errors>>

(* Mutant of Advance: a read that failed is given up for the next sector   *)
(* of the floppy, and that one goes where the first should have gone.      *)
AdvanceOnSuccess(bytes_read) ==
  /\ idx' = (idx + 1) % 65536
  /\ buf' = IF bytes_read < 0 THEN buf ELSE buf + SECTOR

(* idx++ and buf += buf_len, whatever the read returned.                   *)
Advance(bytes_read) ==
  /\ idx' = (idx + 1) % 65536
  /\ buf' = buf + SECTOR

(* Mutant of Remaining: a read that failed counts as a sector.             *)
RemainingAfterAny(bytes_read) == total_bytes_read - SECTOR

(* What read returned is taken off, an error code (-1 or -2) as well.      *)
Remaining(bytes_read) == total_bytes_read - bytes_read

Read(bytes_read) ==
  /\ pc = "read"
  /\ Advance(bytes_read)
  /\ total_bytes_read' = Remaining(bytes_read)
  /\ pc' = IF total_bytes_read' > 0 THEN "read" ELSE "patch"
  /\ UNCHANGED <<UMEM_BITMAP, pongs, vas, given>>

(* fpc_read copies the sector only when nothing failed.                    *)
ReadSector ==
  /\ Read(SECTOR)
  /\ image' = {s \in image : s.at # buf} \cup {[at |-> buf, lba |-> idx]}
  /\ patched' = patched \ {buf}
  /\ UNCHANGED errors

ReadError(code) ==
  /\ errors < MaxErrors
  /\ Read(code)
  /\ errors' = errors + 1
  /\ UNCHANGED <<image, patched>>

(* The call of printf is patched at an absolute address.                   *)
Patch ==
  /\ pc = "patch" /\ pc' = "start"
  /\ patched' = patched \cup {CODE_BASE}
  /\ UNCHANGED <<UMEM_BITMAP, pongs, vas, loop, image, errors, given>>

(* create_task writes the first stack frame of the task, switch_task goes  *)
(* to it.                                                                  *)
StartTask ==
  /\ pc = "start" /\ pc' = "task"
  /\ image' = {s \in image : s.at # vas.stack_begin - SECTOR}
  /\ UNCHANGED <<UMEM_BITMAP, pongs, vas, loop, patched, errors, given>>

TaskEnds ==
  /\ pc = "task" /\ pc' = "bsy_loop"
  /\ UNCHANGED <<UMEM_BITMAP, pongs, vas, loop, image, patched, errors, given>>

BsyLoop == pc = "bsy_loop" /\ UNCHANGED vars

Next ==
  \/ Pong
  \/ \E field \in Fields \ {"stack_begin"} : Allocate(field)
  \/ AllocateStack
  \/ ReadSector
  \/ \E code \in {-1, -2} : ReadError(code)
  \/ Patch \/ StartTask \/ TaskEnds \/ BsyLoop

Spec == Init /\ [][Next]_vars

-----------------------------------------------------------------------------
(* Properties.                                                             *)

TypeOK ==
  /\ UMEM_BITMAP \subseteq Nat
  /\ \A n \in UMEM_BITMAP : n \div 8 < UMEM_BITMAP_SZ
  /\ pc \in Fields \cup {"bsy_loop", "read", "patch", "start", "task"}
  /\ pongs \in 0..MaxPongs /\ errors \in 0..MaxErrors
  /\ vas \in [Fields -> Int]
  /\ buf \in Int /\ idx \in UInt16 /\ total_bytes_read \in Int
  /\ image \subseteq [at : Int, lba : UInt16]
  /\ patched \subseteq {CODE_BASE}
  /\ given \subseteq [pong : 1..MaxPongs, field : Fields, frame : Nat \ {NULL}]

(* ph_frame_alloc hands no frame out twice, to one process or to two, and  *)
(* the bit of every frame handed out stays set.                            *)
FramesExclusive ==
  /\ \A g, h \in given : g.frame = h.frame => g = h
  /\ \A g \in given : \E n \in UMEM_BITMAP : g.frame = Frame(n)

(* load: whatever reads failed, sector idx of the floppy lies idx sectors  *)
(* into the code frame, or nothing was written there.                      *)
SectorInPlace ==
  \A s \in image : s.at = vas.code_begin + SECTOR * s.lba

(* load starts no code before it has read as many bytes as it set out to   *)
(* read, failed reads not counted.                                         *)
LoadedBeforeRun ==
  pc = "task" /\ vas.code_begin # NULL =>
    Cardinality(image) * SECTOR >= IMAGE_SIZE

(* load runs past its code frame when a read fails ("ideally change frames *)
(* after 4KB"); what it writes there stays within frames of its own.       *)
WritesOwnFrames ==
  LET own == {g \in given : g.pong = pongs}
  IN  own # {} => \A s \in image : \E g \in own :
                    g.frame <= s.at /\ s.at < g.frame + FRAME_SIZE

(* load_proc.c: "copy device contents in allocated frames".  A task that   *)
(* starts finds the first sectors of the floppy in its code frame.         *)
ImageComplete ==
  pc = "task" /\ vas.code_begin # NULL =>
    \A i \in 0 .. IMAGE_SIZE \div SECTOR - 1 :
      [at |-> vas.code_begin + SECTOR * i, lba |-> i] \in image

(* load_proc.c, on vas->code_begin: "0x400000".  The code that load        *)
(* patches is the code it has loaded.                                      *)
PatchesOwnCode ==
  pc = "task" /\ vas.code_begin # NULL => vas.code_begin \in patched

(* phy_mem_mgr.c, on UMEM_BITMAP: "max size of bitmap is 128 -> 128*8 =    *)
(* 1024 pages".  No bit beyond those of the array is ever set.             *)
BitmapWithinArray == \A n \in UMEM_BITMAP : n < 128 * 8
=============================================================================
