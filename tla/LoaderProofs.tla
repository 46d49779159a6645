---------------------------- MODULE LoaderProofs ----------------------------
(***************************************************************************)
(* Proofs about module Loader, for every length of user memory, any number *)
(* of pong commands.  FInv holds because frames are handed out in          *)
(* ascending order, four at a time.  LInv adds what load reads, for up to  *)
(* 22 failed reads: each lets load read at most 514 bytes further than it  *)
(* would have.                                                             *)
(***************************************************************************)
EXTENDS Loader, FiniteSetTheorems, TLAPS

(* With 23 failed reads the last sector may reach the stack's first words, *)
(* with 24 the frames of the next process.                                 *)
FewErrors == MaxErrors <= 22

NumFrames == 8 * UMEM_BITMAP_SZ

(* The place of each frame among the four of its process.                  *)
Place == [code_begin |-> 0, global_begin |-> 1, heap_begin |-> 2, stack_begin |-> 3]
Base  == 4 * (pongs - 1)
Count == IF pongs = 0 THEN 0 ELSE Base + (IF pc \in Fields THEN Place[pc] ELSE 4)
Index(g) == 4 * (g.pong - 1) + Place[g.field]
Entry(field) == [pong |-> pongs, field |-> field, frame |-> Frame(Base + Place[field])]

PCs == Fields \cup {"bsy_loop", "read", "patch", "start", "task"}

Types ==
  /\ pc \in PCs
  /\ pongs \in 0..MaxPongs /\ errors \in 0..MaxErrors
  /\ vas \in [Fields -> Int]
  /\ buf \in Int /\ idx \in UInt16 /\ total_bytes_read \in Int
  /\ patched \subseteq {CODE_BASE}
  /\ pongs = 0 => pc = "bsy_loop"

ImageType == image \subseteq [at : Int, lba : UInt16]

Ascending == UMEM_BITMAP = {n \in FrameNumbers : n < Count}

GivenFrames ==
  /\ \A g \in given :
       /\ g \in [pong : 1..pongs, field : Fields, frame : Nat \ {NULL}]
       /\ Index(g) < Count /\ Index(g) < NumFrames /\ g.frame = Frame(Index(g))
  /\ pongs > 0 => \A field \in Fields :
       Base + Place[field] < Count /\ Base < NumFrames => Entry(field) \in given

VasFrames ==
  pongs > 0 =>
    /\ pc # "code_begin" =>
         vas.code_begin = IF Base < NumFrames THEN Frame(Base) ELSE NULL
    /\ pc \notin Fields =>
         vas.stack_begin =
           (IF Base < NumFrames THEN Frame(Base + 3) ELSE NULL) + FRAME_SIZE

Sectors ==
  /\ IsFiniteSet(image)
  /\ pc \in Fields \/ pongs = 0 => image = {}
  /\ \A s \in image : /\ s \in [at : Int, lba : 0..30]
                      /\ s.at = vas.code_begin + SECTOR * s.lba

Reading ==
  /\ pc = "read" =>
       /\ buf = vas.code_begin + SECTOR * idx
       /\ total_bytes_read > 0
       /\ total_bytes_read + SECTOR * idx <= IMAGE_SIZE + 514 * errors
       /\ \A s \in image : s.lba < idx
       /\ total_bytes_read + SECTOR * Cardinality(image) >= IMAGE_SIZE
  /\ pc \in {"patch", "start"} => SECTOR * Cardinality(image) >= IMAGE_SIZE
  /\ pc = "task" /\ vas.code_begin # NULL =>
       SECTOR * Cardinality(image) >= IMAGE_SIZE

FInv == Types /\ ImageType /\ Ascending /\ GivenFrames /\ VasFrames
LInv == FInv /\ Sectors /\ Reading

-----------------------------------------------------------------------------
LEMMA FrameArithmetic ==
  /\ UMEM_BITMAP_SZ \in Nat /\ NumFrames \in Nat
  /\ FrameNumbers = 0 .. NumFrames - 1
  /\ \A m, n \in Nat : Frame(n) \in Nat \ {NULL} /\ (Frame(m) = Frame(n) => m = n)
  /\ \A m, n \in Nat : Frame(m + n) = Frame(m) + 4096 * n
<1>1. UMEM_BITMAP_SZ \in Nat
  <2> DEFINE q == ((UMEM_SIZE - 1) \div 4096) \div 8
  <2>1. q \in Int
    BY FramesAssumption
  <2>2. q % 256 \in 0..255
    BY <2>1
  <2> QED BY <2>2 DEF UMEM_BITMAP_SZ, FRAME_SIZE
<1>2. NumFrames \in Nat
  BY <1>1 DEF NumFrames
<1>3. FrameNumbers = 0 .. NumFrames - 1
  BY DEF FrameNumbers, NumFrames
<1>4. \A m, n \in Nat : Frame(n) \in Nat \ {NULL} /\ (Frame(m) = Frame(n) => m = n)
  BY FramesAssumption DEF Frame, FRAME_SIZE, NULL
<1>5. \A m, n \in Nat : Frame(m + n) = Frame(m) + 4096 * n
  BY FramesAssumption DEF Frame, FRAME_SIZE
<1> QED BY <1>1, <1>2, <1>3, <1>4, <1>5

(* ph_frame_alloc, when the frames below c are those in use.               *)
LEMMA AllocateNext ==
  ASSUME NEW c \in Nat, UMEM_BITMAP = {n \in FrameNumbers : n < c}
  PROVE  /\ FrameAllocated = IF c < NumFrames THEN Frame(c) ELSE NULL
         /\ MarkFrame => UMEM_BITMAP' = {n \in FrameNumbers : n < c + 1}
<1>1. Unused = {n \in FrameNumbers : n >= c}
  BY FrameArithmetic DEF Unused
<1>2. CASE c < NumFrames
  <2>1. c \in Unused /\ \A m \in Unused : c <= m
    BY <1>1, <1>2, FrameArithmetic
  <2>2. Unused \subseteq Nat
    BY <1>1, FrameArithmetic
  <2>3. \A n \in Unused : (\A m \in Unused : n <= m) => n = c
    BY <2>1, <2>2
  <2>4. \E n \in Unused : \A m \in Unused : n <= m
    BY <2>1
  <2>5. FirstUnused \in Unused /\ \A m \in Unused : FirstUnused <= m
    BY <2>4, ZenonT(30) DEF FirstUnused
  <2>6. FirstUnused = c
    BY <2>3, <2>5
  <2>7. {n \in FrameNumbers : n < c} \cup {c} = {n \in FrameNumbers : n < c + 1}
    BY <1>2, FrameArithmetic
  <2> QED BY <1>2, <2>1, <2>6, <2>7 DEF FrameAllocated, MarkFrame
<1>3. CASE ~(c < NumFrames)
  <2>1. Unused = {}
    BY <1>1, <1>3, FrameArithmetic
  <2>2. {n \in FrameNumbers : n < c} = {n \in FrameNumbers : n < c + 1}
    BY <1>3, FrameArithmetic
  <2> QED BY <1>3, <2>1, <2>2 DEF FrameAllocated, MarkFrame
<1> QED BY <1>2, <1>3

(* What the arithmetic of frames and sectors comes to while pong runs.     *)
LEMMA Counts ==
  ASSUME Types
  PROVE  /\ Base \in Int /\ Count \in Nat
         /\ pongs > 0 => Base \in Nat
         /\ \A field \in Fields : Place[field] \in 0..3
         /\ \A f, g \in Fields : Place[f] = Place[g] => f = g
         /\ Base < NumFrames => Base + 3 < NumFrames
<1>1. pongs \in Nat /\ pongs \in Int
  BY LoaderAssumption DEF Types
<1>2. \A field \in Fields : Place[field] \in 0..3
  BY DEF Place, Fields
<1>3. \A f, g \in Fields : Place[f] = Place[g] => f = g
  BY DEF Place, Fields
<1>4. Base \in Int /\ (pongs > 0 => Base \in Nat)
  BY <1>1 DEF Base
<1>5. Count \in Nat
  BY <1>1, <1>2, <1>4 DEF Count
<1>6. Base < NumFrames => Base + 3 < NumFrames
  BY <1>1, FrameArithmetic DEF Base, NumFrames
<1> QED BY <1>2, <1>3, <1>4, <1>5, <1>6

LEMMA InitLInv == Init => LInv
<1> SUFFICES ASSUME Init PROVE LInv
  OBVIOUS
<1>1. Types
  BY LoaderAssumption DEF Init, Types, PCs, Fields, NULL, UInt16
<1>2. ImageType /\ Ascending /\ GivenFrames /\ VasFrames
  <2>1. Count = 0
    BY DEF Init, Count
  <2>2. \A n \in FrameNumbers : ~(n < 0)
    BY FrameArithmetic
  <2> QED BY <2>1, <2>2 DEF Init, FramesInit, ImageType, Ascending, GivenFrames, VasFrames
<1>3. Sectors /\ Reading
  BY FS_EmptySet DEF Init, Sectors, Reading
<1> QED BY <1>1, <1>2, <1>3 DEF FInv, LInv

LEMMA PongFrames == FInv /\ Pong => FInv'
<1> SUFFICES ASSUME FInv, Pong PROVE FInv'
  OBVIOUS
<1> USE DEF FInv
<1>1. pongs \in Nat /\ pongs' = pongs + 1 /\ pc' = "code_begin"
  BY LoaderAssumption DEF Pong, Types
<1>2. Types'
  BY LoaderAssumption DEF Pong, Types, PCs, Fields, loop
<1>3. Count' = Count /\ Base' + 0 = Count'
  BY <1>1 DEF Pong, Count, Base, Place, Fields, Types
<1>4. Ascending'
  BY <1>3 DEF Pong, Ascending, FrameNumbers, UMEM_BITMAP_SZ
<1>5. GivenFrames'
  <2>1. \A field \in Fields : ~(Base' + Place[field] < Count')
    <3>1. Base' \in Int
      BY <1>1 DEF Base
    <3> QED BY <3>1, <1>3, Counts
  <2>2. \A g \in given' :
          /\ g \in [pong : 1..pongs', field : Fields, frame : Nat \ {NULL}]
          /\ Index(g) < Count' /\ Index(g) < NumFrames /\ g.frame = Frame(Index(g))
    BY <1>1, <1>3 DEF Pong, GivenFrames
  <2> QED BY <2>1, <2>2 DEF GivenFrames, Place, Index, NumFrames, UMEM_BITMAP_SZ, Frame
<1>6. VasFrames'
  BY <1>1 DEF VasFrames, Fields
<1>7. ImageType'
  BY DEF Pong, ImageType
<1> QED BY <1>2, <1>4, <1>5, <1>6, <1>7

(* The four frames of a process are taken one behind the other, as long as *)
(* there are frames.                                                       *)
LEMMA FrameTaken ==
  ASSUME FInv, NEW field \in Fields, pc = field, TakeFrame(field), pongs' = pongs,
         pc' = IF field = "stack_begin" THEN "read" ELSE After[field]
  PROVE  Ascending' /\ GivenFrames' /\ VasFrames' /\ vas' \in [Fields -> Int]
<1> DEFINE c == Base + Place[field]
<1> USE DEF FInv
<1>1. pongs > 0 /\ pongs \in Nat
  BY LoaderAssumption DEF Types, Fields
<1>2. c \in Nat /\ Count = c /\ Base' = Base /\ Base \in Nat
  BY <1>1, Counts DEF Count, Base
<1>3. Count' = c + 1
  <2>1. CASE field = "stack_begin"
    BY <2>1, <1>1, <1>2 DEF Count, Fields, Place, Base
  <2>2. CASE field # "stack_begin"
    BY <2>2, <1>1, <1>2 DEF Count, Fields, Place, After, Base
  <2> QED BY <2>1, <2>2
<1>4. /\ FrameAllocated = IF c < NumFrames THEN Frame(c) ELSE NULL
      /\ UMEM_BITMAP' = {n \in FrameNumbers : n < c + 1}
  BY <1>2, AllocateNext DEF Ascending, TakeFrame
<1>5. Ascending'
  BY <1>3, <1>4 DEF Ascending, FrameNumbers, UMEM_BITMAP_SZ
<1>6. Base < NumFrames <=> c < NumFrames
  <2>1. Place[field] \in 0..3 /\ (Base < NumFrames => Base + 3 < NumFrames)
    BY Counts
  <2>2. NumFrames \in Nat
    BY FrameArithmetic
  <2> QED BY <2>1, <2>2, <1>2
<1>7. GivenFrames'
  <2>1. CASE c < NumFrames
    <3>1. Frame(c) \in Nat \ {NULL} /\ given' = given \cup {Entry(field)}
      BY <2>1, <1>2, <1>4, FrameArithmetic DEF TakeFrame, Entry
    <3>2. /\ Entry(field) \in [pong : 1..pongs, field : Fields, frame : Nat \ {NULL}]
          /\ Index(Entry(field)) = c /\ Entry(field).frame = Frame(c)
      BY <3>1, <1>1 DEF Entry, Index, Base
    <3>3. \A g \in given' :
            /\ g \in [pong : 1..pongs, field : Fields, frame : Nat \ {NULL}]
            /\ Index(g) < c + 1 /\ Index(g) < NumFrames /\ g.frame = Frame(Index(g))
      <4> SUFFICES ASSUME NEW g \in given'
                   PROVE  /\ g \in [pong : 1..pongs, field : Fields, frame : Nat \ {NULL}]
                          /\ Index(g) < c + 1 /\ Index(g) < NumFrames
                          /\ g.frame = Frame(Index(g))
        OBVIOUS
      <4>1. CASE g = Entry(field)
        BY <4>1, <3>2, <2>1, <1>2
      <4>2. CASE g \in given
        <5>1. /\ g \in [pong : 1..pongs, field : Fields, frame : Nat \ {NULL}]
              /\ Index(g) < c /\ Index(g) < NumFrames /\ g.frame = Frame(Index(g))
          BY <4>2, <1>2 DEF GivenFrames
        <5>2. Index(g) \in Int
          BY <5>1, <1>1 DEF Index, Place, Fields
        <5> QED BY <5>1, <5>2, <1>2
      <4> QED BY <4>1, <4>2, <3>1
    <3>4. ASSUME NEW f \in Fields, Base + Place[f] < c + 1, Base < NumFrames
          PROVE  Entry(f) \in given'
      <4>1. CASE f = field
        BY <4>1, <3>1
      <4>2. CASE f # field
        <5>1. Place[f] # Place[field] /\ Place[f] \in Int /\ Place[field] \in Int
          BY <4>2, Counts
        <5>2. Base + Place[f] < Count
          BY <5>1, <3>4, <1>2
        <5> QED BY <5>2, <3>4, <1>1, <3>1 DEF GivenFrames
      <4> QED BY <4>1, <4>2
    <3> QED BY <3>3, <3>4, <1>2, <1>3 DEF GivenFrames, Entry
  <2>2. CASE ~(c < NumFrames)
    <3>1. given' = given
      BY <2>2, <1>4 DEF TakeFrame
    <3>2. \A g \in given : Index(g) \in Int
      BY <1>1 DEF GivenFrames, Index, Place, Fields
    <3>3. \A g \in given : Index(g) < c + 1
      BY <3>2, <1>2 DEF GivenFrames
    <3> QED BY <3>1, <3>3, <2>2, <1>2, <1>3, <1>6 DEF GivenFrames, Entry
  <2> QED BY <2>1, <2>2
<1>8. FrameAllocated \in Int
  BY <1>2, <1>4, FrameArithmetic DEF NULL
<1>9. vas' \in [Fields -> Int]
  BY <1>8 DEF TakeFrame, Types, FRAME_SIZE
<1>10. VasFrames'
  <2>1. pc' # "code_begin"
    BY DEF After, Fields
  <2>2. vas'.code_begin = IF Base < NumFrames THEN Frame(Base) ELSE NULL
    <3>1. CASE field = "code_begin"
      <4>1. c = Base
        BY <3>1, <1>2 DEF Place
      <4>2. vas'.code_begin = FrameAllocated + 0
        BY <3>1 DEF TakeFrame, Types, Fields
      <4> QED BY <4>1, <4>2, <1>4, <1>8
    <3>2. CASE field # "code_begin"
      BY <3>2, <1>1 DEF TakeFrame, Types, Fields, VasFrames
    <3> QED BY <3>1, <3>2
  <2>3. pc' \notin Fields =>
          vas'.stack_begin =
            (IF Base < NumFrames THEN Frame(Base + 3) ELSE NULL) + FRAME_SIZE
    <3> SUFFICES ASSUME pc' \notin Fields
                 PROVE  vas'.stack_begin =
                   (IF Base < NumFrames THEN Frame(Base + 3) ELSE NULL) + FRAME_SIZE
      OBVIOUS
    <3>1. field = "stack_begin"
      BY DEF After, Fields
    <3>2. c = Base + 3
      BY <3>1 DEF Place
    <3>3. vas'.stack_begin = FrameAllocated + FRAME_SIZE
      BY <3>1 DEF TakeFrame, Types, Fields
    <3> QED BY <3>2, <3>3, <1>4, <1>6
  <2> QED BY <2>1, <2>2, <2>3, <1>2 DEF VasFrames
<1> QED BY <1>5, <1>7, <1>9, <1>10

LEMMA AllocateFrames == ASSUME NEW field \in Fields \ {"stack_begin"}
                        PROVE  FInv /\ Allocate(field) => FInv'
<1> SUFFICES ASSUME FInv, Allocate(field) PROVE FInv'
  OBVIOUS
<1>1. /\ pc = field /\ field \in Fields /\ pc' = After[field] /\ TakeFrame(field)
      /\ UNCHANGED <<pongs, loop, image, patched, errors>>
  BY DEF Allocate
<1>2. pc' \in Fields
  BY <1>1 DEF After, Fields
<1>3. Ascending' /\ GivenFrames' /\ VasFrames' /\ vas' \in [Fields -> Int]
  BY <1>1, FrameTaken
<1>4. Types'
  <2>1. pongs' # 0 /\ pc' \in PCs
    BY <1>1, <1>2 DEF FInv, Types, Fields, PCs
  <2> QED BY <1>1, <1>3, <2>1 DEF FInv, Types, loop
<1>5. ImageType'
  BY <1>1 DEF FInv, ImageType
<1> QED BY <1>3, <1>4, <1>5 DEF FInv

LEMMA AllocateStackFrames == FInv /\ AllocateStack => FInv'
<1> SUFFICES ASSUME FInv, AllocateStack PROVE FInv'
  OBVIOUS
<1>1. /\ pc = "stack_begin" /\ pc' = "read" /\ TakeFrame("stack_begin")
      /\ buf' = vas.code_begin /\ idx' = 0 /\ total_bytes_read' = IMAGE_SIZE
      /\ UNCHANGED <<pongs, image, patched, errors>>
  BY DEF AllocateStack
<1>2. Ascending' /\ GivenFrames' /\ VasFrames' /\ vas' \in [Fields -> Int]
  BY <1>1, FrameTaken DEF Fields
<1>3. vas.code_begin \in Int
  BY DEF FInv, Types, Fields
<1>4. Types'
  <2>1. pongs' # 0 /\ pc' \in PCs
    BY <1>1 DEF FInv, Types, PCs
  <2>2. idx' \in UInt16 /\ total_bytes_read' \in Int
    BY <1>1 DEF IMAGE_SIZE, UInt16
  <2> QED BY <1>1, <1>2, <1>3, <2>1, <2>2 DEF FInv, Types
<1>5. ImageType'
  BY <1>1 DEF FInv, ImageType
<1> QED BY <1>2, <1>4, <1>5 DEF FInv

(* The frames and the address space do not change while load reads.        *)
LEMMA FramesKept ==
  ASSUME FInv, pc \notin Fields, pc' \notin Fields, pongs > 0,
         UNCHANGED <<UMEM_BITMAP, pongs, vas, given>>, Types', ImageType'
  PROVE  FInv'
<1>1. Count' = Count /\ Base' = Base
  BY DEF Count, Base
<1>2. Ascending'
  BY <1>1 DEF FInv, Ascending, FrameNumbers, UMEM_BITMAP_SZ
<1>3. GivenFrames'
  BY <1>1 DEF FInv, GivenFrames, Entry
<1>4. VasFrames'
  <2>1. pc # "code_begin" /\ pc' # "code_begin"
    BY DEF Fields
  <2> QED BY <1>1, <2>1 DEF FInv, VasFrames
<1> QED BY <1>2, <1>3, <1>4 DEF FInv

LEMMA ReadFrames ==
  ASSUME FInv, NEW b \in {SECTOR, -1, -2}, Read(b), patched' \subseteq patched,
         errors' \in 0..MaxErrors, ImageType'
  PROVE  FInv'
<1>1. /\ pc = "read" /\ pc' = (IF total_bytes_read' > 0 THEN "read" ELSE "patch")
      /\ UNCHANGED <<UMEM_BITMAP, pongs, vas, given>>
      /\ buf' = buf + SECTOR /\ total_bytes_read' = total_bytes_read - b
      /\ idx' = (idx + 1) % 65536
  BY DEF Read, Advance, Remaining
<1>2. buf' \in Int /\ total_bytes_read' \in Int /\ idx' \in UInt16
  <2>1. buf \in Int /\ total_bytes_read \in Int /\ idx \in Int /\ b \in Int
    BY DEF FInv, Types, SECTOR, UInt16
  <2>2. (idx + 1) % 65536 \in UInt16
    BY <2>1 DEF UInt16
  <2> QED BY <1>1, <2>1, <2>2 DEF SECTOR
<1>3. pc' \in {"read", "patch"} /\ pongs > 0
  BY <1>1, LoaderAssumption DEF FInv, Types
<1>4. Types'
  <2>1. pc' \in PCs /\ pongs' # 0
    BY <1>1, <1>3, LoaderAssumption DEF PCs, FInv, Types
  <2>2. patched' \subseteq {CODE_BASE} /\ vas' \in [Fields -> Int] /\ pongs' \in 0..MaxPongs
    BY <1>1 DEF FInv, Types
  <2> QED BY <1>2, <2>1, <2>2 DEF Types
<1>5. pc \notin Fields /\ pc' \notin Fields
  BY <1>1, <1>3 DEF Fields
<1> QED BY <1>1, <1>3, <1>4, <1>5, FramesKept

LEMMA FramesStep == FInv /\ [Next]_vars => FInv'
<1> SUFFICES ASSUME FInv, [Next]_vars PROVE FInv'
  OBVIOUS
<1>1. CASE Pong
  BY <1>1, PongFrames
<1>2. ASSUME NEW field \in Fields \ {"stack_begin"}, Allocate(field) PROVE FInv'
  BY <1>2, AllocateFrames
<1>3. CASE AllocateStack
  BY <1>3, AllocateStackFrames
<1>4. CASE ReadSector
  <2>1. Read(SECTOR) /\ patched' \subseteq patched /\ errors' \in 0..MaxErrors
    BY <1>4 DEF ReadSector, FInv, Types
  <2>2. ImageType'
    <3>1. [at |-> buf, lba |-> idx] \in [at : Int, lba : UInt16]
      BY DEF FInv, Types
    <3> QED BY <1>4, <3>1 DEF ReadSector, FInv, ImageType
  <2> QED BY <2>1, <2>2, ReadFrames
<1>5. ASSUME NEW code \in {-1, -2}, ReadError(code) PROVE FInv'
  <2>1. Read(code) /\ patched' \subseteq patched /\ errors' \in 0..MaxErrors
    BY <1>5, LoaderAssumption DEF ReadError, FInv, Types
  <2>2. ImageType'
    BY <1>5 DEF ReadError, FInv, ImageType
  <2> QED BY <2>1, <2>2, ReadFrames
<1>6. CASE Patch
  <2>1. pc = "patch" /\ pc' = "start" /\ UNCHANGED <<UMEM_BITMAP, pongs, vas, given>>
    BY <1>6 DEF Patch
  <2>2. Types' /\ pongs > 0
    BY <1>6, LoaderAssumption DEF Patch, FInv, Types, PCs, loop
  <2>3. ImageType'
    BY <1>6 DEF Patch, FInv, ImageType
  <2>4. pc \notin Fields /\ pc' \notin Fields
    BY <2>1 DEF Fields
  <2> QED BY <2>1, <2>2, <2>3, <2>4, FramesKept
<1>7. CASE StartTask
  <2>1. pc = "start" /\ pc' = "task" /\ UNCHANGED <<UMEM_BITMAP, pongs, vas, given>>
    BY <1>7 DEF StartTask
  <2>2. Types' /\ pongs > 0
    BY <1>7, LoaderAssumption DEF StartTask, FInv, Types, PCs, loop
  <2>3. ImageType'
    BY <1>7 DEF StartTask, FInv, ImageType
  <2>4. pc \notin Fields /\ pc' \notin Fields
    BY <2>1 DEF Fields
  <2> QED BY <2>1, <2>2, <2>3, <2>4, FramesKept
<1>8. CASE TaskEnds
  <2>1. pc = "task" /\ pc' = "bsy_loop" /\ UNCHANGED <<UMEM_BITMAP, pongs, vas, given>>
    BY <1>8 DEF TaskEnds
  <2>2. Types' /\ pongs > 0
    BY <1>8, LoaderAssumption DEF TaskEnds, FInv, Types, PCs, loop
  <2>3. ImageType'
    BY <1>8 DEF TaskEnds, FInv, ImageType
  <2>4. pc \notin Fields /\ pc' \notin Fields
    BY <2>1 DEF Fields
  <2> QED BY <2>1, <2>2, <2>3, <2>4, FramesKept
<1>9. CASE BsyLoop \/ UNCHANGED vars
  BY <1>9 DEF BsyLoop, FInv, vars, loop, Types, ImageType, Ascending, GivenFrames, VasFrames,
              FrameNumbers, UMEM_BITMAP_SZ, Count, Base, Entry, Index, NumFrames
<1> QED BY <1>1, <1>2, <1>3, <1>4, <1>5, <1>6, <1>7, <1>8, <1>9 DEF Next

-----------------------------------------------------------------------------
LEMMA PongReads == LInv /\ Pong => Sectors' /\ Reading'
BY FS_EmptySet DEF Pong, Sectors, Reading, Fields

LEMMA AllocateReads == ASSUME NEW field \in Fields \ {"stack_begin"}
                       PROVE  LInv /\ Allocate(field) => Sectors' /\ Reading'
<1> SUFFICES ASSUME LInv, Allocate(field) PROVE Sectors' /\ Reading'
  OBVIOUS
<1>1. pc \in Fields /\ pc' \in Fields /\ image' = image
  BY DEF Allocate, After, Fields
<1>2. image = {} /\ image' = {}
  BY <1>1 DEF LInv, Sectors
<1> QED BY <1>1, <1>2, FS_EmptySet DEF Sectors, Reading, Fields

LEMMA AllocateStackReads == LInv /\ AllocateStack => Sectors' /\ Reading'
<1> SUFFICES ASSUME LInv, AllocateStack PROVE Sectors' /\ Reading'
  OBVIOUS
<1>1. /\ pc = "stack_begin" /\ pc' = "read" /\ TakeFrame("stack_begin")
      /\ buf' = vas.code_begin /\ idx' = 0 /\ total_bytes_read' = IMAGE_SIZE
      /\ UNCHANGED <<pongs, image, patched, errors>>
  BY DEF AllocateStack
<1>2. image = {} /\ image' = {}
  BY <1>1 DEF LInv, Sectors, Fields
<1>3. vas'.code_begin = vas.code_begin /\ vas.code_begin \in Int
  BY <1>1 DEF TakeFrame, LInv, FInv, Types, Fields
<1>4. errors' \in Nat /\ Cardinality(image') = 0
  BY <1>1, <1>2, FS_EmptySet, LoaderAssumption DEF LInv, FInv, Types
<1>5. Sectors'
  BY <1>2, FS_EmptySet DEF Sectors
<1>6. Reading'
  BY <1>1, <1>2, <1>3, <1>4 DEF Reading, SECTOR, IMAGE_SIZE
<1> QED BY <1>5, <1>6

(* With 22 failed reads load ends before its 32nd read.                    *)
LEMMA ReadRoom ==
  ASSUME FewErrors, LInv, NEW b, Read(b)
  PROVE  /\ pc = "read" /\ pc' = (IF total_bytes_read' > 0 THEN "read" ELSE "patch")
         /\ pongs' = pongs /\ vas' = vas /\ pongs > 0
         /\ idx \in 0..30 /\ idx' = idx + 1
         /\ buf \in Int /\ buf' = buf + 512
         /\ total_bytes_read \in Int /\ total_bytes_read' = total_bytes_read - b
         /\ vas.code_begin \in Int /\ errors \in Nat
<1>1. /\ pc = "read" /\ pc' = (IF total_bytes_read' > 0 THEN "read" ELSE "patch")
      /\ pongs' = pongs /\ vas' = vas
      /\ idx' = (idx + 1) % 65536
      /\ buf' = buf + 512 /\ total_bytes_read' = total_bytes_read - b
  BY DEF Read, Advance, Remaining, SECTOR
<1>2. errors \in Nat /\ errors <= 22
  BY LoaderAssumption DEF LInv, FInv, Types, FewErrors
<1>3. idx \in UInt16 /\ total_bytes_read \in Int /\ buf \in Int
  BY DEF LInv, FInv, Types, UInt16
<1>4. total_bytes_read > 0 /\ total_bytes_read + 512 * idx <= 4096 + 514 * errors
  BY <1>1 DEF LInv, Reading, SECTOR, IMAGE_SIZE
<1>5. idx \in 0..30
  BY <1>2, <1>3, <1>4 DEF UInt16
<1>6. idx' = idx + 1
  BY <1>1, <1>5
<1>7. vas.code_begin \in Int /\ pongs > 0
  BY <1>1, LoaderAssumption DEF LInv, FInv, Types, Fields
<1> QED BY <1>1, <1>2, <1>3, <1>5, <1>6, <1>7

(* What the invariant says while load reads.                               *)
LEMMA WhileReading ==
  ASSUME LInv, pc = "read"
  PROVE  /\ buf = vas.code_begin + 512 * idx /\ total_bytes_read > 0
         /\ total_bytes_read + 512 * idx <= 4096 + 514 * errors
         /\ \A s \in image : s.lba < idx
         /\ total_bytes_read + 512 * Cardinality(image) >= 4096
         /\ IsFiniteSet(image) /\ Cardinality(image) \in Nat
         /\ \A s \in image : /\ s \in [at : Int, lba : 0..30]
                             /\ s.at = vas.code_begin + 512 * s.lba
<1>1. Cardinality(image) \in Nat
  BY FS_CardinalityType DEF LInv, Sectors
<1> QED BY <1>1 DEF LInv, Sectors, Reading, SECTOR, IMAGE_SIZE

LEMMA ReadSectorReads == FewErrors /\ LInv /\ ReadSector => Sectors' /\ Reading'
<1> SUFFICES ASSUME FewErrors, LInv, ReadSector PROVE Sectors' /\ Reading'
  OBVIOUS
<1> DEFINE new == [at |-> buf, lba |-> idx]
<1>1. Read(SECTOR) /\ errors' = errors
  BY DEF ReadSector
<1>2. /\ pc = "read" /\ pc' = (IF total_bytes_read' > 0 THEN "read" ELSE "patch")
      /\ pongs' = pongs /\ vas' = vas /\ pongs > 0
      /\ idx \in 0..30 /\ idx' = idx + 1
      /\ buf \in Int /\ buf' = buf + 512
      /\ total_bytes_read \in Int /\ total_bytes_read' = total_bytes_read - 512
      /\ vas.code_begin \in Int /\ errors \in Nat
  BY <1>1, ReadRoom DEF SECTOR
<1>3. /\ buf = vas.code_begin + 512 * idx /\ total_bytes_read > 0
      /\ total_bytes_read + 512 * idx <= 4096 + 514 * errors
      /\ \A s \in image : s.lba < idx
      /\ total_bytes_read + 512 * Cardinality(image) >= 4096
      /\ IsFiniteSet(image) /\ Cardinality(image) \in Nat
      /\ \A s \in image : /\ s \in [at : Int, lba : 0..30]
                          /\ s.at = vas.code_begin + 512 * s.lba
  BY <1>2, WhileReading
<1>4. \A s \in image : s.at # buf
  BY <1>2, <1>3
<1>5. image' = image \cup {new} /\ new \notin image
  <2>1. {s \in image : s.at # buf} = image
    BY <1>4
  <2> QED BY <1>4, <2>1 DEF ReadSector
<1>6. IsFiniteSet(image') /\ Cardinality(image') = Cardinality(image) + 1
  BY <1>3, <1>5, FS_AddElement
<1>7. \A s \in image' : /\ s \in [at : Int, lba : 0..30]
                        /\ s.at = vas.code_begin + 512 * s.lba
                        /\ s.lba < idx'
  <2>1. \A s \in image : s.lba < idx + 1
    BY <1>2, <1>3
  <2>2. new \in [at : Int, lba : 0..30] /\ new.at = vas.code_begin + 512 * new.lba
        /\ new.lba < idx + 1
    BY <1>2, <1>3
  <2> QED BY <1>2, <1>3, <1>5, <2>1, <2>2
<1>8. pc' \in {"read", "patch"} /\ pongs' # 0
  BY <1>2
<1>9. Sectors'
  BY <1>2, <1>6, <1>7, <1>8 DEF Sectors, SECTOR, Fields
<1>10. /\ buf' = vas.code_begin + 512 * idx'
       /\ total_bytes_read' + 512 * idx' <= 4096 + 514 * errors
       /\ total_bytes_read' + 512 * Cardinality(image') >= 4096
       /\ total_bytes_read' \in Int
  BY <1>2, <1>3, <1>6
<1>11. pc' = "patch" => 512 * Cardinality(image') >= 4096
  BY <1>2, <1>3, <1>6, <1>10
<1>12. Reading'
  BY <1>1, <1>2, <1>7, <1>8, <1>10, <1>11 DEF Reading, SECTOR, IMAGE_SIZE
<1> QED BY <1>9, <1>12

LEMMA ReadErrorReads ==
  ASSUME FewErrors, NEW code \in {-1, -2}
  PROVE  LInv /\ ReadError(code) => Sectors' /\ Reading'
<1> SUFFICES ASSUME LInv, ReadError(code) PROVE Sectors' /\ Reading'
  OBVIOUS
<1>1. Read(code) /\ errors' = errors + 1 /\ image' = image
  BY DEF ReadError
<1>2. /\ pc = "read" /\ pc' = (IF total_bytes_read' > 0 THEN "read" ELSE "patch")
      /\ pongs' = pongs /\ vas' = vas /\ pongs > 0
      /\ idx \in 0..30 /\ idx' = idx + 1
      /\ buf \in Int /\ buf' = buf + 512
      /\ total_bytes_read \in Int /\ total_bytes_read' = total_bytes_read - code
      /\ vas.code_begin \in Int /\ errors \in Nat
  BY <1>1, ReadRoom
<1>3. /\ buf = vas.code_begin + 512 * idx /\ total_bytes_read > 0
      /\ total_bytes_read + 512 * idx <= 4096 + 514 * errors
      /\ \A s \in image : s.lba < idx
      /\ total_bytes_read + 512 * Cardinality(image) >= 4096
      /\ Cardinality(image) \in Nat
      /\ \A s \in image : s \in [at : Int, lba : 0..30]
  BY <1>2, WhileReading
<1>4. pc' \in {"read", "patch"} /\ pongs' # 0
  BY <1>2
<1>5. Sectors'
  BY <1>1, <1>2, <1>4 DEF LInv, Sectors, Fields
<1>6. \A s \in image' : s.lba < idx'
  BY <1>1, <1>2, <1>3
<1>7. /\ buf' = vas.code_begin + 512 * idx'
      /\ total_bytes_read' + 512 * idx' <= 4096 + 514 * errors'
      /\ total_bytes_read' + 512 * Cardinality(image') >= 4096
      /\ total_bytes_read' \in Int
  BY <1>1, <1>2, <1>3
<1>8. pc' = "patch" => 512 * Cardinality(image') >= 4096
  BY <1>1, <1>2, <1>3, <1>7
<1>9. Reading'
  BY <1>2, <1>4, <1>6, <1>7, <1>8 DEF Reading, SECTOR, IMAGE_SIZE
<1> QED BY <1>5, <1>9

LEMMA PatchReads == LInv /\ Patch => Sectors' /\ Reading'
<1> SUFFICES ASSUME LInv, Patch PROVE Sectors' /\ Reading'
  OBVIOUS
<1>1. pc = "patch" /\ pc' = "start" /\ UNCHANGED <<pongs, vas, image>>
  BY DEF Patch
<1>2. pongs > 0
  BY <1>1, LoaderAssumption DEF LInv, FInv, Types
<1> QED BY <1>1, <1>2 DEF LInv, Sectors, Reading, Fields

(* create_task's first stack frame lies behind all that load has read.     *)
LEMMA StartTaskReads == LInv /\ StartTask => Sectors' /\ Reading'
<1> SUFFICES ASSUME LInv, StartTask PROVE Sectors' /\ Reading'
  OBVIOUS
<1>1. /\ pc = "start" /\ pc' = "task" /\ UNCHANGED <<pongs, vas>>
      /\ image' = {s \in image : s.at # vas.stack_begin - SECTOR}
  BY DEF StartTask
<1>2. pongs > 0 /\ pongs \in Nat
  BY <1>1, LoaderAssumption DEF LInv, FInv, Types
<1>3. image' \subseteq image /\ IsFiniteSet(image')
  <2>1. image' \subseteq image
    BY <1>1
  <2> QED BY <2>1, FS_Subset DEF LInv, Sectors
<1>4. Sectors'
  BY <1>1, <1>2, <1>3 DEF LInv, Sectors, Fields
<1>5. vas.code_begin # NULL => image' = image
  <2> SUFFICES ASSUME vas.code_begin # NULL, NEW s \in image
               PROVE  s.at # vas.stack_begin - SECTOR
    BY <1>1
  <2>1. /\ vas.code_begin = Frame(Base)
        /\ vas.stack_begin = Frame(Base + 3) + 4096
    BY <1>1, <1>2 DEF LInv, FInv, VasFrames, Fields, FRAME_SIZE
  <2>2. Base \in Nat
    BY <1>2, Counts DEF LInv, FInv
  <2>3. Frame(Base + 3) = Frame(Base) + 12288 /\ Frame(Base) \in Nat
    BY <2>2, FrameArithmetic
  <2>4. s.lba \in 0..30 /\ s.at = vas.code_begin + 512 * s.lba
    BY DEF LInv, Sectors, SECTOR
  <2> QED BY <2>1, <2>3, <2>4 DEF SECTOR
<1>6. SECTOR * Cardinality(image) >= IMAGE_SIZE
  BY <1>1 DEF LInv, Reading
<1>7. vas.code_begin # NULL => SECTOR * Cardinality(image') >= IMAGE_SIZE
  BY <1>5, <1>6
<1>8. Reading'
  BY <1>1, <1>7 DEF Reading
<1> QED BY <1>4, <1>8

LEMMA TaskEndsReads == LInv /\ TaskEnds => Sectors' /\ Reading'
<1> SUFFICES ASSUME LInv, TaskEnds PROVE Sectors' /\ Reading'
  OBVIOUS
<1>1. pc = "task" /\ pc' = "bsy_loop" /\ UNCHANGED <<pongs, vas, image>>
  BY DEF TaskEnds
<1>2. pongs > 0
  BY <1>1, LoaderAssumption DEF LInv, FInv, Types
<1> QED BY <1>1, <1>2 DEF LInv, Sectors, Reading, Fields

LEMMA ReadsStep == FewErrors /\ LInv /\ [Next]_vars => Sectors' /\ Reading'
<1> SUFFICES ASSUME FewErrors, LInv, [Next]_vars PROVE Sectors' /\ Reading'
  OBVIOUS
<1>1. CASE Pong
  BY <1>1, PongReads
<1>2. ASSUME NEW field \in Fields \ {"stack_begin"}, Allocate(field)
      PROVE  Sectors' /\ Reading'
  BY <1>2, AllocateReads
<1>3. CASE AllocateStack
  BY <1>3, AllocateStackReads
<1>4. CASE ReadSector
  BY <1>4, ReadSectorReads
<1>5. ASSUME NEW code \in {-1, -2}, ReadError(code) PROVE Sectors' /\ Reading'
  BY <1>5, ReadErrorReads
<1>6. CASE Patch
  BY <1>6, PatchReads
<1>7. CASE StartTask
  BY <1>7, StartTaskReads
<1>8. CASE TaskEnds
  BY <1>8, TaskEndsReads
<1>9. CASE BsyLoop \/ UNCHANGED vars
  BY <1>9 DEF BsyLoop, LInv, vars, loop, Sectors, Reading
<1> QED BY <1>1, <1>2, <1>3, <1>4, <1>5, <1>6, <1>7, <1>8, <1>9 DEF Next

-----------------------------------------------------------------------------
LEMMA FrameInvariant == Spec => []FInv
<1>1. Init => FInv
  BY InitLInv DEF LInv
<1> QED BY <1>1, FramesStep, PTL DEF Spec

LEMMA LoaderInvariant == ASSUME FewErrors PROVE Spec => []LInv
<1>1. LInv /\ [Next]_vars => LInv'
  BY FewErrors, FramesStep, ReadsStep DEF LInv
<1> QED BY <1>1, InitLInv, PTL DEF Spec

(* Every variable keeps its type, the bitmap within its length in bytes.   *)
THEOREM TypeCorrect == Spec => []TypeOK
<1>1. FInv => TypeOK
  <2> SUFFICES ASSUME FInv PROVE TypeOK
    OBVIOUS
  <2>1. UMEM_BITMAP \subseteq Nat /\ \A n \in UMEM_BITMAP : n \div 8 < UMEM_BITMAP_SZ
    <3> SUFFICES ASSUME NEW n \in UMEM_BITMAP PROVE n \in Nat /\ n \div 8 < UMEM_BITMAP_SZ
      OBVIOUS
    <3>1. n \in 0 .. 8 * UMEM_BITMAP_SZ - 1 /\ UMEM_BITMAP_SZ \in Nat
      BY FrameArithmetic DEF FInv, Ascending, NumFrames
    <3> QED BY <3>1
  <2>2. given \subseteq [pong : 1..MaxPongs, field : Fields, frame : Nat \ {NULL}]
    <3> SUFFICES ASSUME NEW g \in given
                 PROVE  g \in [pong : 1..MaxPongs, field : Fields, frame : Nat \ {NULL}]
      OBVIOUS
    <3>1. g \in [pong : 1..pongs, field : Fields, frame : Nat \ {NULL}]
      BY DEF FInv, GivenFrames
    <3>2. pongs \in 0..MaxPongs
      BY DEF FInv, Types
    <3>3. g.pong \in 1..MaxPongs
      BY <3>1, <3>2, LoaderAssumption
    <3> QED BY <3>1, <3>3
  <2> QED BY <2>1, <2>2 DEF TypeOK, FInv, Types, ImageType, PCs
<1> QED BY <1>1, FrameInvariant, PTL

(* ph_frame_alloc gives no frame to two processes, or twice to one, and    *)
(* the bit of a frame it gave stays set.                                   *)
THEOREM FramesStayExclusive == Spec => []FramesExclusive
<1>1. FInv => FramesExclusive
  <2> SUFFICES ASSUME FInv PROVE FramesExclusive
    OBVIOUS
  <2>1. ASSUME NEW g \in given
        PROVE  /\ g \in [pong : 1..pongs, field : Fields, frame : Nat \ {NULL}]
               /\ Index(g) < Count /\ Index(g) < NumFrames /\ g.frame = Frame(Index(g))
               /\ Place[g.field] \in 0..3 /\ Index(g) \in Nat
    <3>1. /\ g \in [pong : 1..pongs, field : Fields, frame : Nat \ {NULL}]
          /\ Index(g) < Count /\ Index(g) < NumFrames /\ g.frame = Frame(Index(g))
      BY DEF FInv, GivenFrames
    <3>2. Place[g.field] \in 0..3
      BY <3>1, Counts DEF FInv
    <3>3. g.pong \in Int /\ g.pong >= 1
      BY <3>1, LoaderAssumption DEF FInv, Types
    <3>4. Index(g) \in Nat
      BY <3>2, <3>3 DEF Index
    <3> QED BY <3>1, <3>2, <3>4
  <2>2. ASSUME NEW g \in given, NEW h \in given, g.frame = h.frame PROVE g = h
    <3>1. Index(g) = Index(h)
      BY <2>1, <2>2, FrameArithmetic
    <3>2. g.pong \in Int /\ h.pong \in Int
      BY <2>1, LoaderAssumption DEF FInv, Types
    <3>3. g.pong = h.pong /\ Place[g.field] = Place[h.field]
      BY <2>1, <3>1, <3>2 DEF Index
    <3>4. g.field = h.field
      BY <2>1, <3>3, Counts DEF FInv
    <3> QED BY <2>1, <2>2, <3>3, <3>4
  <2>3. ASSUME NEW g \in given PROVE \E n \in UMEM_BITMAP : g.frame = Frame(n)
    <3>1. Index(g) \in FrameNumbers
      BY <2>1, FrameArithmetic
    <3>2. Index(g) \in UMEM_BITMAP
      BY <2>1, <3>1 DEF FInv, Ascending
    <3> QED BY <2>1, <3>2
  <2> QED BY <2>2, <2>3 DEF FramesExclusive
<1> QED BY <1>1, FrameInvariant, PTL

(* load puts sector idx of the floppy idx sectors into its code frame,     *)
(* whatever reads failed before.                                           *)
THEOREM SectorsInPlace == ASSUME FewErrors PROVE Spec => []SectorInPlace
<1>1. LInv => SectorInPlace
  BY DEF LInv, Sectors, SectorInPlace
<1> QED BY <1>1, LoaderInvariant, PTL

(* load starts no task before it has read 4096 bytes of its image.         *)
THEOREM NothingRunsUnloaded == ASSUME FewErrors PROVE Spec => []LoadedBeforeRun
<1>1. LInv => LoadedBeforeRun
  <2> SUFFICES ASSUME LInv, pc = "task", vas.code_begin # NULL
               PROVE  Cardinality(image) * SECTOR >= IMAGE_SIZE
    BY DEF LoadedBeforeRun
  <2>1. SECTOR * Cardinality(image) >= IMAGE_SIZE
    BY DEF LInv, Reading
  <2>2. Cardinality(image) \in Nat
    BY FS_CardinalityType DEF LInv, Sectors
  <2> QED BY <2>1, <2>2 DEF SECTOR, IMAGE_SIZE
<1> QED BY <1>1, LoaderInvariant, PTL

(* load's reads past its code frame end in the process's other frames, as  *)
(* long as at most 22 reads failed since the machine started.              *)
THEOREM WritesStayInside == ASSUME FewErrors PROVE Spec => []WritesOwnFrames
<1>1. LInv => WritesOwnFrames
  <2> SUFFICES ASSUME LInv, NEW h \in given, h.pong = pongs, NEW s \in image
               PROVE  \E g \in given : /\ g.pong = pongs
                                      /\ g.frame <= s.at /\ s.at < g.frame + 4096
    BY DEF WritesOwnFrames, FRAME_SIZE
  <2>1. pc \notin Fields /\ pongs > 0 /\ pongs \in Nat
    BY LoaderAssumption DEF LInv, FInv, Sectors, Types
  <2>2. Base \in Nat /\ Count = Base + 4
    BY <2>1, Counts DEF LInv, FInv, Count
  <2>3. Base < NumFrames
    <3>1. Index(h) < NumFrames /\ h.field \in Fields
      BY DEF LInv, FInv, GivenFrames
    <3>2. Index(h) = Base + Place[h.field] /\ Place[h.field] \in 0..3
      BY <3>1, Counts DEF LInv, FInv, Index, Base
    <3>3. NumFrames \in Nat
      BY FrameArithmetic
    <3> QED BY <2>2, <3>1, <3>2, <3>3
  <2>4. \A f \in Fields : /\ Entry(f) \in given /\ Entry(f).pong = pongs
                          /\ Entry(f).frame = Frame(Base + Place[f])
    BY <2>1, <2>2, <2>3, Counts DEF LInv, FInv, GivenFrames, Entry
  <2>5. \A n \in 0..3 : /\ Frame(Base + n) = Frame(Base) + 4096 * n
                        /\ Frame(Base) \in Nat
                        /\ \E f \in Fields : Place[f] = n
    BY <2>2, FrameArithmetic DEF Place, Fields
  <2>6. s.lba \in 0..30 /\ s.at = Frame(Base) + 512 * s.lba
    BY <2>1, <2>3 DEF LInv, FInv, Sectors, VasFrames, Fields, SECTOR
  <2>7. PICK n \in 0..3 : 8 * n <= s.lba /\ s.lba < 8 * n + 8
    <3>1. \/ 8 * 0 <= s.lba /\ s.lba < 8 * 0 + 8
          \/ 8 * 1 <= s.lba /\ s.lba < 8 * 1 + 8
          \/ 8 * 2 <= s.lba /\ s.lba < 8 * 2 + 8
          \/ 8 * 3 <= s.lba /\ s.lba < 8 * 3 + 8
      BY <2>6
    <3> QED BY <3>1
  <2>8. PICK f \in Fields : Place[f] = n
    BY <2>5
  <2>9. Entry(f).frame = Frame(Base) + 4096 * n
    BY <2>4, <2>5, <2>8
  <2> QED BY <2>4, <2>5, <2>6, <2>7, <2>9
<1> QED BY <1>1, LoaderInvariant, PTL
=============================================================================
