---------------------------- MODULE PongHeapProofs ----------------------------
(***************************************************************************)
(* Proofs about module PongHeap, for a heap that begins and ends anywhere  *)
(* below 2^31 and has room for the kernel's requests, and for every memory *)
(* map of at most 16 regions.  None of the heap's properties is inductive: that  *)
(* the next ph_free merges nothing, or that the next ph_malloc finds its   *)
(* block at the head of the list, depends on every block there is.  The    *)
(* invariant therefore says where kernel_main or pong is and which blocks, *)
(* with which headers, footers and links, the heap holds at that place.    *)
(* The lemmas go from bytes to words, from words to blocks, from blocks to *)
(* layouts, from layouts to places; the properties are read off the places.*)
(***************************************************************************)
EXTENDS PongHeap, LeastNumbers, SequenceTheorems, TLAPS

-----------------------------------------------------------------------------
(* Bytes and words in the heap's memory.                                   *)

(* The words that are no negative numbers.                                 *)
Words == {v \in Nat : v < 128 * (256 * (256 * 256))}

(* A word is its four bytes, the last of them below 128.                   *)
LEMMA WordSplit ==
  ASSUME NEW v \in Words
  PROVE  /\ v = (v % 256) + 256 * (((v \div 256) % 256)
                   + 256 * (((v \div (256 * 256)) % 256) + 256 * ((v \div (256 * (256 * 256))) % 256)))
         /\ (v \div (256 * (256 * 256))) % 256 \in 0..127
<1> DEFINE a == v \div 256
           b == a \div 256
           c == b \div 256
<1>1. v \in Nat
  BY DEF Words
<1>2. v \div (256 * 256) = b /\ v \div (256 * (256 * 256)) = c
  BY <1>1
<1>3. \A x \in Nat : x \div 256 \in Nat /\ x % 256 \in 0..255 /\ x = 256 * (x \div 256) + (x % 256)
  OBVIOUS
<1>4. c \in Nat /\ c < 128
  <2>1. v < 128 * (256 * (256 * 256))
    BY DEF Words
  <2> QED BY <1>1, <1>2, <2>1
<1>5. c % 256 = c
  BY <1>4
<1>6. v = 256 * a + (v % 256) /\ a = 256 * b + (a % 256) /\ b = 256 * c + (b % 256)
  BY <1>1, <1>3
<1>7. a \in Nat /\ b \in Nat /\ v % 256 \in Nat /\ a % 256 \in Nat /\ b % 256 \in Nat
  BY <1>1, <1>3
<1> HIDE DEF a, b, c
<1>8. v = (v % 256) + 256 * ((a % 256) + 256 * ((b % 256) + 256 * (c % 256)))
  BY <1>1, <1>4, <1>5, <1>6, <1>7
<1> QED BY <1>2, <1>4, <1>5, <1>8 DEF a

(* A byte after a word is stored at a: one of the word's, or what it was.  *)
LEMMA PeekStored ==
  ASSUME NEW m, NEW a \in Int, NEW v, NEW x \in Int
  PROVE  Peek(Store(m, a, v), x) = IF a <= x /\ x <= a + 3 THEN Byte(v, x - a) ELSE Peek(m, x)
BY DEF Peek, Store

(* The four bytes of a word, as quotients and remainders.                  *)
LEMMA Bytes4 ==
  ASSUME NEW v \in Words
  PROVE  /\ Byte(v, 0) = v % 256 /\ Byte(v, 1) = (v \div 256) % 256
         /\ Byte(v, 2) = (v \div (256 * 256)) % 256 /\ Byte(v, 3) = (v \div (256 * (256 * 256))) % 256
<1>1. /\ Weight[0 + 1] = 1 /\ Weight[1 + 1] = 256
      /\ Weight[2 + 1] = 256 * 256 /\ Weight[3 + 1] = 256 * (256 * 256)
  BY DEF Weight
<1>2. v \in Nat /\ v \div 1 = v
  BY DEF Words
<1> QED BY <1>1, <1>2 DEF Byte

(* The word loaded from where one was stored is that word, its sign bit    *)
(* included.                                                               *)
LEMMA LoadStored ==
  ASSUME NEW m, NEW a \in Int, NEW v \in Words
  PROVE  Load(Store(m, a, v), a) = v
<1> DEFINE n == Store(m, a, v)
<1>1. /\ Peek(n, a) = Byte(v, 0) /\ Peek(n, a + 1) = Byte(v, 1)
      /\ Peek(n, a + 2) = Byte(v, 2) /\ Peek(n, a + 3) = Byte(v, 3)
  <2>1. Peek(n, a) = Byte(v, a - a)
    BY PeekStored
  <2>2. Peek(n, a + 1) = Byte(v, (a + 1) - a)
    BY PeekStored
  <2>3. Peek(n, a + 2) = Byte(v, (a + 2) - a)
    BY PeekStored
  <2>4. Peek(n, a + 3) = Byte(v, (a + 3) - a)
    BY PeekStored
  <2>5. a - a = 0 /\ (a + 1) - a = 1 /\ (a + 2) - a = 2 /\ (a + 3) - a = 3
    OBVIOUS
  <2> QED BY <2>1, <2>2, <2>3, <2>4, <2>5
<1> HIDE DEF n
<1>2. Byte(v, 3) < 128 /\ Byte(v, 3) \in Int
  BY Bytes4, WordSplit
<1>3. Load(n, a) = (v % 256) + 256 * (((v \div 256) % 256)
                   + 256 * (((v \div (256 * 256)) % 256) + 256 * ((v \div (256 * (256 * 256))) % 256)))
  BY <1>1, <1>2, Bytes4 DEF Load
<1> QED BY <1>3, WordSplit DEF n

(* A word is as it was when its four bytes are.                            *)
LEMMA LoadSame ==
  ASSUME NEW m, NEW n, NEW a \in Int, \A x \in Int : a <= x /\ x <= a + 3 => Peek(n, x) = Peek(m, x)
  PROVE  Load(n, a) = Load(m, a)
<1>1. Peek(n, a) = Peek(m, a) /\ Peek(n, a + 1) = Peek(m, a + 1)
      /\ Peek(n, a + 2) = Peek(m, a + 2) /\ Peek(n, a + 3) = Peek(m, a + 3)
  OBVIOUS
<1> QED BY <1>1 DEF Load

(* A header's flag is one byte.                                            *)
LEMMA PeekPoked ==
  ASSUME NEW m, NEW a \in Int, NEW v, NEW x \in Int
  PROVE  Peek(Poke(m, a, v), x) = IF x = a THEN v ELSE Peek(m, x)
BY DEF Peek, Poke

(* Memory n is m with word v stored at a, and what of it the proofs use.   *)
Wrote(m, n, a, v) ==
  /\ Load(n, a) = v
  /\ \A b \in Int : b + 4 <= a \/ a + 4 <= b => Load(n, b) = Load(m, b)
  /\ \A x \in Int : x < a \/ a + 3 < x => Peek(n, x) = Peek(m, x)

(* Memory n is m with byte v stored at a: a header's flag.                 *)
Poked(m, n, a, v) ==
  /\ Peek(n, a) = v
  /\ \A b \in Int : b + 4 <= a \/ a < b => Load(n, b) = Load(m, b)
  /\ \A x \in Int : x # a => Peek(n, x) = Peek(m, x)

(* Store of a word does that: words that do not overlap it are             *)
(* undisturbed.                                                            *)
LEMMA StoreWrote ==
  ASSUME NEW m, NEW a \in Int, NEW v \in Words
  PROVE  Wrote(m, Store(m, a, v), a, v)
<1> DEFINE n == Store(m, a, v)
<1>1. \A x \in Int : x < a \/ a + 3 < x => Peek(n, x) = Peek(m, x)
  BY PeekStored
<1>2. Load(n, a) = v
  BY LoadStored
<1> HIDE DEF n
<1>3. ASSUME NEW b \in Int, b + 4 <= a \/ a + 4 <= b PROVE Load(n, b) = Load(m, b)
  <2>1. \A x \in Int : b <= x /\ x <= b + 3 => Peek(n, x) = Peek(m, x)
    BY <1>1, <1>3
  <2> QED BY <2>1, LoadSame
<1> QED BY <1>1, <1>2, <1>3 DEF Wrote, n

(* Poke of a byte does that.                                               *)
LEMMA PokePoked ==
  ASSUME NEW m, NEW a \in Int, NEW v
  PROVE  Poked(m, Poke(m, a, v), a, v)
<1> DEFINE n == Poke(m, a, v)
<1>1. Peek(n, a) = v /\ \A x \in Int : x # a => Peek(n, x) = Peek(m, x)
  BY PeekPoked
<1> HIDE DEF n
<1>2. ASSUME NEW b \in Int, b + 4 <= a \/ a < b PROVE Load(n, b) = Load(m, b)
  <2>1. \A x \in Int : b <= x /\ x <= b + 3 => Peek(n, x) = Peek(m, x)
    BY <1>1, <1>2
  <2> QED BY <2>1, LoadSame
<1> QED BY <1>1, <1>2 DEF Poked, n

(* What the heap's memory holds are bytes at its own addresses.            *)
InHeap(m) == \A a \in DOMAIN m : a \in HEAP_BEGIN..HEAP_END-1 /\ m[a] \in 0..255

(* What a word is stored as are bytes.                                     *)
LEMMA ByteIsByte ==
  ASSUME NEW v \in Int, NEW k \in 0..3
  PROVE  Byte(v, k) \in 0..255
<1>1. Weight[k + 1] \in {1, 256, 256 * 256, 256 * (256 * 256)}
  BY DEF Weight
<1>2. Weight[k + 1] \in Nat /\ Weight[k + 1] # 0
  BY <1>1
<1>3. v \div Weight[k + 1] \in Int
  BY <1>2
<1>4. \A x \in Int : x % 256 \in 0..255
  OBVIOUS
<1> QED BY <1>3, <1>4 DEF Byte

(* A word stored within the heap leaves its memory bytes of the heap.      *)
LEMMA StoreInHeap ==
  ASSUME NEW m, InHeap(m), NEW a \in Int, HEAP_BEGIN <= a, a + 4 <= HEAP_END, NEW v \in Int
  PROVE  InHeap(Store(m, a, v))
<1>1. HEAP_BEGIN \in Int /\ HEAP_END \in Int
  BY HeapAssumption
<1>2. ASSUME NEW x \in DOMAIN Store(m, a, v)
      PROVE  x \in HEAP_BEGIN..HEAP_END-1 /\ Store(m, a, v)[x] \in 0..255
  <2>1. CASE x \in a..a+3
    <3>1. x - a \in 0..3 /\ x \in HEAP_BEGIN..HEAP_END-1
      BY <1>1, <2>1
    <3>2. Store(m, a, v)[x] = Byte(v, x - a)
      BY <2>1 DEF Store
    <3> QED BY <3>1, <3>2, ByteIsByte
  <2>2. CASE x \notin a..a+3
    <3>1. x \in DOMAIN m /\ Store(m, a, v)[x] = m[x]
      BY <1>2, <2>2 DEF Store
    <3> QED BY <3>1 DEF InHeap
  <2> QED BY <2>1, <2>2
<1> QED BY <1>2 DEF InHeap

(* So does a byte.                                                         *)
LEMMA PokeInHeap ==
  ASSUME NEW m, InHeap(m), NEW a \in Int, HEAP_BEGIN <= a, a < HEAP_END, NEW v \in 0..255
  PROVE  InHeap(Poke(m, a, v))
BY HeapAssumption DEF InHeap, Poke

(* A free block of size s, with its links.                                 *)
FreeAt(m, h, s, n, p) ==
  SizeOf(m, h) = s /\ IsFree(m, h) /\ NextOf(m, h) = n /\ PrevOf(m, h) = p

(* A block in use: no link in its header, and the footer points back at    *)
(* it.                                                                     *)
UsedAt(m, h, s) ==
  /\ SizeOf(m, h) = s /\ ~IsFree(m, h) /\ NextOf(m, h) = 0 /\ PrevOf(m, h) = 0
  /\ Load(m, h + 16 + s) = h

(* The addresses from a to z are as they were.                             *)
Same(m, n, a, z) == \A x \in Int : a <= x /\ x < z => Peek(n, x) = Peek(m, x)

(* A free block stays what it is when its header's bytes do.               *)
LEMMA FreeKept ==
  ASSUME NEW m, NEW n, NEW h \in Int, NEW s, NEW nx, NEW p,
         FreeAt(m, h, s, nx, p), Same(m, n, h, h + 16)
  PROVE  FreeAt(n, h, s, nx, p)
<1>1. Load(n, h) = Load(m, h) /\ Load(n, h + 8) = Load(m, h + 8) /\ Load(n, h + 12) = Load(m, h + 12)
  BY LoadSame DEF Same
<1>2. Peek(n, h + 4) = Peek(m, h + 4)
  BY DEF Same
<1> QED BY <1>1, <1>2 DEF FreeAt, SizeOf, NextOf, PrevOf, IsFree

(* A block in use stays what it is when the bytes of its header and footer *)
(* do.                                                                     *)
LEMMA UsedKept ==
  ASSUME NEW m, NEW n, NEW h \in Int, NEW s \in Int,
         UsedAt(m, h, s), Same(m, n, h, h + 16), Same(m, n, h + 16 + s, h + 20 + s)
  PROVE  UsedAt(n, h, s)
<1>1. Load(n, h) = Load(m, h) /\ Load(n, h + 8) = Load(m, h + 8) /\ Load(n, h + 12) = Load(m, h + 12)
  BY LoadSame DEF Same
<1>2. Peek(n, h + 4) = Peek(m, h + 4)
  BY DEF Same
<1>3. Load(n, h + 16 + s) = Load(m, h + 16 + s)
  BY LoadSame DEF Same
<1> QED BY <1>1, <1>2, <1>3 DEF UsedAt, SizeOf, NextOf, PrevOf, IsFree

(* Split: the front keeps block t's links and gets the size asked for, the *)
(* new block behind it gets the same links and the rest of the size;       *)
(* nothing else is written but the footer at t + s, which lies inside the  *)
(* new block.                                                              *)
LEMMA SplitDoes ==
  ASSUME NEW m, NEW t \in Words, NEW s \in Words, NEW n \in Words, NEW p \in Words,
         NEW sz \in Nat, FreeAt(m, t, s, n, p), sz + 36 <= s, t + s + 20 \in Words,
         InHeap(m), HEAP_BEGIN <= t, t + s + 20 <= HEAP_END,
         NEW new, new = NewFree(t, sz)
  PROVE  LET r == Split(m, t, sz)
         IN  /\ FreeAt(r, t, sz, n, p) /\ FreeAt(r, new, s - sz - 20, n, p)
             /\ \A x \in Int : /\ x < t \/ t + 3 < x
                               /\ x < new \/ new + 15 < x
                               /\ x < t + s \/ t + s + 3 < x
                  => Peek(r, x) = Peek(m, x)
             /\ InHeap(r)
<1> DEFINE a1 == SetFree(m, new, TRUE)
           m1 == SetPrev(a1, new, PrevOf(m, t))
           m2 == SetNext(m1, new, NextOf(m1, t))
           m3 == SetSize(m2, new, SizeOf(m2, t) - sz - 16 - 4)
           m4 == Store(m3, t + SizeOf(m3, t), new)
           r  == SetSize(m4, t, sz)
<1>0. Split(m, t, sz) = r
  BY DEF Split, HDR_SIZE, FTR_SIZE
<1>1. new = t + 20 + sz /\ new \in Words /\ sz \in Words /\ s - sz - 16 - 4 = s - sz - 20
      /\ s - sz - 20 \in Words /\ t \in Nat /\ s \in Nat /\ new \in Nat /\ n \in Nat /\ p \in Nat
  BY DEF NewFree, HDR_SIZE, FTR_SIZE, Words
<1>2. Load(m, t) = s /\ Peek(m, t + 4) # 0 /\ Load(m, t + 8) = n /\ Load(m, t + 12) = p
  BY DEF FreeAt, SizeOf, NextOf, PrevOf, IsFree
<1>3. Poked(m, a1, new + 4, 1)
  BY <1>1, PokePoked DEF SetFree
<1>20. HEAP_BEGIN \in Nat /\ HEAP_END \in Nat
  BY HeapAssumption
<1>21. InHeap(a1)
  BY <1>1, <1>20, PokeInHeap DEF SetFree
<1> HIDE DEF a1
<1>4. Wrote(a1, m1, new + 12, p)
  BY <1>1, <1>2, StoreWrote DEF SetPrev, PrevOf
<1>22. InHeap(m1)
  <2>1. PrevOf(m, t) = p
    BY <1>2 DEF PrevOf
  <2>2. new + 12 \in Int /\ HEAP_BEGIN <= new + 12 /\ (new + 12) + 4 <= HEAP_END
    BY <1>1, <1>20
  <2> QED BY <1>1, <1>21, <2>1, <2>2, StoreInHeap DEF SetPrev
<1>5. Load(m1, t + 8) = n
  BY <1>1, <1>2, <1>3, <1>4 DEF Poked, Wrote
<1> HIDE DEF m1
<1>6. Wrote(m1, m2, new + 8, n)
  BY <1>1, <1>5, StoreWrote DEF SetNext, NextOf
<1>23. InHeap(m2)
  BY <1>1, <1>5, <1>20, <1>22, StoreInHeap DEF SetNext, NextOf
<1>7. Load(m2, t) = s
  BY <1>1, <1>2, <1>3, <1>4, <1>6 DEF Poked, Wrote
<1> HIDE DEF m2
<1>8. Wrote(m2, m3, new, s - sz - 20)
  BY <1>1, <1>7, StoreWrote DEF SetSize, SizeOf
<1>24. InHeap(m3)
  BY <1>1, <1>7, <1>20, <1>23, StoreInHeap DEF SetSize, SizeOf
<1>9. Load(m3, t) = s
  BY <1>1, <1>7, <1>8 DEF Wrote
<1> HIDE DEF m3
<1>10. Wrote(m3, m4, t + s, new)
  BY <1>1, <1>9, StoreWrote DEF SizeOf
<1>25. InHeap(m4)
  BY <1>1, <1>9, <1>20, <1>24, StoreInHeap DEF SizeOf
<1> HIDE DEF m4
<1>26. InHeap(r)
  BY <1>1, <1>20, <1>25, StoreInHeap DEF SetSize
<1>11. Wrote(m4, r, t, sz)
  BY <1>1, StoreWrote DEF SetSize
<1> HIDE DEF r
<1>12. Load(r, t) = sz /\ Peek(r, t + 4) = Peek(m, t + 4) /\ Load(r, t + 8) = n /\ Load(r, t + 12) = p
  BY <1>1, <1>2, <1>3, <1>4, <1>6, <1>8, <1>10, <1>11 DEF Poked, Wrote
<1>13. Load(r, new) = s - sz - 20 /\ Peek(r, new + 4) = 1 /\ Load(r, new + 8) = n /\ Load(r, new + 12) = p
  BY <1>1, <1>2, <1>3, <1>4, <1>6, <1>8, <1>10, <1>11 DEF Poked, Wrote
<1>14. ASSUME NEW x \in Int, x < t \/ t + 3 < x, x < new \/ new + 15 < x, x < t + s \/ t + s + 3 < x
       PROVE  Peek(r, x) = Peek(m, x)
  BY <1>1, <1>3, <1>4, <1>6, <1>8, <1>10, <1>11, <1>14 DEF Poked, Wrote
<1>15. FreeAt(r, t, sz, n, p) /\ FreeAt(r, new, s - sz - 20, n, p)
  BY <1>2, <1>12, <1>13 DEF FreeAt, SizeOf, NextOf, PrevOf, IsFree
<1> QED BY <1>0, <1>14, <1>15, <1>26

(* Take: block t becomes a block in use, and its neighbours on the list    *)
(* are linked to each other; nothing else is written.                      *)
LEMMA TakeDoes ==
  ASSUME NEW m, NEW t \in Words, NEW s \in Words, NEW n \in Words, NEW p \in Words,
         FreeAt(m, t, s, n, p), t + s + 20 \in Words,
         n = 0 \/ n + 16 <= t \/ t + s + 20 <= n,
         p = 0 \/ p + 16 <= t \/ t + s + 20 <= p,
         n = 0 \/ p = 0 \/ n + 16 <= p \/ p + 16 <= n,
         InHeap(m), HEAP_BEGIN <= t, t + s + 20 <= HEAP_END,
         n = 0 \/ (HEAP_BEGIN <= n /\ n + 16 <= HEAP_END),
         p = 0 \/ (HEAP_BEGIN <= p /\ p + 16 <= HEAP_END),
         NEW q, q = Take(m, t, s)
  PROVE  /\ UsedAt(q, t, s)
         /\ n # 0 => PrevOf(q, n) = p
         /\ p # 0 => NextOf(q, p) = n
         /\ \A x \in Int : /\ x < t + 4 \/ t + 15 < x
                           /\ x < t + s + 16 \/ t + s + 19 < x
                           /\ n = 0 \/ x < n + 12 \/ n + 15 < x
                           /\ p = 0 \/ x < p + 8 \/ p + 11 < x
              => Peek(q, x) = Peek(m, x)
         /\ InHeap(q)
<1> DEFINE m1 == SetFree(m, t, FALSE)
           m2 == IF PrevOf(m1, t) # NULL THEN SetNext(m1, PrevOf(m1, t), NextOf(m1, t)) ELSE m1
           m3 == IF NextOf(m2, t) # NULL THEN SetPrev(m2, NextOf(m2, t), PrevOf(m2, t)) ELSE m2
           a4 == SetNext(m3, t, NULL)
           m4 == SetPrev(a4, t, NULL)
           r  == Store(m4, t + HDR_SIZE + s, t)
<1>0. q = r
  BY DEF Take
<1>1. t \in Nat /\ s \in Nat /\ n \in Nat /\ p \in Nat /\ 0 \in Words
  BY DEF Words
<1>2. Load(m, t) = s /\ Peek(m, t + 4) # 0 /\ Load(m, t + 8) = n /\ Load(m, t + 12) = p
  BY DEF FreeAt, SizeOf, NextOf, PrevOf, IsFree
<1>3. Poked(m, m1, t + 4, 0)
  BY <1>1, PokePoked DEF SetFree
<1>20. HEAP_BEGIN \in Nat /\ HEAP_END \in Nat
  BY HeapAssumption
<1>21. InHeap(m1)
  BY <1>1, <1>20, PokeInHeap DEF SetFree
<1> HIDE DEF m1
<1>4. Load(m1, t) = s /\ Load(m1, t + 8) = n /\ Load(m1, t + 12) = p
  BY <1>1, <1>2, <1>3 DEF Poked
<1>5. IF p # 0 THEN Wrote(m1, m2, p + 8, n) ELSE m2 = m1
  BY <1>1, <1>4, StoreWrote DEF SetNext, NextOf, PrevOf, NULL
<1>22. InHeap(m2)
  BY <1>1, <1>4, <1>20, <1>21, StoreInHeap DEF SetNext, NextOf, PrevOf, NULL
<1> HIDE DEF m2
<1>6. Load(m2, t) = s /\ Load(m2, t + 8) = n /\ Load(m2, t + 12) = p
  BY <1>1, <1>4, <1>5 DEF Wrote
<1>7. IF n # 0 THEN Wrote(m2, m3, n + 12, p) ELSE m3 = m2
  BY <1>1, <1>6, StoreWrote DEF SetPrev, NextOf, PrevOf, NULL
<1>23. InHeap(m3)
  BY <1>1, <1>6, <1>20, <1>22, StoreInHeap DEF SetPrev, NextOf, PrevOf, NULL
<1> HIDE DEF m3
<1>8. Wrote(m3, a4, t + 8, 0)
  BY <1>1, StoreWrote DEF SetNext, NULL
<1>24. InHeap(a4)
  BY <1>1, <1>20, <1>23, StoreInHeap DEF SetNext, NULL
<1> HIDE DEF a4
<1>9. Wrote(a4, m4, t + 12, 0)
  BY <1>1, StoreWrote DEF SetPrev, NULL
<1>25. InHeap(m4)
  BY <1>1, <1>20, <1>24, StoreInHeap DEF SetPrev, NULL
<1> HIDE DEF m4
<1>10. Wrote(m4, r, t + s + 16, t)
  <2>1. t + HDR_SIZE + s = t + s + 16
    BY <1>1 DEF HDR_SIZE
  <2> QED BY <1>1, <2>1, StoreWrote
<1>26. InHeap(r)
  <2>1. t + HDR_SIZE + s = t + s + 16
    BY <1>1 DEF HDR_SIZE
  <2> QED BY <1>1, <1>20, <1>25, <2>1, StoreInHeap
<1> HIDE DEF r
<1>11. Load(r, t) = s /\ Peek(r, t + 4) = 0 /\ Load(r, t + 8) = 0 /\ Load(r, t + 12) = 0
  <2>1. Load(m3, t) = s /\ Peek(m3, t + 4) = 0
    BY <1>1, <1>2, <1>3, <1>5, <1>6, <1>7 DEF Poked, Wrote
  <2> QED BY <1>1, <2>1, <1>8, <1>9, <1>10 DEF Wrote
<1>12. UsedAt(r, t, s)
  <2>1. t + 16 + s = t + s + 16
    BY <1>1
  <2> QED BY <1>10, <1>11, <2>1 DEF UsedAt, SizeOf, NextOf, PrevOf, IsFree, Wrote
<1>13. ASSUME n # 0 PROVE Load(r, n + 12) = p
  BY <1>1, <1>7, <1>8, <1>9, <1>10, <1>13 DEF Wrote
<1>14. ASSUME p # 0 PROVE Load(r, p + 8) = n
  BY <1>1, <1>5, <1>7, <1>8, <1>9, <1>10, <1>14 DEF Wrote
<1>15. ASSUME NEW x \in Int, x < t + 4 \/ t + 15 < x, x < t + s + 16 \/ t + s + 19 < x,
              n = 0 \/ x < n + 12 \/ n + 15 < x, p = 0 \/ x < p + 8 \/ p + 11 < x
       PROVE  Peek(r, x) = Peek(m, x)
  <2>1. Peek(m3, x) = Peek(m, x)
    BY <1>1, <1>3, <1>5, <1>7, <1>15 DEF Poked, Wrote
  <2> QED BY <2>1, <1>1, <1>8, <1>9, <1>10, <1>15 DEF Wrote
<1> QED BY <1>0, <1>12, <1>13, <1>14, <1>15, <1>26 DEF NextOf, PrevOf

(* Take of the first block of the list: it has no block before it.         *)
LEMMA TakeFirstDoes ==
  ASSUME NEW m, NEW t \in Words, NEW s \in Words, NEW n \in Words,
         FreeAt(m, t, s, n, 0), t + s + 20 \in Words,
         n = 0 \/ n + 16 <= t \/ t + s + 20 <= n,
         InHeap(m), HEAP_BEGIN <= t, t + s + 20 <= HEAP_END,
         n = 0 \/ (HEAP_BEGIN <= n /\ n + 16 <= HEAP_END),
         NEW q, q = Take(m, t, s)
  PROVE  /\ UsedAt(q, t, s)
         /\ n # 0 => PrevOf(q, n) = 0
         /\ \A x \in Int : /\ x < t + 4 \/ t + 15 < x
                           /\ x < t + s + 16 \/ t + s + 19 < x
                           /\ n = 0 \/ x < n + 12 \/ n + 15 < x
              => Peek(q, x) = Peek(m, x)
         /\ InHeap(q)
<1>1. 0 \in Words
  BY DEF Words
<1> DEFINE p == 0
<1> HIDE DEF p
<1>2. p = 0
  BY DEF p
<1>3. /\ UsedAt(q, t, s)
      /\ n # 0 => PrevOf(q, n) = p
      /\ \A x \in Int : /\ x < t + 4 \/ t + 15 < x
                        /\ x < t + s + 16 \/ t + s + 19 < x
                        /\ n = 0 \/ x < n + 12 \/ n + 15 < x
                        /\ p = 0 \/ x < p + 8 \/ p + 11 < x
           => Peek(q, x) = Peek(m, x)
      /\ InHeap(q)
  BY <1>1, <1>2, TakeDoes
<1> QED BY <1>2, <1>3

(* A block's next is written, and nothing else: how ph_free puts a block   *)
(* before the list.                                                        *)
LEMMA PushDoes ==
  ASSUME NEW m, NEW h \in Words, NEW s, NEW n, NEW p, NEW v \in Words,
         FreeAt(m, h, s, n, p), InHeap(m), HEAP_BEGIN <= h, h + 16 <= HEAP_END
  PROVE  LET r == SetNext(m, h, v)
         IN  /\ FreeAt(r, h, s, v, p)
             /\ \A x \in Int : x < h + 8 \/ h + 11 < x => Peek(r, x) = Peek(m, x)
             /\ InHeap(r)
<1> DEFINE r == SetNext(m, h, v)
<1>1. Wrote(m, r, h + 8, v) /\ h \in Nat
  BY StoreWrote DEF SetNext, Words
<1>2. InHeap(r)
  BY HeapAssumption, StoreInHeap DEF SetNext, Words
<1> HIDE DEF r
<1> QED BY <1>1, <1>2 DEF FreeAt, SizeOf, NextOf, PrevOf, IsFree, Wrote, r

(* The four links ph_free writes to put block h between t and n, and       *)
(* nothing else.                                                           *)
LEMMA InsertDoes ==
  ASSUME NEW m, NEW h \in Words, NEW t \in Words, NEW n \in Words,
         NEW s, NEW nh, NEW ph, FreeAt(m, h, s, nh, ph),
         NEW st, NEW pt, FreeAt(m, t, st, n, pt),
         NEW sn, NEW nn, NEW pn, FreeAt(m, n, sn, nn, pn),
         t + 16 <= h, h + 16 <= n, InHeap(m), HEAP_BEGIN <= t, n + 16 <= HEAP_END
  PROVE  LET m1 == SetNext(SetPrev(m, h, t), h, NextOf(m, t))
             m2 == SetNext(m1, t, h)
             r  == SetPrev(m2, NextOf(m2, h), h)
         IN  /\ FreeAt(r, t, st, h, pt) /\ FreeAt(r, h, s, n, t) /\ FreeAt(r, n, sn, nn, h)
             /\ \A x \in Int : /\ x < t + 8 \/ t + 11 < x
                               /\ x < h + 8 \/ h + 15 < x
                               /\ x < n + 12 \/ n + 15 < x
                  => Peek(r, x) = Peek(m, x)
             /\ InHeap(r)
<1> DEFINE a1 == SetPrev(m, h, t)
           m1 == SetNext(a1, h, NextOf(m, t))
           m2 == SetNext(m1, t, h)
           r  == SetPrev(m2, NextOf(m2, h), h)
<1>1. t \in Nat /\ h \in Nat /\ n \in Nat /\ HEAP_BEGIN \in Nat /\ HEAP_END \in Nat
  BY HeapAssumption DEF Words
<1>2. NextOf(m, t) = n
  BY DEF FreeAt
<1>3. Wrote(m, a1, h + 12, t)
  BY <1>1, StoreWrote DEF SetPrev
<1>21. InHeap(a1)
  BY <1>1, StoreInHeap DEF SetPrev
<1> HIDE DEF a1
<1>4. Wrote(a1, m1, h + 8, n)
  BY <1>1, <1>2, StoreWrote DEF SetNext
<1>22. InHeap(m1)
  BY <1>1, <1>2, <1>21, StoreInHeap DEF SetNext
<1> HIDE DEF m1
<1>5. Wrote(m1, m2, t + 8, h)
  BY <1>1, StoreWrote DEF SetNext
<1>23. InHeap(m2)
  BY <1>1, <1>22, StoreInHeap DEF SetNext
<1> HIDE DEF m2
<1>6. NextOf(m2, h) = n
  BY <1>1, <1>4, <1>5 DEF Wrote, NextOf
<1>7. Wrote(m2, r, n + 12, h)
  BY <1>1, <1>6, StoreWrote DEF SetPrev
<1>24. InHeap(r)
  BY <1>1, <1>6, <1>23, StoreInHeap DEF SetPrev
<1> HIDE DEF r
<1>8. FreeAt(r, t, st, h, pt)
  BY <1>1, <1>3, <1>4, <1>5, <1>7 DEF FreeAt, SizeOf, NextOf, PrevOf, IsFree, Wrote
<1>9. FreeAt(r, h, s, n, t)
  BY <1>1, <1>3, <1>4, <1>5, <1>7 DEF FreeAt, SizeOf, NextOf, PrevOf, IsFree, Wrote
<1>10. FreeAt(r, n, sn, nn, h)
  BY <1>1, <1>3, <1>4, <1>5, <1>7 DEF FreeAt, SizeOf, NextOf, PrevOf, IsFree, Wrote
<1>11. ASSUME NEW x \in Int, x < t + 8 \/ t + 11 < x, x < h + 8 \/ h + 15 < x,
              x < n + 12 \/ n + 15 < x
       PROVE  Peek(r, x) = Peek(m, x)
  BY <1>1, <1>3, <1>4, <1>5, <1>7, <1>11 DEF Wrote
<1> QED BY <1>8, <1>9, <1>10, <1>11, <1>24 DEF r, m2, m1, a1

-----------------------------------------------------------------------------
(* Blocks, and what the heap's operations do to them.                      *)

(* A block in use whose header is at h, as the ghost bag live holds it.    *)
Blk(h, s) == [ptr |-> h + 16, size |-> s]

(* A free block: its header's address, its size and its links.             *)
FB(h, s, n, p) == [at |-> h, size |-> s, next |-> n, prev |-> p]

(* The blocks U are in use, and F are marked free, and that is what their  *)
(* headers say.                                                            *)
Holds(U, F) ==
  /\ InHeap(mem)
  /\ live = [b \in U |-> 1]
  /\ \A b \in U : UsedAt(mem, b.ptr - 16, b.size)
  /\ \A f \in F : FreeAt(mem, f.at, f.size, f.next, f.prev)

(* Blocks that lie in the heap and apart.                                  *)
Fits(U, F) ==
  /\ \A f \in F : /\ {f.at, f.size, f.next, f.prev} \subseteq Nat
                  /\ HEAP_BEGIN <= f.at /\ f.at + f.size + 20 <= HEAP_END
  /\ \A b \in U : /\ {b.ptr, b.size} \subseteq Nat
                  /\ b = [ptr |-> b.ptr, size |-> b.size]
                  /\ HEAP_BEGIN + 16 <= b.ptr /\ b.ptr + b.size + 4 <= HEAP_END
  /\ \A f, g \in F : f = g \/ f.at + f.size + 20 <= g.at \/ g.at + g.size + 20 <= f.at
  /\ \A f \in F, b \in U : f.at + f.size + 36 <= b.ptr \/ b.ptr + b.size + 4 <= f.at
  /\ \A b, c \in U : b = c \/ b.ptr + b.size + 20 <= c.ptr \/ c.ptr + c.size + 20 <= b.ptr

(* Where next and prev of f point.                                         *)
Linked(F) ==
  \A f \in F : /\ f.next = 0 \/ \E g \in F : g # f /\ g.at = f.next
               /\ f.prev = 0 \/ \E g \in F : g # f /\ g.at = f.prev

(* The heap ends below 2^31, so that no address and no size in it is a     *)
(* negative number.  boot.s puts heap_begin and heap_end behind the        *)
(* kernel, which is loaded at 2 MB.                                        *)
SmallHeap == HEAP_END \in Words

(* A block not in use becomes one in use, once.                            *)
LEMMA BagAdded ==
  ASSUME NEW U, NEW b, b \notin U
  PROVE  [c \in U |-> 1] (+) SetToBag({b}) = [c \in U \cup {b} |-> 1]
BY DEF (+), SetToBag, BagIn, BagToSet

(* And is no longer one.                                                   *)
LEMMA BagRemoved ==
  ASSUME NEW U, NEW b
  PROVE  [c \in U |-> 1] (-) SetToBag({b}) = [c \in U \ {b} |-> 1]
BY DEF (-), SetToBag, BagIn, BagToSet

(* Blocks in use stay what they are when no byte of their headers and      *)
(* footers is written.                                                     *)
LEMMA OthersKept ==
  ASSUME NEW U, NEW F, NEW n, Fits(U, F),
         \A b \in U : UsedAt(mem, b.ptr - 16, b.size),
         \A f \in F : FreeAt(mem, f.at, f.size, f.next, f.prev),
         \A b \in U : \A x \in Int :
           \/ b.ptr - 16 <= x /\ x < b.ptr
           \/ b.ptr + b.size <= x /\ x < b.ptr + b.size + 4
           => Peek(n, x) = Peek(mem, x)
  PROVE  \A b \in U : UsedAt(n, b.ptr - 16, b.size)
<1> SUFFICES ASSUME NEW b \in U PROVE UsedAt(n, b.ptr - 16, b.size)
  OBVIOUS
<1>1. b.ptr \in Nat /\ b.size \in Nat /\ UsedAt(mem, b.ptr - 16, b.size)
  BY DEF Fits
<1>2. Same(mem, n, b.ptr - 16, (b.ptr - 16) + 16)
  BY <1>1 DEF Same
<1>3. Same(mem, n, (b.ptr - 16) + 16 + b.size, (b.ptr - 16) + 20 + b.size)
  BY <1>1 DEF Same
<1> QED BY <1>1, <1>2, <1>3, UsedKept

(* ph_malloc splits block t, the first of the list, and takes its front.   *)
LEMMA SplitTaken ==
  ASSUME SmallHeap, NEW U, NEW F, Holds(U, F), Fits(U, F), Linked(F),
         NEW t, NEW s, NEW n, FB(t, s, n, 0) \in F, NEW sz \in Nat, sz + 36 <= s,
         mem' = Take(Split(mem, t, sz), t, sz),
         live' = live (+) SetToBag({Blk(t, sz)}),
         NEW G, \A g \in G : \/ g = FB(t + 20 + sz, s - sz - 20, n, 0)
                             \/ g \in F /\ g.at # t /\ g.at # n
                             \/ \E h \in F : h.at = n /\ g = FB(n, h.size, h.next, 0)
  PROVE  Holds(U \cup {Blk(t, sz)}, G)'
<1> DEFINE f == FB(t, s, n, 0)
           new == NewFree(t, sz)
           m == Split(mem, t, sz)
           r == Take(m, t, sz)
<1>0. f \in F /\ f.at = t /\ f.size = s /\ f.next = n /\ f.prev = 0
  BY DEF FB
<1> HIDE DEF f
<1>1. /\ t \in Words /\ s \in Words /\ n \in Words /\ 0 \in Words /\ t + s + 20 \in Words
      /\ sz \in Words /\ t + sz + 20 \in Words /\ t \in Nat /\ s \in Nat /\ n \in Nat
      /\ new = t + 20 + sz /\ HEAP_BEGIN <= t /\ t + s + 20 <= HEAP_END
      /\ n = 0 \/ (HEAP_BEGIN <= n /\ n + 16 <= HEAP_END)
      /\ InHeap(mem)
  BY <1>0, HeapAssumption DEF Holds, Fits, Linked, SmallHeap, Words, NewFree, HDR_SIZE, FTR_SIZE
<1>2. FreeAt(mem, t, s, n, 0)
  BY <1>0 DEF Holds
<1>3. /\ FreeAt(m, t, sz, n, 0) /\ FreeAt(m, new, s - sz - 20, n, 0)
      /\ \A x \in Int : /\ x < t \/ t + 3 < x
                        /\ x < new \/ new + 15 < x
                        /\ x < t + s \/ t + s + 3 < x
           => Peek(m, x) = Peek(mem, x)
      /\ InHeap(m)
  BY <1>1, <1>2, SplitDoes
<1>40. r = Take(m, t, sz)
  OBVIOUS
<1>4. n = 0 \/ n + 16 <= t \/ t + s + 20 <= n
  BY <1>0, <1>1 DEF Fits, Linked
<1> HIDE DEF m, r
<1>5. /\ UsedAt(r, t, sz)
      /\ n # 0 => PrevOf(r, n) = 0
      /\ \A x \in Int : /\ x < t + 4 \/ t + 15 < x
                        /\ x < t + sz + 16 \/ t + sz + 19 < x
                        /\ n = 0 \/ x < n + 12 \/ n + 15 < x
           => Peek(r, x) = Peek(m, x)
      /\ InHeap(r)
  <2>1. n = 0 \/ n + 16 <= t \/ t + sz + 20 <= n
    BY <1>1, <1>4
  <2>2. FreeAt(m, t, sz, n, 0)
    BY <1>3
  <2>3. t \in Words /\ sz \in Words /\ n \in Words /\ 0 \in Words /\ t + sz + 20 \in Words
    BY <1>1
  <2>4. HEAP_BEGIN <= t /\ t + sz + 20 <= HEAP_END
    BY <1>1, HeapAssumption
  <2> QED BY <1>1, <1>3, <2>1, <2>2, <2>3, <2>4, <1>40, TakeFirstDoes
<1>6. mem' = r
  BY DEF r, m
<1>7. \A x \in Int : /\ x < t \/ t + s + 4 <= x
                     /\ n = 0 \/ x < n + 12 \/ n + 15 < x
        => Peek(r, x) = Peek(mem, x)
  BY <1>1, <1>3, <1>5
<1>8. \A b \in U : UsedAt(r, b.ptr - 16, b.size)
  <2>1. ASSUME NEW b \in U, NEW x \in Int,
               \/ b.ptr - 16 <= x /\ x < b.ptr
               \/ b.ptr + b.size <= x /\ x < b.ptr + b.size + 4
        PROVE  Peek(r, x) = Peek(mem, x)
    <3>1. b.ptr \in Nat /\ b.size \in Nat
      BY DEF Fits
    <3>2. t + s + 36 <= b.ptr \/ b.ptr + b.size + 4 <= t
      BY <1>0 DEF Fits
    <3>3. n = 0 \/ n + 16 <= b.ptr - 16 \/ b.ptr + b.size + 4 <= n
      BY <1>0, <1>1, <3>1 DEF Fits, Linked
    <3> QED BY <1>1, <1>7, <2>1, <3>1, <3>2, <3>3
  <2> QED BY <2>1, OthersKept DEF Holds
<1>9. FreeAt(r, new, s - sz - 20, n, 0)
  <2>1. Same(m, r, new, new + 16)
    BY <1>1, <1>4, <1>5 DEF Same
  <2> QED BY <1>1, <1>3, <2>1, FreeKept
<1>10. ASSUME NEW g \in F, g.at # t, g.at # n
       PROVE  FreeAt(r, g.at, g.size, g.next, g.prev)
  <2>1. g.at \in Nat /\ g.size \in Nat /\ FreeAt(mem, g.at, g.size, g.next, g.prev)
    BY DEF Holds, Fits
  <2>2. t + s + 20 <= g.at \/ g.at + g.size + 20 <= t
    BY <1>0, <1>10 DEF Fits
  <2>3. n = 0 \/ n + 16 <= g.at \/ g.at + g.size + 20 <= n
    BY <1>0, <1>1, <1>10, <2>1 DEF Fits, Linked
  <2>4. Same(mem, r, g.at, g.at + 16)
    BY <1>1, <1>7, <2>1, <2>2, <2>3 DEF Same
  <2> QED BY <2>1, <2>4, FreeKept
<1>11. ASSUME NEW h \in F, h.at = n
       PROVE  FreeAt(r, h.at, h.size, h.next, 0)
  <2>1. h.at \in Nat /\ h.size \in Nat /\ FreeAt(mem, h.at, h.size, h.next, h.prev)
    BY DEF Holds, Fits
  <2>3. CASE n = 0
    <3>1. HEAP_BEGIN <= h.at
      BY DEF Fits
    <3> QED BY <1>11, <2>3, <3>1, HeapAssumption
  <2>4. CASE n # 0
    <3>1. Same(mem, r, n, n + 12)
      BY <1>1, <1>4, <1>7, <2>4 DEF Same
    <3>2. Load(r, n) = Load(mem, n) /\ Load(r, n + 8) = Load(mem, n + 8) /\ Peek(r, n + 4) = Peek(mem, n + 4)
      BY <1>1, <3>1, LoadSame DEF Same
    <3> QED BY <1>5, <1>11, <2>1, <2>4, <3>2 DEF FreeAt, SizeOf, IsFree, NextOf, PrevOf
  <2> QED BY <2>3, <2>4
<1>12. Blk(t, sz) \notin U
  <2> SUFFICES ASSUME Blk(t, sz) \in U PROVE FALSE
    OBVIOUS
  <2>1. Blk(t, sz).ptr = t + 16 /\ Blk(t, sz).size = sz
    BY DEF Blk
  <2>2. t + s + 36 <= t + 16 \/ t + 16 + sz + 4 <= t
    BY <1>0, <2>1 DEF Fits
  <2> QED BY <1>1, <2>2
<1>13. live' = [b \in U \cup {Blk(t, sz)} |-> 1]
  BY <1>12, BagAdded DEF Holds
<1>14. \A b \in U \cup {Blk(t, sz)} : UsedAt(r, b.ptr - 16, b.size)
  <2>1. Blk(t, sz).ptr - 16 = t /\ Blk(t, sz).size = sz
    BY <1>1 DEF Blk
  <2> QED BY <1>5, <1>8, <2>1
<1>15. \A g \in G : FreeAt(r, g.at, g.size, g.next, g.prev)
  BY <1>1, <1>9, <1>10, <1>11 DEF FB
<1> QED BY <1>5, <1>6, <1>13, <1>14, <1>15 DEF Holds

(* ph_malloc takes block t, the first of the list, whole.                  *)
LEMMA WholeTaken ==
  ASSUME SmallHeap, NEW U, NEW F, Holds(U, F), Fits(U, F), Linked(F),
         NEW t, NEW s, NEW n, FB(t, s, n, 0) \in F,
         mem' = Take(mem, t, s),
         live' = live (+) SetToBag({Blk(t, s)}),
         NEW G, \A g \in G : \/ g \in F /\ g.at # t /\ g.at # n
                             \/ \E h \in F : h.at = n /\ g = FB(n, h.size, h.next, 0)
  PROVE  Holds(U \cup {Blk(t, s)}, G)'
<1> DEFINE f == FB(t, s, n, 0)
           r == Take(mem, t, s)
<1>0. f \in F /\ f.at = t /\ f.size = s /\ f.next = n /\ f.prev = 0
  BY DEF FB
<1> HIDE DEF f
<1>1. /\ t \in Words /\ s \in Words /\ n \in Words /\ t + s + 20 \in Words
      /\ t \in Nat /\ s \in Nat /\ n \in Nat /\ HEAP_BEGIN <= t /\ t + s + 20 <= HEAP_END
      /\ n = 0 \/ (HEAP_BEGIN <= n /\ n + 16 <= HEAP_END)
      /\ InHeap(mem)
  BY <1>0, HeapAssumption DEF Holds, Fits, Linked, SmallHeap, Words
<1>2. FreeAt(mem, t, s, n, 0)
  BY <1>0 DEF Holds
<1>3. n = 0 \/ n + 16 <= t \/ t + s + 20 <= n
  BY <1>0, <1>1 DEF Fits, Linked
<1>4. r = Take(mem, t, s)
  OBVIOUS
<1> HIDE DEF r
<1>5. /\ UsedAt(r, t, s)
      /\ n # 0 => PrevOf(r, n) = 0
      /\ \A x \in Int : /\ x < t + 4 \/ t + 15 < x
                        /\ x < t + s + 16 \/ t + s + 19 < x
                        /\ n = 0 \/ x < n + 12 \/ n + 15 < x
           => Peek(r, x) = Peek(mem, x)
      /\ InHeap(r)
  BY <1>1, <1>2, <1>3, <1>4, TakeFirstDoes
<1>6. mem' = r
  BY <1>4
<1>7. \A x \in Int : /\ x < t \/ t + s + 20 <= x
                     /\ n = 0 \/ x < n + 12 \/ n + 15 < x
        => Peek(r, x) = Peek(mem, x)
  BY <1>1, <1>5
<1>8. \A b \in U : UsedAt(r, b.ptr - 16, b.size)
  <2>1. ASSUME NEW b \in U, NEW x \in Int,
               \/ b.ptr - 16 <= x /\ x < b.ptr
               \/ b.ptr + b.size <= x /\ x < b.ptr + b.size + 4
        PROVE  Peek(r, x) = Peek(mem, x)
    <3>1. b.ptr \in Nat /\ b.size \in Nat
      BY DEF Fits
    <3>2. t + s + 36 <= b.ptr \/ b.ptr + b.size + 4 <= t
      BY <1>0 DEF Fits
    <3>3. n = 0 \/ n + 16 <= b.ptr - 16 \/ b.ptr + b.size + 4 <= n
      BY <1>0, <1>1, <3>1 DEF Fits, Linked
    <3> QED BY <1>1, <1>7, <2>1, <3>1, <3>2, <3>3
  <2> QED BY <2>1, OthersKept DEF Holds
<1>9. ASSUME NEW g \in F, g.at # t, g.at # n
      PROVE  FreeAt(r, g.at, g.size, g.next, g.prev)
  <2>1. g.at \in Nat /\ g.size \in Nat /\ FreeAt(mem, g.at, g.size, g.next, g.prev)
    BY DEF Holds, Fits
  <2>2. t + s + 20 <= g.at \/ g.at + g.size + 20 <= t
    BY <1>0, <1>9 DEF Fits
  <2>3. n = 0 \/ n + 16 <= g.at \/ g.at + g.size + 20 <= n
    BY <1>0, <1>1, <1>9, <2>1 DEF Fits, Linked
  <2>4. Same(mem, r, g.at, g.at + 16)
    BY <1>1, <1>7, <2>1, <2>2, <2>3 DEF Same
  <2> QED BY <2>1, <2>4, FreeKept
<1>10. ASSUME NEW h \in F, h.at = n
       PROVE  FreeAt(r, h.at, h.size, h.next, 0)
  <2>1. h.at \in Nat /\ h.size \in Nat /\ FreeAt(mem, h.at, h.size, h.next, h.prev)
    BY DEF Holds, Fits
  <2>2. n # 0
    BY <1>10, HeapAssumption DEF Fits
  <2>3. Same(mem, r, n, n + 12)
    BY <1>1, <1>3, <1>7, <2>2 DEF Same
  <2>4. Load(r, n) = Load(mem, n) /\ Load(r, n + 8) = Load(mem, n + 8) /\ Peek(r, n + 4) = Peek(mem, n + 4)
    BY <1>1, <2>3, LoadSame DEF Same
  <2> QED BY <1>5, <1>10, <2>1, <2>2, <2>4 DEF FreeAt, SizeOf, IsFree, NextOf, PrevOf
<1>11. Blk(t, s) \notin U
  <2> SUFFICES ASSUME Blk(t, s) \in U PROVE FALSE
    OBVIOUS
  <2>1. Blk(t, s).ptr = t + 16 /\ Blk(t, s).size = s
    BY DEF Blk
  <2>2. t + s + 36 <= t + 16 \/ t + 16 + s + 4 <= t
    BY <1>0, <2>1 DEF Fits
  <2> QED BY <1>1, <2>2
<1>12. live' = [b \in U \cup {Blk(t, s)} |-> 1]
  BY <1>11, BagAdded DEF Holds
<1>13. \A b \in U \cup {Blk(t, s)} : UsedAt(r, b.ptr - 16, b.size)
  <2>1. Blk(t, s).ptr - 16 = t /\ Blk(t, s).size = s
    BY <1>1 DEF Blk
  <2> QED BY <1>5, <1>8, <2>1
<1>14. \A g \in G : FreeAt(r, g.at, g.size, g.next, g.prev)
  BY <1>1, <1>9, <1>10 DEF FB
<1> QED BY <1>5, <1>6, <1>12, <1>13, <1>14 DEF Holds

(* ph_free marks the block free.                                           *)
LEMMA MarkedFree ==
  ASSUME NEW U, NEW F, Holds(U, F), Fits(U, F),
         NEW h \in Nat, NEW s \in Nat, Blk(h, s) \in U,
         mem' = SetFree(mem, h, TRUE),
         live' = live (-) SetToBag({Blk(h, s)})
  PROVE  Holds(U \ {Blk(h, s)}, F \cup {FB(h, s, 0, 0)})'
<1> DEFINE r == SetFree(mem, h, TRUE)
<1>0. Blk(h, s).ptr = h + 16 /\ Blk(h, s).size = s /\ (h + 16) - 16 = h
  BY DEF Blk
<1>1. UsedAt(mem, h, s) /\ InHeap(mem)
  BY <1>0 DEF Holds
<1>2. HEAP_BEGIN <= h /\ h + s + 20 <= HEAP_END
  BY <1>0, HeapAssumption DEF Fits
<1>20. r = Poke(mem, h + 4, 1)
  BY DEF SetFree
<1>21. h + 4 \in Int /\ HEAP_BEGIN <= h + 4 /\ h + 4 < HEAP_END /\ 1 \in 0..255
  BY <1>2, HeapAssumption
<1> HIDE DEF r
<1>3. Poked(mem, r, h + 4, 1) /\ InHeap(r)
  <2>1. Poked(mem, r, h + 4, 1)
    BY <1>20, <1>21, PokePoked
  <2>2. InHeap(r)
    BY <1>1, <1>20, <1>21, PokeInHeap
  <2> QED BY <2>1, <2>2
<1>4. FreeAt(r, h, s, 0, 0)
  BY <1>1, <1>3 DEF UsedAt, FreeAt, SizeOf, NextOf, PrevOf, IsFree, Poked
<1>5. ASSUME NEW b \in U \ {Blk(h, s)}
      PROVE  UsedAt(r, b.ptr - 16, b.size)
  <2>1. b.ptr \in Nat /\ b.size \in Nat /\ UsedAt(mem, b.ptr - 16, b.size)
    BY DEF Holds, Fits
  <2>2. b.ptr + b.size + 20 <= h + 16 \/ h + 16 + s + 20 <= b.ptr
    BY <1>0 DEF Fits
  <2>3. Same(mem, r, b.ptr - 16, (b.ptr - 16) + 16)
    BY <1>3, <2>1, <2>2 DEF Same, Poked
  <2>4. Same(mem, r, (b.ptr - 16) + 16 + b.size, (b.ptr - 16) + 20 + b.size)
    BY <1>3, <2>1, <2>2 DEF Same, Poked
  <2> QED BY <2>1, <2>3, <2>4, UsedKept
<1>6. ASSUME NEW g \in F
      PROVE  FreeAt(r, g.at, g.size, g.next, g.prev)
  <2>1. g.at \in Nat /\ g.size \in Nat /\ FreeAt(mem, g.at, g.size, g.next, g.prev)
    BY DEF Holds, Fits
  <2>2. g.at + g.size + 36 <= h + 16 \/ h + 16 + s + 4 <= g.at
    BY <1>0 DEF Fits
  <2>3. Same(mem, r, g.at, g.at + 16)
    BY <1>3, <2>1, <2>2 DEF Same, Poked
  <2> QED BY <2>1, <2>3, FreeKept
<1>7. live' = [b \in U \ {Blk(h, s)} |-> 1]
  BY BagRemoved DEF Holds
<1>8. mem' = r
  BY DEF r
<1>9. \A g \in F \cup {FB(h, s, 0, 0)} : FreeAt(r, g.at, g.size, g.next, g.prev)
  BY <1>4, <1>6 DEF FB
<1> QED BY <1>3, <1>5, <1>7, <1>8, <1>9 DEF Holds

(* ph_free puts block h before the list.                                   *)
LEMMA PutFirst ==
  ASSUME SmallHeap, NEW U, NEW F, Holds(U, F), Fits(U, F),
         NEW h, NEW s, NEW n, NEW p, FB(h, s, n, p) \in F, NEW v \in Words,
         mem' = SetNext(mem, h, v), live' = live,
         NEW G, \A g \in G : g = FB(h, s, v, p) \/ (g \in F /\ g.at # h)
  PROVE  Holds(U, G)'
<1> DEFINE f == FB(h, s, n, p)
           r == SetNext(mem, h, v)
<1>0. f \in F /\ f.at = h /\ f.size = s /\ f.next = n /\ f.prev = p
  BY DEF FB
<1> HIDE DEF f
<1>1. /\ h \in Nat /\ s \in Nat /\ h \in Words /\ HEAP_BEGIN <= h /\ h + 16 <= HEAP_END
      /\ FreeAt(mem, h, s, n, p) /\ InHeap(mem)
  BY <1>0, HeapAssumption DEF Fits, Holds, SmallHeap, Words
<1>2. /\ FreeAt(r, h, s, v, p) /\ InHeap(r)
      /\ \A x \in Int : x < h + 8 \/ h + 11 < x => Peek(r, x) = Peek(mem, x)
  BY <1>1, PushDoes
<1> HIDE DEF r
<1>3. \A b \in U : UsedAt(r, b.ptr - 16, b.size)
  <2>1. ASSUME NEW b \in U, NEW x \in Int,
               \/ b.ptr - 16 <= x /\ x < b.ptr
               \/ b.ptr + b.size <= x /\ x < b.ptr + b.size + 4
        PROVE  Peek(r, x) = Peek(mem, x)
    <3>1. b.ptr \in Nat /\ b.size \in Nat
      BY DEF Fits
    <3>2. h + s + 36 <= b.ptr \/ b.ptr + b.size + 4 <= h
      BY <1>0 DEF Fits
    <3> QED BY <1>1, <1>2, <2>1, <3>1, <3>2
  <2> QED BY <2>1, OthersKept DEF Holds
<1>4. ASSUME NEW g \in F, g.at # h
      PROVE  FreeAt(r, g.at, g.size, g.next, g.prev)
  <2>1. g.at \in Nat /\ g.size \in Nat /\ FreeAt(mem, g.at, g.size, g.next, g.prev)
    BY DEF Holds, Fits
  <2>2. h + s + 20 <= g.at \/ g.at + g.size + 20 <= h
    BY <1>0, <1>4 DEF Fits
  <2>3. Same(mem, r, g.at, g.at + 16)
    BY <1>1, <1>2, <2>1, <2>2 DEF Same
  <2> QED BY <2>1, <2>3, FreeKept
<1>5. mem' = r
  BY DEF r
<1>6. \A g \in G : FreeAt(r, g.at, g.size, g.next, g.prev)
  BY <1>2, <1>4 DEF FB
<1> QED BY <1>2, <1>3, <1>5, <1>6 DEF Holds

(* ph_free puts block h between t and n.                                   *)
LEMMA PutBetween ==
  ASSUME SmallHeap, NEW U, NEW F, Holds(U, F), Fits(U, F),
         NEW h, NEW s, NEW nh, NEW ph, FB(h, s, nh, ph) \in F,
         NEW t, NEW st, NEW n, NEW pt, FB(t, st, n, pt) \in F,
         NEW sn, NEW nn, NEW pn, FB(n, sn, nn, pn) \in F,
         t < h, h < n,
         LET m1 == SetNext(SetPrev(mem, h, t), h, NextOf(mem, t))
             m2 == SetNext(m1, t, h)
         IN  mem' = SetPrev(m2, NextOf(m2, h), h),
         live' = live,
         NEW G, \A g \in G : \/ g \in {FB(t, st, h, pt), FB(h, s, n, t), FB(n, sn, nn, h)}
                             \/ g \in F /\ g.at \notin {t, h, n}
  PROVE  Holds(U, G)'
<1> DEFINE f == FB(h, s, nh, ph)
           ft == FB(t, st, n, pt)
           fn == FB(n, sn, nn, pn)
           r == mem'
<1>0. /\ f \in F /\ f.at = h /\ f.size = s /\ ft \in F /\ ft.at = t /\ ft.size = st
      /\ fn \in F /\ fn.at = n /\ fn.size = sn
  BY DEF FB
<1>1. /\ FreeAt(mem, h, s, nh, ph) /\ FreeAt(mem, t, st, n, pt) /\ FreeAt(mem, n, sn, nn, pn)
      /\ InHeap(mem)
  BY <1>0 DEF Holds, FB
<1> HIDE DEF f, ft, fn
<1>2. /\ {h, s, t, st, n, sn} \subseteq Nat
      /\ HEAP_BEGIN <= t /\ h + s + 20 <= HEAP_END /\ n + sn + 20 <= HEAP_END
  BY <1>0 DEF Fits
<1>3. t + st + 20 <= h /\ h + s + 20 <= n
  BY <1>0, <1>2 DEF Fits
<1>4. {h, t, n} \subseteq Words
  BY <1>2, <1>3, HeapAssumption DEF SmallHeap, Words
<1>5. /\ FreeAt(r, t, st, h, pt) /\ FreeAt(r, h, s, n, t) /\ FreeAt(r, n, sn, nn, h) /\ InHeap(r)
      /\ \A x \in Int : /\ x < t + 8 \/ t + 11 < x
                        /\ x < h + 8 \/ h + 15 < x
                        /\ x < n + 12 \/ n + 15 < x
           => Peek(r, x) = Peek(mem, x)
  <2>1. t + 16 <= h /\ h + 16 <= n /\ n + 16 <= HEAP_END /\ HEAP_BEGIN <= t
    BY <1>2, <1>3, HeapAssumption
  <2> QED BY <1>1, <1>4, <2>1, InsertDoes
<1> HIDE DEF r
<1>6. \A b \in U : UsedAt(r, b.ptr - 16, b.size)
  <2>1. ASSUME NEW b \in U, NEW x \in Int,
               \/ b.ptr - 16 <= x /\ x < b.ptr
               \/ b.ptr + b.size <= x /\ x < b.ptr + b.size + 4
        PROVE  Peek(r, x) = Peek(mem, x)
    <3>1. b.ptr \in Nat /\ b.size \in Nat
      BY DEF Fits
    <3>2. /\ h + s + 36 <= b.ptr \/ b.ptr + b.size + 4 <= h
          /\ t + st + 36 <= b.ptr \/ b.ptr + b.size + 4 <= t
          /\ n + sn + 36 <= b.ptr \/ b.ptr + b.size + 4 <= n
      BY <1>0 DEF Fits
    <3> QED BY <1>2, <1>5, <2>1, <3>1, <3>2
  <2> QED BY <2>1, OthersKept DEF Holds
<1>7. ASSUME NEW g \in F, g.at \notin {t, h, n}
      PROVE  FreeAt(r, g.at, g.size, g.next, g.prev)
  <2>1. g.at \in Nat /\ g.size \in Nat /\ FreeAt(mem, g.at, g.size, g.next, g.prev)
    BY DEF Holds, Fits
  <2>2. /\ h + s + 20 <= g.at \/ g.at + g.size + 20 <= h
        /\ t + st + 20 <= g.at \/ g.at + g.size + 20 <= t
        /\ n + sn + 20 <= g.at \/ g.at + g.size + 20 <= n
    BY <1>0, <1>7 DEF Fits
  <2>3. Same(mem, r, g.at, g.at + 16)
    BY <1>2, <1>5, <2>1, <2>2 DEF Same
  <2> QED BY <2>1, <2>3, FreeKept
<1>8. mem' = r
  BY DEF r
<1>9. \A g \in G : FreeAt(r, g.at, g.size, g.next, g.prev)
  BY <1>5, <1>7 DEF FB
<1> QED BY <1>5, <1>6, <1>8, <1>9 DEF Holds

(* The caller writes into its block.                                       *)
LEMMA CallerWrites ==
  ASSUME NEW U, NEW F, Holds(U, F), Fits(U, F), NEW b \in U,
         NEW W, \A i \in W : i \in Nat /\ i < b.size,
         mem' = [a \in DOMAIN mem \ {b.ptr + i : i \in W} |-> mem[a]], live' = live
  PROVE  Holds(U, F)'
<1> DEFINE r == mem'
<1>1. b.ptr \in Nat /\ b.size \in Nat /\ InHeap(mem)
  BY DEF Fits, Holds
<1>2. InHeap(r)
  BY <1>1 DEF InHeap
<1>3. \A x \in Int : x < b.ptr \/ b.ptr + b.size <= x => Peek(r, x) = Peek(mem, x)
  BY <1>1 DEF Peek
<1> HIDE DEF r
<1>4. \A c \in U : UsedAt(r, c.ptr - 16, c.size)
  <2>1. ASSUME NEW c \in U, NEW x \in Int,
               \/ c.ptr - 16 <= x /\ x < c.ptr
               \/ c.ptr + c.size <= x /\ x < c.ptr + c.size + 4
        PROVE  Peek(r, x) = Peek(mem, x)
    <3>1. c.ptr \in Nat /\ c.size \in Nat
      BY DEF Fits
    <3>2. b = c \/ b.ptr + b.size + 20 <= c.ptr \/ c.ptr + c.size + 20 <= b.ptr
      BY DEF Fits
    <3> QED BY <1>1, <1>3, <2>1, <3>1, <3>2
  <2> QED BY <2>1, OthersKept DEF Holds
<1>5. ASSUME NEW g \in F
      PROVE  FreeAt(r, g.at, g.size, g.next, g.prev)
  <2>1. g.at \in Nat /\ g.size \in Nat /\ FreeAt(mem, g.at, g.size, g.next, g.prev)
    BY DEF Holds, Fits
  <2>2. g.at + g.size + 36 <= b.ptr \/ b.ptr + b.size + 4 <= g.at
    BY DEF Fits
  <2>3. Same(mem, r, g.at, g.at + 16)
    BY <1>1, <1>3, <2>1, <2>2 DEF Same
  <2> QED BY <2>1, <2>3, FreeKept
<1>6. mem' = r
  BY DEF r
<1> QED BY <1>2, <1>4, <1>5, <1>6 DEF Holds

-----------------------------------------------------------------------------
(* The places of kernel_main and pong, and the blocks at each of them.     *)

(* Where the blocks lie once k pongs have left their address spaces: BigAt *)
(* is the block behind the place the memory map had, FileAt where pong's   *)
(* file goes, VasAt(k) its address space, RestAt(k) its PCB.               *)
BigAt       == HEAP_BEGIN + 405
BigSize     == HEAP_END - HEAP_BEGIN - 425
FileAt      == HEAP_BEGIN + 36
VasAt(k)    == HEAP_BEGIN + 80 + 36 * k
RestAt(k)   == HEAP_BEGIN + 116 + 36 * k
RestSize(k) == 269 - 36 * k

(* The blocks kernel_main and pong take; Kept are those never given back:  *)
(* kernel_main's PCB and the address spaces of k pongs.                    *)
MemInfo == Blk(HEAP_BEGIN, 385)
Kernel  == Blk(HEAP_BEGIN, 16)
File    == Blk(FileAt, 24)
Task(k) == Blk(RestAt(k), 16)
Vases(k) == {Blk(VasAt(j), 16) : j \in 0..k-1}
Kept(k) == {Kernel} \cup Vases(k)

(* The two free blocks behind the callers': all that was never used, and   *)
(* what is left of the place the memory map had.                           *)
Big == FB(BigAt, BigSize, 0, 0)
Rest(k, p) == FB(RestAt(k), RestSize(k), BigAt, p)

(* The free blocks between the commands, with the file taken, with the     *)
(* address space taken, with the PCB taken, and with the file given back.  *)
FreeReady(k) ==
  IF k = 0 THEN {Big, FB(FileAt, 349, BigAt, 0)}
  ELSE {Big, FB(FileAt, 24, VasAt(k), 0), FB(VasAt(k), 16, RestAt(k), FileAt), Rest(k, VasAt(k))}
FreeNoFile(k) ==
  IF k = 0 THEN {Big, FB(VasAt(0), 305, BigAt, 0)}
  ELSE {Big, FB(VasAt(k), 16, RestAt(k), 0), Rest(k, VasAt(k))}
FreeNoVas(k)  == {Big, Rest(k, 0)}
FreeNoTask(k) == {Big, Rest(k + 1, 0)}
FreeFile(k)   == {Big, FB(FileAt, 24, RestAt(k + 1), 0), Rest(k + 1, 0)}

(* The heap as k_heap_initialize leaves it, and the memory map's place     *)
(* once it is given back, in front of block n.                             *)
Whole == FB(HEAP_BEGIN, HEAP_END - HEAP_BEGIN - 20, 0, 0)
Front(n) == FB(HEAP_BEGIN, 385, n, 0)

(* The heap's call record while ph_malloc looks at block t, when a call    *)
(* has returned p, while ph_free tries to merge and while it looks for the *)
(* place of h behind t.                                                    *)
Obtaining(sz, t) == [Idle EXCEPT !.at = "malloc", !.sz = sz, !.tmp = t]
Returned(p) == [Idle EXCEPT !.ret = p]
Freeing(h, t) == [Idle EXCEPT !.at = "coalesce", !.hdr = h, !.tmp = t]
Placing(h, t) == [Idle EXCEPT !.at = "insert", !.hdr = h, !.tmp = t]

(* The blocks that the memory holds and the head of its list.              *)
Layout(U, F, head) == Holds(U, F) /\ free_head = head

(* Where the caller is and where the heap's call is.                       *)
AtCall(label, c) == pc = label /\ call = c

(* kernel_main before it has the memory map's block: the heap is one       *)
(* block.                                                                  *)
Starting ==
  /\ \/ AtCall("malloc mem_info", Idle) \/ AtCall("mem_info =", Obtaining(385, HEAP_BEGIN))
  /\ Layout({}, {Whole}, HEAP_BEGIN)

(* It has it, from the return of ph_malloc to the call of ph_free.         *)
MemInfoTaken ==
  /\ call = Returned(HEAP_BEGIN + 16)
  /\ \/ pc = "mem_info ="
     \/ pc \in {"get_free_mem_region", "free mem_info"} /\ ptr["mem_info"] = HEAP_BEGIN + 16
  /\ Layout({MemInfo}, {Big}, BigAt)

(* It has given it back, and the block is not yet on the list.             *)
MemInfoFreed ==
  /\ AtCall("malloc kernel_task", Freeing(HEAP_BEGIN, 0))
  /\ Layout({}, {Big, Front(0)}, BigAt)

(* The block is the first of the list again; kernel_main asks for its PCB. *)
MemInfoBack ==
  /\ \/ AtCall("malloc kernel_task", Idle) \/ AtCall("kernel_task =", Obtaining(16, HEAP_BEGIN))
  /\ Layout({}, {Big, Front(BigAt)}, HEAP_BEGIN)

(* It has its PCB, cut from the front of the memory map's place.           *)
KernelTaken ==
  /\ AtCall("kernel_task =", Returned(HEAP_BEGIN + 16))
  /\ Layout(Kept(0), FreeReady(0), FileAt)

(* One of these, before the first pong.                                    *)
Booting ==
  /\ pongs = 0
  /\ Starting \/ MemInfoTaken \/ MemInfoFreed \/ MemInfoBack \/ KernelTaken

(* bsy_loop between two commands, every block of the last one settled.     *)
Waiting ==
  /\ pc = "bsy_loop" /\ call.at = "idle"
  /\ Layout(Kept(pongs), FreeReady(pongs), FileAt)

(* pong, when k pongs have come before, up to its first request.           *)
PongBegins(k) ==
  /\ \/ pc = "malloc f" /\ call.at = "idle"
     \/ AtCall("f =", Obtaining(24, FileAt))
  /\ Layout(Kept(k), FreeReady(k), FileAt)

(* It has the file, the first of the free blocks.                          *)
FileTaken(k) ==
  /\ \/ AtCall("f =", Returned(FileAt + 16))
     \/ /\ ptr["f"] = FileAt + 16
        /\ AtCall("malloc vas", Returned(FileAt + 16)) \/ AtCall("vas =", Obtaining(16, VasAt(k)))
  /\ Layout(Kept(k) \cup {File}, FreeNoFile(k), VasAt(k))

(* It has its address space too.                                           *)
VasTaken(k) ==
  /\ \/ AtCall("vas =", Returned(VasAt(k) + 16))
     \/ AtCall("malloc task", Returned(VasAt(k) + 16))
     \/ AtCall("task =", Obtaining(16, RestAt(k)))
  /\ ptr["f"] = FileAt + 16
  /\ Layout(Kept(k + 1) \cup {File}, FreeNoVas(k), RestAt(k))

(* It has its PCB, cut from the front of the rest.                         *)
TaskTaken(k) ==
  /\ call = Returned(RestAt(k) + 16)
  /\ pc = "task =" \/ (pc = "free f" /\ ptr["task"] = RestAt(k) + 16)
  /\ ptr["f"] = FileAt + 16
  /\ Layout(Kept(k + 1) \cup {File, Task(k)}, FreeNoTask(k), RestAt(k + 1))

(* It has given back the file, which is not yet on the list.               *)
FileFreed(k) ==
  /\ AtCall("free task", Freeing(FileAt, HEAP_BEGIN)) /\ ptr["task"] = RestAt(k) + 16
  /\ Layout(Kept(k + 1) \cup {Task(k)}, FreeNoTask(k) \cup {FB(FileAt, 24, 0, 0)}, RestAt(k + 1))

(* The file is the first of the list again.                                *)
FileBack(k) ==
  /\ AtCall("free task", Idle) /\ ptr["task"] = RestAt(k) + 16
  /\ Layout(Kept(k + 1) \cup {Task(k)}, FreeFile(k), FileAt)

(* It has given back its PCB, and ph_free is looking for its place, while  *)
(* pong has returned.                                                      *)
TaskFreed(k) ==
  /\ AtCall("bsy_loop", Freeing(RestAt(k), VasAt(k))) \/ AtCall("bsy_loop", Placing(RestAt(k), FileAt))
  /\ Layout(Kept(k + 1), FreeFile(k) \cup {FB(RestAt(k), 16, 0, 0)}, FileAt)

(* One of these, in the pong that is running.                              *)
Ponging(k) ==
  /\ k \in Nat /\ pongs = k + 1
  /\ \/ PongBegins(k) \/ FileTaken(k) \/ VasTaken(k) \/ TaskTaken(k)
     \/ FileFreed(k) \/ FileBack(k) \/ TaskFreed(k)

(* The inductive invariant: the caller is at one of its places, and the    *)
(* heap holds the blocks of that place.                                    *)
HInv ==
  /\ regions \in MemoryMaps
  /\ pongs \in 0..MaxPongs
  /\ ptr \in [Pointers -> Nat]
  /\ Booting \/ Waiting \/ Ponging(pongs - 1)

-----------------------------------------------------------------------------
(* The blocks of each place fit.                                           *)

(* The heap has room for the memory map and a free block behind it, which  *)
(* is all that kernel_main and seven pongs use, and ends below 2^31.  In   *)
(* boot.s it has 32 KB.                                                    *)
Room == SmallHeap /\ HEAP_BEGIN + 441 <= HEAP_END

(* The blocks of each place lie in the heap and apart, and their links     *)
(* lead to blocks of the list.  At the start:                              *)
LEMMA WholeFits == Room => Fits({}, {Whole}) /\ Linked({Whole})
BY HeapAssumption DEF Room, Fits, Linked, Whole, FB

(* With the memory map taken:                                              *)
LEMMA MemInfoFits == Room => /\ Fits({MemInfo}, {Big}) /\ Linked({Big})
BY HeapAssumption DEF Room, Fits, Linked, Big, FB, MemInfo, Blk, BigAt, BigSize

(* With the memory map given back:                                         *)
LEMMA FrontFits ==
  ASSUME Room, NEW n \in {0, BigAt}
  PROVE  Fits({}, {Big, Front(n)}) /\ Linked({Big, Front(n)})
BY HeapAssumption DEF Room, Fits, Linked, Front, Big, FB, BigAt, BigSize

(* The blocks that stay in use lie below VasAt(k), apart from each other   *)
(* and from the place of the file.                                         *)
LEMMA KeptFits ==
  ASSUME Room, NEW k \in 0..8
  PROVE  /\ \A b \in Kept(k) \cup {File} :
              /\ {b.ptr, b.size} \subseteq Nat
              /\ b = [ptr |-> b.ptr, size |-> b.size]
              /\ HEAP_BEGIN + 16 <= b.ptr /\ b.ptr + b.size + 4 <= VasAt(k)
         /\ \A b, c \in Kept(k) \cup {File} : b = c \/ b.ptr + b.size + 20 <= c.ptr \/ c.ptr + c.size + 20 <= b.ptr
         /\ \A b \in Kept(k) : FileAt + 60 <= b.ptr \/ b.ptr + b.size + 4 <= FileAt
<1> DEFINE P(b) == \/ b = [ptr |-> HEAP_BEGIN + 16, size |-> 16]
                   \/ \E j \in 0..k-1 : b = [ptr |-> HEAP_BEGIN + 96 + 36 * j, size |-> 16]
<1>1. ASSUME NEW b \in Kept(k) PROVE P(b)
  BY HeapAssumption DEF Kept, Vases, Kernel, Blk, VasAt
<1>2. File = [ptr |-> HEAP_BEGIN + 52, size |-> 24]
  BY HeapAssumption DEF File, Blk, FileAt
<1>3. VasAt(k) = HEAP_BEGIN + 80 + 36 * k /\ FileAt = HEAP_BEGIN + 36 /\ HEAP_BEGIN \in Nat /\ k \in Nat
  BY HeapAssumption DEF VasAt, FileAt
<1>4. ASSUME NEW b \in Kept(k) \cup {File}
      PROVE  /\ {b.ptr, b.size} \subseteq Nat
             /\ b = [ptr |-> b.ptr, size |-> b.size]
             /\ HEAP_BEGIN + 16 <= b.ptr /\ b.ptr + b.size + 4 <= VasAt(k)
  BY <1>1, <1>2, <1>3
<1>5. ASSUME NEW b \in Kept(k)
      PROVE  FileAt + 60 <= b.ptr \/ b.ptr + b.size + 4 <= FileAt
  BY <1>1, <1>2, <1>3
<1>6. ASSUME NEW b \in Kept(k) \cup {File}, NEW c \in Kept(k) \cup {File}
      PROVE  b = c \/ b.ptr + b.size + 20 <= c.ptr \/ c.ptr + c.size + 20 <= b.ptr
  BY <1>1, <1>2, <1>3
<1> QED BY <1>4, <1>5, <1>6

(* Each pong keeps one more block.                                         *)
LEMMA VasKept == \A k \in Nat : Kept(k + 1) = Kept(k) \cup {Blk(VasAt(k), 16)}
<1> SUFFICES ASSUME NEW k \in Nat PROVE Vases(k + 1) = Vases(k) \cup {Blk(VasAt(k), 16)}
  BY DEF Kept
<1>1. 0..(k + 1) - 1 = (0..k - 1) \cup {k}
  OBVIOUS
<1> QED BY <1>1 DEF Vases

(* So free blocks that lie behind VasAt(k) or where the file was fit with  *)
(* any of them.                                                            *)
LEMMA FitsBehind ==
  ASSUME Room, NEW k \in 0..8, NEW U, NEW F, U \subseteq Kept(k) \cup {File},
         \A f \in F : /\ {f.at, f.size, f.next, f.prev} \subseteq Nat
                      /\ f.at + f.size + 20 <= HEAP_END
                      /\ VasAt(k) <= f.at \/ (f.at = FileAt /\ f.size = 24 /\ File \notin U),
         \A f, g \in F : f = g \/ f.at + f.size + 20 <= g.at \/ g.at + g.size + 20 <= f.at
  PROVE  Fits(U, F)
<1>1. HEAP_BEGIN \in Nat /\ HEAP_END \in Nat /\ VasAt(k) \in Nat /\ FileAt = HEAP_BEGIN + 36
      /\ FileAt < VasAt(k) /\ HEAP_BEGIN + 368 + 20 <= HEAP_END /\ VasAt(k) <= HEAP_BEGIN + 368
  BY HeapAssumption DEF FileAt, VasAt, Room
<1>2. ASSUME NEW f \in F, NEW b \in U
      PROVE  f.at + f.size + 36 <= b.ptr \/ b.ptr + b.size + 4 <= f.at
  <2>1. b \in Kept(k) \cup {File} /\ {f.at, f.size} \subseteq Nat
    OBVIOUS
  <2>2. {b.ptr, b.size} \subseteq Nat /\ b.ptr + b.size + 4 <= VasAt(k)
    BY <2>1, KeptFits
  <2>3. CASE VasAt(k) <= f.at
    BY <1>1, <2>1, <2>2, <2>3
  <2>4. CASE f.at = FileAt /\ f.size = 24 /\ File \notin U
    <3>1. FileAt + 60 <= b.ptr \/ b.ptr + b.size + 4 <= FileAt
      BY <2>4, KeptFits
    <3> QED BY <1>1, <2>1, <2>2, <2>4, <3>1
  <2> QED BY <2>3, <2>4
<1>3. \A b \in U : /\ {b.ptr, b.size} \subseteq Nat
                   /\ b = [ptr |-> b.ptr, size |-> b.size]
                   /\ HEAP_BEGIN + 16 <= b.ptr /\ b.ptr + b.size + 4 <= VasAt(k)
  BY KeptFits
<1>4. \A b, c \in U : b = c \/ b.ptr + b.size + 20 <= c.ptr \/ c.ptr + c.size + 20 <= b.ptr
  BY KeptFits
<1>5. \A b \in U : b.ptr + b.size + 4 <= HEAP_END
  BY <1>1, <1>3
<1>6. \A f \in F : HEAP_BEGIN <= f.at
  BY <1>1
<1> QED BY <1>2, <1>3, <1>4, <1>5, <1>6 DEF Fits

(* The file is none of them, nor a PCB: its size is another.               *)
LEMMA FileNotKept == \A k \in Nat : Room => File \notin Kept(k) /\ \A j \in Nat : File # Task(j)
<1> SUFFICES ASSUME NEW k \in Nat
             PROVE  File \notin Kept(k) /\ \A j \in Nat : File # Task(j)
  OBVIOUS
<1>1. File.size = 24 /\ \A h : Blk(h, 16).size = 16
  BY DEF File, Blk
<1>2. \A b \in Kept(k) : \E h : b = Blk(h, 16)
  BY DEF Kept, Kernel, Vases
<1>3. 24 # 16
  OBVIOUS
<1> QED BY <1>1, <1>2, <1>3 DEF Task

(* The addresses of a place, and how they follow each other.               *)
LEMMA Addresses ==
  ASSUME Room, NEW k \in 0..7
  PROVE  /\ {HEAP_BEGIN, HEAP_END, BigAt, BigSize, FileAt, VasAt(k), RestAt(k), RestSize(k)} \subseteq Nat
         /\ FileAt = HEAP_BEGIN + 36 /\ BigAt = HEAP_BEGIN + 405
         /\ BigAt + BigSize + 20 = HEAP_END /\ 16 <= BigSize
         /\ VasAt(k) = HEAP_BEGIN + 80 + 36 * k
         /\ RestAt(k) = HEAP_BEGIN + 116 + 36 * k /\ RestSize(k) = 269 - 36 * k
         /\ VasAt(k + 1) = RestAt(k) /\ RestAt(k) + RestSize(k) + 20 = BigAt
         /\ RestAt(k) = VasAt(k) + 36
BY HeapAssumption DEF Room, BigAt, BigSize, FileAt, VasAt, RestAt, RestSize

(* The blocks fit between the commands:                                    *)
LEMMA ReadyFits ==
  ASSUME Room, NEW k \in 0..7
  PROVE  Fits(Kept(k), FreeReady(k)) /\ Linked(FreeReady(k))
<1>1. CASE k = 0
  <2>1. Kept(k) = {[ptr |-> HEAP_BEGIN + 16, size |-> 16]}
    BY <1>1 DEF Kept, Vases, Kernel, Blk
  <2>2. FreeReady(k) = {Big, FB(FileAt, 349, BigAt, 0)}
    BY <1>1 DEF FreeReady
  <2> QED BY <2>1, <2>2, Addresses, HeapAssumption DEF Fits, Linked, Big, FB
<1>2. CASE k # 0
  <2>1. FreeReady(k) = {Big, FB(FileAt, 24, VasAt(k), 0), FB(VasAt(k), 16, RestAt(k), FileAt), FB(RestAt(k), RestSize(k), BigAt, VasAt(k))}
    BY <1>2 DEF FreeReady, Rest
  <2>2. File \notin Kept(k)
    BY FileNotKept
  <2>3. \A f \in FreeReady(k) :
          /\ {f.at, f.size, f.next, f.prev} \subseteq Nat
          /\ f.at + f.size + 20 <= HEAP_END
          /\ VasAt(k) <= f.at \/ (f.at = FileAt /\ f.size = 24 /\ File \notin Kept(k))
    BY <2>1, <2>2, Addresses DEF Big, FB
  <2>4. \A f, g \in FreeReady(k) : f = g \/ f.at + f.size + 20 <= g.at \/ g.at + g.size + 20 <= f.at
    BY <2>1, Addresses DEF Big, FB
  <2>5. Linked(FreeReady(k))
    BY <2>1, Addresses DEF Linked, Big, FB
  <2>6. k \in 0..8
    OBVIOUS
  <2>7. Fits(Kept(k), FreeReady(k))
    BY <2>3, <2>4, <2>6, FitsBehind
  <2> QED BY <2>5, <2>7
<1> QED BY <1>1, <1>2

(* with the file taken:                                                    *)
LEMMA NoFileFits ==
  ASSUME Room, NEW k \in 0..6
  PROVE  Fits(Kept(k) \cup {File}, FreeNoFile(k)) /\ Linked(FreeNoFile(k))
<1>1. FreeNoFile(k) = IF k = 0 THEN {Big, FB(VasAt(k), 305, BigAt, 0)}
                      ELSE {Big, FB(VasAt(k), 16, RestAt(k), 0), FB(RestAt(k), RestSize(k), BigAt, VasAt(k))}
  BY DEF FreeNoFile, Rest
<1>2. \A f \in FreeNoFile(k) : /\ {f.at, f.size, f.next, f.prev} \subseteq Nat
                               /\ f.at + f.size + 20 <= HEAP_END /\ VasAt(k) <= f.at
  BY <1>1, Addresses DEF Big, FB
<1>3. \A f, g \in FreeNoFile(k) : f = g \/ f.at + f.size + 20 <= g.at \/ g.at + g.size + 20 <= f.at
  BY <1>1, Addresses DEF Big, FB
<1>4. CASE k = 0
  <2>1. Linked(FreeNoFile(k))
    BY <1>1, <1>4, Addresses DEF Linked, Big, FB
  <2> QED BY <1>2, <1>3, <2>1, FitsBehind
<1>5. CASE k # 0
  <2>1. FreeNoFile(k) = {Big, FB(VasAt(k), 16, RestAt(k), 0), FB(RestAt(k), RestSize(k), BigAt, VasAt(k))}
    BY <1>1, <1>5
  <2>2. Linked(FreeNoFile(k))
    BY <2>1, Addresses DEF Linked, Big, FB
  <2> QED BY <1>2, <1>3, <2>2, FitsBehind
<1> QED BY <1>4, <1>5

(* with the address space taken:                                           *)
LEMMA NoVasFits ==
  ASSUME Room, NEW k \in 0..6
  PROVE  Fits(Kept(k + 1) \cup {File}, FreeNoVas(k)) /\ Linked(FreeNoVas(k))
<1>1. FreeNoVas(k) = {Big, FB(RestAt(k), RestSize(k), BigAt, 0)}
  BY DEF FreeNoVas, Rest
<1>2. \A f \in FreeNoVas(k) : /\ {f.at, f.size, f.next, f.prev} \subseteq Nat
                              /\ f.at + f.size + 20 <= HEAP_END /\ VasAt(k + 1) <= f.at
  BY <1>1, Addresses DEF Big, FB
<1>3. \A f, g \in FreeNoVas(k) : f = g \/ f.at + f.size + 20 <= g.at \/ g.at + g.size + 20 <= f.at
  BY <1>1, Addresses DEF Big, FB
<1>4. Linked(FreeNoVas(k))
  BY <1>1, Addresses DEF Linked, Big, FB
<1>5. k + 1 \in 0..8
  OBVIOUS
<1> QED BY <1>2, <1>3, <1>4, <1>5, FitsBehind

(* A pong's PCB lies where the next pong's address space will.             *)
LEMMA TaskLast == \A k \in Nat : Kept(k + 1) \cup {Task(k)} = Kept(k + 2)
<1> TAKE k \in Nat
<1>1. RestAt(k) = VasAt(k + 1)
  BY HeapAssumption DEF RestAt, VasAt
<1>2. k + 1 \in Nat /\ (k + 1) + 1 = k + 2
  OBVIOUS
<1> QED BY <1>1, <1>2, VasKept DEF Task

(* The blocks fit with the PCB taken, and while and after the file is      *)
(* given back:                                                             *)
LEMMA NoTaskFits ==
  ASSUME Room, NEW k \in 0..6
  PROVE  /\ Fits(Kept(k + 1) \cup {File, Task(k)}, FreeNoTask(k)) /\ Linked(FreeNoTask(k))
         /\ Fits(Kept(k + 1) \cup {Task(k)}, FreeNoTask(k) \cup {FB(FileAt, 24, 0, 0)})
         /\ Fits(Kept(k + 1) \cup {Task(k)}, FreeFile(k))
<1>1. k \in Nat /\ k + 1 \in 0..7 /\ k + 2 \in 0..8 /\ k + 2 \in Nat
  OBVIOUS
<1>2. Kept(k + 1) \cup {Task(k)} = Kept(k + 2) /\ Kept(k + 1) \cup {File, Task(k)} = Kept(k + 2) \cup {File}
  BY <1>1, TaskLast
<1>3. FreeNoTask(k) = {Big, FB(RestAt(k + 1), RestSize(k + 1), BigAt, 0)}
  BY DEF FreeNoTask, Rest
<1>4. FreeFile(k) = {Big, FB(FileAt, 24, RestAt(k + 1), 0), FB(RestAt(k + 1), RestSize(k + 1), BigAt, 0)}
  BY DEF FreeFile, Rest
<1>5. VasAt(k + 2) = RestAt(k + 1)
  BY HeapAssumption DEF VasAt, RestAt
<1>6. File \notin Kept(k + 2)
  BY <1>1, FileNotKept
<1> DEFINE F1 == FreeNoTask(k)
           F2 == FreeNoTask(k) \cup {FB(FileAt, 24, 0, 0)}
           F3 == FreeFile(k)
<1>7. ASSUME NEW F \in {F1, F2, F3}
      PROVE  /\ \A f \in F : /\ {f.at, f.size, f.next, f.prev} \subseteq Nat
                             /\ f.at + f.size + 20 <= HEAP_END
                             /\ VasAt(k + 2) <= f.at \/ (f.at = FileAt /\ f.size = 24 /\ F # F1)
             /\ \A f, g \in F : f = g \/ f.at + f.size + 20 <= g.at \/ g.at + g.size + 20 <= f.at
  <2>0. F1 # F2 /\ F1 # F3
    <3>1. \A f \in F1 : f.at # FileAt
      BY <1>1, <1>3, Addresses DEF Big, FB
    <3>2. FB(FileAt, 24, 0, 0).at = FileAt /\ FB(FileAt, 24, RestAt(k + 1), 0).at = FileAt
      BY DEF FB
    <3>3. FB(FileAt, 24, 0, 0) \in F2 /\ FB(FileAt, 24, RestAt(k + 1), 0) \in F3
      BY <1>4
    <3> HIDE DEF F1, F2, F3
    <3> QED BY <3>1, <3>2, <3>3
  <2>1. CASE F = F1
    BY <1>1, <1>3, <1>5, <2>1, Addresses DEF Big, FB
  <2>2. CASE F = F2
    BY <1>1, <1>3, <1>5, <2>2, <2>0, Addresses DEF Big, FB
  <2>3. CASE F = F3
    BY <1>1, <1>4, <1>5, <2>3, <2>0, Addresses DEF Big, FB
  <2> QED BY <2>1, <2>2, <2>3
<1>8. Linked(F1)
  BY <1>1, <1>3, Addresses DEF Linked, Big, FB
<1>9. Fits(Kept(k + 2) \cup {File}, F1)
  BY <1>1, <1>7, FitsBehind
<1>10. Fits(Kept(k + 2), F2) /\ Fits(Kept(k + 2), F3)
  BY <1>1, <1>6, <1>7, FitsBehind
<1> QED BY <1>2, <1>8, <1>9, <1>10

(* and while the PCB is given back.                                        *)
LEMMA TaskFreedFits ==
  ASSUME Room, NEW k \in 0..6
  PROVE  Fits(Kept(k + 1), FreeFile(k) \cup {FB(RestAt(k), 16, 0, 0)})
<1> DEFINE F == FreeFile(k) \cup {FB(RestAt(k), 16, 0, 0)}
<1>1. k + 1 \in Nat /\ k + 1 \in 0..7 /\ k + 1 \in 0..8
  OBVIOUS
<1>2. F = {Big, FB(FileAt, 24, RestAt(k + 1), 0), FB(RestAt(k + 1), RestSize(k + 1), BigAt, 0), FB(RestAt(k), 16, 0, 0)}
  BY DEF FreeFile, Rest
<1>3. File \notin Kept(k + 1)
  BY <1>1, FileNotKept
<1> HIDE DEF F
<1>4. \A f \in F : /\ {f.at, f.size, f.next, f.prev} \subseteq Nat
                   /\ f.at + f.size + 20 <= HEAP_END
                   /\ VasAt(k + 1) <= f.at \/ (f.at = FileAt /\ f.size = 24)
  BY <1>1, <1>2, Addresses DEF Big, FB
<1>5. \A f, g \in F : f = g \/ f.at + f.size + 20 <= g.at \/ g.at + g.size + 20 <= f.at
  BY <1>1, <1>2, Addresses DEF Big, FB
<1>6. Fits(Kept(k + 1), F)
  BY <1>1, <1>3, <1>4, <1>5, FitsBehind
<1> QED BY <1>6 DEF F

-----------------------------------------------------------------------------
(* The heap's steps, from layout to layout.                                *)

(* While a call is running no caller moves.                                *)
LEMMA HeapMoves ==
  ASSUME [Next]_vars, call.at # "idle", pc # "get_free_mem_region"
  PROVE  UNCHANGED vars \/ HeapRuns
BY DEF Next, KernelMain, Pong, PongCommand, BsyLoop, Call, Obtain, Release, GetFreeMemRegion, CallMalloc, CallFree

(* While none is running the heap does not move.                           *)
LEMMA CallerMoves ==
  ASSUME [Next]_vars, call.at = "idle"
  PROVE  UNCHANGED vars \/ KernelMain \/ Pong \/ PongCommand
BY DEF Next, BsyLoop, HeapRuns, HeapStep, MallocNull, MallocSkip, MallocTake, FreeMerge, FreePush, FreeSearch, FreeInsert

(* A request that finds its block at once takes it: it is neither refused  *)
(* nor sent on along the list.                                             *)
LEMMA MallocSteps ==
  ASSUME NEW sz, NEW t, call = Obtaining(sz, t), HeapStep, InReach(t), ~Below(SizeOf(mem, t), sz)
  PROVE  /\ mem' = Take(IF Below(sz, SizeOf(mem, t)) THEN Split(mem, t, sz) ELSE mem, t, sz)
         /\ free_head' = HeadAfter(t, sz)
         /\ call' = Returned(t + 16)
         /\ live' = live (+) SetToBag({Blk(t, sz)})
<1>1. call.at = "malloc" /\ call.sz = sz /\ call.tmp = t
  BY DEF Obtaining, Idle
<1>2. MallocTake
  BY <1>1 DEF HeapStep, MallocNull, MallocSkip, FreeMerge, FreePush, FreeSearch, FreeInsert
<1> QED BY <1>1, <1>2 DEF MallocTake, Return, Returned, Blk, HDR_SIZE

(* A free block that keeps its place when the first one, t, leaves the     *)
(* list, or the next one, n, which loses its prev.                         *)
NextFirst(F, g, t, n) ==
  \/ g \in F /\ g.at # t /\ g.at # n
  \/ \E h \in F : h.at = n /\ g = FB(n, h.size, h.next, 0)

(* The free blocks G once ph_malloc has taken the first sz bytes of block  *)
(* t, or all of it.                                                        *)
PartTaken(F, G, t, s, n, sz) ==
  \A g \in G : g = FB(t + 20 + sz, s - sz - 20, n, 0) \/ NextFirst(F, g, t, n)
AllTaken(F, G, t, n) == \A g \in G : NextFirst(F, g, t, n)

(* ph_malloc splits the first block of the list: the front is in use, the  *)
(* rest is the head of the list.                                           *)
LEMMA TakesPart ==
  ASSUME Room, NEW U, NEW F, NEW t, NEW s, NEW n, NEW sz \in Nat, NEW G,
         Layout(U, F, t), Fits(U, F), Linked(F), FB(t, s, n, 0) \in F, sz + 36 <= s,
         call = Obtaining(sz, t), HeapStep,
         PartTaken(F, G, t, s, n, sz),
         NEW V, V = U \cup {Blk(t, sz)}, NEW new, new = t + 20 + sz
  PROVE  Layout(V, G, new)' /\ call' = Returned(t + 16)
<1>1. FB(t, s, n, 0).at = t /\ FB(t, s, n, 0).size = s /\ FB(t, s, n, 0).next = n
  BY DEF FB
<1>2. /\ t \in Nat /\ s \in Nat /\ n \in Nat /\ HEAP_BEGIN <= t /\ t + s + 20 <= HEAP_END
      /\ SizeOf(mem, t) = s /\ NextOf(mem, t) = n
  BY <1>1 DEF Layout, Holds, Fits, FreeAt
<1>3. call.sz = sz /\ t # 0 /\ HEAP_END \in Nat /\ t + sz + 16 + 4 \in Nat /\ t + sz + 16 + 4 < HEAP_END
  BY <1>2, HeapAssumption DEF Obtaining, Idle
<1>4. InReach(t)
  BY <1>3 DEF InReach, Below, HDR_SIZE, FTR_SIZE, NULL
<1>5. Below(sz, s) /\ ~Below(s, sz)
  BY <1>2 DEF Below
<1>6. /\ mem' = Take(Split(mem, t, sz), t, sz) /\ free_head' = HeadAfter(t, sz)
      /\ call' = Returned(t + 16) /\ live' = live (+) SetToBag({Blk(t, sz)})
  BY <1>2, <1>4, <1>5, MallocSteps
<1>7. free_head' = t + 20 + sz
  <2>1. free_head = t
    BY DEF Layout
  <2>2. HeadAfter(t, sz) = t + 16 + sz + 4
    BY <1>2, <1>5, <2>1 DEF HeadAfter, NewFree, HDR_SIZE, FTR_SIZE
  <2> QED BY <1>2, <1>6, <2>2
<1>8. Holds(U \cup {Blk(t, sz)}, G)'
  BY <1>6, SplitTaken DEF Room, Layout, PartTaken, NextFirst
<1> QED BY <1>6, <1>7, <1>8 DEF Layout

(* ph_malloc takes the first block of the list whole: the next one is the  *)
(* head.                                                                   *)
LEMMA TakesAll ==
  ASSUME Room, NEW U, NEW F, NEW t, NEW s, NEW n, NEW G,
         Layout(U, F, t), Fits(U, F), Linked(F), FB(t, s, n, 0) \in F, t + s + 20 < HEAP_END,
         call = Obtaining(s, t), HeapStep,
         AllTaken(F, G, t, n),
         NEW V, V = U \cup {Blk(t, s)}
  PROVE  Layout(V, G, n)' /\ call' = Returned(t + 16)
<1>1. FB(t, s, n, 0).at = t /\ FB(t, s, n, 0).size = s /\ FB(t, s, n, 0).next = n
  BY DEF FB
<1>2. /\ t \in Nat /\ s \in Nat /\ n \in Nat /\ HEAP_BEGIN <= t /\ t + s + 20 <= HEAP_END
      /\ SizeOf(mem, t) = s /\ NextOf(mem, t) = n
  BY <1>1 DEF Layout, Holds, Fits, FreeAt
<1>3. call.sz = s /\ t # 0 /\ HEAP_END \in Nat /\ t + s + 16 + 4 \in Nat /\ t + s + 16 + 4 < HEAP_END
  BY <1>2, HeapAssumption DEF Obtaining, Idle
<1>4. InReach(t)
  BY <1>3 DEF InReach, Below, HDR_SIZE, FTR_SIZE, NULL
<1>5. ~Below(s, s)
  BY <1>2 DEF Below
<1>6. /\ mem' = Take(mem, t, s) /\ free_head' = HeadAfter(t, s)
      /\ call' = Returned(t + 16) /\ live' = live (+) SetToBag({Blk(t, s)})
  BY <1>2, <1>4, <1>5, MallocSteps
<1>7. free_head' = n
  <2>1. free_head = t
    BY DEF Layout
  <2> QED BY <1>2, <1>5, <1>6, <2>1 DEF HeadAfter
<1>8. Holds(U \cup {Blk(t, s)}, G)'
  BY <1>6, WholeTaken DEF Room, Layout, AllTaken, NextFirst
<1> QED BY <1>6, <1>7, <1>8 DEF Layout

(* ph_free puts block h before the list: the block before h in memory is   *)
(* none of the list's, so it does not merge.                               *)
LEMMA PutsFirst ==
  ASSUME Room, NEW U, NEW F, NEW head \in Nat, NEW h, NEW s, NEW x \in Nat, NEW G,
         Layout(U, F, head), Fits(U, F), FB(h, s, 0, 0) \in F, head <= HEAP_END,
         call = Freeing(h, x), x < head, h = HEAP_BEGIN \/ h < head, HeapStep,
         \A g \in G : g = FB(h, s, head, 0) \/ (g \in F /\ g.at # h)
  PROVE  Layout(U, G, h)' /\ call' = Idle
<1>1. FB(h, s, 0, 0).at = h /\ FB(h, s, 0, 0).size = s
  BY DEF FB
<1>2. h \in Nat /\ head \in Words
  BY <1>1, HeapAssumption DEF Fits, Room, SmallHeap, Words
<1>3. call.at = "coalesce" /\ call.hdr = h /\ call.tmp = x /\ free_head = head
  BY DEF Freeing, Idle, Layout
<1>4. ~Mergeable /\ First(h)
  BY <1>2, <1>3 DEF Mergeable, First, Below
<1>5. FreePush
  BY <1>3, <1>4 DEF HeapStep, MallocNull, MallocSkip, MallocTake, FreeMerge, FreeSearch, FreeInsert
<1>6. mem' = SetNext(mem, h, head) /\ free_head' = h /\ call' = Idle /\ live' = live
  <2>1. [Idle EXCEPT !.ret = NULL] = Idle
    BY DEF Idle
  <2> QED BY <1>3, <1>5, <2>1 DEF FreePush, Return
<1>7. Holds(U, G)'
  BY <1>2, <1>6, PutFirst DEF Room, Layout
<1> QED BY <1>6, <1>7 DEF Layout

(* ph_free begins its search for the place of h: the block before h in     *)
(* memory is in use, so it does not merge.                                 *)
LEMMA Searches ==
  ASSUME NEW U, NEW F, NEW head \in Nat, NEW h \in Nat, NEW x \in Nat,
         Layout(U, F, head), call = Freeing(h, x), ~IsFree(mem, x), h # HEAP_BEGIN, head <= h, HeapStep
  PROVE  Layout(U, F, head)' /\ call' = Placing(h, head)
<1>3. call.at = "coalesce" /\ call.hdr = h /\ call.tmp = x /\ free_head = head
  BY DEF Freeing, Idle, Layout
<1>4. ~Mergeable /\ ~First(h)
  BY <1>3 DEF Mergeable, First, Below
<1>5. FreeSearch
  BY <1>3, <1>4 DEF HeapStep, MallocNull, MallocSkip, MallocTake, FreeMerge, FreePush, FreeInsert
<1>6. UNCHANGED <<mem, free_head, live>> /\ call' = Placing(h, head)
  <2>1. [Freeing(h, x) EXCEPT !.at = "insert", !.tmp = head] = Placing(h, head)
    BY DEF Freeing, Placing, Idle
  <2> QED BY <1>3, <1>5, <2>1 DEF FreeSearch
<1> QED BY <1>6 DEF Layout, Holds

(* ph_free finds it, behind the first block of the list.                   *)
LEMMA PutsBetween ==
  ASSUME Room, NEW U, NEW F, NEW h, NEW s, FB(h, s, 0, 0) \in F,
         NEW t, NEW st, NEW n, NEW pt, FB(t, st, n, pt) \in F,
         NEW sn, NEW nn, NEW pn, FB(n, sn, nn, pn) \in F, t < h, h < n,
         Layout(U, F, t), Fits(U, F), call = Placing(h, t), HeapStep,
         NEW G, \A g \in G : \/ g \in {FB(t, st, h, pt), FB(h, s, n, t), FB(n, sn, nn, h)}
                             \/ g \in F /\ g.at \notin {t, h, n}
  PROVE  Layout(U, G, t)' /\ call' = Idle
<1>1. /\ FB(h, s, 0, 0).at = h /\ FB(t, st, n, pt).at = t /\ FB(n, sn, nn, pn).at = n
      /\ FB(t, st, n, pt).next = n
  BY DEF FB
<1>2. h \in Nat /\ t \in Nat /\ n \in Nat /\ HEAP_BEGIN <= t /\ NextOf(mem, t) = n
  BY <1>1 DEF Fits, Layout, Holds, FreeAt
<1>3. call.at = "insert" /\ call.hdr = h /\ call.tmp = t /\ free_head = t
  BY DEF Placing, Idle, Layout
<1>4. t # NULL /\ Below(t, h) /\ Below(h, NextOf(mem, t))
  BY <1>2, HeapAssumption DEF Below, NULL
<1>5. FreeInsert
  BY <1>3 DEF HeapStep, MallocNull, MallocSkip, MallocTake, FreeMerge, FreePush, FreeSearch
<1> DEFINE m1 == SetNext(SetPrev(mem, h, t), h, NextOf(mem, t))
           m2 == SetNext(m1, t, h)
<1>6. mem' = SetPrev(m2, NextOf(m2, h), h) /\ free_head' = t /\ call' = Idle /\ live' = live
  <2>1. [Idle EXCEPT !.ret = NULL] = Idle
    BY DEF Idle
  <2> QED BY <1>3, <1>4, <1>5, <2>1 DEF FreeInsert, Return
<1>7. Holds(U, G)'
  BY <1>6, PutBetween DEF Room, Layout
<1> QED BY <1>6, <1>7 DEF Layout

-----------------------------------------------------------------------------
(* The callers' steps.                                                     *)

(* A caller's request: ph_malloc begins at the head of the list.           *)
LEMMA CallMade ==
  ASSUME NEW here, NEW there, NEW v, NEW U, NEW F, NEW head, NEW sz, SizeFor[v] = sz,
         Layout(U, F, head), Call(here, there, v)
  PROVE  /\ AtCall(there, Obtaining(sz, head))' /\ Layout(U, F, head)'
         /\ UNCHANGED <<ptr, pongs, regions>>
BY DEF Call, CallMalloc, Layout, Holds, AtCall, Obtaining, memoryMap

(* The caller stores what ph_malloc returned and fills the block.  What it *)
(* writes stays inside the block, so the layout stays.                     *)
LEMMA Obtained ==
  ASSUME NEW here, NEW there, NEW v \in Pointers, NEW U, NEW F, NEW head, NEW p \in Nat,
         ptr \in [Pointers -> Nat], regions \in MemoryMaps,
         Layout(U, F, head), Fits(U, F), call = Returned(p),
         [ptr |-> p, size |-> SizeFor[v]] \in U,
         Obtain(here, there, v)
  PROVE  /\ AtCall(there, Returned(p))' /\ Layout(U, F, head)'
         /\ ptr' = [ptr EXCEPT ![v] = p] /\ UNCHANGED <<pongs, regions>>
<1> DEFINE b == [ptr |-> p, size |-> SizeFor[v]]
<1>1. \A i \in Written[v] : i \in Nat /\ i < SizeFor[v]
  <2>1. Len(regions) \in Nat /\ Len(regions) <= 16
    BY PongHeapAssumption, LenProperties
  <2>2. CASE v = "mem_info"
    <3>1. Written[v] = 0 .. 24 * Len(regions) /\ SizeFor[v] = 385
      BY <2>2 DEF Written, SizeFor
    <3> QED BY <2>1, <3>1
  <2>3. CASE v = "f"
    <3>1. Written[v] = 8..11 \cup 16..23 /\ SizeFor[v] = 24
      BY <2>3 DEF Written, SizeFor
    <3> QED BY <3>1
  <2>4. CASE v \in {"kernel_task", "vas", "task"}
    <3>1. Written[v] = 0..15 /\ SizeFor[v] = 16
      BY <2>4 DEF Written, SizeFor
    <3> QED BY <3>1
  <2> QED BY <2>2, <2>3, <2>4 DEF Pointers
<1>2. call.ret = p /\ b.ptr = p /\ b.size = SizeFor[v] /\ b \in U
  BY DEF Returned, Idle
<1>3. mem' = [a \in DOMAIN mem \ {b.ptr + i : i \in Written[v]} |-> mem[a]]
  BY <1>2 DEF Obtain
<1>4. live' = live /\ free_head' = free_head /\ call' = call
  BY DEF Obtain
<1>5. \A i \in Written[v] : i \in Nat /\ i < b.size
  BY <1>1, <1>2
<1> HIDE DEF b
<1>6. Holds(U, F)'
  BY <1>2, <1>3, <1>4, <1>5, CallerWrites DEF Layout
<1> QED BY <1>2, <1>4, <1>6 DEF Obtain, Layout, AtCall, memoryMap

(* A caller gives a block back: it is marked free, in none of the lists    *)
(* yet, and ph_free looks at the footer before it.                         *)
LEMMA Given ==
  ASSUME NEW here, NEW there, NEW v, NEW U, NEW F, NEW head, NEW h \in Nat, NEW s \in Nat, NEW x,
         Room, Layout(U, F, head), Fits(U, F), ptr[v] = h + 16, Blk(h, s) \in U,
         Load(mem, h - 4) = x,
         Release(here, there, v),
         NEW V, V = U \ {Blk(h, s)}, NEW G, G = F \cup {FB(h, s, 0, 0)}
  PROVE  /\ AtCall(there, Freeing(h, x))' /\ Layout(V, G, head)'
         /\ UNCHANGED <<ptr, pongs, regions>>
<1>1. Blk(h, s).ptr = h + 16 /\ Blk(h, s).size = s
  BY DEF Blk
<1>2. HEAP_BEGIN <= h /\ h + s + 20 <= HEAP_END /\ HEAP_END \in Nat /\ HEAP_BEGIN \in Nat /\ 4 <= HEAP_BEGIN
  BY <1>1, HeapAssumption DEF Fits
<1>3. ~ (h + 16 = NULL \/ Below(HEAP_END, h + 16) \/ Below(h + 16, HEAP_BEGIN))
  BY <1>2 DEF Below, NULL
<1>4. (h + 16) - 16 = h /\ h - 4 = (h + 16) - 16 - 4
  OBVIOUS
<1>5. {b \in BlocksInUse : b.ptr = h + 16} = {Blk(h, s)}
  <2>1. BlocksInUse = U
    BY DEF BlocksInUse, BagToSet, Layout, Holds
  <2>2. ASSUME NEW b \in U, b.ptr = h + 16
        PROVE  b = Blk(h, s)
    <3>1. b.size \in Nat
      BY DEF Fits
    <3>2. b = Blk(h, s) \/ b.ptr + b.size + 20 <= h + 16 \/ h + 16 + s + 20 <= b.ptr
      BY <1>1 DEF Fits
    <3> QED BY <2>2, <3>1, <3>2
  <2> QED BY <1>1, <2>1, <2>2
<1>6. CallFree(h + 16)
  BY DEF Release
<1>7. /\ mem' = SetFree(mem, h, TRUE)
      /\ live' = live (-) SetToBag({Blk(h, s)})
      /\ call' = Freeing(h, x) /\ free_head' = free_head
  BY <1>3, <1>4, <1>5, <1>6 DEF CallFree, Freeing, HDR_SIZE, FTR_SIZE
<1>8. Holds(U \ {Blk(h, s)}, F \cup {FB(h, s, 0, 0)})'
  BY <1>7, MarkedFree DEF Layout
<1> QED BY <1>7, <1>8 DEF Release, Layout, AtCall, memoryMap

-----------------------------------------------------------------------------
(* From place to place: kernel_main.                                       *)

(* A step leaves the counters and keeps the pointers pointers.             *)
CallersKept == UNCHANGED <<pongs, regions>> /\ ptr' \in [Pointers -> Nat]

(* With no call running, and whatever the last one returned, a caller      *)
(* moves.                                                                  *)
LEMMA CallerMovesIdle ==
  ASSUME [Next]_vars, \/ call = Idle \/ (\E p : call = Returned(p)) \/ call.at = "idle"
  PROVE  UNCHANGED vars \/ KernelMain \/ Pong \/ PongCommand
BY CallerMoves DEF Idle, Returned

(* While a call runs, only the heap moves.                                 *)
LEMMA CallsMoveAlone ==
  ASSUME [Next]_vars, ptr \in [Pointers -> Nat],
         \/ \E s, t : call = Obtaining(s, t)
         \/ \E h, x : call = Freeing(h, x)
         \/ \E h, t : call = Placing(h, t),
         pc # "get_free_mem_region"
  PROVE  UNCHANGED vars \/ (HeapStep /\ pc' = pc /\ ptr' = ptr /\ CallersKept)
<1>1. call.at # "idle"
  BY DEF Obtaining, Freeing, Placing, Idle
<1> QED BY <1>1, HeapMoves DEF HeapRuns, memoryMap, CallersKept

(* kernel_main asks for the memory map's block, and gets it:               *)
LEMMA StartingStep ==
  ASSUME Room, ptr \in [Pointers -> Nat], Starting, [Next]_vars
  PROVE  UNCHANGED vars \/ (CallersKept /\ (Starting \/ MemInfoTaken)')
<1>1. CASE AtCall("malloc mem_info", Idle)
  <2>1. UNCHANGED vars \/ Call("malloc mem_info", "mem_info =", "mem_info")
    BY <1>1, CallerMovesIdle DEF AtCall, KernelMain, Pong, PongCommand, Call, Obtain, Release, GetFreeMemRegion
  <2>2. SizeFor["mem_info"] = 385 /\ Layout({}, {Whole}, HEAP_BEGIN)
    BY DEF SizeFor, Starting
  <2>3. CASE Call("malloc mem_info", "mem_info =", "mem_info")
    <3>1. /\ AtCall("mem_info =", Obtaining(385, HEAP_BEGIN))' /\ Layout({}, {Whole}, HEAP_BEGIN)'
          /\ UNCHANGED <<ptr, pongs, regions>>
      BY <2>2, <2>3, CallMade, ZenonT(30)
    <3> QED BY <3>1 DEF Starting, CallersKept
  <2> QED BY <2>1, <2>3
<1>2. CASE AtCall("mem_info =", Obtaining(385, HEAP_BEGIN))
  <2>1. UNCHANGED vars \/ (HeapStep /\ pc' = pc /\ ptr' = ptr /\ CallersKept)
    BY <1>2, CallsMoveAlone DEF AtCall
  <2>2. CASE HeapStep /\ pc' = pc /\ ptr' = ptr /\ CallersKept
    <3> DEFINE s  == HEAP_END - HEAP_BEGIN - 20
               sz == 385
               t  == HEAP_BEGIN
               U  == {}
               F  == {Whole}
               G  == {Big}
               V  == {MemInfo}
               new == BigAt
    <3>1. sz \in Nat /\ sz + 36 <= s /\ s - sz - 20 = BigSize /\ new = t + 20 + sz
      BY HeapAssumption DEF BigSize, BigAt, Room
    <3>2. Whole = FB(t, s, 0, 0) /\ Big = FB(t + 20 + sz, s - sz - 20, 0, 0)
      BY <3>1 DEF Whole, Big
    <3>3. Layout(U, F, t) /\ Fits(U, F) /\ Linked(F)
      BY WholeFits DEF Starting
    <3>4. call = Obtaining(sz, t)
      BY <1>2 DEF AtCall
    <3>5. FB(t, s, 0, 0) \in F /\ PartTaken(F, G, t, s, 0, sz)
      BY <3>2 DEF PartTaken
    <3>6. V = U \cup {Blk(t, sz)}
      BY DEF MemInfo
    <3>7. Layout(V, G, new)' /\ call' = Returned(t + 16)
      <4> HIDE DEF s, sz, t, U, F, G, V, new
      <4> QED BY <2>2, <3>1, <3>3, <3>4, <3>5, <3>6, TakesPart
    <3>8. pc' = "mem_info ="
      BY <1>2, <2>2 DEF AtCall
    <3> QED BY <2>2, <3>7, <3>8 DEF MemInfoTaken
  <2> QED BY <2>1, <2>2
<1> QED BY <1>1, <1>2 DEF Starting

(* fills it, finds the region for DMA, and gives it back:                  *)
LEMMA MemInfoTakenStep ==
  ASSUME Room, ptr \in [Pointers -> Nat], regions \in MemoryMaps, MemInfoTaken, [Next]_vars
  PROVE  UNCHANGED vars \/ (CallersKept /\ (MemInfoTaken \/ MemInfoFreed)')
<1>0. HEAP_BEGIN + 16 \in Nat
  BY HeapAssumption
<1>1. /\ call = Returned(HEAP_BEGIN + 16) /\ Layout({MemInfo}, {Big}, BigAt)
      /\ Fits({MemInfo}, {Big}) /\ HEAP_BEGIN + 16 \in Nat
  BY <1>0, MemInfoFits DEF MemInfoTaken
<1>2. UNCHANGED vars \/ KernelMain \/ Pong \/ PongCommand
  BY <1>1, CallerMovesIdle
<1>3. CASE pc = "mem_info ="
  <2>1. UNCHANGED vars \/ Obtain("mem_info =", "get_free_mem_region", "mem_info")
    BY <1>2, <1>3 DEF KernelMain, Pong, PongCommand, Call, Obtain, Release, GetFreeMemRegion
  <2>2. CASE Obtain("mem_info =", "get_free_mem_region", "mem_info")
    <3>1. [ptr |-> HEAP_BEGIN + 16, size |-> SizeFor["mem_info"]] \in {MemInfo} /\ "mem_info" \in Pointers
      BY DEF MemInfo, Blk, SizeFor, Pointers
    <3>2. /\ AtCall("get_free_mem_region", Returned(HEAP_BEGIN + 16))' /\ Layout({MemInfo}, {Big}, BigAt)'
          /\ ptr' = [ptr EXCEPT !["mem_info"] = HEAP_BEGIN + 16] /\ UNCHANGED <<pongs, regions>>
      BY <1>1, <2>2, <3>1, Obtained
    <3>3. ptr' \in [Pointers -> Nat] /\ ptr'["mem_info"] = HEAP_BEGIN + 16
      BY <1>1, <3>1, <3>2
    <3> QED BY <3>2, <3>3 DEF CallersKept, MemInfoTaken, AtCall
  <2> QED BY <2>1, <2>2
<1>4. CASE pc = "get_free_mem_region" /\ ptr["mem_info"] = HEAP_BEGIN + 16
  <2>1. UNCHANGED vars \/ GetFreeMemRegion
    BY <1>2, <1>4 DEF KernelMain, Pong, PongCommand, Call, Obtain, Release
  <2>2. CASE GetFreeMemRegion
    <3>1. /\ pc' \in {"get_free_mem_region", "free mem_info"}
          /\ UNCHANGED <<mem, free_head, call, live, ptr, pongs, regions>>
      BY <1>4, <2>2 DEF GetFreeMemRegion, heapVars
    <3>2. Layout({MemInfo}, {Big}, BigAt)'
      BY <1>1, <3>1 DEF Layout, Holds
    <3> QED BY <1>1, <1>4, <3>1, <3>2 DEF CallersKept, MemInfoTaken
  <2> QED BY <2>1, <2>2
<1>5. CASE pc = "free mem_info" /\ ptr["mem_info"] = HEAP_BEGIN + 16
  <2>1. UNCHANGED vars \/ Release("free mem_info", "malloc kernel_task", "mem_info")
    BY <1>2, <1>5 DEF KernelMain, Pong, PongCommand, Call, Obtain, Release, GetFreeMemRegion
  <2>2. CASE Release("free mem_info", "malloc kernel_task", "mem_info")
    <3>1. Load(mem, HEAP_BEGIN - 4) = 0
      <4> DEFINE a == HEAP_BEGIN - 4
      <4>1. \A x \in Int : x < HEAP_BEGIN => Peek(mem, x) = 0
        BY <1>1, HeapAssumption DEF Layout, Holds, InHeap, Peek
      <4>2. a \in Int /\ a + 3 < HEAP_BEGIN /\ HEAP_BEGIN \in Int
        BY HeapAssumption
      <4> HIDE DEF a
      <4>3. Peek(mem, a) = 0 /\ Peek(mem, a + 1) = 0 /\ Peek(mem, a + 2) = 0 /\ Peek(mem, a + 3) = 0
        BY <4>1, <4>2
      <4>4. Load(mem, a) = 0
        BY <4>3 DEF Load
      <4> QED BY <4>4 DEF a
    <3> DEFINE s == 385
               U == {MemInfo}
               F == {Big}
               V == {}
               G == {Big, Front(0)}
    <3>2. s \in Nat /\ HEAP_BEGIN \in Nat
      BY HeapAssumption
    <3>3. Blk(HEAP_BEGIN, s) \in U /\ V = U \ {Blk(HEAP_BEGIN, s)} /\ G = F \cup {FB(HEAP_BEGIN, s, 0, 0)}
      BY DEF MemInfo, Front
    <3>4. Layout(U, F, BigAt) /\ Fits(U, F)
      BY <1>1
    <3>5. /\ AtCall("malloc kernel_task", Freeing(HEAP_BEGIN, 0))' /\ Layout(V, G, BigAt)'
          /\ UNCHANGED <<ptr, pongs, regions>>
      <4> HIDE DEF s, U, F, V, G
      <4> QED BY <1>5, <2>2, <3>1, <3>2, <3>3, <3>4, Given
    <3> QED BY <3>5 DEF CallersKept, MemInfoFreed
  <2> QED BY <2>1, <2>2
<1> QED BY <1>3, <1>4, <1>5 DEF MemInfoTaken

(* ph_free puts it before the list:                                        *)
LEMMA MemInfoFreedStep ==
  ASSUME Room, ptr \in [Pointers -> Nat], MemInfoFreed, [Next]_vars
  PROVE  UNCHANGED vars \/ (CallersKept /\ MemInfoBack')
<1>1. AtCall("malloc kernel_task", Freeing(HEAP_BEGIN, 0))
  BY DEF MemInfoFreed
<1>2. UNCHANGED vars \/ (HeapStep /\ pc' = pc /\ ptr' = ptr /\ CallersKept)
  BY <1>1, CallsMoveAlone DEF AtCall
<1>3. CASE HeapStep /\ pc' = pc /\ ptr' = ptr /\ CallersKept
  <2> DEFINE h == HEAP_BEGIN
             s == 385
             x == 0
             head == BigAt
             U == {}
             F == {Big, Front(0)}
             G == {Big, Front(BigAt)}
  <2>1. x \in Nat /\ head \in Nat /\ head <= HEAP_END /\ x < head /\ h = HEAP_BEGIN /\ BigAt # HEAP_BEGIN
    BY HeapAssumption DEF BigAt, Room
  <2>2. Layout(U, F, head) /\ Fits(U, F) /\ call = Freeing(h, x)
    BY <1>1, FrontFits DEF MemInfoFreed, AtCall
  <2>3. FB(h, s, 0, 0) \in F /\ \A g \in G : g = FB(h, s, head, 0) \/ (g \in F /\ g.at # h)
    BY <2>1 DEF Front, Big, FB
  <2>4. Layout(U, G, h)' /\ call' = Idle
    <3> HIDE DEF h, s, x, head, U, F, G
    <3> QED BY <1>3, <2>1, <2>2, <2>3, PutsFirst
  <2> QED BY <1>1, <1>3, <2>4 DEF MemInfoBack, AtCall
<1> QED BY <1>2, <1>3

(* kernel_main asks for its PCB, and gets it from the same place:          *)
LEMMA MemInfoBackStep ==
  ASSUME Room, ptr \in [Pointers -> Nat], MemInfoBack, [Next]_vars
  PROVE  UNCHANGED vars \/ (CallersKept /\ (MemInfoBack \/ KernelTaken)')
<1>1. CASE AtCall("malloc kernel_task", Idle)
  <2>1. UNCHANGED vars \/ Call("malloc kernel_task", "kernel_task =", "kernel_task")
    BY <1>1, CallerMovesIdle DEF AtCall, KernelMain, Pong, PongCommand, Call, Obtain, Release, GetFreeMemRegion
  <2>2. SizeFor["kernel_task"] = 16 /\ Layout({}, {Big, Front(BigAt)}, HEAP_BEGIN)
    BY DEF SizeFor, MemInfoBack
  <2>3. CASE Call("malloc kernel_task", "kernel_task =", "kernel_task")
    <3>1. /\ AtCall("kernel_task =", Obtaining(16, HEAP_BEGIN))' /\ Layout({}, {Big, Front(BigAt)}, HEAP_BEGIN)'
          /\ UNCHANGED <<ptr, pongs, regions>>
      BY <2>2, <2>3, CallMade, ZenonT(30)
    <3> QED BY <3>1 DEF MemInfoBack, CallersKept
  <2> QED BY <2>1, <2>3
<1>2. CASE AtCall("kernel_task =", Obtaining(16, HEAP_BEGIN))
  <2>1. UNCHANGED vars \/ (HeapStep /\ pc' = pc /\ ptr' = ptr /\ CallersKept)
    BY <1>2, CallsMoveAlone DEF AtCall
  <2>2. CASE HeapStep /\ pc' = pc /\ ptr' = ptr /\ CallersKept
    <3> DEFINE s  == 385
               sz == 16
               t  == HEAP_BEGIN
               n  == BigAt
               U  == {}
               F  == {Big, Front(BigAt)}
               G  == FreeReady(0)
               V  == Kept(0)
               new == FileAt
    <3>0. t \in Nat /\ n = t + 405
      BY HeapAssumption DEF BigAt
    <3>1. sz \in Nat /\ sz + 36 <= s /\ s - sz - 20 = 349 /\ new = t + 20 + sz
      BY HeapAssumption DEF FileAt
    <3>2. G = {Big, FB(t + 20 + sz, s - sz - 20, n, 0)}
      BY <3>1 DEF FreeReady
    <3>3. Layout(U, F, t) /\ Fits(U, F) /\ Linked(F)
      BY FrontFits DEF MemInfoBack
    <3>4. call = Obtaining(sz, t)
      BY <1>2 DEF AtCall
    <3>5. Big.at = n /\ Big = FB(n, Big.size, Big.next, 0) /\ Big \in F
      BY DEF Big, FB
    <3>6. FB(t, s, n, 0) \in F
      BY DEF Front
    <3>7. V = U \cup {Blk(t, sz)}
      BY DEF Kernel, Kept, Vases
    <3>8. Layout(V, G, new)' /\ call' = Returned(t + 16)
      <4> HIDE DEF s, sz, t, n, U, F, G, V, new
      <4>1. PartTaken(F, G, t, s, n, sz)
          BY <3>2, <3>5 DEF PartTaken, NextFirst
      <4> QED BY <2>2, <3>1, <3>3, <3>4, <3>6, <3>7, <4>1, TakesPart
    <3>9. pc' = "kernel_task ="
      BY <1>2, <2>2 DEF AtCall
    <3> QED BY <2>2, <3>8, <3>9 DEF KernelTaken, AtCall
  <2> QED BY <2>1, <2>2
<1> QED BY <1>1, <1>2 DEF MemInfoBack

(* and waits for commands.                                                 *)
LEMMA KernelTakenStep ==
  ASSUME Room, ptr \in [Pointers -> Nat], regions \in MemoryMaps, pongs = 0, KernelTaken, [Next]_vars
  PROVE  UNCHANGED vars \/ (CallersKept /\ Waiting')
<1>0. HEAP_BEGIN + 16 \in Nat /\ 0 \in 0..7
  BY HeapAssumption
<1>1. /\ pc = "kernel_task =" /\ call = Returned(HEAP_BEGIN + 16) /\ HEAP_BEGIN + 16 \in Nat
      /\ Layout(Kept(0), FreeReady(0), FileAt) /\ Fits(Kept(0), FreeReady(0))
  BY <1>0, ReadyFits DEF KernelTaken, AtCall
<1>2. UNCHANGED vars \/ Obtain("kernel_task =", "bsy_loop", "kernel_task")
  BY <1>1, CallerMovesIdle DEF KernelMain, Pong, PongCommand, Call, Obtain, Release, GetFreeMemRegion
<1>3. CASE Obtain("kernel_task =", "bsy_loop", "kernel_task")
  <2>1. [ptr |-> HEAP_BEGIN + 16, size |-> SizeFor["kernel_task"]] \in Kept(0) /\ "kernel_task" \in Pointers
    BY DEF Kept, Kernel, Blk, SizeFor, Pointers
  <2>2. /\ AtCall("bsy_loop", Returned(HEAP_BEGIN + 16))' /\ Layout(Kept(0), FreeReady(0), FileAt)'
        /\ ptr' = [ptr EXCEPT !["kernel_task"] = HEAP_BEGIN + 16] /\ UNCHANGED <<pongs, regions>>
    BY <1>1, <1>3, <2>1, Obtained
  <2>3. ptr' \in [Pointers -> Nat]
    BY <1>1, <2>1, <2>2
  <2>4. pongs' = 0 /\ call'.at = "idle"
    BY <2>2 DEF AtCall, Returned, Idle
  <2> QED BY <2>2, <2>3, <2>4 DEF CallersKept, Waiting, AtCall
<1> QED BY <1>2, <1>3

-----------------------------------------------------------------------------
(* From place to place: pong.                                              *)

(* bsy_loop waits, or a pong begins.                                       *)
LEMMA WaitingStep ==
  ASSUME NEW k \in Nat, k = pongs, ptr \in [Pointers -> Nat], Waiting, [Next]_vars
  PROVE  \/ UNCHANGED vars
         \/ /\ pongs' = k + 1 /\ k < MaxPongs /\ UNCHANGED regions
            /\ ptr' \in [Pointers -> Nat] /\ PongBegins(k)'
<1>1. pc = "bsy_loop" /\ call.at = "idle" /\ Layout(Kept(k), FreeReady(k), FileAt)
  BY DEF Waiting
<1>2. UNCHANGED vars \/ PongCommand
  BY <1>1, CallerMovesIdle DEF KernelMain, Pong, Call, Obtain, Release, GetFreeMemRegion
<1>3. CASE PongCommand
  <2>1. /\ pongs < MaxPongs /\ pc' = "malloc f" /\ pongs' = pongs + 1 /\ UNCHANGED <<mem, free_head, call, live, ptr, regions>>
    BY <1>3 DEF PongCommand, heapVars, memoryMap
  <2>2. Layout(Kept(k), FreeReady(k), FileAt)'
    BY <1>1, <2>1 DEF Layout, Holds
  <2> QED BY <1>1, <2>1, <2>2 DEF PongBegins
<1> QED BY <1>2, <1>3

(* pong asks for the file and gets the first free block: part of it in the *)
(* first pong, and all of it in the later ones, which find it where the    *)
(* last pong gave it back.                                                 *)
LEMMA PongBeginsStep ==
  ASSUME Room, NEW k \in 0..6, ptr \in [Pointers -> Nat], PongBegins(k), [Next]_vars
  PROVE  UNCHANGED vars \/ (CallersKept /\ (PongBegins(k) \/ FileTaken(k))')
<1>0. /\ Layout(Kept(k), FreeReady(k), FileAt)
      /\ Fits(Kept(k), FreeReady(k)) /\ Linked(FreeReady(k))
  <2>1. k \in 0..7
    OBVIOUS
  <2> QED BY <2>1, ReadyFits DEF PongBegins
<1>1. CASE pc = "malloc f" /\ call.at = "idle"
  <2>1. UNCHANGED vars \/ Call("malloc f", "f =", "f")
    BY <1>1, CallerMovesIdle DEF KernelMain, Pong, PongCommand, Call, Obtain, Release, GetFreeMemRegion
  <2>2. CASE Call("malloc f", "f =", "f")
    <3>1. SizeFor["f"] = 24
      BY DEF SizeFor
    <3>2. /\ AtCall("f =", Obtaining(24, FileAt))' /\ Layout(Kept(k), FreeReady(k), FileAt)'
          /\ UNCHANGED <<ptr, pongs, regions>>
      BY <1>0, <2>2, <3>1, CallMade
    <3> QED BY <3>2 DEF PongBegins, CallersKept
  <2> QED BY <2>1, <2>2
<1>2. CASE AtCall("f =", Obtaining(24, FileAt))
  <2>1. UNCHANGED vars \/ (HeapStep /\ pc' = pc /\ ptr' = ptr /\ CallersKept)
    BY <1>2, CallsMoveAlone DEF AtCall
  <2>2. CASE HeapStep /\ pc' = pc /\ ptr' = ptr /\ CallersKept
    <3> DEFINE sz == 24
               t == FileAt
               U == Kept(k)
               F == FreeReady(k)
               G == FreeNoFile(k)
               V == Kept(k) \cup {File}
    <3>1. sz \in Nat /\ V = U \cup {Blk(t, sz)}
      BY DEF File
    <3>2. call = Obtaining(sz, t) /\ pc' = "f ="
      BY <1>2, <2>2 DEF AtCall
    <3>3. CASE k = 0
      <4> DEFINE s == 349
                 n == BigAt
                 new == VasAt(k)
      <4>1. sz + 36 <= s /\ s - sz - 20 = 305 /\ new = t + 20 + sz
        BY <3>3, HeapAssumption DEF FileAt, VasAt
      <4>2. F = {Big, FB(t, s, n, 0)} /\ G = {Big, FB(t + 20 + sz, s - sz - 20, n, 0)}
        BY <3>3, <4>1 DEF FreeReady, FreeNoFile
      <4>3. Big.at = n /\ Big = FB(n, Big.size, Big.next, 0)
        BY DEF Big, FB
      <4>4. Layout(V, G, new)' /\ call' = Returned(t + 16)
        <5> HIDE DEF s, sz, t, n, U, F, G, V, new
        <5>1. PartTaken(F, G, t, s, n, sz)
          BY <4>2, <4>3 DEF PartTaken, NextFirst
        <5>2. FB(t, s, n, 0) \in F
          BY <4>2
        <5>3. Layout(U, F, t) /\ Fits(U, F) /\ Linked(F)
          BY <1>0 DEF U, F, t
        <5>4. sz + 36 <= s /\ new = t + 20 + sz
          BY <4>1
        <5> QED BY <2>2, <3>1, <3>2, <5>1, <5>2, <5>3, <5>4, TakesPart
      <4> QED BY <2>2, <3>2, <4>4 DEF FileTaken, AtCall
    <3>4. CASE k # 0
      <4> DEFINE n == VasAt(k)
                 s == 24
                 z == RestAt(k)
                 d == RestSize(k)
      <4>1. /\ F = {Big, FB(t, s, n, 0), FB(n, 16, z, t), FB(z, d, BigAt, n)}
            /\ G = {Big, FB(n, 16, z, 0), FB(z, d, BigAt, n)}
        BY <3>4 DEF FreeReady, FreeNoFile, Rest
      <4>2. t + s + 20 < HEAP_END /\ t < n /\ n < z /\ z < BigAt /\ {t, n, z, BigAt} \subseteq Nat
        BY Addresses, HeapAssumption DEF Room
      <4>3. s = sz
        OBVIOUS
      <4>4. Big.at = BigAt
        BY DEF Big, FB
      <4>5. Layout(V, G, n)' /\ call' = Returned(t + 16)
        <5> HIDE DEF s, sz, t, n, z, d, U, F, G, V
        <5>1. AllTaken(F, G, t, n)
          BY <4>1, <4>2, <4>4 DEF AllTaken, NextFirst, FB
        <5>2. FB(t, s, n, 0) \in F
          BY <4>1
        <5>3. Layout(U, F, t) /\ Fits(U, F) /\ Linked(F)
          BY <1>0 DEF U, F, t
        <5> QED BY <2>2, <3>1, <3>2, <4>2, <4>3, <5>1, <5>2, <5>3, TakesAll
      <4> QED BY <2>2, <3>2, <4>5 DEF FileTaken, AtCall
    <3> QED BY <3>3, <3>4
  <2> QED BY <2>1, <2>2
<1> QED BY <1>1, <1>2 DEF PongBegins

(* It fills the file, asks for its address space and gets the first free   *)
(* block, part of it in the first pong and all of it in the later ones.    *)
LEMMA FileTakenStep ==
  ASSUME Room, NEW k \in 0..6, ptr \in [Pointers -> Nat], regions \in MemoryMaps, FileTaken(k), [Next]_vars
  PROVE  UNCHANGED vars \/ (CallersKept /\ (FileTaken(k) \/ VasTaken(k))')
<1>0. /\ Layout(Kept(k) \cup {File}, FreeNoFile(k), VasAt(k))
      /\ Fits(Kept(k) \cup {File}, FreeNoFile(k)) /\ Linked(FreeNoFile(k))
  BY NoFileFits DEF FileTaken
<1>1. CASE AtCall("f =", Returned(FileAt + 16))
  <2>1. UNCHANGED vars \/ Obtain("f =", "malloc vas", "f")
    BY <1>1, CallerMovesIdle DEF AtCall, KernelMain, Pong, PongCommand, Call, Obtain, Release, GetFreeMemRegion
  <2>2. CASE Obtain("f =", "malloc vas", "f")
    <3>1. [ptr |-> FileAt + 16, size |-> SizeFor["f"]] \in Kept(k) \cup {File} /\ "f" \in Pointers
      BY DEF File, Blk, SizeFor, Pointers
    <3>2. FileAt + 16 \in Nat
      BY HeapAssumption DEF FileAt
    <3>3. call = Returned(FileAt + 16)
      BY <1>1 DEF AtCall
    <3>4. /\ AtCall("malloc vas", Returned(FileAt + 16))'
          /\ Layout(Kept(k) \cup {File}, FreeNoFile(k), VasAt(k))'
          /\ ptr' = [ptr EXCEPT !["f"] = FileAt + 16] /\ UNCHANGED <<pongs, regions>>
      <4> DEFINE U == Kept(k) \cup {File}
                 F == FreeNoFile(k)
                 p == FileAt + 16
      <4> HIDE DEF U, F, p
      <4>1. /\ AtCall("malloc vas", Returned(p))' /\ Layout(U, F, VasAt(k))'
            /\ ptr' = [ptr EXCEPT !["f"] = p] /\ UNCHANGED <<pongs, regions>>
        <5>1. [ptr |-> p, size |-> SizeFor["f"]] \in U /\ p \in Nat /\ call = Returned(p)
              /\ Layout(U, F, VasAt(k)) /\ Fits(U, F)
          BY <1>0, <3>1, <3>2, <3>3 DEF U, F, p
        <5> QED BY <2>2, <3>1, <5>1, Obtained
      <4> QED BY <4>1 DEF U, F, p
    <3>5. ptr' \in [Pointers -> Nat] /\ ptr'["f"] = FileAt + 16
      BY <3>1, <3>2, <3>4
    <3> QED BY <3>4, <3>5 DEF CallersKept, FileTaken
  <2> QED BY <2>1, <2>2
<1>2. CASE AtCall("malloc vas", Returned(FileAt + 16)) /\ ptr["f"] = FileAt + 16
  <2>1. UNCHANGED vars \/ Call("malloc vas", "vas =", "vas")
    BY <1>2, CallerMovesIdle DEF AtCall, KernelMain, Pong, PongCommand, Call, Obtain, Release, GetFreeMemRegion
  <2>2. CASE Call("malloc vas", "vas =", "vas")
    <3>1. SizeFor["vas"] = 16
      BY DEF SizeFor
    <3>2. /\ AtCall("vas =", Obtaining(16, VasAt(k)))'
          /\ Layout(Kept(k) \cup {File}, FreeNoFile(k), VasAt(k))'
          /\ UNCHANGED <<ptr, pongs, regions>>
      BY <1>0, <2>2, <3>1, CallMade
    <3> QED BY <1>2, <3>2 DEF FileTaken, CallersKept
  <2> QED BY <2>1, <2>2
<1>3. CASE AtCall("vas =", Obtaining(16, VasAt(k))) /\ ptr["f"] = FileAt + 16
  <2>1. UNCHANGED vars \/ (HeapStep /\ pc' = pc /\ ptr' = ptr /\ CallersKept)
    BY <1>3, CallsMoveAlone DEF AtCall
  <2>2. CASE HeapStep /\ pc' = pc /\ ptr' = ptr /\ CallersKept
    <3> DEFINE sz == 16
               t == VasAt(k)
               U == Kept(k) \cup {File}
               F == FreeNoFile(k)
               G == FreeNoVas(k)
               V == Kept(k + 1) \cup {File}
               n == RestAt(k)
    <3>1. sz \in Nat /\ V = U \cup {Blk(t, sz)}
      BY VasKept
    <3>2. call = Obtaining(sz, t) /\ pc' = "vas ="
      BY <1>3, <2>2 DEF AtCall
    <3>3. CASE k = 0
      <4> DEFINE s == 305
                 b == BigAt
      <4>1. sz + 36 <= s /\ s - sz - 20 = 269 /\ n = t + 20 + sz /\ RestSize(k) = 269
        BY <3>3, HeapAssumption DEF VasAt, RestAt, RestSize
      <4>2. F = {Big, FB(t, s, b, 0)} /\ G = {Big, FB(t + 20 + sz, s - sz - 20, b, 0)}
        BY <3>3, <4>1 DEF FreeNoFile, FreeNoVas, Rest
      <4>3. Big.at = b /\ Big = FB(b, Big.size, Big.next, 0)
        BY DEF Big, FB
      <4>4. Layout(V, G, n)' /\ call' = Returned(t + 16)
        <5> HIDE DEF s, sz, t, n, b, U, F, G, V
        <5>1. PartTaken(F, G, t, s, b, sz)
          BY <4>2, <4>3 DEF PartTaken, NextFirst
        <5>2. FB(t, s, b, 0) \in F
          BY <4>2
        <5>3. Layout(U, F, t) /\ Fits(U, F) /\ Linked(F)
          BY <1>0 DEF U, F, t
        <5>4. sz + 36 <= s /\ n = t + 20 + sz
          BY <4>1
        <5> QED BY <2>2, <3>1, <3>2, <5>1, <5>2, <5>3, <5>4, TakesPart
      <4> QED BY <1>3, <2>2, <3>2, <4>4 DEF VasTaken, AtCall
    <3>4. CASE k # 0
      <4> DEFINE s == 16
                 d == RestSize(k)
      <4>1. F = {Big, FB(t, s, n, 0), FB(n, d, BigAt, t)} /\ G = {Big, FB(n, d, BigAt, 0)}
        BY <3>4 DEF FreeNoFile, FreeNoVas, Rest
      <4>2. t + s + 20 < HEAP_END /\ t < n /\ n < BigAt /\ {t, n, BigAt} \subseteq Nat
        BY Addresses, HeapAssumption DEF Room
      <4>3. s = sz
        OBVIOUS
      <4>4. Big.at = BigAt
        BY DEF Big, FB
      <4>5. Layout(V, G, n)' /\ call' = Returned(t + 16)
        <5> HIDE DEF s, sz, t, n, d, U, F, G, V
        <5>1. AllTaken(F, G, t, n)
          BY <4>1, <4>2, <4>4 DEF AllTaken, NextFirst, FB
        <5>2. FB(t, s, n, 0) \in F
          BY <4>1
        <5>3. Layout(U, F, t) /\ Fits(U, F) /\ Linked(F)
          BY <1>0 DEF U, F, t
        <5> QED BY <2>2, <3>1, <3>2, <4>2, <4>3, <5>1, <5>2, <5>3, TakesAll
      <4> QED BY <1>3, <2>2, <3>2, <4>5 DEF VasTaken, AtCall
    <3> QED BY <3>3, <3>4
  <2> QED BY <2>1, <2>2
<1> QED BY <1>1, <1>2, <1>3 DEF FileTaken

(* It asks for its PCB and gets the front of the rest, which seven pongs   *)
(* do not use up.                                                          *)
LEMMA VasTakenStep ==
  ASSUME Room, NEW k \in 0..6, ptr \in [Pointers -> Nat], regions \in MemoryMaps, VasTaken(k), [Next]_vars
  PROVE  UNCHANGED vars \/ (CallersKept /\ (VasTaken(k) \/ TaskTaken(k))')
<1>0. /\ Layout(Kept(k + 1) \cup {File}, FreeNoVas(k), RestAt(k))
      /\ Fits(Kept(k + 1) \cup {File}, FreeNoVas(k)) /\ Linked(FreeNoVas(k))
      /\ ptr["f"] = FileAt + 16
  BY NoVasFits DEF VasTaken
<1>1. CASE AtCall("vas =", Returned(VasAt(k) + 16))
  <2>1. UNCHANGED vars \/ Obtain("vas =", "malloc task", "vas")
    BY <1>1, CallerMovesIdle DEF AtCall, KernelMain, Pong, PongCommand, Call, Obtain, Release, GetFreeMemRegion
  <2>2. CASE Obtain("vas =", "malloc task", "vas")
    <3> DEFINE U == Kept(k + 1) \cup {File}
               F == FreeNoVas(k)
               p == VasAt(k) + 16
    <3>1. [ptr |-> p, size |-> SizeFor["vas"]] \in U
      BY VasKept DEF Blk, SizeFor
    <3>2. p \in Nat /\ "vas" \in Pointers
      BY HeapAssumption DEF VasAt, Pointers
    <3>3. call = Returned(p)
      BY <1>1 DEF AtCall
    <3>4. Layout(U, F, RestAt(k)) /\ Fits(U, F)
      BY <1>0
    <3>5. /\ AtCall("malloc task", Returned(p))' /\ Layout(U, F, RestAt(k))'
          /\ ptr' = [ptr EXCEPT !["vas"] = p] /\ UNCHANGED <<pongs, regions>>
      <4> HIDE DEF U, F, p
      <4> QED BY <2>2, <3>1, <3>2, <3>3, <3>4, Obtained
    <3>6. ptr' \in [Pointers -> Nat] /\ ptr'["f"] = FileAt + 16
      <4> HIDE DEF p
      <4> QED BY <1>0, <3>2, <3>5 DEF Pointers
    <3> QED BY <3>5, <3>6 DEF CallersKept, VasTaken
  <2> QED BY <2>1, <2>2
<1>2. CASE AtCall("malloc task", Returned(VasAt(k) + 16))
  <2>1. UNCHANGED vars \/ Call("malloc task", "task =", "task")
    BY <1>2, CallerMovesIdle DEF AtCall, KernelMain, Pong, PongCommand, Call, Obtain, Release, GetFreeMemRegion
  <2>2. CASE Call("malloc task", "task =", "task")
    <3>1. SizeFor["task"] = 16
      BY DEF SizeFor
    <3>2. /\ AtCall("task =", Obtaining(16, RestAt(k)))'
          /\ Layout(Kept(k + 1) \cup {File}, FreeNoVas(k), RestAt(k))'
          /\ UNCHANGED <<ptr, pongs, regions>>
      BY <1>0, <2>2, <3>1, CallMade
    <3> QED BY <1>0, <3>2 DEF VasTaken, CallersKept
  <2> QED BY <2>1, <2>2
<1>3. CASE AtCall("task =", Obtaining(16, RestAt(k)))
  <2>1. UNCHANGED vars \/ (HeapStep /\ pc' = pc /\ ptr' = ptr /\ CallersKept)
    BY <1>3, CallsMoveAlone DEF AtCall
  <2>2. CASE HeapStep /\ pc' = pc /\ ptr' = ptr /\ CallersKept
    <3> DEFINE sz == 16
               t == RestAt(k)
               s == RestSize(k)
               n == BigAt
               U == Kept(k + 1) \cup {File}
               F == FreeNoVas(k)
               G == FreeNoTask(k)
               V == Kept(k + 1) \cup {File, Task(k)}
               new == RestAt(k + 1)
    <3>1. sz \in Nat /\ V = U \cup {Blk(t, sz)}
      BY DEF Task
    <3>2. call = Obtaining(sz, t) /\ pc' = "task ="
      BY <1>3, <2>2 DEF AtCall
    <3>3. sz + 36 <= s /\ new = t + 20 + sz /\ RestSize(k + 1) = s - sz - 20
      BY HeapAssumption DEF RestAt, RestSize
    <3>4. F = {Big, FB(t, s, n, 0)} /\ G = {Big, FB(t + 20 + sz, s - sz - 20, n, 0)}
      BY <3>3 DEF FreeNoVas, FreeNoTask, Rest
    <3>5. Big.at = n /\ Big = FB(n, Big.size, Big.next, 0)
      BY DEF Big, FB
    <3>6. Layout(U, F, t) /\ Fits(U, F) /\ Linked(F)
      BY <1>0
    <3>7. Layout(V, G, new)' /\ call' = Returned(t + 16)
      <4> HIDE DEF s, sz, t, n, U, F, G, V, new
      <4>1. PartTaken(F, G, t, s, n, sz)
        BY <3>4, <3>5 DEF PartTaken, NextFirst
      <4>2. FB(t, s, n, 0) \in F
        BY <3>4
      <4> QED BY <2>2, <3>1, <3>2, <3>3, <3>6, <4>1, <4>2, TakesPart
    <3> QED BY <1>0, <2>2, <3>2, <3>7 DEF TaskTaken, AtCall
  <2> QED BY <2>1, <2>2
<1> QED BY <1>1, <1>2, <1>3 DEF VasTaken

(* ph_free finds a block in use before the one given back: the footer      *)
(* before it leads to that block's header.                                 *)
LEMMA FooterOf ==
  ASSUME NEW U, NEW F, NEW head, NEW h \in Nat, Layout(U, F, head), Blk(h, 16) \in U
  PROVE  Load(mem, h + 32) = h /\ ~IsFree(mem, h)
<1>1. Blk(h, 16).ptr - 16 = h /\ Blk(h, 16).size = 16
  BY DEF Blk
<1>2. UsedAt(mem, h, 16)
  BY <1>1 DEF Layout, Holds
<1>3. h + 16 + 16 = h + 32
  OBVIOUS
<1> QED BY <1>2, <1>3 DEF UsedAt

(* pong gives back the file; ph_free finds kernel_main's PCB before it.    *)
LEMMA TaskTakenStep ==
  ASSUME Room, NEW k \in 0..6, ptr \in [Pointers -> Nat], regions \in MemoryMaps, TaskTaken(k), [Next]_vars
  PROVE  UNCHANGED vars \/ (CallersKept /\ (TaskTaken(k) \/ FileFreed(k))')
<1> DEFINE U == Kept(k + 1) \cup {File, Task(k)}
           F == FreeNoTask(k)
           p == RestAt(k) + 16
<1>0. /\ Layout(U, F, RestAt(k + 1)) /\ Fits(U, F)
      /\ call = Returned(p) /\ ptr["f"] = FileAt + 16
  BY NoTaskFits DEF TaskTaken
<1>1. CASE pc = "task ="
  <2>1. UNCHANGED vars \/ Obtain("task =", "free f", "task")
    BY <1>0, <1>1, CallerMovesIdle DEF KernelMain, Pong, PongCommand, Call, Obtain, Release, GetFreeMemRegion
  <2>2. CASE Obtain("task =", "free f", "task")
    <3>1. [ptr |-> p, size |-> SizeFor["task"]] \in U
      BY DEF Blk, SizeFor, Task
    <3>2. p \in Nat /\ "task" \in Pointers
      BY HeapAssumption DEF RestAt, Pointers
    <3>3. /\ AtCall("free f", Returned(p))' /\ Layout(U, F, RestAt(k + 1))'
          /\ ptr' = [ptr EXCEPT !["task"] = p] /\ UNCHANGED <<pongs, regions>>
      <4> HIDE DEF U, F, p
      <4> QED BY <1>0, <2>2, <3>1, <3>2, Obtained
    <3>4. ptr' \in [Pointers -> Nat] /\ ptr'["f"] = FileAt + 16 /\ ptr'["task"] = p
      <4> HIDE DEF p
      <4> QED BY <1>0, <3>2, <3>3 DEF Pointers
    <3> QED BY <3>3, <3>4 DEF CallersKept, TaskTaken, AtCall
  <2> QED BY <2>1, <2>2
<1>2. CASE pc = "free f" /\ ptr["task"] = p
  <2>1. UNCHANGED vars \/ Release("free f", "free task", "f")
    BY <1>0, <1>2, CallerMovesIdle DEF KernelMain, Pong, PongCommand, Call, Obtain, Release, GetFreeMemRegion
  <2>2. CASE Release("free f", "free task", "f")
    <3> DEFINE s == 24
               h == FileAt
               V == Kept(k + 1) \cup {Task(k)}
               G == FreeNoTask(k) \cup {FB(FileAt, 24, 0, 0)}
    <3>1. Load(mem, h - 4) = HEAP_BEGIN
      <4>1. Blk(HEAP_BEGIN, 16) \in U /\ HEAP_BEGIN \in Nat
        BY HeapAssumption DEF Kept, Kernel
      <4>2. h - 4 = HEAP_BEGIN + 32
        BY HeapAssumption DEF FileAt
      <4>3. Load(mem, HEAP_BEGIN + 32) = HEAP_BEGIN
        <5> HIDE DEF U, F
        <5> QED BY <1>0, <4>1, FooterOf
      <4> QED BY <4>2, <4>3
    <3>2. s \in Nat /\ h \in Nat
      BY HeapAssumption DEF FileAt
    <3>3. Blk(h, s) \in U /\ V = U \ {Blk(h, s)} /\ G = F \cup {FB(h, s, 0, 0)}
      <4>1. k + 1 \in Nat /\ k \in Nat
        OBVIOUS
      <4>2. File \notin Kept(k + 1) /\ File # Task(k)
        BY <4>1, FileNotKept
      <4> QED BY <4>2 DEF File
    <3>4. /\ AtCall("free task", Freeing(h, HEAP_BEGIN))' /\ Layout(V, G, RestAt(k + 1))'
          /\ UNCHANGED <<ptr, pongs, regions>>
      <4> HIDE DEF s, h, U, F, V, G
      <4>1. ptr["f"] = h + 16
        BY <1>0 DEF h
      <4> QED BY <1>0, <2>2, <3>1, <3>2, <3>3, <4>1, Given
    <3> QED BY <1>2, <3>4 DEF CallersKept, FileFreed
  <2> QED BY <2>1, <2>2
<1> QED BY <1>1, <1>2 DEF TaskTaken

(* ph_free puts the file before the list.                                  *)
LEMMA FileFreedStep ==
  ASSUME Room, NEW k \in 0..6, ptr \in [Pointers -> Nat], FileFreed(k), [Next]_vars
  PROVE  UNCHANGED vars \/ (CallersKept /\ FileBack(k)')
<1>1. AtCall("free task", Freeing(FileAt, HEAP_BEGIN)) /\ ptr["task"] = RestAt(k) + 16
  BY DEF FileFreed
<1>2. UNCHANGED vars \/ (HeapStep /\ pc' = pc /\ ptr' = ptr /\ CallersKept)
  BY <1>1, CallsMoveAlone DEF AtCall
<1>3. CASE HeapStep /\ pc' = pc /\ ptr' = ptr /\ CallersKept
  <2> DEFINE h == FileAt
             s == 24
             x == HEAP_BEGIN
             head == RestAt(k + 1)
             U == Kept(k + 1) \cup {Task(k)}
             F == FreeNoTask(k) \cup {FB(FileAt, 24, 0, 0)}
             G == FreeFile(k)
  <2>1. /\ x \in Nat /\ head \in Nat /\ head <= HEAP_END /\ x < head /\ h < head
        /\ {BigAt, h} \subseteq Nat /\ h < BigAt
    <3>1. k + 1 \in 0..7
      OBVIOUS
    <3> QED BY <3>1, Addresses DEF Room
  <2>2. Layout(U, F, head) /\ Fits(U, F) /\ call = Freeing(h, x)
    BY <1>1, NoTaskFits DEF FileFreed, AtCall
  <2>3. F = {Big, Rest(k + 1, 0), FB(h, s, 0, 0)} /\ G = {Big, FB(h, s, head, 0), Rest(k + 1, 0)}
    BY DEF FreeNoTask, FreeFile
  <2>4. Big.at = BigAt /\ Rest(k + 1, 0).at = head
    BY DEF Big, Rest, FB
  <2>5. Layout(U, G, h)' /\ call' = Idle
    <3> HIDE DEF h, s, x, head, U, F, G
    <3>1. FB(h, s, 0, 0) \in F /\ \A g \in G : g = FB(h, s, head, 0) \/ (g \in F /\ g.at # h)
      BY <2>1, <2>3, <2>4
    <3> QED BY <1>3, <2>1, <2>2, <3>1, PutsFirst
  <2> QED BY <1>1, <1>3, <2>5 DEF FileBack, AtCall
<1> QED BY <1>2, <1>3

(* pong gives back its PCB; ph_free finds the address space before it.     *)
LEMMA FileBackStep ==
  ASSUME Room, NEW k \in 0..6, ptr \in [Pointers -> Nat], FileBack(k), [Next]_vars
  PROVE  UNCHANGED vars \/ (CallersKept /\ TaskFreed(k)')
<1> DEFINE U == Kept(k + 1) \cup {Task(k)}
           F == FreeFile(k)
           V == Kept(k + 1)
           G == FreeFile(k) \cup {FB(RestAt(k), 16, 0, 0)}
           h == RestAt(k)
           s == 16
           x == VasAt(k)
<1>0. /\ AtCall("free task", Idle) /\ ptr["task"] = h + 16
      /\ Layout(U, F, FileAt) /\ Fits(U, F)
  BY NoTaskFits DEF FileBack
<1>1. UNCHANGED vars \/ Release("free task", "bsy_loop", "task")
  BY <1>0, CallerMovesIdle DEF AtCall, KernelMain, Pong, PongCommand, Call, Obtain, Release, GetFreeMemRegion
<1>2. CASE Release("free task", "bsy_loop", "task")
  <2>1. x \in Nat /\ h \in Nat /\ s \in Nat /\ h - 4 = x + 32
    BY HeapAssumption DEF RestAt, VasAt
  <2>2. Load(mem, h - 4) = x
    <3>1. Blk(x, 16) \in U
      BY VasKept
    <3> HIDE DEF U, F, x, h
    <3>2. Load(mem, x + 32) = x
      BY <1>0, <2>1, <3>1, FooterOf
    <3> QED BY <2>1, <3>2
  <2>3. Task(k) \notin Kept(k + 1)
    <3>1. Task(k).ptr = HEAP_BEGIN + 132 + 36 * k
      BY HeapAssumption DEF Task, Blk, RestAt
    <3>2. ASSUME NEW b \in Kept(k + 1) PROVE b.ptr # HEAP_BEGIN + 132 + 36 * k
      <4>1. CASE b = Kernel
        BY <4>1, HeapAssumption DEF Kernel, Blk
      <4>2. ASSUME NEW j \in 0..(k + 1) - 1, b = Blk(VasAt(j), 16)
            PROVE  b.ptr # HEAP_BEGIN + 132 + 36 * k
        BY <4>2, HeapAssumption DEF VasAt, Blk
      <4> QED BY <4>1, <4>2 DEF Kept, Vases
    <3> QED BY <3>1, <3>2
  <2>4. Blk(h, s) \in U /\ V = U \ {Blk(h, s)} /\ G = F \cup {FB(h, s, 0, 0)}
    BY <2>3 DEF Task
  <2>5. /\ AtCall("bsy_loop", Freeing(h, x))' /\ Layout(V, G, FileAt)'
        /\ UNCHANGED <<ptr, pongs, regions>>
    <3> HIDE DEF s, h, x, U, F, V, G
    <3> QED BY <1>0, <1>2, <2>1, <2>2, <2>4, Given
  <2> QED BY <2>5 DEF CallersKept, TaskFreed
<1> QED BY <1>1, <1>2

(* ph_free looks for the PCB's place and finds it between the file and the *)
(* rest; the commands wait for the next pong.                              *)
LEMMA TaskFreedStep ==
  ASSUME Room, NEW k \in 0..6, ptr \in [Pointers -> Nat], pongs = k + 1, TaskFreed(k), [Next]_vars
  PROVE  UNCHANGED vars \/ (CallersKept /\ (TaskFreed(k) \/ Waiting)')
<1> DEFINE U == Kept(k + 1)
           F == FreeFile(k) \cup {FB(RestAt(k), 16, 0, 0)}
           G == FreeReady(k + 1)
           h == RestAt(k)
           s == 16
           x == VasAt(k)
           t == FileAt
           n == RestAt(k + 1)
<1>0. Layout(U, F, t) /\ Fits(U, F)
  BY TaskFreedFits DEF TaskFreed
<1>1. {x, h, t, n, BigAt, HEAP_BEGIN} \subseteq Nat /\ HEAP_BEGIN < t /\ t < h /\ h < n /\ n < BigAt /\ VasAt(k + 1) = h
  <2>1. k \in 0..7 /\ k + 1 \in 0..7
    OBVIOUS
  <2> QED BY <2>1, Addresses
<1>2. CASE AtCall("bsy_loop", Freeing(h, x))
  <2>1. UNCHANGED vars \/ (HeapStep /\ pc' = pc /\ ptr' = ptr /\ CallersKept)
    BY <1>2, CallsMoveAlone DEF AtCall
  <2>2. CASE HeapStep /\ pc' = pc /\ ptr' = ptr /\ CallersKept
    <3>1. Blk(x, 16) \in U
      BY VasKept
    <3>2. call = Freeing(h, x) /\ pc' = "bsy_loop"
      BY <1>2, <2>2 DEF AtCall
    <3>3. Layout(U, F, t)' /\ call' = Placing(h, t)
      <4> HIDE DEF U, F, h, x, t, n
      <4>1. ~IsFree(mem, x)
        BY <1>0, <1>1, <3>1, FooterOf
      <4>2. h # HEAP_BEGIN /\ t <= h
        BY <1>1
      <4> QED BY <1>0, <1>1, <2>2, <3>2, <4>1, <4>2, Searches
    <3> QED BY <2>2, <3>2, <3>3 DEF TaskFreed, AtCall
  <2> QED BY <2>1, <2>2
<1>3. CASE AtCall("bsy_loop", Placing(h, t))
  <2>1. UNCHANGED vars \/ (HeapStep /\ pc' = pc /\ ptr' = ptr /\ CallersKept)
    BY <1>3, CallsMoveAlone DEF AtCall
  <2>2. CASE HeapStep /\ pc' = pc /\ ptr' = ptr /\ CallersKept
    <3> DEFINE d == RestSize(k + 1)
    <3>1. F = {Big, FB(t, 24, n, 0), FB(n, d, BigAt, 0), FB(h, s, 0, 0)}
      BY DEF FreeFile, Rest
    <3>2. G = {Big, FB(t, 24, h, 0), FB(h, s, n, t), FB(n, d, BigAt, h)}
      BY <1>1 DEF FreeReady, Rest
    <3>3. Big.at = BigAt
      BY DEF Big, FB
    <3>4. call = Placing(h, t) /\ pc' = "bsy_loop"
      BY <1>3, <2>2 DEF AtCall
    <3>5. Layout(U, G, t)' /\ call' = Idle
      <4> HIDE DEF U, F, G, h, s, x, t, n, d
      <4>1. \A g \in G : \/ g \in {FB(t, 24, h, 0), FB(h, s, n, t), FB(n, d, BigAt, h)}
                         \/ g \in F /\ g.at \notin {t, h, n}
        BY <1>1, <3>1, <3>2, <3>3
      <4>2. FB(h, s, 0, 0) \in F /\ FB(t, 24, n, 0) \in F /\ FB(n, d, BigAt, 0) \in F
        BY <3>1
      <4> QED BY <1>0, <1>1, <2>2, <3>4, <4>1, <4>2, PutsBetween
    <3>6. pongs' = k + 1 /\ call'.at = "idle"
      BY <2>2, <3>5 DEF CallersKept, Idle
    <3> QED BY <2>2, <3>4, <3>5, <3>6 DEF Waiting
  <2> QED BY <2>1, <2>2
<1> QED BY <1>2, <1>3 DEF TaskFreed

-----------------------------------------------------------------------------
(* Every state is one of the places.                                       *)

(* k_heap_initialize leaves one free block, the whole heap.                *)
LEMMA InitHeap == Room /\ Init => Layout({}, {Whole}, HEAP_BEGIN)
<1> SUFFICES ASSUME Room, Init PROVE Layout({}, {Whole}, HEAP_BEGIN)
  OBVIOUS
<1> DEFINE s == HEAP_END - HEAP_BEGIN - 16 - 4
           m0 == <<>>
           m1 == SetSize(m0, HEAP_BEGIN, s)
           m2 == SetFree(m1, HEAP_BEGIN, TRUE)
           a == HEAP_END - 4
           m3 == Store(m2, a, HEAP_BEGIN)
<1>1. mem = m3 /\ free_head = HEAP_BEGIN /\ live = EmptyBag
  BY DEF Init, HeapInit, HDR_SIZE, FTR_SIZE
<1>2. s \in Words /\ HEAP_BEGIN \in Words /\ a \in Int /\ HEAP_BEGIN + 20 < HEAP_END
  BY HeapAssumption DEF Words, Room, SmallHeap
<1>3. InHeap(m0) /\ \A x \in Int : Peek(m0, x) = 0
  BY DEF InHeap, Peek
<1>4. \A x \in Int : Load(m0, x) = 0
  BY <1>3 DEF Load
<1>5. Wrote(m0, m1, HEAP_BEGIN, s) /\ InHeap(m1)
  <2> HIDE DEF m0
  <2>1. HEAP_BEGIN \in Int /\ HEAP_END \in Int /\ s \in Int
    BY HeapAssumption
  <2> HIDE DEF s
  <2>2. m1 = Store(m0, HEAP_BEGIN, s)
    BY DEF SetSize
  <2>3. HEAP_BEGIN <= HEAP_BEGIN /\ HEAP_BEGIN + 4 <= HEAP_END
    BY <1>2, <2>1
  <2> QED BY <1>2, <1>3, <2>1, <2>2, <2>3, StoreWrote, StoreInHeap
<1>6. Poked(m1, m2, HEAP_BEGIN + 4, 1) /\ InHeap(m2)
  <2> HIDE DEF m1
  <2>1. HEAP_BEGIN + 4 \in Int /\ HEAP_BEGIN <= HEAP_BEGIN + 4 /\ HEAP_BEGIN + 4 < HEAP_END /\ 1 \in 0..255
    BY <1>2, HeapAssumption
  <2>2. m2 = Poke(m1, HEAP_BEGIN + 4, 1)
    BY DEF SetFree
  <2> QED BY <1>5, <2>1, <2>2, PokePoked, PokeInHeap
<1>7. Wrote(m2, m3, a, HEAP_BEGIN) /\ InHeap(m3)
  <2> HIDE DEF m2
  <2>1. HEAP_BEGIN <= a /\ a + 4 <= HEAP_END /\ HEAP_BEGIN \in Int
    BY <1>2, HeapAssumption
  <2> HIDE DEF a
  <2> QED BY <1>2, <1>6, <2>1, StoreWrote, StoreInHeap
<1> HIDE DEF m0, m1, m2, m3
<1>8. /\ Load(m3, HEAP_BEGIN) = s /\ Peek(m3, HEAP_BEGIN + 4) = 1
      /\ Load(m3, HEAP_BEGIN + 8) = 0 /\ Load(m3, HEAP_BEGIN + 12) = 0
  <2>1. HEAP_BEGIN \in Int /\ HEAP_BEGIN + 16 <= a
    BY <1>2, HeapAssumption
  <2> HIDE DEF a, s
  <2>2. Load(m1, HEAP_BEGIN) = s /\ Load(m1, HEAP_BEGIN + 8) = 0 /\ Load(m1, HEAP_BEGIN + 12) = 0
    BY <1>4, <1>5, <2>1 DEF Wrote
  <2>3. /\ Load(m2, HEAP_BEGIN) = s /\ Load(m2, HEAP_BEGIN + 8) = 0 /\ Load(m2, HEAP_BEGIN + 12) = 0
        /\ Peek(m2, HEAP_BEGIN + 4) = 1
    BY <1>6, <2>1, <2>2 DEF Poked
  <2> QED BY <1>2, <1>7, <2>1, <2>3 DEF Wrote
<1>9. FreeAt(m3, HEAP_BEGIN, HEAP_END - HEAP_BEGIN - 20, 0, 0)
  <2>1. s = HEAP_END - HEAP_BEGIN - 20
    BY HeapAssumption
  <2> QED BY <1>8, <2>1 DEF FreeAt, SizeOf, IsFree, NextOf, PrevOf
<1>10. live = [b \in {} |-> 1]
  BY <1>1 DEF EmptyBag, SetToBag
<1> QED BY <1>1, <1>7, <1>9, <1>10 DEF Layout, Holds, Whole, FB

(* kernel_main starts at its first place.                                  *)
LEMMA InitPlace == Room /\ Init => HInv
<1> SUFFICES ASSUME Room, Init PROVE HInv
  OBVIOUS
<1>1. Layout({}, {Whole}, HEAP_BEGIN)
  BY InitHeap
<1>2. regions \in MemoryMaps /\ pongs = 0 /\ pc = "malloc mem_info" /\ call = Idle
  BY DEF Init, HeapInit
<1>3. pongs \in 0..MaxPongs
  <2>1. MaxPongs \in Nat
    BY PongHeapAssumption
  <2>2. 0 \in 0..MaxPongs
    BY <2>1
  <2>3. pongs = 0
    BY <1>2
  <2> QED BY <2>2, <2>3
<1>4. ptr \in [Pointers -> Nat]
  BY DEF Init, NULL
<1> QED BY <1>1, <1>2, <1>3, <1>4 DEF HInv, Booting, Starting, AtCall

(* A step that changes nothing leaves every place.                         *)
LEMMA NothingMoves == HInv /\ UNCHANGED vars => HInv'
BY DEF HInv, Booting, Starting, MemInfoTaken, MemInfoFreed, MemInfoBack, KernelTaken, Waiting,
  Ponging, PongBegins, FileTaken, VasTaken, TaskTaken, FileFreed, FileBack, TaskFreed,
  AtCall, Layout, Holds, vars, heapVars, memoryMap

(* Every step leads from a place to one.                                   *)
LEMMA StepPlace ==
  ASSUME Room, MaxPongs <= 7, HInv, [Next]_vars
  PROVE  HInv'
<1>1. CASE UNCHANGED vars
  BY <1>1, NothingMoves
<1>0. regions \in MemoryMaps /\ pongs \in 0..MaxPongs /\ ptr \in [Pointers -> Nat] /\ MaxPongs \in Nat
  BY PongHeapAssumption DEF HInv
<1>2. CASE Booting
  <2>1. pongs = 0
    BY <1>2 DEF Booting
  <2>2. CASE Starting
    BY <1>0, <1>1, <2>1, <2>2, StartingStep DEF HInv, Booting, CallersKept
  <2>3. CASE MemInfoTaken
    BY <1>0, <1>1, <2>1, <2>3, MemInfoTakenStep DEF HInv, Booting, CallersKept
  <2>4. CASE MemInfoFreed
    BY <1>0, <1>1, <2>1, <2>4, MemInfoFreedStep DEF HInv, Booting, CallersKept
  <2>5. CASE MemInfoBack
    BY <1>0, <1>1, <2>1, <2>5, MemInfoBackStep DEF HInv, Booting, CallersKept
  <2>6. CASE KernelTaken
    BY <1>0, <1>1, <2>1, <2>6, KernelTakenStep DEF HInv, CallersKept
  <2> QED BY <1>2, <2>2, <2>3, <2>4, <2>5, <2>6 DEF Booting
<1>3. CASE Waiting
  <2>1. PICK k \in Nat : k = pongs
    BY <1>0
  <2>2. CASE /\ pongs' = k + 1 /\ k < MaxPongs /\ UNCHANGED regions
             /\ ptr' \in [Pointers -> Nat] /\ PongBegins(k)'
    <3>1. pongs' \in 0..MaxPongs /\ pongs' - 1 = k
      BY <1>0, <2>1, <2>2
    <3>2. Ponging(k)'
      BY <2>2 DEF Ponging
    <3>3. Ponging(pongs - 1)'
      BY <2>2, <3>1 DEF Ponging
    <3> QED BY <1>0, <2>2, <3>1, <3>3 DEF HInv
  <2> QED BY <1>0, <1>1, <1>3, <2>1, <2>2, WaitingStep
<1>4. CASE Ponging(pongs - 1)
  <2>1. PICK k \in 0..6 : k = pongs - 1
    BY <1>0, <1>4 DEF Ponging
  <2>2. Ponging(k) /\ pongs = k + 1 /\ k \in Nat
    BY <1>4, <2>1 DEF Ponging
  <2>3. ASSUME CallersKept,
               (PongBegins(k) \/ FileTaken(k) \/ VasTaken(k) \/ TaskTaken(k)
                  \/ FileFreed(k) \/ FileBack(k) \/ TaskFreed(k))'
        PROVE  HInv'
    <3>1. pongs' = k + 1 /\ pongs' - 1 = k /\ pongs' = pongs /\ regions' = regions /\ ptr' \in [Pointers -> Nat]
      BY <2>2, <2>3 DEF CallersKept
    <3>2. Ponging(k)'
      BY <2>2, <2>3, <3>1 DEF Ponging
    <3>3. Ponging(pongs - 1)'
      BY <3>1, <3>2 DEF Ponging
    <3> QED BY <1>0, <3>1, <3>3 DEF HInv
  <2>4. CASE PongBegins(k)
    BY <1>0, <1>1, <2>3, <2>4, PongBeginsStep
  <2>5. CASE FileTaken(k)
    BY <1>0, <1>1, <2>3, <2>5, FileTakenStep
  <2>6. CASE VasTaken(k)
    BY <1>0, <1>1, <2>3, <2>6, VasTakenStep
  <2>7. CASE TaskTaken(k)
    BY <1>0, <1>1, <2>3, <2>7, TaskTakenStep
  <2>8. CASE FileFreed(k)
    BY <1>0, <1>1, <2>3, <2>8, FileFreedStep
  <2>9. CASE FileBack(k)
    BY <1>0, <1>1, <2>3, <2>9, FileBackStep
  <2>10. CASE TaskFreed(k)
    <3>1. UNCHANGED vars \/ (CallersKept /\ (TaskFreed(k) \/ Waiting)')
      BY <1>0, <2>2, <2>10, TaskFreedStep
    <3>2. CASE CallersKept /\ Waiting'
      BY <1>0, <3>2 DEF HInv, CallersKept
    <3> QED BY <1>1, <2>3, <3>1, <3>2
  <2> QED BY <2>2, <2>4, <2>5, <2>6, <2>7, <2>8, <2>9, <2>10 DEF Ponging
<1> QED BY <1>2, <1>3, <1>4 DEF HInv

-----------------------------------------------------------------------------
(* The free list of a layout, and the bytes it covers.                     *)

(* y is the block of F after x, and nothing is after the end.              *)
After(F, x, y) == (x = 0 /\ y = 0) \/ \E f \in F : f.at = x /\ f.next = y

(* The list from head on: at most four blocks, the blocks F, upwards.      *)
Listed(F, head) ==
  \E a, b, c \in Nat :
    /\ After(F, head, a) /\ After(F, a, b) /\ After(F, b, c) /\ After(F, c, 0)
    /\ {f.at : f \in F} = {head, a, b, c} \ {0}
    /\ a = 0 \/ head < a
    /\ b = 0 \/ a < b
    /\ c = 0 \/ b < c

(* An address in one of the free blocks F, header and footer included.     *)
InFree(F, a) == \E f \in F : f.at <= a /\ a < f.at + f.size + 20

(* An address in one of the blocks U in use.                               *)
InUse(U, a)  == \E b \in U : b.ptr - 16 <= a /\ a < b.ptr + b.size + 4

(* Every byte of the heap is in a block.                                   *)
Covers(U, F) == \A a \in HEAP_BEGIN..HEAP_END-1 : InFree(F, a) \/ InUse(U, a)

(* The blocks in use have the sizes the callers ask for.                   *)
Sized(U) == \A b \in U : b.size \in {385, 24, 16}

(* One step along the free list, as ListAt takes it.                       *)
NextAfter(h) == IF h = NULL THEN NULL ELSE NextOf(mem, h)

(* ListAt of a list that ends within four blocks.                          *)
LEMMA ListUnfolds ==
  ASSUME NEW a, NEW b, NEW c,
         a = NextAfter(free_head), b = NextAfter(a), c = NextAfter(b), NextAfter(c) = NULL
  PROVE  \A n \in 0..MaxBlocks :
           ListAt[n] = IF n = 0 THEN free_head ELSE IF n = 1 THEN a
                       ELSE IF n = 2 THEN b ELSE IF n = 3 THEN c ELSE NULL
<1> DEFINE G(n) == IF n = 0 THEN free_head ELSE IF n = 1 THEN a
                   ELSE IF n = 2 THEN b ELSE IF n = 3 THEN c ELSE NULL
           R(f) == [n \in 0..MaxBlocks |->
                      IF n = 0 THEN free_head
                      ELSE LET h == f[n - 1] IN IF h = NULL THEN NULL ELSE NextOf(mem, h)]
           g == [n \in 0..MaxBlocks |-> G(n)]
<1>0. MaxBlocks \in Nat
  BY HeapAssumption
<1>1. g = R(g)
  <2>1. ASSUME NEW n \in 0..MaxBlocks
        PROVE  G(n) = IF n = 0 THEN free_head ELSE NextAfter(G(n - 1))
    BY <1>0 DEF NextAfter
  <2>2. ASSUME NEW n \in 0..MaxBlocks, n # 0
        PROVE  g[n - 1] = G(n - 1)
    BY <1>0, <2>2
  <2> HIDE DEF G
  <2> QED BY <2>1, <2>2 DEF NextAfter
<1>2. ListAt = R(ListAt)
  BY <1>1 DEF ListAt
<1>3. \A n \in 0..MaxBlocks : ListAt[n] = IF n = 0 THEN free_head ELSE NextAfter(ListAt[n - 1])
  BY <1>2 DEF NextAfter
<1> DEFINE T == {n \in 0..MaxBlocks : ListAt[n] # G(n)}
<1>4. CASE T = {}
  BY <1>4
<1>5. CASE T # {}
  <2>1. T \subseteq Nat
    BY <1>0
  <2>2. PICK n \in T : \A m \in T : n <= m
    <3> HIDE DEF T
    <3> QED BY <1>5, <2>1, LeastNumber
  <2>3. n # 0
    BY <1>3, <2>2
  <2>4. n - 1 \in 0..MaxBlocks /\ n - 1 \notin T
    BY <1>0, <2>2, <2>3
  <2>5. ListAt[n - 1] = G(n - 1)
    BY <2>4
  <2>6. ListAt[n] = NextAfter(G(n - 1))
    BY <1>3, <2>2, <2>3, <2>5
  <2>7. G(n) = NextAfter(G(n - 1))
    BY <1>0, <2>2, <2>3 DEF NextAfter
  <2> QED BY <2>2, <2>6, <2>7
<1> QED BY <1>4, <1>5

(* A step along the list of a layout.                                      *)
LEMMA FollowsList ==
  ASSUME NEW U, NEW F, NEW head, Layout(U, F, head), Fits(U, F),
         NEW x, NEW y, After(F, x, y)
  PROVE  y = NextAfter(x) /\ x \in {f.at : f \in F} \cup {0}
<1>1. CASE x = 0 /\ y = 0
  BY <1>1 DEF NextAfter, NULL
<1>2. ASSUME NEW f \in F, f.at = x, f.next = y
      PROVE  y = NextAfter(x) /\ x \in {g.at : g \in F}
  <2>1. FreeAt(mem, x, f.size, y, f.prev)
    BY <1>2 DEF Layout, Holds
  <2>2. x # 0
    BY <1>2, HeapAssumption DEF Fits
  <2> QED BY <1>2, <2>1, <2>2 DEF FreeAt, NextAfter, NULL
<1> QED BY <1>1, <1>2 DEF After

(* The free list of a layout: its blocks are those of F as far as it is    *)
(* followed, it ends, and it runs upwards.                                 *)
LEMMA FreeBlocksAre ==
  ASSUME NEW U, NEW F, Layout(U, F, free_head), Fits(U, F), Listed(F, free_head)
  PROVE  /\ FreeBlocks \subseteq {f.at : f \in F}
         /\ MaxBlocks >= 3 => FreeBlocks = {f.at : f \in F}
         /\ MaxBlocks >= 4 => ListAt[MaxBlocks] = NULL
         /\ \A n \in 1..MaxBlocks : ListAt[n] # NULL => ListAt[n - 1] < ListAt[n]
<1>0. MaxBlocks \in Nat
  BY HeapAssumption
<1>1. PICK a, b, c \in Nat :
        /\ After(F, free_head, a) /\ After(F, a, b) /\ After(F, b, c) /\ After(F, c, 0)
        /\ {f.at : f \in F} = {free_head, a, b, c} \ {0}
        /\ a = 0 \/ free_head < a
        /\ b = 0 \/ a < b
        /\ c = 0 \/ b < c
  BY DEF Listed
<1>2. a = NextAfter(free_head) /\ b = NextAfter(a) /\ c = NextAfter(b) /\ NULL = NextAfter(c)
  BY <1>1, FollowsList DEF NULL
<1>3. \A n \in 0..MaxBlocks :
        ListAt[n] = IF n = 0 THEN free_head ELSE IF n = 1 THEN a
                    ELSE IF n = 2 THEN b ELSE IF n = 3 THEN c ELSE NULL
  BY <1>2, ListUnfolds
<1>4. FreeBlocks \subseteq {free_head, a, b, c} \ {0}
  BY <1>3 DEF FreeBlocks, NULL
<1>5. ASSUME MaxBlocks >= 3 PROVE {free_head, a, b, c} \ {0} \subseteq FreeBlocks
  <2>1. 0 \in 0..MaxBlocks /\ 1 \in 0..MaxBlocks /\ 2 \in 0..MaxBlocks /\ 3 \in 0..MaxBlocks
    BY <1>0, <1>5
  <2>2. ListAt[0] = free_head /\ ListAt[1] = a /\ ListAt[2] = b /\ ListAt[3] = c
    BY <1>3, <2>1
  <2> QED BY <2>1, <2>2 DEF FreeBlocks, NULL
<1>6. ASSUME MaxBlocks >= 4 PROVE ListAt[MaxBlocks] = NULL
  BY <1>0, <1>3, <1>6
<1>7. ASSUME NEW n \in 1..MaxBlocks, ListAt[n] # NULL PROVE ListAt[n - 1] < ListAt[n]
  <2>1. n \in 0..MaxBlocks /\ n - 1 \in 0..MaxBlocks /\ n \in Nat /\ n # 0
    BY <1>0
  <2>2. /\ n = 1 => ListAt[n] = a /\ ListAt[n - 1] = free_head
        /\ n = 2 => ListAt[n] = b /\ ListAt[n - 1] = a
        /\ n = 3 => ListAt[n] = c /\ ListAt[n - 1] = b
        /\ n > 3 => ListAt[n] = NULL
    BY <1>3, <2>1
  <2>3. n = 1 \/ n = 2 \/ n = 3 \/ n > 3
    BY <2>1
  <2> QED BY <1>1, <1>7, <2>2, <2>3 DEF NULL
<1> QED BY <1>1, <1>4, <1>5, <1>6, <1>7

(* What a layout between calls has: its blocks fit, are listed upwards     *)
(* from the head, have the callers' sizes, and are the whole heap.         *)
WellLaid(U, F, head) == Fits(U, F) /\ Sized(U) /\ Listed(F, head) /\ Covers(U, F)

(* The blocks in use of each place have the callers' sizes.                *)
LEMMA KeptSized ==
  ASSUME NEW k \in Nat
  PROVE  Sized(Kept(k)) /\ Sized(Kept(k) \cup {File}) /\ Sized(Kept(k) \cup {Task(k)})
         /\ Sized(Kept(k) \cup {File, Task(k)})
BY DEF Sized, Kept, Kernel, Vases, File, Task, Blk

(* The blocks kept reach up to the next address space but for the place of *)
(* the file.                                                               *)
LEMMA KeptCovers ==
  ASSUME Room, NEW k \in 0..8, NEW a \in HEAP_BEGIN..VasAt(k)-1
  PROVE  InUse(Kept(k), a) \/ (FileAt <= a /\ a < FileAt + 44)
<1>1. HEAP_BEGIN \in Nat /\ k \in Nat /\ a \in Int /\ HEAP_BEGIN <= a /\ a < HEAP_BEGIN + 80 + 36 * k
  BY HeapAssumption DEF VasAt
<1>2. CASE a < HEAP_BEGIN + 36
  <2>1. Kernel \in Kept(k) /\ Kernel.ptr = HEAP_BEGIN + 16 /\ Kernel.size = 16
    BY DEF Kept, Kernel, Blk
  <2>2. Kernel.ptr - 16 <= a /\ a < Kernel.ptr + Kernel.size + 4
    BY <1>1, <1>2, <2>1
  <2> QED BY <2>1, <2>2 DEF InUse
<1>3. CASE HEAP_BEGIN + 36 <= a /\ a < HEAP_BEGIN + 80
  BY <1>1, <1>3 DEF FileAt
<1>4. CASE HEAP_BEGIN + 80 <= a
  <2> DEFINE d == a - (HEAP_BEGIN + 80)
             j == d \div 36
             b == Blk(VasAt(j), 16)
  <2>1. d \in Nat /\ d < 36 * k
    BY <1>1, <1>4
  <2> HIDE DEF d
  <2>2. j \in Nat /\ 36 * j <= d /\ d < 36 * j + 36
    BY <2>1
  <2> HIDE DEF j
  <2>3. j \in 0..k-1
    BY <1>1, <2>1, <2>2
  <2>4. b \in Kept(k)
    BY <2>3 DEF Kept, Vases
  <2>5. b.ptr = HEAP_BEGIN + 80 + 36 * j + 16 /\ b.size = 16
    BY DEF Blk, VasAt
  <2>6. b.ptr - 16 <= a /\ a < b.ptr + b.size + 4
    BY <1>1, <2>2, <2>5 DEF d
  <2> QED BY <2>4, <2>6 DEF InUse
<1> QED BY <1>1, <1>2, <1>3, <1>4

(* So the blocks are the whole heap when the place of the file and all     *)
(* behind VasAt(k) are in blocks.                                          *)
LEMMA CoversBehind ==
  ASSUME Room, NEW k \in 0..8, NEW U, NEW F, Kept(k) \subseteq U,
         \A a \in Int : FileAt <= a /\ a < FileAt + 44 => InFree(F, a) \/ InUse(U, a),
         \A a \in Int : VasAt(k) <= a /\ a < HEAP_END => InFree(F, a)
  PROVE  Covers(U, F)
<1> SUFFICES ASSUME NEW a \in HEAP_BEGIN..HEAP_END-1 PROVE InFree(F, a) \/ InUse(U, a)
  BY DEF Covers
<1>1. a \in Int /\ HEAP_BEGIN \in Nat /\ HEAP_END \in Nat /\ VasAt(k) \in Nat /\ a < HEAP_END
  BY HeapAssumption DEF VasAt
<1>2. CASE VasAt(k) <= a
  BY <1>1, <1>2
<1>3. CASE a < VasAt(k)
  <2>1. a \in HEAP_BEGIN..VasAt(k)-1
    BY <1>1, <1>3
  <2>2. InUse(Kept(k), a) \/ (FileAt <= a /\ a < FileAt + 44)
    BY <2>1, KeptCovers
  <2>3. InUse(Kept(k), a) => InUse(U, a)
    BY DEF InUse
  <2> QED BY <1>1, <2>2, <2>3
<1> QED BY <1>1, <1>2, <1>3

(* The file's place is in use while the file is.                           *)
LEMMA FileInUse ==
  ASSUME Room, NEW U, File \in U, NEW a \in Int, FileAt <= a, a < FileAt + 44
  PROVE  InUse(U, a)
<1>1. File.ptr = FileAt + 16 /\ File.size = 24 /\ FileAt \in Nat
  BY HeapAssumption DEF File, Blk, FileAt
<1>2. File.ptr - 16 <= a /\ a < File.ptr + File.size + 4
  BY <1>1
<1> QED BY <1>2 DEF InUse

(* The layouts before the first pong are well laid.                        *)
LEMMA BootWhole ==
  ASSUME Room
  PROVE  /\ WellLaid({}, {Whole}, HEAP_BEGIN)
         /\ WellLaid({MemInfo}, {Big}, BigAt)
         /\ WellLaid({}, {Big, Front(BigAt)}, HEAP_BEGIN)
<1>0. /\ HEAP_BEGIN \in Nat /\ HEAP_END \in Nat /\ HEAP_BEGIN + 441 <= HEAP_END /\ 4 <= HEAP_BEGIN
      /\ BigAt = HEAP_BEGIN + 405 /\ BigSize = HEAP_END - HEAP_BEGIN - 425 /\ BigAt # 0 /\ HEAP_BEGIN # 0
  BY HeapAssumption DEF Room, BigAt, BigSize
<1>1. /\ Whole.at = HEAP_BEGIN /\ Whole.size = HEAP_END - HEAP_BEGIN - 20 /\ Whole.next = 0
      /\ Big.at = BigAt /\ Big.size = BigSize /\ Big.next = 0
      /\ Front(BigAt).at = HEAP_BEGIN /\ Front(BigAt).size = 385 /\ Front(BigAt).next = BigAt
      /\ MemInfo.ptr = HEAP_BEGIN + 16 /\ MemInfo.size = 385
  BY DEF Whole, Big, Front, FB, MemInfo, Blk
<1> HIDE DEF Whole, Big, MemInfo
<1>2. Fits({}, {Whole}) /\ Fits({MemInfo}, {Big}) /\ Fits({}, {Big, Front(BigAt)})
  BY WholeFits, MemInfoFits, FrontFits
<1>3. Sized({}) /\ Sized({MemInfo})
  BY <1>1 DEF Sized
<1>4. Listed({Whole}, HEAP_BEGIN)
  <2>1. After({Whole}, HEAP_BEGIN, 0) /\ After({Whole}, 0, 0) /\ {f.at : f \in {Whole}} = {HEAP_BEGIN, 0} \ {0}
    BY <1>0, <1>1 DEF After
  <2> QED BY <2>1 DEF Listed
<1>5. Listed({Big}, BigAt)
  <2>1. After({Big}, BigAt, 0) /\ After({Big}, 0, 0) /\ {f.at : f \in {Big}} = {BigAt, 0} \ {0}
    BY <1>0, <1>1 DEF After
  <2> QED BY <2>1 DEF Listed
<1>6. Listed({Big, Front(BigAt)}, HEAP_BEGIN)
  <2> DEFINE F == {Big, Front(BigAt)}
  <2>1. /\ After(F, HEAP_BEGIN, BigAt) /\ After(F, BigAt, 0) /\ After(F, 0, 0)
        /\ {f.at : f \in F} = {HEAP_BEGIN, BigAt, 0} \ {0}
    BY <1>0, <1>1 DEF After
  <2>2. BigAt \in Nat /\ HEAP_BEGIN < BigAt
    BY <1>0
  <2> HIDE DEF F
  <2>3. Listed(F, HEAP_BEGIN)
    BY <2>1, <2>2 DEF Listed
  <2> QED BY <2>3 DEF F
<1>7. Covers({}, {Whole})
  BY <1>0, <1>1 DEF Covers, InFree
<1>8. Covers({MemInfo}, {Big})
  BY <1>0, <1>1 DEF Covers, InFree, InUse
<1>9. Covers({}, {Big, Front(BigAt)})
  BY <1>0, <1>1 DEF Covers, InFree
<1> QED BY <1>2, <1>3, <1>4, <1>5, <1>6, <1>7, <1>8, <1>9 DEF WellLaid

(* A list of two blocks,                                                   *)
LEMMA ListedTwo ==
  ASSUME NEW x \in Nat, NEW y \in Nat, NEW s, NEW p, NEW t, NEW q, 0 < x, x < y
  PROVE  Listed({FB(y, t, 0, q), FB(x, s, y, p)}, x)
<1> DEFINE F == {FB(y, t, 0, q), FB(x, s, y, p)}
<1>1. /\ After(F, x, y) /\ After(F, y, 0) /\ After(F, 0, 0)
      /\ {f.at : f \in F} = {x, y, 0} \ {0}
  BY DEF After, FB
<1> HIDE DEF F
<1>2. Listed(F, x)
  BY <1>1 DEF Listed
<1> QED BY <1>2 DEF F

(* of three,                                                               *)
LEMMA ListedThree ==
  ASSUME NEW x \in Nat, NEW y \in Nat, NEW z \in Nat, NEW s, NEW p, NEW t, NEW q, NEW u, NEW r,
         0 < x, x < y, y < z
  PROVE  Listed({FB(z, u, 0, r), FB(x, s, y, p), FB(y, t, z, q)}, x)
<1> DEFINE F == {FB(z, u, 0, r), FB(x, s, y, p), FB(y, t, z, q)}
<1>1. /\ After(F, x, y) /\ After(F, y, z) /\ After(F, z, 0) /\ After(F, 0, 0)
      /\ {f.at : f \in F} = {x, y, z} \ {0}
  BY DEF After, FB
<1> HIDE DEF F
<1>2. {f.at : f \in F} = {x, y, z, 0} \ {0}
  BY <1>1
<1>3. Listed(F, x)
  BY <1>1, <1>2 DEF Listed
<1> QED BY <1>3 DEF F

(* and of four.                                                            *)
LEMMA ListedFour ==
  ASSUME NEW x \in Nat, NEW y \in Nat, NEW z \in Nat, NEW w \in Nat,
         NEW s, NEW p, NEW t, NEW q, NEW u, NEW r, NEW v, NEW o,
         0 < x, x < y, y < z, z < w
  PROVE  Listed({FB(w, v, 0, o), FB(x, s, y, p), FB(y, t, z, q), FB(z, u, w, r)}, x)
<1> DEFINE F == {FB(w, v, 0, o), FB(x, s, y, p), FB(y, t, z, q), FB(z, u, w, r)}
<1>1. /\ After(F, x, y) /\ After(F, y, z) /\ After(F, z, w) /\ After(F, w, 0)
      /\ {f.at : f \in F} = {x, y, z, w} \ {0}
  BY DEF After, FB
<1> HIDE DEF F
<1>2. Listed(F, x)
  BY <1>1 DEF Listed
<1> QED BY <1>2 DEF F

(* The layouts of a pong are well laid: between the commands,              *)
LEMMA ReadyWhole ==
  ASSUME Room, NEW k \in 0..7
  PROVE  WellLaid(Kept(k), FreeReady(k), FileAt)
<1>0. k \in 0..8 /\ k \in Nat
  OBVIOUS
<1>1. Fits(Kept(k), FreeReady(k)) /\ Sized(Kept(k)) /\ k \in 0..8
  <2>1. Fits(Kept(k), FreeReady(k))
    BY ReadyFits
  <2>2. Sized(Kept(k))
    BY <1>0, KeptSized
  <2> QED BY <1>0, <2>1, <2>2
<1>2. 0 < FileAt
  BY HeapAssumption DEF FileAt
<1>3. CASE k = 0
  <2>1. FreeReady(k) = {FB(BigAt, BigSize, 0, 0), FB(FileAt, 349, BigAt, 0)}
    BY <1>3 DEF FreeReady, Big
  <2>2. Listed(FreeReady(k), FileAt)
    <3>1. FileAt \in Nat /\ BigAt \in Nat /\ FileAt < BigAt
      BY Addresses
    <3>2. Listed({FB(BigAt, BigSize, 0, 0), FB(FileAt, 349, BigAt, 0)}, FileAt)
      BY <1>2, <3>1, ListedTwo
    <3> QED BY <2>1, <3>2
  <2>3. \A a \in Int : FileAt <= a /\ a < HEAP_END => InFree(FreeReady(k), a)
    <3>1. \A a \in Int : BigAt <= a /\ a < HEAP_END => InFree(FreeReady(k), a)
      BY <2>1, Addresses DEF InFree, FB
    <3>2. \A a \in Int : FileAt <= a /\ a < FileAt + 369 => InFree(FreeReady(k), a)
      BY <2>1, Addresses DEF InFree, FB
    <3> QED BY <3>1, <3>2, Addresses
  <2>4. \A a \in Int : FileAt <= a /\ a < FileAt + 44 => InFree(FreeReady(k), a) \/ InUse(Kept(k), a)
    BY <2>3, Addresses, HeapAssumption DEF Room
  <2>5. \A a \in Int : VasAt(k) <= a /\ a < HEAP_END => InFree(FreeReady(k), a)
    BY <2>3, Addresses
  <2>6. Covers(Kept(k), FreeReady(k))
    BY <1>1, <2>4, <2>5, CoversBehind
  <2> QED BY <1>1, <2>2, <2>6 DEF WellLaid
<1>4. CASE k # 0
  <2>1. FreeReady(k) = {FB(BigAt, BigSize, 0, 0), FB(FileAt, 24, VasAt(k), 0),
                        FB(VasAt(k), 16, RestAt(k), FileAt), FB(RestAt(k), RestSize(k), BigAt, VasAt(k))}
    BY <1>4 DEF FreeReady, Big, Rest
  <2>2. Listed(FreeReady(k), FileAt)
    <3>1. /\ FileAt \in Nat /\ VasAt(k) \in Nat /\ RestAt(k) \in Nat /\ BigAt \in Nat
          /\ FileAt < VasAt(k) /\ VasAt(k) < RestAt(k) /\ RestAt(k) < BigAt
      BY Addresses
    <3>2. Listed({FB(BigAt, BigSize, 0, 0), FB(FileAt, 24, VasAt(k), 0),
                  FB(VasAt(k), 16, RestAt(k), FileAt), FB(RestAt(k), RestSize(k), BigAt, VasAt(k))}, FileAt)
      BY <1>2, <3>1, ListedFour
    <3> QED BY <2>1, <3>2
  <2>3. \A a \in Int : VasAt(k) <= a /\ a < HEAP_END => InFree(FreeReady(k), a)
    <3>1. \A a \in Int : BigAt <= a /\ a < HEAP_END => InFree(FreeReady(k), a)
      BY <2>1, Addresses DEF InFree, FB
    <3>2. \A a \in Int : RestAt(k) <= a /\ a < BigAt => InFree(FreeReady(k), a)
      BY <2>1, Addresses DEF InFree, FB
    <3>3. \A a \in Int : VasAt(k) <= a /\ a < RestAt(k) => InFree(FreeReady(k), a)
      BY <2>1, Addresses DEF InFree, FB
    <3> QED BY <3>1, <3>2, <3>3, Addresses
  <2>4. \A a \in Int : FileAt <= a /\ a < FileAt + 44 => InFree(FreeReady(k), a) \/ InUse(Kept(k), a)
    BY <2>1, Addresses DEF InFree, FB
  <2>6. Covers(Kept(k), FreeReady(k))
    BY <1>1, <2>3, <2>4, CoversBehind
  <2> QED BY <1>1, <2>2, <2>6 DEF WellLaid
<1> QED BY <1>3, <1>4

(* with the file taken,                                                    *)
LEMMA NoFileWhole ==
  ASSUME Room, NEW k \in 0..6
  PROVE  WellLaid(Kept(k) \cup {File}, FreeNoFile(k), VasAt(k))
<1> DEFINE U == Kept(k) \cup {File}
           F == FreeNoFile(k)
<1>0. k \in 0..8 /\ k \in 0..7 /\ k \in Nat
  OBVIOUS
<1>1. Fits(U, F) /\ Sized(U) /\ k \in 0..8 /\ k \in 0..7
  <2>1. Fits(U, F)
    BY NoFileFits
  <2>2. Sized(U)
    BY <1>0, KeptSized
  <2> QED BY <1>0, <2>1, <2>2
<1>2. 0 < VasAt(k)
  BY HeapAssumption DEF VasAt
<1>3. \A a \in Int : FileAt <= a /\ a < FileAt + 44 => InFree(F, a) \/ InUse(U, a)
  BY FileInUse
<1>4. Kept(k) \subseteq U
  OBVIOUS
<1>5. CASE k = 0
  <2>1. F = {FB(BigAt, BigSize, 0, 0), FB(VasAt(k), 305, BigAt, 0)} /\ VasAt(k) = HEAP_BEGIN + 80
    BY <1>5, HeapAssumption DEF FreeNoFile, Big, VasAt
  <2> HIDE DEF U, F
  <2>2. Listed(F, VasAt(k))
    <3>1. VasAt(k) \in Nat /\ BigAt \in Nat /\ VasAt(k) < BigAt
      BY <1>1, Addresses
    <3>2. Listed({FB(BigAt, BigSize, 0, 0), FB(VasAt(k), 305, BigAt, 0)}, VasAt(k))
      BY <1>2, <3>1, ListedTwo
    <3> QED BY <2>1, <3>2
  <2>3. \A a \in Int : VasAt(k) <= a /\ a < HEAP_END => InFree(F, a)
    <3>1. \A a \in Int : BigAt <= a /\ a < HEAP_END => InFree(F, a)
      BY <1>1, <2>1, Addresses DEF InFree, FB
    <3>2. \A a \in Int : VasAt(k) <= a /\ a < BigAt => InFree(F, a)
      BY <1>1, <2>1, Addresses DEF InFree, FB
    <3> QED BY <1>1, <3>1, <3>2, Addresses
  <2>4. Covers(U, F)
    BY <1>1, <1>3, <1>4, <2>3, CoversBehind
  <2>5. WellLaid(U, F, VasAt(k))
    BY <1>1, <2>2, <2>4 DEF WellLaid
  <2> QED BY <2>5 DEF U, F
<1>6. CASE k # 0
  <2>1. F = {FB(BigAt, BigSize, 0, 0), FB(VasAt(k), 16, RestAt(k), 0), FB(RestAt(k), RestSize(k), BigAt, VasAt(k))}
    BY <1>6 DEF FreeNoFile, Big, Rest
  <2> HIDE DEF U, F
  <2>2. Listed(F, VasAt(k))
    <3>1. /\ VasAt(k) \in Nat /\ RestAt(k) \in Nat /\ BigAt \in Nat
          /\ VasAt(k) < RestAt(k) /\ RestAt(k) < BigAt
      BY <1>1, Addresses
    <3>2. Listed({FB(BigAt, BigSize, 0, 0), FB(VasAt(k), 16, RestAt(k), 0),
                  FB(RestAt(k), RestSize(k), BigAt, VasAt(k))}, VasAt(k))
      BY <1>2, <3>1, ListedThree
    <3> QED BY <2>1, <3>2
  <2>3. \A a \in Int : VasAt(k) <= a /\ a < HEAP_END => InFree(F, a)
    <3>1. \A a \in Int : BigAt <= a /\ a < HEAP_END => InFree(F, a)
      BY <1>1, <2>1, Addresses DEF InFree, FB
    <3>2. \A a \in Int : RestAt(k) <= a /\ a < BigAt => InFree(F, a)
      BY <1>1, <2>1, Addresses DEF InFree, FB
    <3>3. \A a \in Int : VasAt(k) <= a /\ a < RestAt(k) => InFree(F, a)
      BY <1>1, <2>1, Addresses DEF InFree, FB
    <3> QED BY <1>1, <3>1, <3>2, <3>3, Addresses
  <2>4. Covers(U, F)
    BY <1>1, <1>3, <1>4, <2>3, CoversBehind
  <2>5. WellLaid(U, F, VasAt(k))
    BY <1>1, <2>2, <2>4 DEF WellLaid
  <2> QED BY <2>5 DEF U, F
<1> QED BY <1>5, <1>6

(* with the address space taken,                                           *)
LEMMA NoVasWhole ==
  ASSUME Room, NEW k \in 0..6
  PROVE  WellLaid(Kept(k + 1) \cup {File}, FreeNoVas(k), RestAt(k))
<1> DEFINE U == Kept(k + 1) \cup {File}
           F == FreeNoVas(k)
<1>0. k + 1 \in 0..8 /\ k + 1 \in Nat /\ k \in 0..7
  OBVIOUS
<1>1. Fits(U, F) /\ Sized(U)
  BY <1>0, NoVasFits, KeptSized
<1>2. 0 < RestAt(k) /\ VasAt(k + 1) = RestAt(k)
  BY HeapAssumption DEF RestAt, VasAt
<1>3. \A a \in Int : FileAt <= a /\ a < FileAt + 44 => InFree(F, a) \/ InUse(U, a)
  BY FileInUse
<1>4. Kept(k + 1) \subseteq U
  OBVIOUS
<1>5. F = {FB(BigAt, BigSize, 0, 0), FB(RestAt(k), RestSize(k), BigAt, 0)}
  BY DEF FreeNoVas, Big, Rest
<1> HIDE DEF U, F
<1>6. Listed(F, RestAt(k))
  <2>1. RestAt(k) \in Nat /\ BigAt \in Nat /\ RestAt(k) < BigAt
    BY <1>0, Addresses
  <2>2. Listed({FB(BigAt, BigSize, 0, 0), FB(RestAt(k), RestSize(k), BigAt, 0)}, RestAt(k))
    BY <1>2, <2>1, ListedTwo
  <2> QED BY <1>5, <2>2
<1>7. \A a \in Int : VasAt(k + 1) <= a /\ a < HEAP_END => InFree(F, a)
  <2>1. \A a \in Int : BigAt <= a /\ a < HEAP_END => InFree(F, a)
    BY <1>0, <1>5, Addresses DEF InFree, FB
  <2>2. \A a \in Int : RestAt(k) <= a /\ a < BigAt => InFree(F, a)
    BY <1>0, <1>5, Addresses DEF InFree, FB
  <2> QED BY <1>0, <1>2, <2>1, <2>2, Addresses
<1>8. Covers(U, F)
  BY <1>0, <1>3, <1>4, <1>7, CoversBehind
<1>9. WellLaid(U, F, RestAt(k))
  BY <1>1, <1>6, <1>8 DEF WellLaid
<1> QED BY <1>9 DEF U, F

(* with the PCB taken, and once the file is given back.                    *)
LEMMA NoTaskWhole ==
  ASSUME Room, NEW k \in 0..6
  PROVE  /\ WellLaid(Kept(k + 1) \cup {File, Task(k)}, FreeNoTask(k), RestAt(k + 1))
         /\ WellLaid(Kept(k + 1) \cup {Task(k)}, FreeFile(k), FileAt)
<1> DEFINE U == Kept(k + 1) \cup {File, Task(k)}
           F == FreeNoTask(k)
           V == Kept(k + 1) \cup {Task(k)}
           G == FreeFile(k)
<1>0. k + 2 \in 0..8 /\ k + 1 \in Nat /\ k + 1 \in 0..7 /\ k \in Nat
  OBVIOUS
<1>1. Fits(U, F) /\ Sized(U) /\ Fits(V, G) /\ Sized(V)
  <2>1. Fits(U, F) /\ Fits(V, G)
    BY NoTaskFits
  <2>2. Sized(U) /\ Sized(V)
    <3>1. \A i \in Nat : Sized(Kept(i) \cup {Task(k)}) /\ Sized(Kept(i) \cup {File, Task(k)})
      BY DEF Sized, Kept, Kernel, Vases, File, Task, Blk
    <3> QED BY <1>0, <3>1
  <2> QED BY <2>1, <2>2
<1>2. 0 < RestAt(k + 1) /\ VasAt(k + 2) = RestAt(k + 1) /\ 0 < FileAt
  BY HeapAssumption DEF RestAt, VasAt, FileAt
<1>3. \A a \in Int : FileAt <= a /\ a < FileAt + 44 => InUse(U, a)
  BY FileInUse
<1>4. Kept(k + 2) \subseteq U /\ Kept(k + 2) \subseteq V
  BY <1>0, TaskLast
<1>5. /\ F = {FB(BigAt, BigSize, 0, 0), FB(RestAt(k + 1), RestSize(k + 1), BigAt, 0)}
      /\ G = {FB(BigAt, BigSize, 0, 0), FB(FileAt, 24, RestAt(k + 1), 0), FB(RestAt(k + 1), RestSize(k + 1), BigAt, 0)}
  BY DEF FreeNoTask, FreeFile, Big, Rest
<1> HIDE DEF U, F, V, G
<1>6. Listed(F, RestAt(k + 1))
  <2>1. RestAt(k + 1) \in Nat /\ BigAt \in Nat /\ RestAt(k + 1) < BigAt
    BY <1>0, Addresses
  <2>2. Listed({FB(BigAt, BigSize, 0, 0), FB(RestAt(k + 1), RestSize(k + 1), BigAt, 0)}, RestAt(k + 1))
    BY <1>2, <2>1, ListedTwo
  <2> QED BY <1>5, <2>2
<1>7. Listed(G, FileAt)
  <2>1. /\ FileAt \in Nat /\ RestAt(k + 1) \in Nat /\ BigAt \in Nat
        /\ FileAt < RestAt(k + 1) /\ RestAt(k + 1) < BigAt
    BY <1>0, Addresses
  <2>2. Listed({FB(BigAt, BigSize, 0, 0), FB(FileAt, 24, RestAt(k + 1), 0),
                FB(RestAt(k + 1), RestSize(k + 1), BigAt, 0)}, FileAt)
    BY <1>2, <2>1, ListedThree
  <2> QED BY <1>5, <2>2
<1>8. \A a \in Int : VasAt(k + 2) <= a /\ a < HEAP_END => InFree(F, a) /\ InFree(G, a)
  <2>1. \A a \in Int : BigAt <= a /\ a < HEAP_END => InFree(F, a) /\ InFree(G, a)
    BY <1>0, <1>5, Addresses DEF InFree, FB
  <2>2. \A a \in Int : RestAt(k + 1) <= a /\ a < BigAt => InFree(F, a) /\ InFree(G, a)
    BY <1>0, <1>5, Addresses DEF InFree, FB
  <2> QED BY <1>0, <1>2, <2>1, <2>2, Addresses
<1>9. \A a \in Int : FileAt <= a /\ a < FileAt + 44 => InFree(G, a)
  BY <1>0, <1>5, Addresses DEF InFree, FB
<1>10. Covers(U, F) /\ Covers(V, G)
  BY <1>0, <1>3, <1>4, <1>8, <1>9, CoversBehind
<1>11. WellLaid(U, F, RestAt(k + 1)) /\ WellLaid(V, G, FileAt)
  BY <1>1, <1>6, <1>7, <1>10 DEF WellLaid
<1> QED BY <1>11 DEF U, F, V, G

(* Between calls the heap is well laid.                                    *)
LEMMA IdleWhole ==
  ASSUME Room, MaxPongs <= 7, HInv, call.at = "idle"
  PROVE  \E U, F : Layout(U, F, free_head) /\ WellLaid(U, F, free_head)
<1>0. pongs \in 0..MaxPongs /\ MaxPongs \in Nat
  BY PongHeapAssumption DEF HInv
<1>1. CASE Booting
  <2>1. Obtaining(385, HEAP_BEGIN).at = "malloc" /\ Obtaining(16, HEAP_BEGIN).at = "malloc"
        /\ Freeing(HEAP_BEGIN, 0).at = "coalesce"
    BY DEF Obtaining, Freeing, Idle
  <2>2. ~MemInfoFreed
    BY <2>1 DEF MemInfoFreed, AtCall
  <2>3. Starting => Layout({}, {Whole}, HEAP_BEGIN)
    BY DEF Starting
  <2>4. MemInfoTaken => Layout({MemInfo}, {Big}, BigAt)
    BY DEF MemInfoTaken
  <2>5. MemInfoBack => Layout({}, {Big, Front(BigAt)}, HEAP_BEGIN)
    BY DEF MemInfoBack
  <2>6. KernelTaken => Layout(Kept(0), FreeReady(0), FileAt)
    BY DEF KernelTaken
  <2>7. WellLaid(Kept(0), FreeReady(0), FileAt)
    BY ReadyWhole
  <2>8. \E U, F, head : Layout(U, F, head) /\ WellLaid(U, F, head)
    BY <1>1, <2>2, <2>3, <2>4, <2>5, <2>6, <2>7, BootWhole DEF Booting
  <2> QED BY <2>8 DEF Layout
<1>2. CASE Waiting
  <2>1. pongs \in 0..7
    BY <1>0
  <2>2. WellLaid(Kept(pongs), FreeReady(pongs), FileAt)
    BY <2>1, ReadyWhole
  <2> QED BY <1>2, <2>2 DEF Waiting, Layout
<1>3. CASE Ponging(pongs - 1)
  <2>1. PICK k \in 0..6 : k = pongs - 1
    BY <1>0, <1>3 DEF Ponging
  <2>2. Ponging(k) /\ k \in 0..7
    BY <1>3, <2>1
  <2>3. \A h, x : Freeing(h, x).at = "coalesce" /\ Placing(h, x).at = "insert"
    BY DEF Freeing, Placing, Idle
  <2>4. ~FileFreed(k) /\ ~TaskFreed(k)
    BY <2>3 DEF FileFreed, TaskFreed, AtCall
  <2>5. /\ PongBegins(k) => Layout(Kept(k), FreeReady(k), FileAt)
        /\ FileTaken(k) => Layout(Kept(k) \cup {File}, FreeNoFile(k), VasAt(k))
        /\ VasTaken(k) => Layout(Kept(k + 1) \cup {File}, FreeNoVas(k), RestAt(k))
        /\ TaskTaken(k) => Layout(Kept(k + 1) \cup {File, Task(k)}, FreeNoTask(k), RestAt(k + 1))
        /\ FileBack(k) => Layout(Kept(k + 1) \cup {Task(k)}, FreeFile(k), FileAt)
    BY DEF PongBegins, FileTaken, VasTaken, TaskTaken, FileBack
  <2>6. \E U, F, head : Layout(U, F, head) /\ WellLaid(U, F, head)
    BY <2>2, <2>4, <2>5, ReadyWhole, NoFileWhole, NoVasWhole, NoTaskWhole DEF Ponging
  <2> QED BY <2>6 DEF Layout
<1> QED BY <1>1, <1>2, <1>3 DEF HInv

(* In every state, the ones inside a call too, the blocks fit and have the *)
(* callers' sizes.                                                         *)
LEMMA AlwaysFits ==
  ASSUME Room, MaxPongs <= 7, HInv
  PROVE  \E U, F : Holds(U, F) /\ Fits(U, F) /\ Sized(U)
<1>0. pongs \in 0..MaxPongs /\ MaxPongs \in Nat
  BY PongHeapAssumption DEF HInv
<1>1. CASE call.at = "idle"
  BY <1>1, IdleWhole DEF Layout, WellLaid
<1>2. CASE Booting
  <2>1. Sized({}) /\ Fits({}, {Big, Front(0)})
    BY FrontFits DEF Sized
  <2>2. WellLaid(Kept(0), FreeReady(0), FileAt)
    BY ReadyWhole
  <2>3. \E U, F : Holds(U, F) /\ Fits(U, F) /\ Sized(U)
    BY <1>2, <2>1, <2>2, BootWhole DEF Booting, Starting, MemInfoTaken, MemInfoFreed, MemInfoBack, KernelTaken, Layout, WellLaid
  <2> QED BY <2>3
<1>3. CASE Waiting
  BY <1>1, <1>3 DEF Waiting
<1>4. CASE Ponging(pongs - 1)
  <2>1. PICK k \in 0..6 : k = pongs - 1
    BY <1>0, <1>4 DEF Ponging
  <2>2. Ponging(k) /\ k \in 0..7 /\ k + 1 \in Nat
    BY <1>4, <2>1
  <2>3. /\ PongBegins(k) => Holds(Kept(k), FreeReady(k))
        /\ FileTaken(k) => Holds(Kept(k) \cup {File}, FreeNoFile(k))
        /\ VasTaken(k) => Holds(Kept(k + 1) \cup {File}, FreeNoVas(k))
        /\ TaskTaken(k) => Holds(Kept(k + 1) \cup {File, Task(k)}, FreeNoTask(k))
        /\ FileFreed(k) => Holds(Kept(k + 1) \cup {Task(k)}, FreeNoTask(k) \cup {FB(FileAt, 24, 0, 0)})
        /\ FileBack(k) => Holds(Kept(k + 1) \cup {Task(k)}, FreeFile(k))
        /\ TaskFreed(k) => Holds(Kept(k + 1), FreeFile(k) \cup {FB(RestAt(k), 16, 0, 0)})
    BY DEF PongBegins, FileTaken, VasTaken, TaskTaken, FileFreed, FileBack, TaskFreed, Layout
  <2>4. /\ Fits(Kept(k), FreeReady(k)) /\ Fits(Kept(k) \cup {File}, FreeNoFile(k))
        /\ Fits(Kept(k + 1) \cup {File}, FreeNoVas(k))
        /\ Fits(Kept(k + 1) \cup {File, Task(k)}, FreeNoTask(k))
        /\ Fits(Kept(k + 1) \cup {Task(k)}, FreeNoTask(k) \cup {FB(FileAt, 24, 0, 0)})
        /\ Fits(Kept(k + 1) \cup {Task(k)}, FreeFile(k))
        /\ Fits(Kept(k + 1), FreeFile(k) \cup {FB(RestAt(k), 16, 0, 0)})
    BY <2>2, ReadyFits, NoFileFits, NoVasFits, NoTaskFits, TaskFreedFits
  <2>5. /\ Sized(Kept(k)) /\ Sized(Kept(k) \cup {File}) /\ Sized(Kept(k + 1) \cup {File})
        /\ Sized(Kept(k + 1) \cup {File, Task(k)}) /\ Sized(Kept(k + 1) \cup {Task(k)}) /\ Sized(Kept(k + 1))
    BY <2>2 DEF Sized, Kept, Kernel, Vases, File, Task, Blk
  <2> QED BY <2>2, <2>3, <2>4, <2>5 DEF Ponging
<1> QED BY <1>2, <1>3, <1>4 DEF HInv

-----------------------------------------------------------------------------
(* The heap's properties hold at every place.                              *)

(* The blocks in use are those of the layout.                              *)
LEMMA InUseAre ==
  ASSUME NEW U, NEW F, Holds(U, F)
  PROVE  BlocksInUse = U
BY DEF Holds, BlocksInUse, BagToSet

(* Each property follows from the layout: the types,                       *)
LEMMA TypesHold ==
  ASSUME Room, MaxPongs <= 7, HInv
  PROVE  TypeOK
<1>1. PICK U, F : Holds(U, F) /\ Fits(U, F) /\ Sized(U)
  BY AlwaysFits
<1>2. InHeap(mem) /\ BlocksInUse = U
  BY <1>1, InUseAre DEF Holds
<1>3. call.at \in {"idle", "malloc", "coalesce", "insert"}
  <2>1. /\ Idle.at = "idle" /\ \A p : Returned(p).at = "idle"
        /\ \A s, t : Obtaining(s, t).at = "malloc" /\ Freeing(s, t).at = "coalesce" /\ Placing(s, t).at = "insert"
    BY DEF Idle, Returned, Obtaining, Freeing, Placing
  <2>2. Booting => call.at \in {"idle", "malloc", "coalesce", "insert"}
    <3>1. /\ Starting => call = Idle \/ call = Obtaining(385, HEAP_BEGIN)
          /\ MemInfoTaken => call = Returned(HEAP_BEGIN + 16)
          /\ MemInfoFreed => call = Freeing(HEAP_BEGIN, 0)
          /\ MemInfoBack => call = Idle \/ call = Obtaining(16, HEAP_BEGIN)
          /\ KernelTaken => call = Returned(HEAP_BEGIN + 16)
      BY DEF Starting, MemInfoTaken, MemInfoFreed, MemInfoBack, KernelTaken, AtCall
    <3> QED BY <2>1, <3>1 DEF Booting
  <2>3. Waiting => call.at \in {"idle", "malloc", "coalesce", "insert"}
    BY DEF Waiting
  <2>4. Ponging(pongs - 1) => call.at \in {"idle", "malloc", "coalesce", "insert"}
    BY <2>1 DEF Ponging, PongBegins, FileTaken, VasTaken, TaskTaken, FileFreed, FileBack, TaskFreed, AtCall
  <2> QED BY <2>2, <2>3, <2>4 DEF HInv
<1>4. pongs \in 0..MaxPongs
  BY DEF HInv
<1>5. \A b \in U : \E v \in Pointers : b.size = SizeFor[v]
  <2>1. SizeFor["mem_info"] = 385 /\ SizeFor["f"] = 24 /\ SizeFor["vas"] = 16
        /\ {"mem_info", "f", "vas"} \subseteq Pointers
    BY DEF SizeFor, Pointers
  <2> QED BY <1>1, <2>1 DEF Sized
<1> QED BY <1>2, <1>3, <1>4, <1>5 DEF TypeOK, HeapTypeOK, InHeap

(* the headers and footers of the blocks in use,                           *)
LEMMA IntactHolds ==
  ASSUME Room, MaxPongs <= 7, HInv
  PROVE  LiveIntact
<1>1. PICK U, F : Holds(U, F) /\ Fits(U, F) /\ Sized(U)
  BY AlwaysFits
<1>2. BlocksInUse = U
  BY <1>1, InUseAre
<1>3. ASSUME NEW b \in U
      PROVE  LET h == b.ptr - HDR_SIZE
             IN  /\ SizeOf(mem, h) = b.size /\ ~IsFree(mem, h)
                 /\ Load(mem, b.ptr + b.size) = h
  <2>1. UsedAt(mem, b.ptr - 16, b.size) /\ b.ptr \in Nat /\ b.size \in Nat
    BY <1>1 DEF Holds, Fits
  <2>2. (b.ptr - 16) + 16 + b.size = b.ptr + b.size
    BY <2>1
  <2> QED BY <2>1, <2>2 DEF UsedAt, HDR_SIZE
<1> QED BY <1>2, <1>3 DEF LiveIntact

(* (what the properties call a free block's extent is its place in the     *)
(* layout,                                                                 *)
LEMMA FreeExtentsAre ==
  ASSUME NEW U, NEW F, Holds(U, F), Fits(U, F), NEW f \in F
  PROVE  Extent(f.at, SizeOf(mem, f.at)) = [from |-> f.at, to |-> f.at + f.size + 20]
<1>1. SizeOf(mem, f.at) = f.size /\ f.at \in Nat /\ f.size \in Nat
  BY DEF Holds, Fits, FreeAt
<1>2. f.at + 16 + f.size + 4 = f.at + f.size + 20
  BY <1>1
<1> QED BY <1>1, <1>2 DEF Extent, HDR_SIZE, FTR_SIZE

(* and a block's in use is too)                                            *)
LEMMA LiveExtentsAre ==
  ASSUME NEW U, NEW F, Fits(U, F), NEW b \in U
  PROVE  Extent(b.ptr - HDR_SIZE, b.size) = [from |-> b.ptr - 16, to |-> b.ptr + b.size + 4]
<1>1. b.ptr \in Nat /\ b.size \in Nat
  BY DEF Fits
<1>2. b.ptr - 16 + 16 + b.size + 4 = b.ptr + b.size + 4
  BY <1>1
<1> QED BY <1>2 DEF Extent, HDR_SIZE, FTR_SIZE

(* the free blocks in the heap and apart from all others,                  *)
LEMMA FitHolds ==
  ASSUME Room, MaxPongs <= 7, HInv
  PROVE  FreeBlocksFit
<1> SUFFICES ASSUME call.at = "idle"
             PROVE  /\ \A h \in FreeBlocks : SizeOf(mem, h) >= 0
                    /\ \A x \in FreeExtents :
                         /\ HEAP_BEGIN <= x.from /\ x.to <= HEAP_END
                         /\ \A y \in FreeExtents \cup LiveExtents : x = y \/ Apart(x, y)
  BY DEF FreeBlocksFit
<1>1. PICK U, F : Layout(U, F, free_head) /\ Fits(U, F) /\ Listed(F, free_head)
  BY IdleWhole DEF WellLaid
<1>2. Holds(U, F) /\ BlocksInUse = U
  BY <1>1, InUseAre DEF Layout
<1>3. FreeBlocks \subseteq {f.at : f \in F}
  BY <1>1, FreeBlocksAre
<1>4. \A x \in FreeExtents : \E f \in F : x = [from |-> f.at, to |-> f.at + f.size + 20]
  <2>1. ASSUME NEW h \in FreeBlocks
        PROVE  \E f \in F : Extent(h, SizeOf(mem, h)) = [from |-> f.at, to |-> f.at + f.size + 20]
    <3>1. PICK f \in F : f.at = h
      BY <1>3
    <3>2. Extent(f.at, SizeOf(mem, f.at)) = [from |-> f.at, to |-> f.at + f.size + 20]
      BY <1>1, <1>2, FreeExtentsAre
    <3> QED BY <3>1, <3>2
  <2> QED BY <2>1 DEF FreeExtents
<1>5. \A x \in LiveExtents : \E b \in U : x = [from |-> b.ptr - 16, to |-> b.ptr + b.size + 4]
  BY <1>1, <1>2, LiveExtentsAre DEF LiveExtents
<1>6. \A h \in FreeBlocks : SizeOf(mem, h) >= 0
  <2> SUFFICES ASSUME NEW f \in F PROVE SizeOf(mem, f.at) >= 0
    BY <1>3
  <2> QED BY <1>1, <1>2 DEF Holds, Fits, FreeAt
<1>7. ASSUME NEW x \in FreeExtents
      PROVE  /\ HEAP_BEGIN <= x.from /\ x.to <= HEAP_END
             /\ \A y \in FreeExtents \cup LiveExtents : x = y \/ Apart(x, y)
  <2>1. PICK f \in F : x = [from |-> f.at, to |-> f.at + f.size + 20]
    BY <1>4
  <2>2. HEAP_BEGIN <= x.from /\ x.to <= HEAP_END
    BY <1>1, <2>1 DEF Fits
  <2>3. ASSUME NEW y \in FreeExtents PROVE x = y \/ Apart(x, y)
    <3>1. PICK g \in F : y = [from |-> g.at, to |-> g.at + g.size + 20]
      BY <1>4
    <3> QED BY <1>1, <2>1, <3>1 DEF Fits, Apart
  <2>4. ASSUME NEW y \in LiveExtents PROVE Apart(x, y)
    <3>1. PICK b \in U : y = [from |-> b.ptr - 16, to |-> b.ptr + b.size + 4]
      BY <1>5
    <3>2. f.at \in Nat /\ f.size \in Nat /\ b.ptr \in Nat /\ b.size \in Nat
      BY <1>1 DEF Fits
    <3>3. f.at + f.size + 36 <= b.ptr \/ b.ptr + b.size + 4 <= f.at
      BY <1>1 DEF Fits
    <3>4. f.at + f.size + 20 <= b.ptr - 16 \/ b.ptr + b.size + 4 <= f.at
      BY <3>2, <3>3
    <3> QED BY <2>1, <3>1, <3>4 DEF Apart
  <2> QED BY <2>2, <2>3, <2>4
<1> QED BY <1>6, <1>7

(* the order of the free list,                                             *)
LEMMA SortedHolds ==
  ASSUME Room, MaxPongs <= 7, MaxBlocks >= 4, HInv
  PROVE  FreeListSorted
<1> SUFFICES ASSUME call.at = "idle"
             PROVE  /\ ListAt[MaxBlocks] = NULL
                    /\ \A h \in FreeBlocks : IsFree(mem, h)
                    /\ \A n \in 1..MaxBlocks : ListAt[n] # NULL => ListAt[n - 1] < ListAt[n]
  BY DEF FreeListSorted
<1>1. PICK U, F : Layout(U, F, free_head) /\ Fits(U, F) /\ Listed(F, free_head)
  BY IdleWhole DEF WellLaid
<1>2. /\ FreeBlocks \subseteq {f.at : f \in F}
      /\ ListAt[MaxBlocks] = NULL
      /\ \A n \in 1..MaxBlocks : ListAt[n] # NULL => ListAt[n - 1] < ListAt[n]
  BY <1>1, FreeBlocksAre
<1>3. \A f \in F : IsFree(mem, f.at)
  BY <1>1 DEF Layout, Holds, FreeAt
<1> QED BY <1>2, <1>3

(* and every byte accounted for.                                           *)
LEMMA WholeHolds ==
  ASSUME Room, MaxPongs <= 7, MaxBlocks >= 3, HInv
  PROVE  NothingLost
<1> DEFINE blocks == FreeExtents \cup LiveExtents
<1> SUFFICES ASSUME call.at = "idle", NEW a \in HEAP_BEGIN..HEAP_END-1
             PROVE  \E x \in blocks : x.from <= a /\ a < x.to
  BY DEF NothingLost
<1>1. PICK U, F : Layout(U, F, free_head) /\ WellLaid(U, F, free_head)
  BY IdleWhole
<1>2. Holds(U, F) /\ BlocksInUse = U /\ Fits(U, F)
  BY <1>1, InUseAre DEF Layout, WellLaid
<1>3. FreeBlocks = {f.at : f \in F}
  BY <1>1, FreeBlocksAre DEF WellLaid
<1>4. InFree(F, a) \/ InUse(U, a)
  BY <1>1 DEF WellLaid, Covers
<1>5. ASSUME NEW f \in F, f.at <= a, a < f.at + f.size + 20
      PROVE  \E x \in blocks : x.from <= a /\ a < x.to
  <2> DEFINE x == Extent(f.at, SizeOf(mem, f.at))
  <2>1. x \in blocks
    BY <1>3 DEF FreeExtents
  <2>2. x = [from |-> f.at, to |-> f.at + f.size + 20]
    BY <1>2, FreeExtentsAre
  <2>3. x.from <= a /\ a < x.to
    BY <1>5, <2>2
  <2> HIDE DEF blocks, x
  <2> QED BY <2>1, <2>3
<1>6. ASSUME NEW b \in U, b.ptr - 16 <= a, a < b.ptr + b.size + 4
      PROVE  \E x \in blocks : x.from <= a /\ a < x.to
  <2> DEFINE x == Extent(b.ptr - HDR_SIZE, b.size)
  <2>1. x \in blocks
    BY <1>2 DEF LiveExtents
  <2>2. x = [from |-> b.ptr - 16, to |-> b.ptr + b.size + 4]
    BY <1>2, LiveExtentsAre
  <2>3. x.from <= a /\ a < x.to
    BY <1>6, <2>2
  <2> HIDE DEF blocks, x
  <2> QED BY <2>1, <2>3
<1> QED BY <1>4, <1>5, <1>6 DEF InFree, InUse

-----------------------------------------------------------------------------
(* The abstract allocator, and the theorems.                               *)

(* A block in use is one that the abstract allocator can hand out.         *)
LEMMA BlocksOfArena ==
  ASSUME NEW U, NEW F, Fits(U, F), Sized(U), NEW b \in U
  PROVE  /\ b.ptr \in HEAP_BEGIN..HEAP_END-1
         /\ b.size \in {SizeFor[v] : v \in Pointers}
         /\ b.ptr .. b.ptr + b.size - 1 \subseteq HEAP_BEGIN..HEAP_END-1
<1>1. /\ b.ptr \in Nat /\ b.size \in Nat /\ HEAP_BEGIN + 16 <= b.ptr /\ b.ptr + b.size + 4 <= HEAP_END
      /\ HEAP_BEGIN \in Nat /\ HEAP_END \in Nat
  BY HeapAssumption DEF Fits
<1>2. b.size \in {SizeFor[v] : v \in Pointers}
  BY DEF Sized, SizeFor, Pointers
<1> QED BY <1>1, <1>2

(* No two of them share a byte.                                            *)
LEMMA BytesApart ==
  ASSUME NEW U, NEW F, Fits(U, F), NEW b \in U, NEW c \in U, b # c
  PROVE  ~Abstract!Overlap(b, c)
<1>1. b.ptr \in Nat /\ b.size \in Nat /\ c.ptr \in Nat /\ c.size \in Nat
  BY DEF Fits
<1>2. b.ptr + b.size + 20 <= c.ptr \/ c.ptr + c.size + 20 <= b.ptr
  BY DEF Fits
<1>3. (b.ptr..b.ptr + b.size - 1) \cap (c.ptr..c.ptr + c.size - 1) = {}
  BY <1>1, <1>2
<1> QED BY <1>3 DEF Abstract!Overlap, Abstract!Bytes

(* The blocks fit after a step too.                                        *)
LEMMA NextFits ==
  Room /\ MaxPongs <= 7 =>
    (HInv' => \E V, G : Holds(V, G)' /\ Fits(V, G) /\ Sized(V))
<1> SUFFICES ASSUME Room, MaxPongs <= 7
             PROVE  HInv' => \E V, G : Holds(V, G)' /\ Fits(V, G) /\ Sized(V)
  OBVIOUS
<1> DEFINE P == \E V, G : Holds(V, G) /\ Fits(V, G) /\ Sized(V)
<1>1. HInv => P
  BY AlwaysFits
<1>2. P' => \E V, G : Holds(V, G)' /\ Fits(V, G) /\ Sized(V)
  BY DEF Fits, Sized
<1> HIDE DEF P
<1>3. HInv' => P'
  BY <1>1, PTL
<1> QED BY <1>2, <1>3

(* ph_malloc's step is a step of the promise: the block was free.          *)
LEMMA TakeIsMalloc ==
  ASSUME Room, MaxPongs <= 7, HInv, HInv', MallocTake
  PROVE  Abstract!Next
<1> DEFINE b == [ptr |-> call.tmp + HDR_SIZE, size |-> call.sz]
<1>1. PICK U, F : Holds(U, F) /\ Fits(U, F) /\ Sized(U)
  BY AlwaysFits
<1>2. PICK V, G : Holds(V, G)' /\ Fits(V, G) /\ Sized(V)
  BY NextFits
<1>3. live' = live (+) SetToBag({b})
  BY DEF MallocTake
<1>4. live = [c \in U |-> 1] /\ live' = [c \in V |-> 1]
  BY <1>1, <1>2 DEF Holds
<1>5. b.ptr = call.tmp + HDR_SIZE /\ b.size = call.sz
  OBVIOUS
<1> HIDE DEF b
<1>6. V = U \cup {b} /\ b \notin U
  BY <1>3, <1>4 DEF (+), SetToBag, BagIn, BagToSet
<1>7. b.ptr \in HEAP_BEGIN..HEAP_END-1 /\ b.size \in {SizeFor[v] : v \in Pointers}
      /\ b.ptr .. b.ptr + b.size - 1 \subseteq HEAP_BEGIN..HEAP_END-1
  BY <1>2, <1>6, BlocksOfArena
<1>8. \A c \in U : ~Abstract!Overlap(b, c)
  BY <1>2, <1>6, BytesApart
<1>9. Abstract!Malloc(b.ptr, b.size)
  <2>1. b = [ptr |-> b.ptr, size |-> b.size]
    BY DEF b
  <2>2. BagToSet(live) = U
    BY <1>4 DEF BagToSet
  <2> QED BY <1>3, <1>7, <1>8, <2>1, <2>2 DEF Abstract!Malloc, Abstract!Bytes, Abstract!(+), Abstract!SetToBag, Abstract!BagToSet, (+), SetToBag, BagIn, BagToSet
<1> QED BY <1>7, <1>9 DEF Abstract!Next

(* ph_free's call gives a block back, or none.                             *)
LEMMA FreeIsFree ==
  ASSUME Room, MaxPongs <= 7, HInv, NEW p, CallFree(p)
  PROVE  Abstract!Next \/ live' = live
<1> DEFINE S == {b \in BlocksInUse : b.ptr = p}
<1>1. PICK U, F : Holds(U, F) /\ Fits(U, F) /\ Sized(U)
  BY AlwaysFits
<1>2. live' = live \/ live' = live (-) SetToBag(S)
  BY DEF CallFree
<1>3. live = [c \in U |-> 1] /\ BlocksInUse = U
  BY <1>1, InUseAre DEF Holds
<1>4. CASE S = {} /\ live' = live (-) SetToBag(S)
  <2>1. live' = live
    BY <1>3, <1>4 DEF (-), SetToBag, BagIn, BagToSet
  <2> QED BY <2>1
<1>5. CASE S # {} /\ live' = live (-) SetToBag(S)
  <2>1. PICK b \in U : b.ptr = p
    BY <1>3, <1>5
  <2>2. S = {b}
    <3>1. \A c \in U : c.ptr = b.ptr => c = b
      BY <1>1 DEF Fits
    <3> QED BY <1>3, <2>1, <3>1
  <2>3. b \in BagToSet(live) /\ BagIn(b, live)
    BY <1>3 DEF BagIn, BagToSet
  <2> QED BY <1>5, <2>2, <2>3 DEF Abstract!Free, Abstract!Next, Abstract!(-), Abstract!SetToBag, Abstract!BagIn, Abstract!BagToSet, (-), SetToBag, BagIn, BagToSet
<1> QED BY <1>2, <1>4, <1>5

(* Every step keeps the promise or leaves the bag of blocks in use as it   *)
(* is.                                                                     *)
LEMMA StepPromised ==
  ASSUME Room, MaxPongs <= 7, HInv, HInv', [Next]_vars
  PROVE  [Abstract!Next]_live
<1>1. CASE UNCHANGED vars
  BY <1>1 DEF vars, heapVars
<1>2. CASE HeapRuns
  <2>1. MallocTake \/ live' = live
    BY <1>2 DEF HeapRuns, HeapStep, MallocNull, MallocSkip, FreeMerge, FreePush, FreeSearch, FreeInsert
  <2> QED BY <2>1, TakeIsMalloc
<1>3. CASE KernelMain \/ Pong \/ PongCommand
  <2>1. (\E p : CallFree(p)) \/ live' = live
    BY <1>3 DEF KernelMain, Pong, PongCommand, Call, Obtain, Release, GetFreeMemRegion, CallMalloc, heapVars
  <2> QED BY <2>1, FreeIsFree
<1>4. CASE BsyLoop
  BY <1>1, <1>4 DEF BsyLoop
<1> QED BY <1>1, <1>2, <1>3, <1>4 DEF Next

(* In every state of the kernel's use of its heap, in a heap with room and *)
(* up to the seventh pong, the caller is at one of its places and the heap *)
(* is laid out as that place says.                                         *)
THEOREM Places ==
  ASSUME Room, MaxPongs <= 7
  PROVE  Spec => []HInv
<1>1. Init => HInv
  BY InitPlace
<1>2. HInv /\ [Next]_vars => HInv'
  BY StepPlace
<1> QED BY <1>1, <1>2, PTL DEF Spec

(* The heap's memory holds bytes at its own addresses, and every block in  *)
(* use has a size some caller asked for.                                   *)
THEOREM HeapTypeCorrect ==
  ASSUME Room, MaxPongs <= 7
  PROVE  Spec => []TypeOK
<1>1. HInv => TypeOK
  BY TypesHold
<1> QED BY <1>1, Places, PTL

(* kernel_main and pong: no call of ph_malloc or ph_free, and no store of  *)
(* a caller into its own block, writes over the header or footer of a      *)
(* block in use.                                                           *)
THEOREM BlocksInUseIntact ==
  ASSUME Room, MaxPongs <= 7
  PROVE  Spec => []LiveIntact
<1>1. HInv => LiveIntact
  BY IntactHolds
<1> QED BY <1>1, Places, PTL

(* Between calls every block on the free list lies in the heap with its    *)
(* header and its footer, and touches no other block.                      *)
THEOREM BlocksFit ==
  ASSUME Room, MaxPongs <= 7
  PROVE  Spec => []FreeBlocksFit
<1>1. HInv => FreeBlocksFit
  BY FitHolds
<1> QED BY <1>1, Places, PTL

(* Between calls the free list ends, runs upwards in memory and holds only *)
(* blocks marked free: ph_free's search for a place finds one.  The list   *)
(* has four blocks, so it is followed for four.                            *)
THEOREM ListSorted ==
  ASSUME Room, MaxPongs <= 7, MaxBlocks >= 4
  PROVE  Spec => []FreeListSorted
<1>1. HInv => FreeListSorted
  BY SortedHolds
<1> QED BY <1>1, Places, PTL

(* Between calls every byte of the heap is in a block that is in use or on *)
(* the free list.  There are four blocks on it from the first pong on, so  *)
(* they are all met when it is followed for three steps.                   *)
THEOREM NoByteLost ==
  ASSUME Room, MaxPongs <= 7, MaxBlocks >= 3
  PROVE  Spec => []NothingLost
<1>1. HInv => NothingLost
  BY WholeHolds
<1> QED BY <1>1, Places, PTL

(* ph_malloc and ph_free, called as the kernel calls them, implement       *)
(* module Allocator: blocks handed out lie in the heap, share no byte, and *)
(* only a block in use is given back.                                      *)
THEOREM HeapKeepsPromise ==
  ASSUME Room, MaxPongs <= 7
  PROVE  Spec => ImplementsAllocator
<1>1. Init => Abstract!Init
  BY DEF Init, HeapInit, Abstract!Init, Abstract!EmptyBag, EmptyBag, Abstract!SetToBag, SetToBag
<1>2. HInv /\ HInv' /\ [Next]_vars => [Abstract!Next]_live
  BY StepPromised
<1> QED BY <1>1, <1>2, Places, PTL DEF Spec, ImplementsAllocator, Abstract!Spec

(* So no two blocks in use share a byte, and none is handed out twice.     *)
THEOREM BlocksShareNoByte ==
  ASSUME Room, MaxPongs <= 7
  PROVE  Spec => []Abstract!Disjoint
<1>1. ASSUME HInv PROVE Abstract!Disjoint
  <2>1. PICK U, F : Holds(U, F) /\ Fits(U, F) /\ Sized(U)
    BY <1>1, AlwaysFits
  <2>2. live = [b \in U |-> 1] /\ Abstract!BagToSet(live) = U
    BY <2>1 DEF Holds, Abstract!BagToSet
  <2>3. \A b, c \in U : b # c => ~Abstract!Overlap(b, c)
    BY <2>1, BytesApart
  <2> QED BY <2>2, <2>3 DEF Abstract!Disjoint
<1>2. HInv => Abstract!Disjoint
  BY <1>1
<1> QED BY <1>2, Places, PTL

(* ph_malloc does not refuse a block that ends before the heap does.       *)
LEMMA RequestInReach ==
  ASSUME Room, NEW sz \in Nat, NEW t \in Nat, 0 < t, t + sz + 20 < HEAP_END, call = Obtaining(sz, t)
  PROVE  ~MallocNull
<1>1. call.at = "malloc" /\ call.sz = sz /\ call.tmp = t
  BY DEF Obtaining, Idle
<1>2. t + sz + 16 + 4 \in Nat /\ t + sz + 16 + 4 < HEAP_END /\ HEAP_END \in Nat
  BY HeapAssumption
<1>3. InReach(t)
  BY <1>1, <1>2 DEF InReach, Below, HDR_SIZE, FTR_SIZE, NULL
<1> QED BY <1>1, <1>3 DEF MallocNull

(* So no request of kernel_main or of pong is refused,                     *)
LEMMA NeverRefused ==
  ASSUME Room, MaxPongs <= 7, HInv
  PROVE  ~MallocNull
<1>0. pongs \in 0..MaxPongs /\ MaxPongs \in Nat
  BY PongHeapAssumption DEF HInv
<1>1. CASE call.at # "malloc"
  BY <1>1 DEF MallocNull
<1>2. /\ Idle.at # "malloc" /\ \A p : Returned(p).at # "malloc"
      /\ \A h, x : Freeing(h, x).at # "malloc" /\ Placing(h, x).at # "malloc"
  BY DEF Idle, Returned, Freeing, Placing
<1>3. CASE call.at = "malloc" /\ Booting
  <2>1. /\ Starting => call = Idle \/ call = Obtaining(385, HEAP_BEGIN)
        /\ MemInfoTaken => call = Returned(HEAP_BEGIN + 16)
        /\ MemInfoFreed => call = Freeing(HEAP_BEGIN, 0)
        /\ MemInfoBack => call = Idle \/ call = Obtaining(16, HEAP_BEGIN)
        /\ KernelTaken => call = Returned(HEAP_BEGIN + 16)
    BY DEF Starting, MemInfoTaken, MemInfoFreed, MemInfoBack, KernelTaken, AtCall
  <2>2. call = Obtaining(385, HEAP_BEGIN) \/ call = Obtaining(16, HEAP_BEGIN)
    BY <1>2, <1>3, <2>1 DEF Booting
  <2>3. /\ HEAP_BEGIN \in Nat /\ 0 < HEAP_BEGIN /\ 385 \in Nat /\ 16 \in Nat
        /\ HEAP_BEGIN + 385 + 20 < HEAP_END /\ HEAP_BEGIN + 16 + 20 < HEAP_END
    BY HeapAssumption DEF Room
  <2> QED BY <2>2, <2>3, RequestInReach
<1>4. CASE call.at = "malloc" /\ Waiting
  BY <1>4 DEF Waiting
<1>5. CASE call.at = "malloc" /\ Ponging(pongs - 1)
  <2>1. PICK k \in 0..6 : k = pongs - 1
    BY <1>0, <1>5 DEF Ponging
  <2>2. /\ PongBegins(k) => call.at = "idle" \/ call = Obtaining(24, FileAt)
        /\ FileTaken(k) => call = Returned(FileAt + 16) \/ call = Obtaining(16, VasAt(k))
        /\ VasTaken(k) => call = Returned(VasAt(k) + 16) \/ call = Obtaining(16, RestAt(k))
        /\ TaskTaken(k) => call = Returned(RestAt(k) + 16)
        /\ FileFreed(k) => call = Freeing(FileAt, HEAP_BEGIN)
        /\ FileBack(k) => call = Idle
        /\ TaskFreed(k) => call = Freeing(RestAt(k), VasAt(k)) \/ call = Placing(RestAt(k), FileAt)
    BY DEF PongBegins, FileTaken, VasTaken, TaskTaken, FileFreed, FileBack, TaskFreed, AtCall
  <2>3. Ponging(k)
    BY <1>5, <2>1
  <2>4. call = Obtaining(24, FileAt) \/ call = Obtaining(16, VasAt(k)) \/ call = Obtaining(16, RestAt(k))
    BY <1>2, <1>5, <2>2, <2>3 DEF Ponging
  <2>5. k \in 0..7 /\ 24 \in Nat /\ 16 \in Nat
    OBVIOUS
  <2>6. /\ FileAt \in Nat /\ 0 < FileAt /\ FileAt + 24 + 20 < HEAP_END
        /\ VasAt(k) \in Nat /\ 0 < VasAt(k) /\ VasAt(k) + 16 + 20 < HEAP_END
        /\ RestAt(k) \in Nat /\ 0 < RestAt(k) /\ RestAt(k) + 16 + 20 < HEAP_END
    BY <2>5, Addresses, HeapAssumption
  <2> QED BY <2>4, <2>5, <2>6, RequestInReach
<1> QED BY <1>1, <1>3, <1>4, <1>5 DEF HInv

(* and ph_free never finds a free block before the one it is given.        *)
LEMMA NoMergeHere ==
  ASSUME Room, MaxPongs <= 7, HInv
  PROVE  ~FreeMerge
<1>0. pongs \in 0..MaxPongs /\ MaxPongs \in Nat
  BY PongHeapAssumption DEF HInv
<1>1. CASE call.at # "coalesce"
  BY <1>1 DEF FreeMerge
<1>2. /\ Idle.at # "coalesce" /\ \A p : Returned(p).at # "coalesce"
      /\ \A h, x : Obtaining(h, x).at # "coalesce" /\ Placing(h, x).at # "coalesce"
      /\ \A h, x : Freeing(h, x).tmp = x
  BY DEF Idle, Returned, Obtaining, Placing, Freeing
<1>3. CASE call.at = "coalesce" /\ Booting
  <2>1. /\ Starting => call = Idle \/ call = Obtaining(385, HEAP_BEGIN)
        /\ MemInfoTaken => call = Returned(HEAP_BEGIN + 16)
        /\ MemInfoFreed => call = Freeing(HEAP_BEGIN, 0)
        /\ MemInfoBack => call = Idle \/ call = Obtaining(16, HEAP_BEGIN)
        /\ KernelTaken => call = Returned(HEAP_BEGIN + 16)
    BY DEF Starting, MemInfoTaken, MemInfoFreed, MemInfoBack, KernelTaken, AtCall
  <2>2. call.tmp = 0
    BY <1>2, <1>3, <2>1 DEF Booting
  <2> QED BY <2>2 DEF FreeMerge, Mergeable, NULL
<1>4. CASE call.at = "coalesce" /\ Waiting
  BY <1>4 DEF Waiting
<1>5. CASE call.at = "coalesce" /\ Ponging(pongs - 1)
  <2>1. PICK k \in 0..6 : k = pongs - 1
    BY <1>0, <1>5 DEF Ponging
  <2>2. /\ PongBegins(k) => call.at = "idle" \/ call = Obtaining(24, FileAt)
        /\ FileTaken(k) => call = Returned(FileAt + 16) \/ call = Obtaining(16, VasAt(k))
        /\ VasTaken(k) => call = Returned(VasAt(k) + 16) \/ call = Obtaining(16, RestAt(k))
        /\ TaskTaken(k) => call = Returned(RestAt(k) + 16)
        /\ FileFreed(k) => call = Freeing(FileAt, HEAP_BEGIN)
        /\ FileBack(k) => call = Idle
        /\ TaskFreed(k) => call = Freeing(RestAt(k), VasAt(k)) \/ call = Placing(RestAt(k), FileAt)
    BY DEF PongBegins, FileTaken, VasTaken, TaskTaken, FileFreed, FileBack, TaskFreed, AtCall
  <2>3. Ponging(k)
    BY <1>5, <2>1
  <2>4. (FileFreed(k) /\ call.tmp = HEAP_BEGIN) \/ (TaskFreed(k) /\ call.tmp = VasAt(k))
    BY <1>2, <1>5, <2>2, <2>3 DEF Ponging
  <2>5. CASE FileFreed(k) /\ call.tmp = HEAP_BEGIN
    <3>1. free_head = RestAt(k + 1)
      BY <2>5 DEF FileFreed, Layout
    <3>2. HEAP_BEGIN \in Nat /\ RestAt(k + 1) \in Nat /\ HEAP_BEGIN < RestAt(k + 1)
      BY HeapAssumption DEF RestAt
    <3> QED BY <2>5, <3>1, <3>2 DEF FreeMerge, Mergeable, Below
  <2>6. CASE TaskFreed(k) /\ call.tmp = VasAt(k)
    <3>1. k \in 0..(k + 1) - 1
      OBVIOUS
    <3>2. Blk(VasAt(k), 16) \in Kept(k + 1)
      BY <3>1 DEF Kept, Vases
    <3>3. Blk(VasAt(k), 16).ptr - 16 = VasAt(k)
      BY HeapAssumption DEF Blk, VasAt
    <3>4. ~IsFree(mem, VasAt(k))
      BY <2>6, <3>2, <3>3 DEF TaskFreed, Layout, Holds, UsedAt
    <3> QED BY <2>6, <3>4 DEF FreeMerge, Mergeable
  <2> QED BY <2>4, <2>5, <2>6
<1> QED BY <1>1, <1>3, <1>4, <1>5 DEF HInv

(* kernel_main and pong never test what ph_malloc returns: up to the       *)
(* seventh pong they need not, for no request is refused.                  *)
THEOREM NoRequestRefused ==
  ASSUME Room, MaxPongs <= 7
  PROVE  Spec => RequestsMet
<1>1. HInv => [~MallocNull]_vars
  BY NeverRefused
<1> QED BY <1>1, Places, PTL DEF RequestsMet

(* ph_free never merges two blocks in the kernel's own sequence of calls:  *)
(* the block before a block given back is always in use.  What its merging *)
(* does to blocks that do not touch is shown by run slot_heap_merge, and   *)
(* needs other callers.                                                    *)
THEOREM KernelNeverMerges ==
  ASSUME Room, MaxPongs <= 7
  PROVE  Spec => [][~FreeMerge]_vars
<1>1. HInv => [~FreeMerge]_vars
  BY NoMergeHere
<1> QED BY <1>1, Places, PTL

=============================================================================
