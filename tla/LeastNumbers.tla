----------------------------- MODULE LeastNumbers -----------------------------
(***************************************************************************)
(* A set of numbers has a least one, which is what Min chooses: the cells  *)
(* at which a command line may end, and the places of a free list.         *)
(***************************************************************************)
EXTENDS Integers, FiniteSetsExt, WellFoundedInduction, TLAPS

NatLess == OpToRel(<, Nat)

(* Min of a set of naturals: WFMin of the library gives the least one.     *)
LEMMA LeastNumber ==
  ASSUME NEW T, T \subseteq Nat, T # {}
  PROVE  Min(T) \in T /\ \A y \in T : Min(T) <= y
<1>1. \E x \in T : \A y \in T : ~ (<<y, x>> \in NatLess)
  BY NatLessThanWellFounded, WFMin DEF NatLess
<1>2. \A x, y \in Nat : y < x => <<y, x>> \in NatLess
  BY DEF OpToRel, NatLess
<1>3. PICK x \in T : \A y \in T : ~ (<<y, x>> \in NatLess)
  BY <1>1
<1>4. ASSUME NEW y \in T PROVE x <= y
  <2>1. ~ (y < x)
    BY <1>2, <1>3
  <2> QED BY <2>1
<1> QED BY <1>4 DEF Min
=============================================================================
