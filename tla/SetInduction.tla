---------------------------- MODULE SetInduction ----------------------------
(***************************************************************************)
(* Induction over the natural numbers, stated with sets: the theorems of   *)
(* the library take the predicate as an operator, which the SMT solver     *)
(* cannot instantiate.  A set of naturals it can.  Whatever is proved here *)
(* of recursive functions rests on these two facts.                        *)
(***************************************************************************)
EXTENDS Naturals, WellFoundedInduction, TLAPS

\* A set of naturals that is not empty has a least element.
LEMMA LeastElement ==
    ASSUME NEW T \in SUBSET Nat, T # {}
    PROVE  \E x \in T : \A y \in T : x <= y
<1>1. IsWellFoundedOn({ss \in Nat \X Nat : ss[1] < ss[2]}, Nat)
  BY NatLessThanWellFounded DEF OpToRel
<1> DEFINE R == {ss \in Nat \X Nat : ss[1] < ss[2]}
<1>2. \A x, y \in Nat : x < y => <<x, y>> \in R
  OBVIOUS
<1> HIDE DEF R
<1>3. IsWellFoundedOn(R, Nat)
  BY <1>1 DEF R
<1>4. PICK x \in T : \A y \in T : ~ (<<y, x>> \in R)
  BY <1>3, WFMin
<1>5. \A y \in T : y \in Nat
  OBVIOUS
<1>6. \A y \in T : ~ (y < x)
  BY <1>2, <1>4, <1>5
<1> QED  BY <1>5, <1>6

\* A set that has zero and the successor of everything in it has every natural.
LEMMA SetInduction ==
    ASSUME NEW T \in SUBSET Nat, 0 \in T, \A n \in T : n + 1 \in T
    PROVE  \A n \in Nat : n \in T
<1> DEFINE Missing == Nat \ T
<1> SUFFICES ASSUME Missing # {} PROVE FALSE
  OBVIOUS
<1>1. Missing \in SUBSET Nat
  OBVIOUS
<1>2. \E x \in Missing : \A y \in Missing : x <= y
  BY <1>1, LeastElement
<1>3. PICK x \in Missing : \A y \in Missing : x <= y
  BY <1>2
<1>4. x # 0 /\ x - 1 \in Nat /\ x - 1 \notin Missing
  BY <1>3
<1> QED  BY <1>4
=============================================================================
