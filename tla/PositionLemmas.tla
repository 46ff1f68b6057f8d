---------------------------- MODULE PositionLemmas ----------------------------
(***************************************************************************)
(* A set of positions of a list has a first and a last one: what the       *)
(* proofs know of the Min and Max of the community modules, and of the     *)
(* CHOOSE of a latest entry.                                               *)
(***************************************************************************)
EXTENDS Integers, WellFoundedInduction, TLAPS

\* The numbers have no infinite descent.
LEMMA NatLeast ==
  ASSUME NEW T \in SUBSET Nat, T # {}
  PROVE  \E x \in T : \A y \in T : x <= y
<1> DEFINE R == {pair \in Nat \X Nat : pair[1] < pair[2]}
<1>1. IsWellFoundedOn(R, Nat)
  BY NatLessThanWellFounded DEF OpToRel
<1>2. \A a, b \in Nat : a < b => <<a, b>> \in R
  OBVIOUS
<1> HIDE DEF R
<1>3. PICK x \in T : \A y \in T : ~ (<<y, x>> \in R)
  BY <1>1, WFMin
<1>4. ASSUME NEW y \in T PROVE x <= y
  <2>1. x \in Nat /\ y \in Nat /\ ~ (<<y, x>> \in R)
    BY <1>3
  <2>2. ~ (y < x)
    BY <1>2, <2>1
  <2> QED
    BY <2>1, <2>2
<1> QED
  BY <1>4

\* The last of a set of positions is the one of least distance to the end.
LEMMA Greatest ==
  ASSUME NEW n \in Nat, NEW S \in SUBSET (0..n), S # {}
  PROVE  \E x \in S : \A y \in S : y <= x
<1> DEFINE T == {k \in Nat : \E y \in S : k = n - y}
<1>1. \A y \in S : n - y \in T
  OBVIOUS
<1>2. PICK x \in T : \A y \in T : x <= y
  <2>1. T \in SUBSET Nat /\ T # {}
    BY <1>1
  <2> HIDE DEF T
  <2> QED
    BY <2>1, NatLeast
<1>3. PICK m \in S : x = n - m
  BY <1>2
<1>4. \A y \in S : n - m <= n - y
  BY <1>1, <1>2, <1>3
<1>5. m \in Int /\ \A y \in S : y \in Int
  OBVIOUS
<1>6. \A y \in S : y <= m
  BY <1>4, <1>5
<1> QED
  BY <1>6

===============================================================================
