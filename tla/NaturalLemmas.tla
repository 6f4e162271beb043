---------------------------- MODULE NaturalLemmas ----------------------------
(***************************************************************************)
(* The least element of a set of natural numbers, from which the proofs of *)
(* PoW and DEIChain draw their inductions over data.                       *)
(***************************************************************************)
EXTENDS Integers, TLAPS, WellFoundedInduction

(* A set of natural numbers that is not empty has a least element.         *)
LEMMA LeastNatural ==
  ASSUME NEW T, T \subseteq Nat, T # {}
  PROVE  \E z \in T : \A i \in T : z <= i
<1> DEFINE Less == {p \in Nat \X Nat : p[1] < p[2]}
<1>1. IsWellFoundedOn(Less, Nat)
  BY NatLessThanWellFounded, Zenon DEF OpToRel
<1>2. PICK z \in T : \A i \in T : <<i, z>> \notin Less
  <2> HIDE DEF Less
  <2>1. QED
    BY <1>1, WFMin, Zenon
<1>3. ASSUME NEW i \in T PROVE z <= i
  <2>1. <<i, z>> \in Less <=> i < z
    OBVIOUS
  <2>2. QED
    BY <1>2, <2>1
<1>4. QED
  BY <1>3
=============================================================================
