----------------------------- MODULE SetInduction -----------------------------
(***************************************************************************)
(* Induction over the natural numbers for a set instead of a predicate:    *)
(* the form in which the proofs about recursive functions use it.          *)
(***************************************************************************)
EXTENDS Integers, TLAPS, WellFoundedInduction

\* Every nonempty set of natural numbers has a least element (used for the levels of a
\* module's tables, OrpheusModule.cs).
LEMMA LeastElement ==
  ASSUME NEW S, S \subseteq Nat, S # {}
  PROVE  \E n \in S : \A m \in S : n <= m
<1> DEFINE Below == OpToRel(<, Nat)
<1>1. IsWellFoundedOn(Below, Nat)
  BY NatLessThanWellFounded
<1>2. \A n, m \in Nat : m < n => <<m, n>> \in Below
  BY DEF OpToRel
<1> HIDE DEF Below
<1>3. PICK n \in S : \A m \in S : <<m, n>> \notin Below
  BY <1>1, WFMin
<1>4. ASSUME NEW m \in S PROVE n <= m
  <2>1. n \in Nat /\ m \in Nat
    OBVIOUS
  <2>2. ~(m < n)
    BY <1>2, <1>3, <2>1
  <2>3. QED BY <2>1, <2>2
<1>5. QED BY <1>4

\* A set that has 0 and every successor of its numbers has all natural numbers.
LEMMA NatSetInduction ==
  ASSUME NEW S, 0 \in S, \A n \in Nat : n \in S => n + 1 \in S
  PROVE  \A n \in Nat : n \in S
<1> SUFFICES ASSUME Nat \ S # {} PROVE FALSE
  OBVIOUS
<1>1. PICK n \in Nat \ S : \A m \in Nat \ S : n <= m
  BY LeastElement
<1>2. n # 0 /\ n - 1 \in Nat /\ n - 1 \in S
  BY <1>1
<1>3. QED BY <1>1, <1>2
===============================================================================
