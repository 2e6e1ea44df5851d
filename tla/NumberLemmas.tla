---------------------------- MODULE NumberLemmas ----------------------------
(***************************************************************************)
(* Facts about the natural numbers that several proofs need: division with *)
(* remainder, products, and induction.  Induction is stated for a set, the *)
(* form in which the provers can use it; it comes from the least element   *)
(* of a set of natural numbers, and so from their order being well-founded.*)
(***************************************************************************)
EXTENDS Integers, WellFoundedInduction, TLAPS

-----------------------------------------------------------------------------
(* Division *)

LEMMA DivisionTheorem ==
  ASSUME NEW a \in Nat, NEW b \in Nat \ {0}
  PROVE  /\ a \div b \in Nat /\ a % b \in 0 .. b - 1
         /\ a = (a \div b) * b + (a % b)
OBVIOUS

LEMMA Uniqueness ==
  ASSUME NEW q \in Nat, NEW r \in Nat, NEW s \in Nat, NEW u \in Nat,
         NEW b \in Nat, r < b, u < b, q * b + r = s * b + u
  PROVE  q = s /\ r = u
<1>1. CASE q < s
  <2>1. PICK k \in Nat : s = q + 1 + k
    BY <1>1
  <2>2. s * b = q * b + b + k * b /\ k * b >= 0
    BY <2>1
  <2> QED
    BY <2>2
<1>2. CASE s < q
  <2>1. PICK k \in Nat : q = s + 1 + k
    BY <1>2
  <2>2. q * b = s * b + b + k * b /\ k * b >= 0
    BY <2>1
  <2> QED
    BY <2>2
<1> QED
  BY <1>1, <1>2

LEMMA Division ==
  ASSUME NEW q \in Nat, NEW r \in Nat, NEW b \in Nat, r < b
  PROVE  (q * b + r) \div b = q /\ (q * b + r) % b = r
<1>1. b \in Nat \ {0} /\ q * b + r \in Nat
  OBVIOUS
<1> DEFINE a == q * b + r
<1>2. /\ a \div b \in Nat /\ a % b \in 0 .. b - 1
      /\ a = (a \div b) * b + (a % b)
  BY <1>1, DivisionTheorem
<1> QED
  BY <1>1, <1>2, Uniqueness

\* Multiples in order.
LEMMA Multiples ==
  ASSUME NEW a \in Nat, NEW b \in Nat, NEW m \in Nat, a < b
  PROVE  a * m + m <= b * m
<1>1. PICK k \in Nat : b = a + 1 + k
  OBVIOUS
<1>2. b * m = a * m + m + k * m /\ k * m >= 0
  BY <1>1
<1> QED
  BY <1>2

-----------------------------------------------------------------------------
(* Induction *)

LEMMA LeastNumber ==
  ASSUME NEW T \in SUBSET Nat, T # {}
  PROVE  \E m \in T : \A k \in T : m <= k
<1> DEFINE R == {p \in Nat \X Nat : p[1] < p[2]}
<1>1. IsWellFoundedOn(R, Nat)
  BY NatLessThanWellFounded, Zenon DEF OpToRel
<1>2. \A x, y \in Nat : <<y, x>> \in R <=> y < x
  OBVIOUS
<1> HIDE DEF R
<1>3. PICK m \in T : \A y \in T : ~ (<<y, m>> \in R)
  BY <1>1, WFMin, Zenon
<1>4. \A y \in T : ~ (y < m)
  BY <1>2, <1>3
<1> QED
  BY <1>4

LEMMA Induction ==
  ASSUME NEW S, 0 \in S, \A n \in Nat : n \in S => n + 1 \in S
  PROVE  Nat \subseteq S
<1> SUFFICES ASSUME Nat \ S # {} PROVE FALSE
  OBVIOUS
<1>1. PICK m \in Nat \ S : \A k \in Nat \ S : m <= k
  BY LeastNumber
<1>2. m # 0 /\ m - 1 \in Nat /\ m - 1 \in S
  BY <1>1
<1> QED
  BY <1>1, <1>2
=============================================================================
