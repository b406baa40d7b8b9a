---------------------------- MODULE NumberLemmas ----------------------------
(***************************************************************************)
(* Numbers.  A set of them has a least one: of the intervals that end at    *)
(* its numbers one is least, by the well-foundedness of inclusion.          *)
(***************************************************************************)
EXTENDS Naturals, FiniteSetTheorems, WellFoundedInduction, TLAPS

LEMMA LeastExists ==
  ASSUME NEW n \in Nat, NEW S \in SUBSET (1..n), S # {}
  PROVE  \E i \in S : \A j \in S : i <= j
<1> DEFINE T == {1..i : i \in S}
<1>1. T # {} /\ \A i \in S : 1..i \in T
  OBVIOUS
<1>2. \A t \in T : \E i \in S : t = 1..i
  OBVIOUS
<1>3. T \subseteq FiniteSubsetsOf(1..n)
  <2>1. \A i \in S : 1..i \subseteq 1..n /\ IsFiniteSet(1..i)
    BY FS_Interval
  <2> QED  BY <1>2, <2>1 DEF FiniteSubsetsOf
<1> HIDE DEF T
<1>4. PICK x \in T : \A y \in T : <<y, x>> \notin StrictSubsetOrdering(1..n)
  BY <1>1, <1>3, FS_StrictSubsetOrderingWellFounded, WFMin
<1>5. PICK i \in S : x = 1..i
  BY <1>2
<1>6. ASSUME NEW j \in S, j < i PROVE FALSE
  <2>1. 1..j \subseteq 1..i /\ 1..i \subseteq 1..n /\ 1..j # 1..i
    <3>1. i \in 1..i /\ i \notin 1..j
      BY <1>6
    <3> QED  BY <1>6, <3>1
  <2>2. <<1..j, 1..i>> \in StrictSubsetOrdering(1..n)
    BY <2>1 DEF StrictSubsetOrdering
  <2> QED  BY <1>1, <1>4, <1>5, <2>2
<1> QED  BY <1>6

LEMMA GreatestExists ==
  ASSUME NEW n \in Nat, NEW S \in SUBSET (1..n), S # {}
  PROVE  \E i \in S : \A j \in S : j <= i
<1> DEFINE T == {n + 1 - i : i \in S}
<1>1. T \in SUBSET (1..n) /\ T # {} /\ (\A t \in T : \E i \in S : t = n + 1 - i) /\ \A i \in S : n + 1 - i \in T
  <2>1. \A i \in S : n + 1 - i \in 1..n
    OBVIOUS
  <2>2. (\A t \in T : \E i \in S : t = n + 1 - i) /\ \A i \in S : n + 1 - i \in T
    OBVIOUS
  <2> QED  BY <2>1, <2>2
<1> HIDE DEF T
<1>2. PICK t \in T : \A u \in T : t <= u
  BY <1>1, LeastExists
<1>3. PICK i \in S : t = n + 1 - i
  BY <1>1
<1>4. ASSUME NEW j \in S PROVE j <= i
  <2>1. n + 1 - i <= n + 1 - j
    BY <1>1, <1>2, <1>3
  <2> QED  BY <2>1
<1> QED  BY <1>4

\* Induction over the numbers, for what a set can say: the theorems of the library
\* take an operator for the statement.
LEMMA SetInduction ==
  ASSUME NEW S, 0 \in S, \A n \in Nat : n \in S => n + 1 \in S
  PROVE  \A n \in Nat : n \in S
<1> SUFFICES ASSUME NEW n \in Nat, n \notin S PROVE FALSE
  OBVIOUS
<1> DEFINE T == {k \in 1..n : k \notin S}
<1>1. T \in SUBSET (1..n) /\ T # {}
  <2>1. n \in 1..n
    OBVIOUS
  <2> QED  BY <2>1
<1>2. PICK i \in T : \A j \in T : i <= j
  BY <1>1, LeastExists
<1>3. i - 1 \in Nat /\ (i - 1) + 1 = i /\ i - 1 \notin T
  BY <1>2
<1>4. i - 1 \in S
  BY <1>3
<1> QED  BY <1>2, <1>3, <1>4
=============================================================================
