----------------------------- MODULE NumberFacts -----------------------------
(***************************************************************************)
(* Facts about numbers that the proofs of several modules need: a set that *)
(* is not empty has a least element, induction, and that a definition by   *)
(* recursion has a solution.  All are stated of sets and functions, from   *)
(* the well-foundedness of the order on Nat.                               *)
(***************************************************************************)
EXTENDS Integers, WellFoundedInduction, TLAPS

Below == {p \in Nat \X Nat : p[1] < p[2]}

LEMMA BelowIsWellFounded == IsWellFoundedOn(Below, Nat)
  BY NatLessThanWellFounded DEF OpToRel, Below

\* A non-empty set of numbers has a least one.
LEMMA LeastNumber ==
  ASSUME NEW S, S \subseteq Nat, S # {}
  PROVE  \E i \in S : \A j \in S : i <= j
<1>1. PICK i \in S : \A j \in S : ~(<<j, i>> \in Below)
  BY BelowIsWellFounded, WFMin
<1>2. ASSUME NEW j \in S
      PROVE  i <= j
  <2>1. ~(<<j, i>> \in Below) /\ i \in Nat /\ j \in Nat
    BY <1>1
  <2> QED
    BY <2>1 DEF Below
<1> QED
  BY <1>2

\* A set that has 0, and with each number the next one, has all of them.
LEMMA Induction ==
  ASSUME NEW S, 0 \in S, \A n \in Nat : n \in S => n + 1 \in S
  PROVE  Nat \subseteq S
<1> DEFINE T == Nat \ S
<1> SUFFICES ASSUME T # {}
             PROVE  FALSE
  OBVIOUS
<1>1. T \subseteq Nat
  OBVIOUS
<1>2. PICK i \in T : \A j \in T : i <= j
  BY <1>1, LeastNumber
<1>3. i # 0 /\ i \in Nat
  BY <1>2
<1>4. i - 1 \in Nat /\ ~(i <= i - 1) /\ (i - 1) + 1 = i
  BY <1>3
<1>5. i - 1 \in S
  BY <1>2, <1>4
<1> QED
  BY <1>2, <1>4, <1>5

\* g goes from base through 0..n by the functions F[k].
Solution(g, n, V, base, F) ==
  g \in [0..n -> V] /\ g[0] = base /\ \A k \in 1..n : g[k] = F[k][g[k - 1]]

\* A recursive definition over 0..n that stays in V has a solution.
LEMMA Recursion ==
  ASSUME NEW n \in Nat, NEW V, NEW base \in V, NEW F \in [1..n -> [V -> V]]
  PROVE  \E g : Solution(g, n, V, base, F)
<1> DEFINE Solves(g, m) == /\ g \in [0..m -> V] /\ g[0] = base
                           /\ \A k \in 1..m : g[k] = F[k][g[k - 1]]
           S == {m \in Nat : m <= n => \E g : Solves(g, m)}
<1>1. 0 \in S
  <2>1. Solves([k \in 0..0 |-> base], 0)
    OBVIOUS
  <2> QED
    BY <2>1
<1>2. ASSUME NEW m \in S
      PROVE  m + 1 \in S
  <2>1. CASE m + 1 <= n
    <3>1. PICK p : Solves(p, m)
      BY <2>1
    <3> DEFINE h == [k \in 0..m + 1 |-> IF k = m + 1 THEN F[m + 1][p[m]] ELSE p[k]]
    <3>2. F[m + 1] \in [V -> V] /\ p[m] \in V
      BY <2>1, <3>1
    <3>3. h \in [0..m + 1 -> V] /\ h[0] = base
      BY <3>1, <3>2
    <3>4. ASSUME NEW k \in 1..m + 1
          PROVE  h[k] = F[k][h[k - 1]]
      <4>1. CASE k = m + 1
        BY <4>1
      <4>2. CASE k # m + 1
        <5>1. k \in 1..m /\ k - 1 \in 0..m /\ k \in 0..m
          BY <4>2
        <5> QED
          BY <3>1, <4>2, <5>1
      <4> QED
        BY <4>1, <4>2
    <3>5. Solves(h, m + 1)
      BY <3>3, <3>4
    <3> HIDE DEF h, Solves
    <3>6. \E g : Solves(g, m + 1)
      BY <3>5
    <3> QED
      BY <2>1, <3>6
  <2>2. CASE ~(m + 1 <= n)
    BY <2>2
  <2> QED
    BY <2>1, <2>2
<1> HIDE DEF S
<1>3. Nat \subseteq S
  BY <1>1, <1>2, Induction
<1> QED
  BY <1>3 DEF S, Solution
=============================================================================
