----------------------------- MODULE Recursion -----------------------------
(***************************************************************************)
(* Induction over the natural numbers and the existence of functions that  *)
(* are defined by recursion, stated without operators as parameters: every *)
(* nonempty set of natural numbers has a least element.                    *)
(***************************************************************************)
EXTENDS Integers, WellFoundedInduction, TLAPS

(* A nonempty set of natural numbers has a least element.                  *)
LEMMA LeastElement ==
  ASSUME NEW S \in SUBSET Nat, S # {}
  PROVE  \E n \in S : \A m \in S : n <= m
<1> DEFINE less == OpToRel(<, Nat)
<1>1. IsWellFoundedOn(less, Nat)
  BY NatLessThanWellFounded
<1>2. PICK n \in S : \A m \in S : ~(<<m, n>> \in less)
  <2> HIDE DEF less
  <2> QED
    BY <1>1, WFMin
<1>3. ASSUME NEW m \in S, m < n PROVE FALSE
  <2>1. <<m, n>> \in less
    BY <1>3 DEF OpToRel
  <2> QED
    BY <2>1, <1>2
<1> QED
  BY <1>3

(* A set with 0 and the successor of each of its numbers has all of them.  *)
LEMMA InductionOverNat ==
  ASSUME NEW S, 0 \in S, \A n \in Nat : n \in S => n + 1 \in S
  PROVE  Nat \subseteq S
<1> SUFFICES ASSUME Nat \ S # {} PROVE FALSE
  OBVIOUS
<1>1. PICK n \in Nat \ S : \A m \in Nat \ S : n <= m
  BY LeastElement
<1>2. n # 0
  OBVIOUS
<1>3. n - 1 \in Nat /\ n - 1 \in S
  BY <1>1, <1>2
<1> QED
  BY <1>3, <1>1

\* g is the sequence of integers that starts with `first', each of the others
\* made from its place and the one before it.
Iterates(g, first, step) ==
  g \in [Nat -> Int] /\ g[0] = first /\ \A n \in Nat : g[n + 1] = step[<<n, g[n]>>]

(* Every first number and every step have such a sequence.                 *)
LEMMA IterationExists ==
  ASSUME NEW first \in Int, NEW step \in [Nat \X Int -> Int]
  PROVE  \E g : Iterates(g, first, step)
<1> DEFINE Begins(h, n) == /\ h \in [0 .. n -> Int] /\ h[0] = first
                           /\ \A m \in Nat : m < n => h[m + 1] = step[<<m, h[m]>>]
           begun == {n \in Nat : \E h : Begins(h, n)}
<1>1. 0 \in begun
  <2>1. Begins([i \in 0 .. 0 |-> first], 0)
    OBVIOUS
  <2> QED
    BY <2>1
<1>2. ASSUME NEW n \in Nat, n \in begun PROVE n + 1 \in begun
  <2>1. PICK h : Begins(h, n)
    BY <1>2
  <2> DEFINE k == [i \in 0 .. n + 1 |-> IF i = n + 1 THEN step[<<n, h[n]>>] ELSE h[i]]
  <2>2. h[n] \in Int /\ step[<<n, h[n]>>] \in Int
    BY <2>1
  <2>3. k \in [0 .. n + 1 -> Int]
    BY <2>1, <2>2
  <2>4. k[0] = first
    BY <2>1
  <2>5. ASSUME NEW m \in Nat, m < n + 1 PROVE k[m + 1] = step[<<m, k[m]>>]
    <3>1. CASE m = n
      <4>1. k[n + 1] = step[<<n, h[n]>>] /\ k[n] = h[n]
        OBVIOUS
      <4> QED
        BY <3>1, <4>1
    <3>2. CASE m < n
      <4>1. h[m + 1] = step[<<m, h[m]>>]
        BY <2>1, <3>2
      <4>2. k[m + 1] = h[m + 1] /\ k[m] = h[m]
        BY <3>2
      <4> QED
        BY <4>1, <4>2
    <3> QED
      BY <2>5, <3>1, <3>2
  <2>6. Begins(k, n + 1)
    BY <2>3, <2>4, <2>5
  <2> HIDE DEF k
  <2> QED
    BY <2>6
<1>3. Nat \subseteq begun
  <2> HIDE DEF begun
  <2> QED
    BY <1>1, <1>2, InductionOverNat
<1>4. ASSUME NEW n \in Nat, NEW m \in Nat, n <= m, NEW g, NEW h, Begins(g, n), Begins(h, m)
      PROVE  g[n] = h[n]
  <2> DEFINE same == {i \in Nat : i <= n => g[i] = h[i]}
  <2>1. 0 \in same
    BY <1>4
  <2>2. ASSUME NEW i \in Nat, i \in same PROVE i + 1 \in same
    <3>1. CASE i < n
      <4>1. g[i] = h[i]
        BY <2>2, <3>1
      <4>2. g[i + 1] = step[<<i, g[i]>>] /\ h[i + 1] = step[<<i, h[i]>>]
        BY <1>4, <3>1
      <4> QED
        BY <4>1, <4>2
    <3> QED
      BY <3>1
  <2>3. Nat \subseteq same
    <3> HIDE DEF same
    <3> QED
      BY <2>1, <2>2, InductionOverNat
  <2> QED
    BY <2>3
<1> DEFINE beginning(n) == CHOOSE h : Begins(h, n)
           g == [n \in Nat |-> beginning(n)[n]]
<1>5. ASSUME NEW n \in Nat PROVE Begins(beginning(n), n)
  <2>1. \E h : Begins(h, n)
    BY <1>3
  <2> QED
    BY <2>1
<1> HIDE DEF Begins, beginning
<1>6. g \in [Nat -> Int]
  BY <1>5 DEF Begins
<1>7. g[0] = first
  BY <1>5 DEF Begins
<1>8. ASSUME NEW n \in Nat PROVE g[n + 1] = step[<<n, g[n]>>]
  <2>1. beginning(n + 1)[n + 1] = step[<<n, beginning(n + 1)[n]>>]
    BY <1>5 DEF Begins
  <2>2. beginning(n)[n] = beginning(n + 1)[n]
    BY <1>4, <1>5
  <2> QED
    BY <2>1, <2>2
<1> HIDE DEF g
<1>9. Iterates(g, first, step)
  BY <1>6, <1>7, <1>8 DEF Iterates
<1> QED
  BY <1>9
=============================================================================
