------------------------------ MODULE NatLemmas ------------------------------
(***************************************************************************)
(* Facts about least elements, loops and quotients that the proofs of      *)
(* several components need.                                                *)
(* LeastElement is induction over the naturals in a form without an        *)
(* operator as a parameter: to show that all numbers have a property, take *)
(* the least one that has not.                                             *)
(***************************************************************************)
EXTENDS FiniteSetTheorems, FiniteSetsExt, TLAPS

(* Every non-empty set of natural numbers has a least element.             *)
LEMMA LeastElement ==
  ASSUME NEW S \in SUBSET Nat, S # {}
  PROVE  \E m \in S : \A k \in S : m <= k
<1> DEFINE T == {0..n : n \in S}
<1>1. T \subseteq FiniteSubsetsOf(Nat)
  <2>1. ASSUME NEW n \in S PROVE 0..n \in FiniteSubsetsOf(Nat)
    <3>1. IsFiniteSet(0..n)
      BY FS_Interval
    <3> QED BY <3>1 DEF FiniteSubsetsOf
  <2> QED BY <2>1
<1>2. IsWellFoundedOn(StrictSubsetOrdering(Nat), FiniteSubsetsOf(Nat))
  BY FS_StrictSubsetOrderingWellFounded
<1>3. PICK x \in T : \A y \in T : ~ (<<y, x>> \in StrictSubsetOrdering(Nat))
  <2>1. T # {}
    OBVIOUS
  <2> HIDE DEF T
  <2> QED BY <1>1, <1>2, <2>1, WFMin
<1>4. PICK m \in S : x = 0..m
  OBVIOUS
<1>5. ASSUME NEW k \in S, k < m PROVE FALSE
  <2>1. 0..k \subseteq 0..m /\ 0..k # 0..m
    BY <1>5
  <2>2. <<0..k, 0..m>> \in StrictSubsetOrdering(Nat)
    BY <2>1 DEF StrictSubsetOrdering
  <2> QED BY <1>3, <1>4, <2>2
<1> QED BY <1>5

(* Min of a non-empty set of natural numbers.                              *)
LEMMA MinNat ==
  ASSUME NEW S \in SUBSET Nat, S # {}
  PROVE  Min(S) \in S /\ \A k \in S : Min(S) <= k
BY LeastElement DEF Min

(* Max of a pair, which clamps a number from below.                        *)
LEMMA MaxPair ==
  ASSUME NEW a \in Int, NEW b \in Int
  PROVE  Max({a, b}) = IF a >= b THEN a ELSE b
BY DEF Max

(* step[i][v]: the value at i of a recursion over 0..N from its value v at  *)
(* i - 1.  f is the function that the recursion from v0 defines.           *)
Steps(step, N, V) == step \in [1..N -> [V -> V]]

Recursion(f, N, V, v0, step) ==
  /\ f \in [0..N -> V]
  /\ f[0] = v0
  /\ \A i \in 1..N : f[i] = step[i][f[i - 1]]

(* A recursion over 0..N defines a function.                               *)
LEMMA RecursiveFunction ==
  ASSUME NEW N \in Nat, NEW V, NEW v0 \in V, NEW step, Steps(step, N, V)
  PROVE  \E f : Recursion(f, N, V, v0, step)
<1> DEFINE Upto(n, f) == /\ f[0] = v0
                         /\ \A i \in 1..n : f[i] = step[i][f[i - 1]]
           Bad == {n \in 0..N : ~ \E f \in [0..N -> V] : Upto(n, f)}
<1>0. step \in [1..N -> [V -> V]]
  BY DEF Steps
<1>1. ASSUME NEW n \in 0..N, n \notin Bad
      PROVE  \E f \in [0..N -> V] : Upto(n, f)
  <2> HIDE DEF Upto
  <2> QED BY <1>1
<1>2. CASE N \notin Bad
  BY <1>1, <1>2 DEF Recursion
<1>3. CASE N \in Bad
  <2>1. PICK m \in Bad : \A k \in Bad : m <= k
    <3>1. Bad \in SUBSET Nat
      <4> HIDE DEF Upto
      <4> QED OBVIOUS
    <3> HIDE DEF Bad
    <3> QED BY <1>3, <3>1, LeastElement
  <2>2. m \in 0..N /\ ~ \E f \in [0..N -> V] : Upto(m, f)
    <3> HIDE DEF Upto
    <3> QED OBVIOUS
  <2>3. m # 0
    <3>1. Upto(0, [i \in 0..N |-> v0]) /\ [i \in 0..N |-> v0] \in [0..N -> V]
      OBVIOUS
    <3> HIDE DEF Upto
    <3> QED BY <2>2, <3>1
  <2>4. m - 1 \in 0..N /\ m - 1 \notin Bad
    <3> HIDE DEF Bad
    <3> QED BY <2>1, <2>2, <2>3
  <2>5. PICK f \in [0..N -> V] : Upto(m - 1, f)
    BY <1>1, <2>4
  <2> DEFINE v == step[m][f[m - 1]]
             g == [f EXCEPT ![m] = v]
  <2>6. v \in V
    <3>1. m \in 1..N /\ f[m - 1] \in V
      BY <2>2, <2>3
    <3> QED BY <1>0, <3>1
  <2>7. g \in [0..N -> V] /\ g[m] = v /\ \A i \in 0 .. m - 1 : g[i] = f[i]
    <3> HIDE DEF v
    <3> QED BY <2>2, <2>3, <2>6
  <2>8. Upto(m, g)
    <3> SUFFICES ASSUME NEW i \in 1..m PROVE g[i] = step[i][g[i - 1]]
      BY <2>2, <2>3, <2>5, <2>7
    <3>1. CASE i = m
      BY <2>2, <2>3, <2>7, <3>1
    <3>2. CASE i < m
      BY <2>2, <2>5, <2>7, <3>2
    <3> QED BY <2>2, <3>1, <3>2
  <2> QED BY <2>2, <2>7, <2>8
<1> QED BY <1>2, <1>3

\* Quotient and remainder.
LEMMA Division ==
  ASSUME NEW n \in Nat \ {0}, NEW x \in Nat
  PROVE  /\ x \div n \in Nat /\ x % n \in 0 .. n - 1
         /\ n * (x \div n) <= x /\ x < n * (x \div n) + n
         /\ (x \div n) * n = n * (x \div n)
         /\ x % n = x - n * (x \div n)
OBVIOUS

\* Induction over the rounds.
LEMMA Upward ==
  ASSUME NEW n \in Nat, NEW W, NEW g, g[0] \in W[0],
         \A i \in 1..n : g[i - 1] \in W[i - 1] => g[i] \in W[i]
  PROVE  \A i \in 0..n : g[i] \in W[i]
<1> DEFINE Bad == {i \in 0..n : g[i] \notin W[i]}
<1>1. SUFFICES ASSUME Bad # {} PROVE FALSE
  OBVIOUS
<1>2. PICK m \in Bad : \A k \in Bad : m <= k
  <2>1. Bad \in SUBSET Nat
    OBVIOUS
  <2> HIDE DEF Bad
  <2> QED BY <1>1, <2>1, LeastElement
<1>3. m \in 1..n /\ g[m] \notin W[m]
  OBVIOUS
<1>4. m - 1 \notin Bad
  <2>1. m \in Nat /\ ~ (m <= m - 1)
    BY <1>3
  <2> HIDE DEF Bad
  <2> QED BY <1>2, <2>1
<1>5. g[m - 1] \in W[m - 1]
  BY <1>3, <1>4
<1> QED BY <1>3, <1>5

\* W[i] is a set that holds the state of a loop after i rounds.
Rounds(f, n, st, step) == f = [i \in 0..n |-> IF i = 0 THEN st ELSE step[i][f[i - 1]]]

\* The loop has an execution, and its states are in their sets.
LEMMA LoopRuns ==
  ASSUME NEW n \in Nat, NEW W, NEW st \in W[0], NEW step,
         \A i \in 1..n : \A t \in W[i - 1] : step[i][t] \in W[i]
  PROVE  \E f : Rounds(f, n, st, step) /\ \A i \in 0..n : f[i] \in W[i]
<1> DEFINE V == UNION {W[i] : i \in 0..n}
           safe == [i \in 1..n |-> [t \in V |-> IF t \in W[i - 1] THEN step[i][t] ELSE st]]
<1>1. st \in V
  OBVIOUS
<1>2. Steps(safe, n, V)
  <2>1. ASSUME NEW i \in 1..n, NEW t \in V
        PROVE  (IF t \in W[i - 1] THEN step[i][t] ELSE st) \in V
    <3>1. t \in W[i - 1] => step[i][t] \in W[i]
      OBVIOUS
    <3>2. i \in 0..n
      OBVIOUS
    <3> QED BY <1>1, <3>1, <3>2
  <2> HIDE DEF V
  <2> QED BY <2>1 DEF Steps
<1>3. PICK f : Recursion(f, n, V, st, safe)
  <2> HIDE DEF V, safe
  <2> QED BY <1>1, <1>2, RecursiveFunction
<1>4. /\ f \in [0..n -> V] /\ f[0] = st
      /\ \A i \in 1..n : f[i] = IF f[i - 1] \in W[i - 1] THEN step[i][f[i - 1]] ELSE st
  <2>1. /\ f \in [0..n -> V] /\ f[0] = st
        /\ \A i \in 1..n : f[i] = safe[i][f[i - 1]]
    BY <1>3 DEF Recursion
  <2>2. ASSUME NEW i \in 1..n PROVE f[i - 1] \in V
    <3>1. i - 1 \in 0..n
      OBVIOUS
    <3> HIDE DEF V
    <3> QED BY <2>1, <3>1
  <2> HIDE DEF V
  <2> QED BY <2>1, <2>2
<1>5. \A i \in 0..n : f[i] \in W[i]
  <2>1. \A i \in 1..n : f[i - 1] \in W[i - 1] => f[i] \in W[i]
    BY <1>4
  <2>2. f[0] \in W[0]
    BY <1>4
  <2> QED BY <2>1, <2>2, Upward
<1>6. \A i \in 1..n : f[i] = step[i][f[i - 1]]
  <2>1. ASSUME NEW i \in 1..n PROVE i - 1 \in 0..n
    OBVIOUS
  <2> QED BY <1>4, <1>5, <2>1
<1>7. f = [i \in 0..n |-> IF i = 0 THEN st ELSE step[i][f[i - 1]]]
  <2>1. f = [i \in 0..n |-> f[i]]
    BY <1>4
  <2>2. \A i \in 0..n : f[i] = IF i = 0 THEN st ELSE step[i][f[i - 1]]
    <3>1. ASSUME NEW i \in 0..n, i # 0 PROVE i \in 1..n
      BY <3>1
    <3> HIDE DEF V
    <3> QED BY <1>4, <1>6, <3>1
  <2> HIDE DEF V
  <2> QED BY <2>1, <2>2
<1> QED BY <1>5, <1>7 DEF Rounds
==============================================================================
