---------------------------- MODULE SetInduction ----------------------------
(***************************************************************************)
(* Induction stated with sets.  The principles of NaturalsInduction take   *)
(* a predicate, an operator, as parameter.  Here the predicate is the set  *)
(* of the numbers that have it, which first-order provers can instantiate, *)
(* and the step of a recursive definition is a function.  They rest on the *)
(* strict subsets of a finite set being well-founded.                      *)
(***************************************************************************)
EXTENDS Integers, FiniteSetTheorems, TLAPS

(* Every set of natural numbers has a least one, unless it is empty.       *)
LEMMA LeastNumber ==
    ASSUME NEW T, T \subseteq Nat, T # {}
    PROVE  \E x \in T : \A y \in T : x <= y
<1> DEFINE Segments == { 0..y : y \in T }
<1>1. Segments # {} /\ Segments \subseteq FiniteSubsetsOf(Nat)
  <2>1. \A y \in Nat : IsFiniteSet(0..y) /\ 0..y \subseteq Nat
    BY FS_Interval
  <2> QED
    BY <2>1 DEF FiniteSubsetsOf
<1>2. PICK X \in Segments :
            \A Y \in Segments : ~ <<Y, X>> \in StrictSubsetOrdering(Nat)
  <2> HIDE DEF Segments
  <2> QED
    BY <1>1, WFMin, FS_StrictSubsetOrderingWellFounded
<1>3. PICK x \in T : X = 0..x
  OBVIOUS
<1>4. ASSUME NEW y \in T, y < x
      PROVE  FALSE
  <2>1. 0..y \in Segments /\ X \subseteq Nat /\ 0..y \subseteq Nat
    BY <1>3
  <2>2. 0..y \subseteq X /\ x \in X /\ x \notin 0..y
    BY <1>3, <1>4
  <2>3. <<0..y, X>> \in StrictSubsetOrdering(Nat)
    BY <2>1, <2>2, Zenon DEF StrictSubsetOrdering
  <2> QED
    BY <2>1, <2>3, <1>2
<1> QED
  BY <1>4

(* A set with zero and with the successor of each of its numbers has all.  *)
LEMMA SetOfAllNumbers ==
    ASSUME NEW S, 0 \in S, \A n \in Nat : n \in S => n + 1 \in S
    PROVE  \A n \in Nat : n \in S
<1> SUFFICES ASSUME Nat \ S # {}
             PROVE  FALSE
  OBVIOUS
<1>1. PICK x \in Nat \ S : \A y \in Nat \ S : x <= y
  BY LeastNumber
<1>2. x # 0 /\ x - 1 \in Nat
  BY <1>1
<1>3. x - 1 \in S
  BY <1>1, <1>2
<1> QED
  BY <1>1, <1>2, <1>3

(* The functions that a definition by recursion from 0 to N names: the     *)
(* first value is c, and step n makes G[n][x] of the value x before it.    *)
Recursive(D, c, N, G) ==
    { f \in [0..N -> D] : f[0] = c /\ \A n \in 1..N : f[n] = G[n][f[n - 1]] }

(* There is one.                                                           *)
LEMMA RecursionExists ==
    ASSUME NEW D, NEW c \in D, NEW N \in Nat, NEW G \in [1..N -> [D -> D]]
    PROVE  Recursive(D, c, N, G) # {}
<1> DEFINE Good(k, f) == f[0] = c /\ \A n \in 1..k : f[n] = G[n][f[n - 1]]
           S == { k \in Nat : k <= N => \E f \in [0..k -> D] : Good(k, f) }
<1>1. 0 \in S
  <2>1. [n \in 0..0 |-> c] \in [0..0 -> D] /\ Good(0, [n \in 0..0 |-> c])
    OBVIOUS
  <2> HIDE DEF Good
  <2> QED
    BY <2>1
<1>2. ASSUME NEW k \in Nat, k \in S
      PROVE  k + 1 \in S
  <2> SUFFICES ASSUME k + 1 <= N
               PROVE  \E f \in [0..(k + 1) -> D] : Good(k + 1, f)
    OBVIOUS
  <2>1. PICK f \in [0..k -> D] : Good(k, f)
    BY <1>2
  <2> DEFINE last == G[k + 1][f[k]]
             g == [n \in 0..(k + 1) |-> IF n = k + 1 THEN last ELSE f[n]]
  <2>2. last \in D
    BY <2>1
  <2>3. g \in [0..(k + 1) -> D]
    BY <2>2
  <2>4. \A n \in 0..k : g[n] = f[n]
    OBVIOUS
  <2>5. g[k + 1] = last
    OBVIOUS
  <2> HIDE DEF g
  <2>6. \A n \in 1..(k + 1) : g[n] = G[n][g[n - 1]]
    <3> SUFFICES ASSUME NEW n \in 1..(k + 1)
                 PROVE  g[n] = G[n][g[n - 1]]
      OBVIOUS
    <3>1. n - 1 \in 0..k /\ g[n - 1] = f[n - 1]
      BY <2>4
    <3>2. CASE n = k + 1
      BY <3>1, <3>2, <2>5
    <3>3. CASE n \in 1..k
      BY <3>1, <3>3, <2>1, <2>4
    <3> QED
      BY <3>2, <3>3
  <2>7. Good(k + 1, g)
    BY <2>1, <2>4, <2>6
  <2> HIDE DEF Good
  <2> QED
    BY <2>3, <2>7
<1> HIDE DEF Good
<1>3. N \in S
  <2> HIDE DEF S
  <2> QED
    BY <1>1, <1>2, SetOfAllNumbers
<1> QED
  BY <1>3 DEF Good, Recursive

(* A function that is defined so is one of them, and what each step keeps  *)
(* is so in the end: X[n] are the values that are as they should after n.  *)
LEMMA RecursionTyped ==
    ASSUME NEW D, NEW c \in D, NEW N \in Nat, NEW G \in [1..N -> [D -> D]],
           NEW f, f = [n \in 0..N |-> f[n]], f[0] = c,
           \A n \in 1..N : f[n - 1] \in D => f[n] = G[n][f[n - 1]]
    PROVE  f \in Recursive(D, c, N, G)
<1> DEFINE S == { n \in Nat : n <= N => f[n] \in D }
<1>1. 0 \in S
  OBVIOUS
<1>2. ASSUME NEW n \in Nat, n \in S
      PROVE  n + 1 \in S
  <2> SUFFICES ASSUME n + 1 <= N
               PROVE  f[n + 1] \in D
    OBVIOUS
  <2>1. n + 1 \in 1..N /\ (n + 1) - 1 = n /\ f[n] \in D
    BY <1>2
  <2>2. f[n + 1] = G[n + 1][f[n]]
    BY <2>1
  <2> QED
    BY <2>1, <2>2
<1>3. \A n \in Nat : n \in S
  <2> HIDE DEF S
  <2> QED
    BY <1>1, <1>2, SetOfAllNumbers
<1>4. \A n \in 0..N : f[n] \in D
  BY <1>3
<1>5. f \in [0..N -> D]
  BY <1>4
<1>6. \A n \in 1..N : n - 1 \in 0..N
  OBVIOUS
<1>7. \A n \in 1..N : f[n] = G[n][f[n - 1]]
  BY <1>4, <1>6
<1> QED
  BY <1>5, <1>7 DEF Recursive

LEMMA RecursionKeeps ==
    ASSUME NEW D, NEW c \in D, NEW N \in Nat, NEW G, NEW f \in Recursive(D, c, N, G),
           NEW X, c \in X[0],
           \A n \in 1..N : \A x \in D : x \in X[n - 1] => G[n][x] \in X[n]
    PROVE  f[N] \in D /\ f[N] \in X[N]
<1>0. f \in [0..N -> D] /\ f[0] = c /\ \A n \in 1..N : f[n] = G[n][f[n - 1]]
  BY DEF Recursive
<1> DEFINE S == { n \in Nat : n <= N => f[n] \in D /\ f[n] \in X[n] }
<1>1. 0 \in S
  BY <1>0
<1>2. ASSUME NEW n \in Nat, n \in S
      PROVE  n + 1 \in S
  <2> SUFFICES ASSUME n + 1 <= N
               PROVE  f[n + 1] \in D /\ f[n + 1] \in X[n + 1]
    OBVIOUS
  <2>1. n + 1 \in 1..N /\ n + 1 \in 0..N /\ (n + 1) - 1 = n /\ f[n] \in D /\ f[n] \in X[n]
    BY <1>2
  <2>2. G[n + 1][f[n]] \in X[n + 1]
    BY <2>1
  <2> QED
    BY <2>1, <2>2, <1>0
<1>3. N \in S
  <2> HIDE DEF S
  <2> QED
    BY <1>1, <1>2, SetOfAllNumbers
<1> QED
  BY <1>3

(* Steps from subsets of B to subsets of B, those that only add to a set,  *)
(* those that stay within X, and the sequences of sets that N steps make.  *)
GrowingSteps(B) == { G \in [SUBSET B -> SUBSET B] : \A r \in SUBSET B : r \subseteq G[r] }

StepsWithin(B, X) ==
    { G \in [SUBSET B -> SUBSET B] : \A r \in SUBSET B : r \subseteq X => G[r] \subseteq X }

Iterations(B, c, N, G) ==
    { f \in [0..N -> SUBSET B] : f[0] = c /\ \A n \in 1..N : f[n] = G[f[n - 1]] }

(* Subsets of a finite set B that only grow have grown as far as they can  *)
(* after as many steps as B has elements.                                  *)
LEMMA GrowingStops ==
    ASSUME NEW B, IsFiniteSet(B), NEW N \in Nat, Cardinality(B) <= N, NEW c,
           NEW G \in GrowingSteps(B), NEW f \in Iterations(B, c, N, G)
    PROVE  c \subseteq f[N] /\ G[f[N]] = f[N]
<1>0. /\ G \in [SUBSET B -> SUBSET B] /\ \A r \in SUBSET B : r \subseteq G[r]
      /\ f \in [0..N -> SUBSET B] /\ \A n \in 1..N : f[n] = G[f[n - 1]]
      /\ f[0] = c
  BY DEF GrowingSteps, Iterations
<1>1. ASSUME NEW n \in Nat, n + 1 <= N
      PROVE  n \in 0..N /\ n + 1 \in 0..N /\ f[n + 1] = G[f[n]]
  <2>1. n + 1 \in 1..N /\ (n + 1) - 1 = n
    BY <1>1
  <2> QED
    BY <2>1, <1>0
<1>2. \A n \in 0..N : f[n] \in SUBSET B
  BY <1>0
<1>3. \A r \in SUBSET B : IsFiniteSet(r) /\ Cardinality(r) \in Nat
  BY FS_Subset, FS_CardinalityType
<1> DEFINE S == { n \in Nat : n <= N =>
                     f[0] \subseteq f[n] /\ (G[f[n]] = f[n] \/ Cardinality(f[n]) >= n) }
<1>4. 0 \in S
  BY <1>2, <1>3
<1>5. ASSUME NEW n \in Nat, n \in S
      PROVE  n + 1 \in S
  <2> SUFFICES ASSUME n + 1 <= N
               PROVE  /\ f[0] \subseteq f[n + 1]
                      /\ (G[f[n + 1]] = f[n + 1] \/ Cardinality(f[n + 1]) >= n + 1)
    BY DEF S
  <2>1. /\ f[n] \in SUBSET B /\ f[n + 1] \in SUBSET B /\ f[n + 1] = G[f[n]]
        /\ f[0] \subseteq f[n] /\ (G[f[n]] = f[n] \/ Cardinality(f[n]) >= n)
    BY <1>1, <1>2, <1>5
  <2>2. f[n] \subseteq f[n + 1]
    BY <2>1, <1>0
  <2>3. CASE f[n + 1] = f[n]
    BY <2>1, <2>3
  <2>4. CASE f[n + 1] # f[n]
    <3>1. Cardinality(f[n]) < Cardinality(f[n + 1])
      BY <2>1, <2>2, <2>4, <1>3, FS_Subset
    <3>2. Cardinality(f[n]) >= n
      BY <2>1, <2>4
    <3>3. Cardinality(f[n + 1]) >= n + 1
      BY <3>1, <3>2, <2>1, <1>3
    <3> QED
      BY <3>3, <2>1, <2>2
  <2> QED
    BY <2>3, <2>4
<1> HIDE DEF S
<1>6. N \in S
  BY <1>4, <1>5, SetOfAllNumbers
<1>7. f[N] \in SUBSET B /\ f[0] \subseteq f[N]
  BY <1>2, <1>6 DEF S
<1>8. CASE Cardinality(f[N]) >= N
  <2>1. Cardinality(f[N]) = Cardinality(B)
    BY <1>3, <1>7, <1>8, FS_Subset, FS_CardinalityType
  <2>2. f[N] = B
    BY <1>7, <2>1, FS_Subset
  <2> QED
    BY <1>0, <1>7, <2>2
<1> QED
  BY <1>0, <1>6, <1>7, <1>8 DEF S

(* What holds all that such steps add to what it holds has all of them.    *)
LEMMA GrowingStays ==
    ASSUME NEW B, NEW N \in Nat, NEW X, NEW c, c \subseteq X,
           NEW G \in StepsWithin(B, X), NEW f \in Iterations(B, c, N, G)
    PROVE  f[N] \subseteq X
<1>0. /\ G \in [SUBSET B -> SUBSET B] /\ \A r \in SUBSET B : r \subseteq X => G[r] \subseteq X
      /\ f \in [0..N -> SUBSET B] /\ \A n \in 1..N : f[n] = G[f[n - 1]]
      /\ f[0] \subseteq X
  BY DEF StepsWithin, Iterations
<1> DEFINE S == { n \in Nat : n <= N => f[n] \subseteq X }
<1>1. 0 \in S
  BY <1>0
<1>2. ASSUME NEW n \in Nat, n \in S
      PROVE  n + 1 \in S
  <2> SUFFICES ASSUME n + 1 <= N
               PROVE  f[n + 1] \subseteq X
    OBVIOUS
  <2>1. n + 1 \in 1..N /\ (n + 1) - 1 = n /\ f[n] \subseteq X /\ n \in 0..N
    BY <1>2
  <2>2. f[n + 1] = G[f[n]] /\ f[n] \in SUBSET B
    BY <2>1, <1>0
  <2> QED
    BY <2>1, <2>2, <1>0
<1> HIDE DEF S
<1>3. N \in S
  BY <1>1, <1>2, SetOfAllNumbers
<1> QED
  BY <1>3 DEF S
=============================================================================
