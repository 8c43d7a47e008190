---------------------------- MODULE AddressProofs ----------------------------
(***************************************************************************)
(* Facts about sizes, ranks, section addresses and encodings, for every    *)
(* MiddleGroupLog2 and every size.                                         *)
(*                                                                         *)
(* What they lead to is that a section is cut up without gap or overlap:   *)
(* what SwitchBit computes for the switches of one node lies in the node's *)
(* cells, one per packet; the cells of a cluster are the intervals between *)
(* neighbouring prefixes, and make up all the bits the cluster has; and    *)
(* the Region of a node, its part of the cluster and all that follows it   *)
(* for the clusters below, is the disjoint union of its own bits and the   *)
(* Regions of its children (FitsSplits).  At the leaves a Region is the    *)
(* run of bits of the rank, or nothing.                                    *)
(*                                                                         *)
(* The kernels' own sum comes to the same bits: LoopIs is kept by a turn   *)
(* of their loop.  The calls of an encoding have parts of a section that   *)
(* are disjoint, so a bit of the file is that of the call it belongs to.   *)
(*                                                                         *)
(* The definitions by recursion are functions, and what they compute is    *)
(* shown from their equations: the set of sizes for which a statement      *)
(* holds has 0, and with a number the next one.                            *)
(***************************************************************************)
EXTENDS Encoding, DeviceAddress, FiniteSetTheorems, WellFoundedInduction, TLAPS

-----------------------------------------------------------------------------
(* Numbers, and functions that are given by a first value and a step.  An    *)
(* induction over the naturals is over the set of those of which something   *)
(* holds: of the others one would be the smallest.                           *)

LEMMA Induction ==
  ASSUME NEW S, 0 \in S, \A k \in Nat : k \in S => k + 1 \in S
  PROVE  Nat \subseteq S
<1> SUFFICES ASSUME Nat \ S # {} PROVE FALSE
  OBVIOUS
<1>1. Nat \ S \in SUBSET Nat
  OBVIOUS
<1>2. PICK k \in Nat \ S : \A j \in Nat \ S : ~(<<j, k>> \in OpToRel(<, Nat))
  BY <1>1, NatLessThanWellFounded, WFMin
<1>3. \A j \in Nat : j < k => j \in S
  BY <1>2 DEF OpToRel
<1>4. k \in Nat /\ k # 0
  BY <1>2
<1>5. k - 1 \in Nat /\ k - 1 < k /\ (k - 1) + 1 = k
  BY <1>4
<1> QED
  BY <1>2, <1>3, <1>5

IsStep(start, step, X) == start \in X /\ step \in [Nat -> [X -> X]]

Follows(f, start, step, X) ==
  /\ f \in [Nat -> X]
  /\ f[0] = start
  /\ \A n \in Nat : f[n + 1] = step[n][f[n]]

FollowsUpto(g, start, step, n) ==
  /\ g[0] = start
  /\ \A k \in 0 .. n - 1 : g[k + 1] = step[k][g[k]]

\* Where two functions follow the same rule they are equal.
LEMMA SameRule ==
  ASSUME NEW start, NEW step, NEW n \in Nat,
         NEW f, FollowsUpto(f, start, step, n),
         NEW g, FollowsUpto(g, start, step, n)
  PROVE  \A k \in 0 .. n : g[k] = f[k]
<1> DEFINE S == {k \in Nat : k <= n => g[k] = f[k]}
<1>1. 0 \in S
  BY DEF FollowsUpto
<1>2. ASSUME NEW k \in Nat, k \in S PROVE k + 1 \in S
  <2> SUFFICES ASSUME k + 1 <= n PROVE g[k + 1] = f[k + 1]
    BY <1>2
  <2>1. k \in 0 .. n - 1 /\ k <= n
    OBVIOUS
  <2>2. g[k] = f[k]
    BY <1>2, <2>1
  <2>3. g[k + 1] = step[k][g[k]] /\ f[k + 1] = step[k][f[k]]
    BY <2>1 DEF FollowsUpto
  <2> QED
    BY <2>2, <2>3
<1>3. Nat \subseteq S
  <2> HIDE DEF S
  <2> QED
    BY <1>1, <1>2, Induction
<1> QED
  BY <1>3

LEMMA NextInterval ==
  ASSUME NEW n \in Nat
  PROVE  /\ n + 1 \in 0 .. n + 1 /\ 0 \in 0 .. n
         /\ \A k \in 0 .. n : k \in 0 .. n + 1 /\ k # n + 1
         /\ \A k \in 0 .. n + 1 : k # n + 1 => k \in 0 .. n
OBVIOUS

LEMMA FunctionUpto ==
  ASSUME NEW start, NEW step, NEW X, IsStep(start, step, X)
  PROVE  \A n \in Nat : \E g \in [0 .. n -> X] : FollowsUpto(g, start, step, n)
<1> DEFINE S == {n \in Nat : \E g \in [0 .. n -> X] : FollowsUpto(g, start, step, n)}
<1>0. \A n : n \in S <=> n \in Nat /\ \E g \in [0 .. n -> X] : FollowsUpto(g, start, step, n)
  OBVIOUS
<1> HIDE DEF S
<1>1. 0 \in S
  <2>1. [k \in 0 .. 0 |-> start] \in [0 .. 0 -> X]
    BY DEF IsStep
  <2>2. FollowsUpto([k \in 0 .. 0 |-> start], start, step, 0)
    BY DEF FollowsUpto
  <2> QED
    BY <1>0, <2>1, <2>2
<1>2. ASSUME NEW n \in Nat, n \in S PROVE n + 1 \in S
  <2>1. PICK g \in [0 .. n -> X] : FollowsUpto(g, start, step, n)
    BY <1>0, <1>2
  <2> DEFINE h == [k \in 0 .. n + 1 |-> IF k = n + 1 THEN step[n][g[n]] ELSE g[k]]
  <2>2. n \in 0 .. n /\ g[n] \in X
    OBVIOUS
  <2>3. step[n][g[n]] \in X
    BY <2>2 DEF IsStep
  <2>7. /\ n + 1 \in 0 .. n + 1 /\ 0 \in 0 .. n
        /\ \A k \in 0 .. n : k \in 0 .. n + 1 /\ k # n + 1
        /\ \A k \in 0 .. n + 1 : k # n + 1 => k \in 0 .. n
    BY NextInterval
  <2>4. h \in [0 .. n + 1 -> X]
    BY <2>3, <2>7
  <2>5. h[n + 1] = step[n][g[n]] /\ \A k \in 0 .. n : h[k] = g[k]
    BY <2>7
  <2> HIDE DEF h
  <2>6. FollowsUpto(h, start, step, n + 1)
    <3>1. h[0] = start
      BY <2>1, <2>5, <2>7 DEF FollowsUpto
    <3>2. ASSUME NEW k \in 0 .. (n + 1) - 1 PROVE h[k + 1] = step[k][h[k]]
      <4>1. k \in 0 .. n
        OBVIOUS
      <4>2. CASE k = n
        BY <2>5, <4>1, <4>2
      <4>3. CASE k # n
        <5>1. k \in 0 .. n - 1 /\ k + 1 \in 0 .. n
          BY <4>3
        <5> QED
          BY <2>1, <2>5, <4>1, <5>1 DEF FollowsUpto
      <4> QED
        BY <4>2, <4>3
    <3> QED
      BY <3>1, <3>2 DEF FollowsUpto
  <2> QED
    <3>1. n + 1 \in Nat
      OBVIOUS
    <3> QED
      BY <1>0, <2>4, <2>6, <3>1
<1>3. Nat \subseteq S
  BY <1>1, <1>2, Induction
<1> QED
  BY <1>0, <1>3

LEMMA FunctionExists ==
  ASSUME NEW start, NEW step, NEW X, IsStep(start, step, X)
  PROVE  \E f : Follows(f, start, step, X)
<1> DEFINE Part(n) == CHOOSE g : g \in [0 .. n -> X] /\ FollowsUpto(g, start, step, n)
           f == [n \in Nat |-> Part(n)[n]]
<1>1. \A n \in Nat : Part(n) \in [0 .. n -> X] /\ FollowsUpto(Part(n), start, step, n)
  BY FunctionUpto
<1> HIDE DEF Part
<1>2. ASSUME NEW n \in Nat PROVE Part(n + 1)[n] = Part(n)[n]
  <2>1. n + 1 \in Nat /\ n \in 0 .. n + 1 /\ n \in 0 .. n
    OBVIOUS
  <2>2. FollowsUpto(Part(n + 1), start, step, n)
    <3>1. \A k \in 0 .. n - 1 : k \in 0 .. (n + 1) - 1
      OBVIOUS
    <3> QED
      BY <1>1, <2>1, <3>1 DEF FollowsUpto
  <2>3. FollowsUpto(Part(n), start, step, n)
    BY <1>1
  <2> HIDE DEF f
  <2>4. \A k \in 0 .. n : Part(n)[k] = Part(n + 1)[k]
    BY <2>2, <2>3, SameRule
  <2> QED
    BY <2>1, <2>4
<1>3. \A n \in Nat : n \in 0 .. n
  OBVIOUS
<1>4. f \in [Nat -> X]
  BY <1>1, <1>3
<1>5. f[0] = start
  BY <1>1 DEF FollowsUpto
<1>6. ASSUME NEW n \in Nat PROVE f[n + 1] = step[n][f[n]]
  <2>1. n + 1 \in Nat /\ n \in 0 .. (n + 1) - 1
    OBVIOUS
  <2>2. Part(n + 1)[n + 1] = step[n][Part(n + 1)[n]]
    BY <1>1, <2>1 DEF FollowsUpto
  <2> QED
    BY <1>2, <2>1, <2>2
<1>7. Follows(f, start, step, X)
  BY <1>4, <1>5, <1>6 DEF Follows
<1> QED
  BY <1>7

\* What is computed from its first value on by the same steps is the same.
LEMMA ComputesIt ==
  ASSUME NEW f, NEW start, NEW step, NEW X, Follows(f, start, step, X),
         NEW n \in Nat, NEW R, R[0] = start,
         \A k \in 0 .. n - 1 : R[k] \in X => R[k + 1] = step[k][R[k]]
  PROVE  \A k \in 0 .. n : R[k] = f[k]
<1> DEFINE S == {k \in Nat : k <= n => R[k] = f[k]}
<1>1. 0 \in S
  BY DEF Follows
<1>2. ASSUME NEW k \in Nat, k \in S PROVE k + 1 \in S
  <2> SUFFICES ASSUME k + 1 <= n PROVE R[k + 1] = f[k + 1]
    BY <1>2
  <2>1. k \in 0 .. n - 1 /\ k <= n
    OBVIOUS
  <2>2. R[k] = f[k] /\ f[k] \in X
    BY <1>2, <2>1 DEF Follows
  <2>3. R[k + 1] = step[k][R[k]] /\ f[k + 1] = step[k][f[k]]
    BY <2>1, <2>2 DEF Follows
  <2> QED
    BY <2>2, <2>3
<1>3. Nat \subseteq S
  <2> HIDE DEF S
  <2> QED
    BY <1>1, <1>2, Induction
<1> QED
  BY <1>3

-----------------------------------------------------------------------------
(* The code of a leaf: every number below n! is the rank of a permutation.   *)

LEMMA FactorialFacts ==
  /\ Factorial[0] = 1
  /\ \A n \in Nat : /\ Factorial[n] \in Nat \ {0}
                    /\ Factorial[n + 1] = (n + 1) * Factorial[n]
<1> DEFINE IsIt(F) == F = [c \in Nat |-> IF c = 0 THEN 1 ELSE c * F[c - 1]]
           step == [n \in Nat |-> [x \in Nat |-> (n + 1) * x]]
<1>1. IsStep(1, step, Nat)
  BY DEF IsStep
<1>2. PICK f : Follows(f, 1, step, Nat)
  BY <1>1, FunctionExists
<1>3. f = [c \in Nat |-> f[c]] /\ \A n \in Nat : f[n] \in Nat
  BY <1>2 DEF Follows
<1>4. \A n \in Nat : f[n + 1] = (n + 1) * f[n]
  BY <1>2, <1>3 DEF Follows
<1>5. ASSUME NEW c \in Nat
      PROVE  f[c] = IF c = 0 THEN 1 ELSE c * f[c - 1]
  <2>1. CASE c = 0
    BY <1>2, <2>1 DEF Follows
  <2>2. CASE c # 0
    <3>1. c - 1 \in Nat /\ (c - 1) + 1 = c
      BY <2>2
    <3> QED
      BY <1>4, <2>2, <3>1
  <2> QED
    BY <2>1, <2>2
<1>6. IsIt(f)
  BY <1>3, <1>5
<1>7. IsIt(Factorial)
  <2>1. Factorial = CHOOSE F : IsIt(F)
    BY DEF Factorial
  <2> HIDE DEF IsIt
  <2> QED
    BY <1>6, <2>1
<1>8. Factorial[0] = 1 /\ \A n \in Nat : Factorial[n + 1] = (n + 1) * Factorial[n]
  <2>1. \A n \in Nat : n + 1 \in Nat /\ n + 1 # 0 /\ (n + 1) - 1 = n
    OBVIOUS
  <2>2. \A c \in Nat : Factorial[c] = IF c = 0 THEN 1 ELSE c * Factorial[c - 1]
    BY <1>7
  <2> QED
    BY <2>1, <2>2
<1> DEFINE S == {n \in Nat : Factorial[n] \in Nat \ {0}}
<1>9. Nat \subseteq S
  <2>1. 0 \in S
    BY <1>8
  <2>2. ASSUME NEW n \in Nat, n \in S PROVE n + 1 \in S
    <3>1. \A x \in Nat \ {0} : (n + 1) * x \in Nat \ {0}
      OBVIOUS
    <3>2. Factorial[n] \in Nat \ {0} /\ Factorial[n + 1] = (n + 1) * Factorial[n]
      BY <1>8, <2>2
    <3>3. Factorial[n + 1] \in Nat \ {0}
      BY <3>1, <3>2
    <3> QED
      BY <3>3
  <2> HIDE DEF S
  <2> QED
    BY <2>1, <2>2, Induction
<1> QED
  BY <1>8, <1>9

LEMMA DigitType ==
  ASSUME NEW p, NEW k \in Nat
  PROVE  Digit(p, k) \in Nat
<1>1. IsFiniteSet(0 .. k - 1)
  BY FS_Interval
<1>2. IsFiniteSet({j \in 0 .. k - 1 : p[j] < p[k]})
  BY <1>1, FS_Subset
<1> QED
  BY <1>2, FS_CardinalityType DEF Digit

LEMMA RankFacts ==
  ASSUME NEW p
  PROVE  /\ Rank(p, 0) = 0
         /\ \A n \in Nat : /\ Rank(p, n) \in Nat
                           /\ Rank(p, n + 1) = Rank(p, n) * (n + 1) + Digit(p, n)
<1> DEFINE step == [k \in Nat |-> [x \in Nat |-> x * (k + 1) + Digit(p, k)]]
<1>1. IsStep(0, step, Nat)
  BY DigitType DEF IsStep
<1>2. PICK f : Follows(f, 0, step, Nat)
  BY <1>1, FunctionExists
<1>3. \A k \in Nat : f[k] \in Nat /\ f[k + 1] = f[k] * (k + 1) + Digit(p, k)
  BY <1>2 DEF Follows
<1>4. ASSUME NEW n \in Nat PROVE Rank(p, n) = f[n]
  <2> DEFINE IsIt(R) == R = [k \in 0 .. n |->
                          IF k = 0 THEN 0 ELSE R[k - 1] * k + Digit(p, k - 1)]
             R == CHOOSE R : IsIt(R)
             g == [k \in 0 .. n |-> f[k]]
  <2>1. Rank(p, n) = R[n]
    BY DEF Rank
  <2>2. IsIt(g)
    <3>1. ASSUME NEW k \in 0 .. n
          PROVE  g[k] = IF k = 0 THEN 0 ELSE g[k - 1] * k + Digit(p, k - 1)
      <4>1. CASE k = 0
        BY <1>2, <4>1 DEF Follows
      <4>2. CASE k # 0
        <5>1. k - 1 \in Nat /\ k - 1 \in 0 .. n /\ (k - 1) + 1 = k
          BY <4>2
        <5>2. f[k] = f[k - 1] * k + Digit(p, k - 1)
          BY <1>3, <5>1
        <5> QED
          BY <4>2, <5>1, <5>2
      <4> QED
        BY <4>1, <4>2
    <3> QED
      BY <3>1
  <2>3. IsIt(R)
    <3> HIDE DEF IsIt
    <3> QED
      BY <2>2
  <2>4. \A k \in 0 .. n : R[k] = IF k = 0 THEN 0 ELSE R[k - 1] * k + Digit(p, k - 1)
    BY <2>3
  <2> HIDE DEF R, g
  <2> DEFINE S == {k \in Nat : k <= n => R[k] = f[k]}
  <2>5. 0 \in S
    BY <1>2, <2>4 DEF Follows
  <2>6. ASSUME NEW k \in Nat, k \in S PROVE k + 1 \in S
    <3> SUFFICES ASSUME k + 1 <= n PROVE R[k + 1] = f[k + 1]
      BY <2>6
    <3>1. k + 1 \in 0 .. n /\ k + 1 # 0 /\ (k + 1) - 1 = k /\ k <= n
      OBVIOUS
    <3>2. R[k + 1] = R[k] * (k + 1) + Digit(p, k)
      BY <2>4, <3>1
    <3> QED
      BY <1>3, <2>6, <3>1, <3>2
  <2>7. Nat \subseteq S
    <3> HIDE DEF S
    <3> QED
      BY <2>5, <2>6, Induction
  <2> QED
    BY <2>1, <2>7
<1>5. Rank(p, 0) = 0
  BY <1>2, <1>4 DEF Follows
<1>6. ASSUME NEW n \in Nat
      PROVE  Rank(p, n) \in Nat /\ Rank(p, n + 1) = Rank(p, n) * (n + 1) + Digit(p, n)
  <2>1. n + 1 \in Nat
    OBVIOUS
  <2> QED
    BY <1>3, <1>4, <2>1
<1> QED
  BY <1>5, <1>6

LEMMA SameDigits ==
  ASSUME NEW p, NEW q, NEW n \in Nat, \A k \in 0 .. n - 1 : Digit(p, k) = Digit(q, k)
  PROVE  Rank(p, n) = Rank(q, n)
<1> DEFINE S == {k \in Nat : k <= n => Rank(p, k) = Rank(q, k)}
<1>1. 0 \in S
  BY RankFacts
<1>2. ASSUME NEW k \in Nat, k \in S PROVE k + 1 \in S
  <2> SUFFICES ASSUME k + 1 <= n PROVE Rank(p, k + 1) = Rank(q, k + 1)
    BY <1>2
  <2>1. k \in 0 .. n - 1 /\ k <= n
    OBVIOUS
  <2>2. Digit(p, k) = Digit(q, k) /\ Rank(p, k) = Rank(q, k)
    BY <1>2, <2>1
  <2>3. /\ Rank(p, k + 1) = Rank(p, k) * (k + 1) + Digit(p, k)
        /\ Rank(q, k + 1) = Rank(q, k) * (k + 1) + Digit(q, k)
    BY RankFacts
  <2> QED
    BY <2>2, <2>3
<1>3. Nat \subseteq S
  <2> HIDE DEF S
  <2> QED
    BY <1>1, <1>2, Induction
<1> QED
  BY <1>3

LEMMA OrdersAreOnto ==
  ASSUME NEW n \in Nat, NEW p \in Orders(n)
  PROVE  \A v \in 0 .. n - 1 : \E k \in 0 .. n - 1 : p[k] = v
<1>1. IsFiniteSet(0 .. n - 1)
  BY FS_Interval
<1>2. p \in Injection(0 .. n - 1, 0 .. n - 1)
  BY DEF Orders, Injection, IsInjective
<1>3. p \in Surjection(0 .. n - 1, 0 .. n - 1)
  BY <1>1, <1>2, FS_Injection
<1> QED
  BY <1>3 DEF Surjection

\* As many values of a permutation are below d as there are numbers below d.
LEMMA ValuesBelow ==
  ASSUME NEW n \in Nat, NEW p \in Orders(n), NEW d \in 0 .. n
  PROVE  Cardinality({j \in 0 .. n - 1 : p[j] < d}) = d
<1> DEFINE A == {j \in 0 .. n - 1 : p[j] < d}
           B == 0 .. d - 1
           f == [j \in A |-> p[j]]
<1>1. p \in [0 .. n - 1 -> 0 .. n - 1]
  BY DEF Orders
<1>2. f \in [A -> B]
  BY <1>1
<1>3. \A i, j \in A : f[i] = f[j] => i = j
  BY DEF Orders
<1>4. \A v \in B : \E j \in A : f[j] = v
  <2> SUFFICES ASSUME NEW v \in B PROVE \E j \in A : f[j] = v
    OBVIOUS
  <2>1. v \in 0 .. n - 1 /\ v < d
    OBVIOUS
  <2>2. PICK j \in 0 .. n - 1 : p[j] = v
    BY <2>1, OrdersAreOnto
  <2>3. j \in A
    BY <2>1, <2>2
  <2> QED
    BY <2>2, <2>3
<1>5. IsFiniteSet(A)
  <2>1. IsFiniteSet(0 .. n - 1)
    BY FS_Interval
  <2> QED
    BY <2>1, FS_Subset
<1>6. Cardinality(B) = d
  BY FS_Interval
<1> HIDE DEF A, B, f
<1>7. f \in Injection(A, B) /\ f \in Surjection(A, B)
  BY <1>2, <1>3, <1>4 DEF Injection, IsInjective, Surjection
<1>8. Cardinality(B) = Cardinality(A)
  BY <1>5, <1>7, FS_Surjection
<1> QED
  BY <1>6, <1>8 DEF A

\* One more value is put in at the end.
Inserted(p, n, d) ==
  [j \in 0 .. n |-> IF j = n THEN d ELSE IF p[j] < d THEN p[j] ELSE p[j] + 1]

LEMMA ShiftIsInjective ==
  \A d, a, b \in Nat :
    (IF a < d THEN a ELSE a + 1) = (IF b < d THEN b ELSE b + 1) => a = b
OBVIOUS

LEMMA InsertedFacts ==
  ASSUME NEW n \in Nat, NEW p \in Orders(n), NEW d \in 0 .. n
  PROVE  /\ Inserted(p, n, d) \in Orders(n + 1)
         /\ Digit(Inserted(p, n, d), n) = d
         /\ \A k \in 0 .. n - 1 : Digit(Inserted(p, n, d), k) = Digit(p, k)
<1> DEFINE q == Inserted(p, n, d)
<1>1. p \in [0 .. n - 1 -> 0 .. n - 1]
  BY DEF Orders
<1>2. /\ (n + 1) - 1 = n /\ n \in 0 .. n
      /\ \A j \in 0 .. n - 1 : j \in 0 .. n /\ j # n /\ p[j] \in 0 .. n - 1
      /\ \A j \in 0 .. n : j # n => j \in 0 .. n - 1
  BY <1>1
<1>3. q[n] = d
  BY <1>2 DEF Inserted
<1>4. \A j \in 0 .. n - 1 : q[j] = IF p[j] < d THEN p[j] ELSE p[j] + 1
  BY <1>2 DEF Inserted
<1>5. \A j \in 0 .. n : q[j] \in 0 .. n
  <2>1. \A j \in 0 .. n - 1 : q[j] \in 0 .. n
    BY <1>2, <1>4
  <2> QED
    BY <1>2, <1>3, <2>1
<1>6. q \in [0 .. n -> 0 .. n]
  BY <1>5 DEF Inserted
<1> HIDE DEF q
<1>7. ASSUME NEW i \in 0 .. n, NEW j \in 0 .. n, q[i] = q[j] PROVE i = j
  <2>1. \A k \in 0 .. n - 1 : q[k] # d
    BY <1>2, <1>4
  <2>2. CASE i = n \/ j = n
    BY <1>2, <1>3, <1>7, <2>1, <2>2
  <2>3. CASE i # n /\ j # n
    <3>1. i \in 0 .. n - 1 /\ j \in 0 .. n - 1
      BY <1>2, <2>3
    <3>2. /\ q[i] = IF p[i] < d THEN p[i] ELSE p[i] + 1
          /\ q[j] = IF p[j] < d THEN p[j] ELSE p[j] + 1
      BY <1>4, <3>1
    <3>3. p[i] \in Nat /\ p[j] \in Nat /\ d \in Nat
      BY <1>1, <3>1
    <3>4. p[i] = p[j]
      BY <1>7, <3>2, <3>3, ShiftIsInjective
    <3> QED
      BY <3>1, <3>4 DEF Orders
  <2> QED
    BY <2>2, <2>3
<1>8. q \in Orders(n + 1)
  BY <1>2, <1>6, <1>7 DEF Orders
<1>9. Digit(q, n) = d
  <2>1. {j \in 0 .. n - 1 : q[j] < q[n]} = {j \in 0 .. n - 1 : p[j] < d}
    BY <1>2, <1>3, <1>4
  <2> QED
    BY <2>1, ValuesBelow DEF Digit
<1>10. ASSUME NEW k \in 0 .. n - 1 PROVE Digit(q, k) = Digit(p, k)
  <2>1. \A j \in 0 .. k - 1 : j \in 0 .. n - 1
    OBVIOUS
  <2>2. \A j \in 0 .. k - 1 : q[j] < q[k] <=> p[j] < p[k]
    BY <1>2, <1>4, <2>1
  <2>3. {j \in 0 .. k - 1 : q[j] < q[k]} = {j \in 0 .. k - 1 : p[j] < p[k]}
    BY <2>2
  <2> QED
    BY <2>3 DEF Digit
<1> QED
  BY <1>8, <1>9, <1>10 DEF q

LEMMA Quotient ==
  ASSUME NEW a \in Nat \ {0}, NEW b \in Nat \ {0}, NEW r \in 0 .. a * b - 1
  PROVE  /\ r \div a \in 0 .. b - 1 /\ r % a \in 0 .. a - 1
         /\ r = (r \div a) * a + (r % a)
<1>1. /\ r \div a \in Nat /\ r % a \in 0 .. a - 1
      /\ r = (r \div a) * a + (r % a)
  OBVIOUS
<1>2. \A s \in Nat : s >= b => s * a >= b * a
  OBVIOUS
<1>3. r < b * a
  OBVIOUS
<1> QED
  BY <1>1, <1>2, <1>3

\* Every rank there is room for is a permutation's.
LEMMA EveryRank ==
  ASSUME NEW n \in Nat
  PROVE  \A r \in 0 .. Factorial[n] - 1 : \E p \in Orders(n) : Rank(p, n) = r
<1> DEFINE S == {k \in Nat : \A r \in 0 .. Factorial[k] - 1 :
                               \E p \in Orders(k) : Rank(p, k) = r}
<1>1. 0 \in S
  <2>1. <<>> \in Orders(0)
    BY DEF Orders
  <2>2. Rank(<<>>, 0) = 0
    BY RankFacts
  <2>3. \A r \in 0 .. Factorial[0] - 1 : r = 0
    BY FactorialFacts
  <2> QED
    BY <2>1, <2>2, <2>3
<1>2. ASSUME NEW k \in Nat, k \in S PROVE k + 1 \in S
  <2> SUFFICES ASSUME NEW r \in 0 .. Factorial[k + 1] - 1
               PROVE  \E p \in Orders(k + 1) : Rank(p, k + 1) = r
    OBVIOUS
  <2> DEFINE a == k + 1  b == Factorial[k]  d == r % a  s == r \div a
  <2>1. a \in Nat \ {0} /\ b \in Nat \ {0} /\ r \in 0 .. a * b - 1
    BY FactorialFacts
  <2>2. s \in 0 .. b - 1 /\ d \in 0 .. a - 1 /\ r = s * a + d
    <3> HIDE DEF a, b
    <3> QED
      BY <2>1, Quotient
  <2>3. PICK p \in Orders(k) : Rank(p, k) = s
    BY <1>2, <2>2
  <2>4. d \in 0 .. k
    BY <2>2
  <2> DEFINE q == Inserted(p, k, d)
  <2>5. /\ q \in Orders(k + 1) /\ Digit(q, k) = d
        /\ \A j \in 0 .. k - 1 : Digit(q, j) = Digit(p, j)
    BY <2>4, InsertedFacts
  <2> HIDE DEF q, d, s
  <2>6. Rank(q, k) = s
    BY <2>3, <2>5, SameDigits
  <2>7. Rank(q, k + 1) = s * (k + 1) + d
    BY <2>5, <2>6, RankFacts
  <2> QED
    BY <2>2, <2>5, <2>7
<1>3. Nat \subseteq S
  <2> HIDE DEF S
  <2> QED
    BY <1>1, <1>2, Induction
<1> QED
  BY <1>3

\* A leaf decodes to a permutation, whatever its rank.
LEMMA OrderIsPermutation ==
  ASSUME NEW n \in Nat, NEW r \in Nat
  PROVE  Order(r, n) \in Orders(n)
<1>1. r % Factorial[n] \in 0 .. Factorial[n] - 1
  BY FactorialFacts
<1> QED
  BY <1>1, EveryRank DEF Order

-----------------------------------------------------------------------------
(* Sizes, and induction from all smaller ones.                               *)

LEMMA FromAllBefore ==
  ASSUME NEW S, \A n \in Nat : (\A k \in 0 .. n - 1 : k \in S) => n \in S
  PROVE  Nat \subseteq S
<1> DEFINE U == {n \in Nat : \A k \in 0 .. n - 1 : k \in S}
<1>1. 0 \in U
  OBVIOUS
<1>2. ASSUME NEW n \in Nat, n \in U PROVE n + 1 \in U
  <2>1. n \in S
    BY <1>2
  <2>2. \A k \in 0 .. (n + 1) - 1 : k = n \/ k \in 0 .. n - 1
    OBVIOUS
  <2>3. \A k \in 0 .. (n + 1) - 1 : k \in S
    BY <1>2, <2>1, <2>2
  <2> QED
    BY <2>3
<1>3. Nat \subseteq U
  <2> HIDE DEF U
  <2> QED
    BY <1>1, <1>2, Induction
<1> QED
  BY <1>3

LEMMA LeafSizes == LeafSize \in 2 .. 32
<1>1. \/ MiddleGroupLog2 = 1 \/ MiddleGroupLog2 = 2 \/ MiddleGroupLog2 = 3
      \/ MiddleGroupLog2 = 4 \/ MiddleGroupLog2 = 5
  BY MiddleGroupAssumption
<1> QED
  BY <1>1 DEF LeafSize

LEMMA ChildCounts ==
  ASSUME NEW n \in Nat, n > LeafSize, NEW right \in BOOLEAN
  PROVE  /\ ChildCount(right, n) \in 1 .. n - 1
         /\ ChildCount(right, n) = IF right THEN n \div 2 ELSE n \div 2 + (n % 2)
<1>1. n > 2
  BY LeafSizes
<1> QED
  BY <1>1 DEF ChildCount, LeftCount, RightCount

LEMMA BitCountType ==
  ASSUME NEW c \in Nat
  PROVE  FactoradicBitCount(c) \in Nat
<1>1. MiddleGroupLog2 * c \in Nat
  BY MiddleGroupAssumption
<1>2. IsFiniteSet(0 .. MiddleGroupLog2 * c)
  BY <1>1, FS_Interval
<1>3. IsFiniteSet({b \in 0 .. MiddleGroupLog2 * c : PowerOfTwo[b] < Factorial[c]})
  BY <1>2, FS_Subset
<1> QED
  BY <1>3, FS_CardinalityType DEF FactoradicBitCount

-----------------------------------------------------------------------------
(* Powers of two, and division by them.                                      *)

LEMMA PowerFacts ==
  /\ PowerOfTwo[0] = 1
  /\ \A n \in Nat : /\ PowerOfTwo[n] \in Nat \ {0}
                    /\ PowerOfTwo[n + 1] = 2 * PowerOfTwo[n]
<1> DEFINE IsIt(F) == F = [c \in Nat |-> IF c = 0 THEN 1 ELSE 2 * F[c - 1]]
           step == [n \in Nat |-> [x \in Nat |-> 2 * x]]
<1>1. IsStep(1, step, Nat)
  BY DEF IsStep
<1>2. PICK f : Follows(f, 1, step, Nat)
  BY <1>1, FunctionExists
<1>3. f = [c \in Nat |-> f[c]] /\ \A n \in Nat : f[n] \in Nat
  BY <1>2 DEF Follows
<1>4. \A n \in Nat : f[n + 1] = 2 * f[n]
  BY <1>2, <1>3 DEF Follows
<1>5. ASSUME NEW c \in Nat
      PROVE  f[c] = IF c = 0 THEN 1 ELSE 2 * f[c - 1]
  <2>1. CASE c = 0
    BY <1>2, <2>1 DEF Follows
  <2>2. CASE c # 0
    <3>1. c - 1 \in Nat /\ (c - 1) + 1 = c
      BY <2>2
    <3> QED
      BY <1>4, <2>2, <3>1
  <2> QED
    BY <2>1, <2>2
<1>6. IsIt(f)
  BY <1>3, <1>5
<1>7. IsIt(PowerOfTwo)
  <2>1. PowerOfTwo = CHOOSE F : IsIt(F)
    BY DEF PowerOfTwo
  <2> HIDE DEF IsIt
  <2> QED
    BY <1>6, <2>1
<1>8. PowerOfTwo[0] = 1 /\ \A n \in Nat : PowerOfTwo[n + 1] = 2 * PowerOfTwo[n]
  <2>1. \A n \in Nat : n + 1 \in Nat /\ n + 1 # 0 /\ (n + 1) - 1 = n
    OBVIOUS
  <2>2. \A c \in Nat : PowerOfTwo[c] = IF c = 0 THEN 1 ELSE 2 * PowerOfTwo[c - 1]
    BY <1>7
  <2> QED
    BY <2>1, <2>2
<1> DEFINE S == {n \in Nat : PowerOfTwo[n] \in Nat \ {0}}
<1>9. Nat \subseteq S
  <2>1. 0 \in S
    BY <1>8
  <2>2. ASSUME NEW n \in Nat, n \in S PROVE n + 1 \in S
    <3>1. \A x \in Nat \ {0} : 2 * x \in Nat \ {0}
      OBVIOUS
    <3>2. PowerOfTwo[n] \in Nat \ {0} /\ PowerOfTwo[n + 1] = 2 * PowerOfTwo[n]
      BY <1>8, <2>2
    <3>3. PowerOfTwo[n + 1] \in Nat \ {0}
      BY <3>1, <3>2
    <3> QED
      BY <3>3
  <2> HIDE DEF S
  <2> QED
    BY <2>1, <2>2, Induction
<1> QED
  BY <1>8, <1>9

LEMMA Monotone ==
  /\ \A a, b, d \in Nat : a <= b => a * d <= b * d
  /\ \A a, b, d \in Nat : a < b => a * d + d <= b * d
<1>1. \A a, b, d \in Nat : a <= b => a * d <= b * d
  OBVIOUS
<1>2. ASSUME NEW a \in Nat, NEW b \in Nat, NEW d \in Nat, a < b
      PROVE  a * d + d <= b * d
  <2>1. (a + 1) * d <= b * d
    BY <1>1, <1>2
  <2>2. (a + 1) * d = a * d + d
    OBVIOUS
  <2> QED
    BY <2>1, <2>2
<1> QED
  BY <1>1, <1>2

LEMMA DivisionFacts ==
  ASSUME NEW n \in Nat, NEW d \in Nat \ {0}
  PROVE  /\ n \div d \in Nat /\ n % d \in 0 .. d - 1
         /\ n = (n \div d) * d + (n % d)
OBVIOUS

\* There is only one quotient and one remainder.
LEMMA OneQuotient ==
  ASSUME NEW n \in Nat, NEW d \in Nat \ {0}, NEW q \in Nat, NEW r \in 0 .. d - 1,
         n = q * d + r
  PROVE  n \div d = q /\ n % d = r
<1> DEFINE p == n \div d  s == n % d
<1>1. p \in Nat /\ s \in 0 .. d - 1 /\ n = p * d + s
  BY DivisionFacts
<1> HIDE DEF p, s
<1>2. p * d \in Nat /\ q * d \in Nat
  BY <1>1
<1>3. ~(p < q)
  <2> SUFFICES ASSUME p < q PROVE FALSE
    OBVIOUS
  <2>1. p * d + d <= q * d
    BY <1>1, Monotone
  <2> QED
    BY <1>1, <1>2, <2>1
<1>4. ~(q < p)
  <2> SUFFICES ASSUME q < p PROVE FALSE
    OBVIOUS
  <2>1. q * d + d <= p * d
    BY <1>1, Monotone
  <2> QED
    BY <1>1, <1>2, <2>1
<1>5. p = q
  BY <1>1, <1>3, <1>4
<1>6. s = r
  BY <1>1, <1>2, <1>5
<1> QED
  BY <1>5, <1>6 DEF p, s

\* A level deeper the quotient is halved, and the remainder gets its last digit.
LEMMA NextPower ==
  ASSUME NEW n \in Nat, NEW l \in Nat
  PROVE  LET w == PowerOfTwo[l]
             s == n \div w
         IN  /\ n \div PowerOfTwo[l + 1] = s \div 2
             /\ n % PowerOfTwo[l + 1] = (n % w) + w * (s % 2)
<1> DEFINE w == PowerOfTwo[l]  s == n \div w  m == n % w  q == s \div 2  b == s % 2
<1>1. w \in Nat \ {0} /\ PowerOfTwo[l + 1] = 2 * w
  BY PowerFacts
<1> HIDE DEF w
<1>2. s \in Nat /\ m \in 0 .. w - 1 /\ n = s * w + m
  BY <1>1, DivisionFacts
<1> HIDE DEF s, m
<1>3. q \in Nat /\ b \in 0 .. 1 /\ s = 2 * q + b
  BY <1>2
<1> HIDE DEF q, b
<1>4. n = q * (2 * w) + (m + w * b)
  BY <1>1, <1>2, <1>3
<1>5. m + w * b \in 0 .. 2 * w - 1
  <2>1. b = 0 \/ b = 1
    BY <1>3
  <2> QED
    BY <1>1, <1>2, <2>1
<1>6. 2 * w \in Nat \ {0}
  BY <1>1
<1> DEFINE d == 2 * w  r == m + w * b
<1>7. n \div d = q /\ n % d = r
  <2>1. d \in Nat \ {0} /\ r \in 0 .. d - 1 /\ n = q * d + r
    BY <1>4, <1>5, <1>6
  <2> HIDE DEF d, r
  <2> QED
    BY <1>3, <2>1, OneQuotient
<1>8. n \div PowerOfTwo[l + 1] = q /\ n % PowerOfTwo[l + 1] = m + w * b
  BY <1>1, <1>7
<1> QED
  BY <1>8 DEF q, b, s, m, w

-----------------------------------------------------------------------------
(* Sizes are computed from those of the two children.                        *)

IsHalving(leaf, step, V) ==
  leaf \in [Nat -> V] /\ step \in [Nat -> [V -> [V -> V]]]

Halved(f, leaf, step, V) ==
  /\ f \in [Nat -> V]
  /\ \A k \in Nat : f[k] = IF k <= LeafSize THEN leaf[k]
                           ELSE step[k][f[LeftCount(k)]][f[RightCount(k)]]

LEMMA Children ==
  ASSUME NEW k \in Nat, ~(k <= LeafSize)
  PROVE  /\ LeftCount(k) \in Nat /\ LeftCount(k) \in 1 .. k - 1
         /\ RightCount(k) \in Nat /\ RightCount(k) \in 1 .. k - 1
         /\ RightCount(k) <= LeftCount(k)
<1>1. k > 2
  BY LeafSizes
<1> QED
  BY <1>1 DEF LeftCount, RightCount

LEMMA HalvedExists ==
  ASSUME NEW V, NEW leaf, NEW step, IsHalving(leaf, step, V)
  PROVE  \E f : Halved(f, leaf, step, V)
<1> DEFINE X == [Nat -> V]
           Turn(g, k) == IF k <= LeafSize THEN leaf[k]
                         ELSE step[k][g[LeftCount(k)]][g[RightCount(k)]]
           turn == [m \in Nat |-> [g \in X |-> [k \in Nat |-> Turn(g, k)]]]
           zero == [k \in Nat |-> leaf[0]]
<1>0. /\ \A k \in Nat : leaf[k] \in V
      /\ \A k \in Nat : \A x, y \in V : step[k][x][y] \in V
  <2>1. leaf \in [Nat -> V] /\ \A k \in Nat : step[k] \in [V -> [V -> V]]
    BY DEF IsHalving
  <2>2. \A k \in Nat : \A x \in V : step[k][x] \in [V -> V]
    BY <2>1
  <2>3. ASSUME NEW k \in Nat, NEW x \in V, NEW y \in V
        PROVE  step[k][x][y] \in V
    <3>1. step[k][x] \in [V -> V]
      BY <2>2
    <3> QED
      BY <3>1
  <2> QED
    BY <2>1, <2>3
<1>1. ASSUME NEW g \in X, NEW k \in Nat PROVE Turn(g, k) \in V
  <2>1. CASE k <= LeafSize
    BY <1>0, <2>1
  <2>2. CASE ~(k <= LeafSize)
    <3>1. g[LeftCount(k)] \in V /\ g[RightCount(k)] \in V
      BY <2>2, Children
    <3>2. Turn(g, k) = step[k][g[LeftCount(k)]][g[RightCount(k)]]
      BY <2>2
    <3> HIDE DEF Turn
    <3> QED
      BY <1>0, <3>1, <3>2
  <2> QED
    BY <2>1, <2>2
<1>2. ASSUME NEW g, NEW h, NEW k \in Nat, \A j \in 0 .. k - 1 : g[j] = h[j]
      PROVE  Turn(g, k) = Turn(h, k)
  <2>1. CASE k <= LeafSize
    BY <2>1
  <2>2. CASE ~(k <= LeafSize)
    <3>1. g[LeftCount(k)] = h[LeftCount(k)] /\ g[RightCount(k)] = h[RightCount(k)]
      BY <1>2, <2>2, Children
    <3> QED
      BY <2>2, <3>1
  <2> QED
    BY <2>1, <2>2
<1>3. zero \in X
  BY <1>0
<1>4. \A m \in Nat : \A g \in X : turn[m][g] = [k \in Nat |-> Turn(g, k)]
  OBVIOUS
<1> HIDE DEF Turn, zero
<1>5. IsStep(zero, turn, X)
  BY <1>1, <1>3 DEF IsStep
<1>6. PICK G : Follows(G, zero, turn, X)
  <2> HIDE DEF turn, X
  <2> QED
    BY <1>5, FunctionExists
<1> HIDE DEF turn
<1>7. \A m \in Nat : G[m] \in X /\ G[m + 1] = [k \in Nat |-> Turn(G[m], k)]
  BY <1>4, <1>6 DEF Follows
<1>8. \A m \in Nat : \A k \in Nat : G[m + 1][k] = Turn(G[m], k)
  BY <1>7
<1> DEFINE S == {m \in Nat : \A k \in 0 .. m - 1 : G[m + 1][k] = G[m][k]}
<1>9. Nat \subseteq S
  <2>1. 0 \in S
    OBVIOUS
  <2>2. ASSUME NEW m \in Nat, m \in S PROVE m + 1 \in S
    <3> SUFFICES ASSUME NEW k \in 0 .. (m + 1) - 1
                 PROVE  G[(m + 1) + 1][k] = G[m + 1][k]
      OBVIOUS
    <3>1. k \in Nat /\ \A j \in 0 .. k - 1 : j \in 0 .. m - 1
      OBVIOUS
    <3>2. \A j \in 0 .. k - 1 : G[m + 1][j] = G[m][j]
      BY <2>2, <3>1
    <3>3. Turn(G[m + 1], k) = Turn(G[m], k)
      BY <1>2, <3>1, <3>2
    <3> QED
      BY <1>8, <3>1, <3>3
  <2> HIDE DEF S
  <2> QED
    BY <2>1, <2>2, Induction
<1>10. \A m \in Nat : \A k \in 0 .. m - 1 : G[m + 1][k] = G[m][k]
  BY <1>9
<1> HIDE DEF S
<1> DEFINE T == {m \in Nat : \A k \in 0 .. m - 1 : G[m][k] = G[k + 1][k]}
<1>11. Nat \subseteq T
  <2>1. 0 \in T
    OBVIOUS
  <2>2. ASSUME NEW m \in Nat, m \in T PROVE m + 1 \in T
    <3> SUFFICES ASSUME NEW k \in 0 .. (m + 1) - 1
                 PROVE  G[m + 1][k] = G[k + 1][k]
      OBVIOUS
    <3>1. CASE k = m
      BY <3>1
    <3>2. CASE k # m
      <4>1. k \in 0 .. m - 1
        BY <3>2
      <4> QED
        BY <1>10, <2>2, <4>1
    <3> QED
      BY <3>1, <3>2
  <2> HIDE DEF T
  <2> QED
    BY <2>1, <2>2, Induction
<1>12. \A m \in Nat : \A k \in 0 .. m - 1 : G[m][k] = G[k + 1][k]
  BY <1>11
<1> HIDE DEF T
<1> DEFINE f == [k \in Nat |-> G[k + 1][k]]
<1>13. \A k \in Nat : f[k] = G[k + 1][k]
  OBVIOUS
<1>14. f \in [Nat -> V]
  <2>1. ASSUME NEW k \in Nat PROVE G[k + 1][k] \in V
    <3>1. G[k + 1] \in X
      <4>1. k + 1 \in Nat
        OBVIOUS
      <4> QED
        BY <1>7, <4>1
    <3> QED
      BY <3>1
  <2> QED
    BY <2>1
<1> HIDE DEF f
<1>15. ASSUME NEW k \in Nat PROVE f[k] = Turn(f, k)
  <2>1. f[k] = Turn(G[k], k)
    BY <1>8, <1>13
  <2>2. \A j \in 0 .. k - 1 : G[k][j] = f[j]
    BY <1>12, <1>13
  <2> QED
    BY <1>2, <2>1, <2>2
<1>16. Halved(f, leaf, step, V)
  BY <1>14, <1>15 DEF Halved, Turn
<1> QED
  BY <1>16

\* What computes with the same rule on 0 .. n has the same values there.
LEMMA HalvedIs ==
  ASSUME NEW V, NEW leaf, NEW step, IsHalving(leaf, step, V), NEW f, Halved(f, leaf, step, V),
         NEW n \in Nat, NEW g,
         \A k \in 0 .. n : k <= LeafSize => g[k] = leaf[k],
         \A k \in 0 .. n :
           ~(k <= LeafSize) /\ g[LeftCount(k)] = f[LeftCount(k)]
                            /\ g[RightCount(k)] = f[RightCount(k)]
             => g[k] = step[k][f[LeftCount(k)]][f[RightCount(k)]]
  PROVE  \A k \in 0 .. n : g[k] = f[k]
<1> DEFINE S == {k \in Nat : k <= n => g[k] = f[k]}
<1>1. ASSUME NEW k \in Nat, \A j \in 0 .. k - 1 : j \in S PROVE k \in S
  <2> SUFFICES ASSUME k <= n PROVE g[k] = f[k]
    OBVIOUS
  <2>0. k \in 0 .. n
    OBVIOUS
  <2>1. CASE k <= LeafSize
    BY <2>0, <2>1 DEF Halved
  <2>2. CASE ~(k <= LeafSize)
    <3>1. /\ LeftCount(k) \in 0 .. k - 1 /\ RightCount(k) \in 0 .. k - 1
          /\ LeftCount(k) <= n /\ RightCount(k) <= n
      BY <2>2, Children
    <3>2. g[LeftCount(k)] = f[LeftCount(k)] /\ g[RightCount(k)] = f[RightCount(k)]
      BY <1>1, <3>1
    <3>3. g[k] = step[k][f[LeftCount(k)]][f[RightCount(k)]]
      BY <2>0, <2>2, <3>2
    <3> QED
      BY <2>2, <3>3 DEF Halved
  <2> QED
    BY <2>1, <2>2
<1>2. Nat \subseteq S
  <2> HIDE DEF S
  <2> QED
    BY <1>1, FromAllBefore
<1> QED
  BY <1>2

LEMMA SwitchBitsFacts ==
  \A n \in Nat :
    /\ SwitchBits(n) \in Nat
    /\ SwitchBits(n) = IF n <= LeafSize THEN 0
                       ELSE n \div 2 + SwitchBits(LeftCount(n)) + SwitchBits(RightCount(n))
<1> DEFINE leaf == [k \in Nat |-> 0]
           step == [k \in Nat |-> [x \in Nat |-> [y \in Nat |-> k \div 2 + x + y]]]
<1>1. IsHalving(leaf, step, Nat)
  <2>1. \A k, x, y \in Nat : k \div 2 + x + y \in Nat
    OBVIOUS
  <2> QED
    BY <2>1 DEF IsHalving
<1>2. PICK f : Halved(f, leaf, step, Nat)
  BY <1>1, HalvedExists
<1>3. ASSUME NEW n \in Nat PROVE SwitchBits(n) = f[n]
  <2> DEFINE IsIt(B) == B = [k \in 0 .. n |->
               IF k <= LeafSize THEN 0
               ELSE k \div 2 + B[LeftCount(k)] + B[RightCount(k)]]
             B == CHOOSE B : IsIt(B)
             g == [k \in 0 .. n |-> f[k]]
  <2>1. SwitchBits(n) = B[n]
    BY DEF SwitchBits
  <2>2. IsIt(g)
    <3>1. ASSUME NEW k \in 0 .. n
          PROVE  g[k] = IF k <= LeafSize THEN 0
                        ELSE k \div 2 + g[LeftCount(k)] + g[RightCount(k)]
      <4>0. k \in Nat
        OBVIOUS
      <4>1. f[k] = IF k <= LeafSize THEN 0
                ELSE step[k][f[LeftCount(k)]][f[RightCount(k)]]
        BY <1>2, <4>0 DEF Halved
      <4>2. CASE k <= LeafSize
        BY <4>1, <4>2
      <4>3. CASE ~(k <= LeafSize)
        <5>1. LeftCount(k) \in 0 .. n /\ RightCount(k) \in 0 .. n
              /\ LeftCount(k) \in Nat /\ RightCount(k) \in Nat
          <6>1. LeftCount(k) \in 1 .. k - 1 /\ RightCount(k) \in 1 .. k - 1
            BY <4>0, <4>3, Children
          <6> QED
            BY <6>1
        <5>2. f[LeftCount(k)] \in Nat /\ f[RightCount(k)] \in Nat
          BY <1>2, <5>1 DEF Halved
        <5> QED
          BY <4>0, <4>1, <4>3, <5>1, <5>2
      <4> QED
        BY <4>2, <4>3
    <3> QED
      BY <3>1
  <2>3. IsIt(B)
    <3> HIDE DEF IsIt
    <3> QED
      BY <2>2
  <2>4. \A k \in 0 .. n : B[k] = IF k <= LeafSize THEN 0
               ELSE k \div 2 + B[LeftCount(k)] + B[RightCount(k)]
    BY <2>3
  <2> HIDE DEF B, g, IsIt
  <2>5. \A k \in 0 .. n : k <= LeafSize => B[k] = leaf[k]
    BY <2>4
  <2>6. ASSUME NEW k \in 0 .. n, ~(k <= LeafSize),
               B[LeftCount(k)] = f[LeftCount(k)], B[RightCount(k)] = f[RightCount(k)]
        PROVE  B[k] = step[k][f[LeftCount(k)]][f[RightCount(k)]]
    <3>1. LeftCount(k) \in Nat /\ RightCount(k) \in Nat
      BY <2>6, Children
    <3>2. f[LeftCount(k)] \in Nat /\ f[RightCount(k)] \in Nat
      BY <1>2, <3>1 DEF Halved
    <3> QED
      BY <2>4, <2>6, <3>2
  <2> HIDE DEF leaf, step
  <2>7. \A k \in 0 .. n : B[k] = f[k]
    BY <1>1, <1>2, <2>5, <2>6, HalvedIs
  <2> QED
    BY <2>1, <2>7
<1>4. ASSUME NEW n \in Nat
      PROVE  f[n] \in Nat /\ f[n] = IF n <= LeafSize THEN 0
                         ELSE n \div 2 + f[LeftCount(n)] + f[RightCount(n)]
  <2>1. CASE n <= LeafSize
    BY <1>2, <2>1 DEF Halved
  <2>2. CASE ~(n <= LeafSize)
    BY <1>2, <2>2, Children DEF Halved
  <2> QED
    BY <2>1, <2>2
<1>5. ASSUME NEW n \in Nat
      PROVE  /\ SwitchBits(n) \in Nat
             /\ SwitchBits(n) = IF n <= LeafSize THEN 0
                  ELSE n \div 2 + SwitchBits(LeftCount(n)) + SwitchBits(RightCount(n))
  <2>1. CASE n <= LeafSize
    BY <1>3, <1>4, <2>1
  <2>2. CASE ~(n <= LeafSize)
    BY <1>3, <1>4, <2>2, Children
  <2> QED
    BY <2>1, <2>2
<1> QED
  BY <1>5

LEMMA MiddleBitsFacts ==
  \A n \in Nat :
    /\ MiddleBits(n) \in Nat
    /\ MiddleBits(n) = IF n <= LeafSize THEN FactoradicBitCount(n)
                       ELSE MiddleBits(LeftCount(n)) + MiddleBits(RightCount(n))
<1> DEFINE leaf == [k \in Nat |-> FactoradicBitCount(k)]
           step == [k \in Nat |-> [x \in Nat |-> [y \in Nat |-> x + y]]]
<1>1. IsHalving(leaf, step, Nat)
  <2>1. \A k, x, y \in Nat : x + y \in Nat
    OBVIOUS
  <2> QED
    BY <2>1, BitCountType DEF IsHalving
<1>2. PICK f : Halved(f, leaf, step, Nat)
  BY <1>1, HalvedExists
<1>3. ASSUME NEW n \in Nat PROVE MiddleBits(n) = f[n]
  <2> DEFINE IsIt(B) == B = [k \in 0 .. n |->
               IF k <= LeafSize THEN FactoradicBitCount(k)
               ELSE B[LeftCount(k)] + B[RightCount(k)]]
             B == CHOOSE B : IsIt(B)
             g == [k \in 0 .. n |-> f[k]]
  <2>1. MiddleBits(n) = B[n]
    BY DEF MiddleBits
  <2>2. IsIt(g)
    <3>1. ASSUME NEW k \in 0 .. n
          PROVE  g[k] = IF k <= LeafSize THEN FactoradicBitCount(k)
                        ELSE g[LeftCount(k)] + g[RightCount(k)]
      <4>0. k \in Nat
        OBVIOUS
      <4>1. f[k] = IF k <= LeafSize THEN FactoradicBitCount(k)
                ELSE step[k][f[LeftCount(k)]][f[RightCount(k)]]
        BY <1>2, <4>0 DEF Halved
      <4>2. CASE k <= LeafSize
        BY <4>1, <4>2
      <4>3. CASE ~(k <= LeafSize)
        <5>1. LeftCount(k) \in 0 .. n /\ RightCount(k) \in 0 .. n
              /\ LeftCount(k) \in Nat /\ RightCount(k) \in Nat
          <6>1. LeftCount(k) \in 1 .. k - 1 /\ RightCount(k) \in 1 .. k - 1
            BY <4>0, <4>3, Children
          <6> QED
            BY <6>1
        <5>2. f[LeftCount(k)] \in Nat /\ f[RightCount(k)] \in Nat
          BY <1>2, <5>1 DEF Halved
        <5> QED
          BY <4>0, <4>1, <4>3, <5>1, <5>2
      <4> QED
        BY <4>2, <4>3
    <3> QED
      BY <3>1
  <2>3. IsIt(B)
    <3> HIDE DEF IsIt
    <3> QED
      BY <2>2
  <2>4. \A k \in 0 .. n : B[k] = IF k <= LeafSize THEN FactoradicBitCount(k)
               ELSE B[LeftCount(k)] + B[RightCount(k)]
    BY <2>3
  <2> HIDE DEF B, g, IsIt
  <2>5. \A k \in 0 .. n : k <= LeafSize => B[k] = leaf[k]
    BY <2>4
  <2>6. ASSUME NEW k \in 0 .. n, ~(k <= LeafSize),
               B[LeftCount(k)] = f[LeftCount(k)], B[RightCount(k)] = f[RightCount(k)]
        PROVE  B[k] = step[k][f[LeftCount(k)]][f[RightCount(k)]]
    <3>1. LeftCount(k) \in Nat /\ RightCount(k) \in Nat
      BY <2>6, Children
    <3>2. f[LeftCount(k)] \in Nat /\ f[RightCount(k)] \in Nat
      BY <1>2, <3>1 DEF Halved
    <3> QED
      BY <2>4, <2>6, <3>2
  <2> HIDE DEF leaf, step
  <2>7. \A k \in 0 .. n : B[k] = f[k]
    BY <1>1, <1>2, <2>5, <2>6, HalvedIs
  <2> QED
    BY <2>1, <2>7
<1>4. ASSUME NEW n \in Nat
      PROVE  f[n] \in Nat /\ f[n] = IF n <= LeafSize THEN FactoradicBitCount(n)
                         ELSE f[LeftCount(n)] + f[RightCount(n)]
  <2>1. CASE n <= LeafSize
    BY <1>2, <2>1 DEF Halved
  <2>2. CASE ~(n <= LeafSize)
    BY <1>2, <2>2, Children DEF Halved
  <2> QED
    BY <2>1, <2>2
<1>5. ASSUME NEW n \in Nat
      PROVE  /\ MiddleBits(n) \in Nat
             /\ MiddleBits(n) = IF n <= LeafSize THEN FactoradicBitCount(n)
                  ELSE MiddleBits(LeftCount(n)) + MiddleBits(RightCount(n))
  <2>1. CASE n <= LeafSize
    BY <1>3, <1>4, <2>1
  <2>2. CASE ~(n <= LeafSize)
    BY <1>3, <1>4, <2>2, Children
  <2> QED
    BY <2>1, <2>2
<1> QED
  BY <1>5

LEMMA RoutingDepthFacts ==
  \A n \in Nat :
    /\ RoutingDepth(n) \in Nat
    /\ RoutingDepth(n) = IF n <= LeafSize THEN 0
                       ELSE 1 + RoutingDepth(LeftCount(n))
<1> DEFINE leaf == [k \in Nat |-> 0]
           step == [k \in Nat |-> [x \in Nat |-> [y \in Nat |-> 1 + x]]]
<1>1. IsHalving(leaf, step, Nat)
  <2>1. \A k, x, y \in Nat : 1 + x \in Nat
    OBVIOUS
  <2> QED
    BY <2>1 DEF IsHalving
<1>2. PICK f : Halved(f, leaf, step, Nat)
  BY <1>1, HalvedExists
<1>3. ASSUME NEW n \in Nat PROVE RoutingDepth(n) = f[n]
  <2> DEFINE IsIt(B) == B = [k \in 0 .. n |->
               IF k <= LeafSize THEN 0
               ELSE 1 + B[LeftCount(k)]]
             B == CHOOSE B : IsIt(B)
             g == [k \in 0 .. n |-> f[k]]
  <2>1. RoutingDepth(n) = B[n]
    BY DEF RoutingDepth
  <2>2. IsIt(g)
    <3>1. ASSUME NEW k \in 0 .. n
          PROVE  g[k] = IF k <= LeafSize THEN 0
                        ELSE 1 + g[LeftCount(k)]
      <4>0. k \in Nat
        OBVIOUS
      <4>1. f[k] = IF k <= LeafSize THEN 0
                ELSE step[k][f[LeftCount(k)]][f[RightCount(k)]]
        BY <1>2, <4>0 DEF Halved
      <4>2. CASE k <= LeafSize
        BY <4>1, <4>2
      <4>3. CASE ~(k <= LeafSize)
        <5>1. LeftCount(k) \in 0 .. n /\ RightCount(k) \in 0 .. n
              /\ LeftCount(k) \in Nat /\ RightCount(k) \in Nat
          <6>1. LeftCount(k) \in 1 .. k - 1 /\ RightCount(k) \in 1 .. k - 1
            BY <4>0, <4>3, Children
          <6> QED
            BY <6>1
        <5>2. f[LeftCount(k)] \in Nat /\ f[RightCount(k)] \in Nat
          BY <1>2, <5>1 DEF Halved
        <5> QED
          BY <4>0, <4>1, <4>3, <5>1, <5>2
      <4> QED
        BY <4>2, <4>3
    <3> QED
      BY <3>1
  <2>3. IsIt(B)
    <3> HIDE DEF IsIt
    <3> QED
      BY <2>2
  <2>4. \A k \in 0 .. n : B[k] = IF k <= LeafSize THEN 0
               ELSE 1 + B[LeftCount(k)]
    BY <2>3
  <2> HIDE DEF B, g, IsIt
  <2>5. \A k \in 0 .. n : k <= LeafSize => B[k] = leaf[k]
    BY <2>4
  <2>6. ASSUME NEW k \in 0 .. n, ~(k <= LeafSize),
               B[LeftCount(k)] = f[LeftCount(k)], B[RightCount(k)] = f[RightCount(k)]
        PROVE  B[k] = step[k][f[LeftCount(k)]][f[RightCount(k)]]
    <3>1. LeftCount(k) \in Nat /\ RightCount(k) \in Nat
      BY <2>6, Children
    <3>2. f[LeftCount(k)] \in Nat /\ f[RightCount(k)] \in Nat
      BY <1>2, <3>1 DEF Halved
    <3> QED
      BY <2>4, <2>6, <3>2
  <2> HIDE DEF leaf, step
  <2>7. \A k \in 0 .. n : B[k] = f[k]
    BY <1>1, <1>2, <2>5, <2>6, HalvedIs
  <2> QED
    BY <2>1, <2>7
<1>4. ASSUME NEW n \in Nat
      PROVE  f[n] \in Nat /\ f[n] = IF n <= LeafSize THEN 0
                         ELSE 1 + f[LeftCount(n)]
  <2>1. CASE n <= LeafSize
    BY <1>2, <2>1 DEF Halved
  <2>2. CASE ~(n <= LeafSize)
    BY <1>2, <2>2, Children DEF Halved
  <2> QED
    BY <2>1, <2>2
<1>5. ASSUME NEW n \in Nat
      PROVE  /\ RoutingDepth(n) \in Nat
             /\ RoutingDepth(n) = IF n <= LeafSize THEN 0
                  ELSE 1 + RoutingDepth(LeftCount(n))
  <2>1. CASE n <= LeafSize
    BY <1>3, <1>4, <2>1
  <2>2. CASE ~(n <= LeafSize)
    BY <1>3, <1>4, <2>2, Children
  <2> QED
    BY <2>1, <2>2
<1> QED
  BY <1>5

LEMMA PacketSwitchBitsFacts ==
  \A n \in Nat : \A d \in Nat :
    /\ PacketSwitchBits(n, d) \in Nat
    /\ PacketSwitchBits(n, d) =
         IF n <= LeafSize \/ d = 0 THEN 0
         ELSE n \div 2 + PacketSwitchBits(LeftCount(n), d - 1)
                + PacketSwitchBits(RightCount(n), d - 1)
<1> DEFINE X == [Nat -> Nat]
           zero == [k \in Nat |-> 0]
           Turn(g, k) == IF k <= LeafSize THEN 0
                         ELSE k \div 2 + g[LeftCount(k)] + g[RightCount(k)]
           step == [d \in Nat |-> [g \in X |-> [k \in Nat |-> Turn(g, k)]]]
<1>1. ASSUME NEW g \in X, NEW k \in Nat PROVE Turn(g, k) \in Nat
  <2>1. CASE k <= LeafSize
    BY <2>1
  <2>2. CASE ~(k <= LeafSize)
    <3>1. g[LeftCount(k)] \in Nat /\ g[RightCount(k)] \in Nat
      BY <2>2, Children
    <3> QED
      BY <2>2, <3>1
  <2> QED
    BY <2>1, <2>2
<1>2. \A d \in Nat : \A g \in X : step[d][g] = [k \in Nat |-> Turn(g, k)]
  OBVIOUS
<1>3. zero \in X /\ \A k \in Nat : zero[k] = 0
  OBVIOUS
<1> HIDE DEF Turn, zero
<1>4. IsStep(zero, step, X)
  BY <1>1, <1>3 DEF IsStep
<1>5. PICK f : Follows(f, zero, step, X)
  <2> HIDE DEF step, X
  <2> QED
    BY <1>4, FunctionExists
<1> HIDE DEF step
<1>6. \A d \in Nat : f[d] \in X /\ f[d + 1] = [k \in Nat |-> Turn(f[d], k)]
  BY <1>2, <1>5 DEF Follows
<1>7. /\ \A k \in Nat : f[0][k] = 0
      /\ \A d, k \in Nat : f[d][k] \in Nat /\ f[d + 1][k] = Turn(f[d], k)
  <2>1. \A k \in Nat : f[0][k] = 0
    BY <1>3, <1>5 DEF Follows
  <2>2. ASSUME NEW d \in Nat, NEW k \in Nat
        PROVE  f[d][k] \in Nat /\ f[d + 1][k] = Turn(f[d], k)
    <3>1. f[d] \in X /\ f[d + 1] = [j \in Nat |-> Turn(f[d], j)]
      BY <1>6
    <3> QED
      BY <3>1
  <2> QED
    BY <2>1, <2>2
<1>8. ASSUME NEW n \in Nat, NEW depth \in Nat
      PROVE  PacketSwitchBits(n, depth) = f[depth][n]
  <2> DEFINE Value(B, d, k) ==
               IF k <= LeafSize \/ d = 0 THEN 0
               ELSE k \div 2 + B[d - 1][LeftCount(k)] + B[d - 1][RightCount(k)]
             IsIt(B) == B = [d \in 0 .. depth |-> [k \in 0 .. n |-> Value(B, d, k)]]
             B == CHOOSE B : IsIt(B)
             g == [d \in 0 .. depth |-> [k \in 0 .. n |-> f[d][k]]]
  <2>1. PacketSwitchBits(n, depth) = B[depth][n]
    BY DEF PacketSwitchBits
  <2>2. \A k \in 0 .. n : ~(k <= LeafSize) =>
          /\ k \in Nat
          /\ LeftCount(k) \in 0 .. n /\ RightCount(k) \in 0 .. n
          /\ LeftCount(k) \in Nat /\ RightCount(k) \in Nat
    <3> SUFFICES ASSUME NEW k \in 0 .. n, ~(k <= LeafSize)
                 PROVE  /\ k \in Nat
                        /\ LeftCount(k) \in 0 .. n /\ RightCount(k) \in 0 .. n
                        /\ LeftCount(k) \in Nat /\ RightCount(k) \in Nat
      OBVIOUS
    <3>1. k \in Nat /\ k <= n
      OBVIOUS
    <3>2. LeftCount(k) \in 1 .. k - 1 /\ RightCount(k) \in 1 .. k - 1
      BY <3>1, Children
    <3> QED
      BY <3>1, <3>2
  <2>3. \A d \in 0 .. depth : \A k \in 0 .. n : g[d][k] = f[d][k]
    OBVIOUS
  <2> HIDE DEF g
  <2>4. ASSUME NEW d \in 0 .. depth, NEW k \in 0 .. n PROVE g[d][k] = Value(g, d, k)
    <3>0. d \in Nat /\ k \in Nat
      OBVIOUS
    <3>1. CASE d = 0
      BY <1>7, <2>3, <3>0, <3>1
    <3>2. CASE d # 0
      <4>1. d - 1 \in 0 .. depth /\ d - 1 \in Nat /\ (d - 1) + 1 = d
        BY <3>2
      <4>2. f[d][k] = Turn(f[d - 1], k)
        BY <1>7, <3>0, <4>1
      <4>3. CASE k <= LeafSize
        BY <2>3, <4>2, <4>3 DEF Turn
      <4>4. CASE ~(k <= LeafSize)
        BY <2>2, <2>3, <3>2, <4>1, <4>2, <4>4 DEF Turn
      <4> QED
        BY <4>3, <4>4
    <3> QED
      BY <3>1, <3>2
  <2>5. IsIt(g)
    BY <2>4 DEF g
  <2>6. IsIt(B)
    <3> HIDE DEF IsIt
    <3> QED
      BY <2>5
  <2> HIDE DEF B
  <2>7. \A d \in 0 .. depth : \A k \in 0 .. n : B[d][k] = Value(B, d, k)
    <3> HIDE DEF Value
    <3>1. \A d \in 0 .. depth : B[d] = [k \in 0 .. n |-> Value(B, d, k)]
      BY <2>6
    <3> QED
      BY <3>1
  <2> HIDE DEF IsIt
  <2> DEFINE S == {d \in Nat : d <= depth => \A k \in 0 .. n : B[d][k] = f[d][k]}
  <2>8. 0 \in S
    BY <1>7, <2>7
  <2>9. ASSUME NEW d \in Nat, d \in S PROVE d + 1 \in S
    <3> SUFFICES ASSUME d + 1 <= depth, NEW k \in 0 .. n
                 PROVE  B[d + 1][k] = f[d + 1][k]
      OBVIOUS
    <3>1. /\ d + 1 \in 0 .. depth /\ d + 1 # 0 /\ (d + 1) - 1 = d /\ d <= depth
          /\ k \in Nat
      OBVIOUS
    <3>2. \A j \in 0 .. n : B[d][j] = f[d][j]
      BY <2>9, <3>1
    <3>3. B[d + 1][k] = Value(B, d + 1, k) /\ f[d + 1][k] = Turn(f[d], k)
      BY <1>7, <2>7, <3>1
    <3> HIDE DEF S
    <3>4. CASE k <= LeafSize
      BY <3>3, <3>4 DEF Turn
    <3>5. CASE ~(k <= LeafSize)
      BY <2>2, <3>1, <3>2, <3>3, <3>5 DEF Turn
    <3> QED
      BY <3>4, <3>5
  <2>10. Nat \subseteq S
    <3> HIDE DEF S
    <3> QED
      BY <2>8, <2>9, Induction
  <2>11. n \in 0 .. n
    OBVIOUS
  <2> QED
    BY <2>1, <2>10, <2>11
<1>9. ASSUME NEW n \in Nat, NEW d \in Nat
      PROVE  f[d][n] = IF n <= LeafSize \/ d = 0 THEN 0
                       ELSE n \div 2 + f[d - 1][LeftCount(n)] + f[d - 1][RightCount(n)]
  <2>1. CASE d = 0
    BY <1>7, <2>1
  <2>2. CASE d # 0
    <3>1. d - 1 \in Nat /\ (d - 1) + 1 = d
      BY <2>2
    <3> QED
      BY <1>7, <2>2, <3>1 DEF Turn
  <2> QED
    BY <2>1, <2>2
<1>10. ASSUME NEW n \in Nat, NEW d \in Nat
       PROVE  /\ PacketSwitchBits(n, d) \in Nat
              /\ PacketSwitchBits(n, d) =
                   IF n <= LeafSize \/ d = 0 THEN 0
                   ELSE n \div 2 + PacketSwitchBits(LeftCount(n), d - 1)
                          + PacketSwitchBits(RightCount(n), d - 1)
  <2>0. PacketSwitchBits(n, d) = f[d][n] /\ f[d][n] \in Nat
    BY <1>7, <1>8
  <2>1. CASE n <= LeafSize \/ d = 0
    BY <1>9, <2>0, <2>1
  <2>2. CASE ~(n <= LeafSize \/ d = 0)
    <3>1. d - 1 \in Nat /\ LeftCount(n) \in Nat /\ RightCount(n) \in Nat
      BY <2>2, Children
    <3>2. /\ PacketSwitchBits(LeftCount(n), d - 1) = f[d - 1][LeftCount(n)]
          /\ PacketSwitchBits(RightCount(n), d - 1) = f[d - 1][RightCount(n)]
      BY <1>8, <3>1
    <3> QED
      BY <1>9, <2>0, <2>2, <3>2
  <2> QED
    BY <2>1, <2>2
<1> QED
  BY <1>10

\* The switches of the first levels are among all switches.
LEMMA PacketsWithin ==
  \A d \in Nat : \A n \in Nat : PacketSwitchBits(n, d) <= SwitchBits(n)
<1> DEFINE S == {d \in Nat : \A n \in Nat : PacketSwitchBits(n, d) <= SwitchBits(n)}
<1>1. 0 \in S
  <2> SUFFICES ASSUME NEW n \in Nat PROVE PacketSwitchBits(n, 0) <= SwitchBits(n)
    OBVIOUS
  <2>1. PacketSwitchBits(n, 0) = 0
    BY PacketSwitchBitsFacts
  <2>2. SwitchBits(n) \in Nat
    BY SwitchBitsFacts
  <2> QED
    BY <2>1, <2>2
<1>2. ASSUME NEW d \in Nat, d \in S PROVE d + 1 \in S
  <2> SUFFICES ASSUME NEW n \in Nat PROVE PacketSwitchBits(n, d + 1) <= SwitchBits(n)
    OBVIOUS
  <2>1. d + 1 \in Nat /\ d + 1 # 0 /\ (d + 1) - 1 = d
    OBVIOUS
  <2>2. CASE n <= LeafSize
    <3>1. PacketSwitchBits(n, d + 1) = 0
      BY <2>1, <2>2, PacketSwitchBitsFacts
    <3>2. SwitchBits(n) \in Nat
      BY SwitchBitsFacts
    <3> QED
      BY <3>1, <3>2
  <2>3. CASE ~(n <= LeafSize)
    <3> DEFINE L == LeftCount(n)  R == RightCount(n)
    <3>1. L \in Nat /\ R \in Nat
      BY <2>3, Children
    <3>2. PacketSwitchBits(n, d + 1) = n \div 2 + PacketSwitchBits(L, d) + PacketSwitchBits(R, d)
      BY <2>1, <2>3, PacketSwitchBitsFacts
    <3>3. SwitchBits(n) = n \div 2 + SwitchBits(L) + SwitchBits(R)
      BY <2>3, SwitchBitsFacts
    <3> HIDE DEF L, R
    <3>4. PacketSwitchBits(L, d) <= SwitchBits(L) /\ PacketSwitchBits(R, d) <= SwitchBits(R)
      BY <1>2, <3>1
    <3>5. /\ PacketSwitchBits(L, d) \in Nat /\ PacketSwitchBits(R, d) \in Nat
          /\ SwitchBits(L) \in Nat /\ SwitchBits(R) \in Nat /\ n \div 2 \in Nat
      <4>1. /\ PacketSwitchBits(L, d) \in Nat /\ PacketSwitchBits(R, d) \in Nat
        BY <3>1, PacketSwitchBitsFacts
      <4>2. SwitchBits(L) \in Nat /\ SwitchBits(R) \in Nat
        BY <3>1, SwitchBitsFacts
      <4> QED
        BY <4>1, <4>2
    <3> QED
      BY <3>2, <3>3, <3>4, <3>5
  <2> QED
    BY <2>2, <2>3
<1>3. Nat \subseteq S
  <2> HIDE DEF S
  <2> QED
    BY <1>1, <1>2, Induction
<1> QED
  BY <1>3

\* A smaller network is not deeper.
LEMMA DepthGrows ==
  \A n \in Nat : \A m \in 0 .. n : RoutingDepth(m) <= RoutingDepth(n)
<1> DEFINE S == {n \in Nat : \A m \in 0 .. n : RoutingDepth(m) <= RoutingDepth(n)}
<1>1. ASSUME NEW n \in Nat, \A k \in 0 .. n - 1 : k \in S PROVE n \in S
  <2> SUFFICES ASSUME NEW m \in 0 .. n PROVE RoutingDepth(m) <= RoutingDepth(n)
    OBVIOUS
  <2>0. m \in Nat /\ m <= n /\ RoutingDepth(m) \in Nat /\ RoutingDepth(n) \in Nat
    BY RoutingDepthFacts
  <2>1. CASE m <= LeafSize
    <3>1. RoutingDepth(m) = 0
      BY <2>0, <2>1, RoutingDepthFacts
    <3> QED
      BY <2>0, <3>1
  <2>2. CASE ~(m <= LeafSize)
    <3>1. ~(n <= LeafSize)
      BY <2>0, <2>2, LeafSizes
    <3>2. /\ LeftCount(n) \in 0 .. n - 1 /\ LeftCount(m) \in Nat
          /\ LeftCount(n) \in Nat
      BY <2>0, <2>2, <3>1, Children
    <3>3. LeftCount(m) <= LeftCount(n)
      BY <2>0 DEF LeftCount
    <3>4. LeftCount(m) \in 0 .. LeftCount(n)
      BY <3>2, <3>3
    <3>5. RoutingDepth(LeftCount(m)) <= RoutingDepth(LeftCount(n))
      BY <1>1, <3>2, <3>4
    <3>6. /\ RoutingDepth(m) = 1 + RoutingDepth(LeftCount(m))
          /\ RoutingDepth(n) = 1 + RoutingDepth(LeftCount(n))
      BY <2>0, <2>2, <3>1, RoutingDepthFacts
    <3>7. RoutingDepth(LeftCount(m)) \in Nat /\ RoutingDepth(LeftCount(n)) \in Nat
      BY <3>2, RoutingDepthFacts
    <3> QED
      BY <3>5, <3>6, <3>7
  <2> QED
    BY <2>1, <2>2
<1>2. Nat \subseteq S
  <2> HIDE DEF S
  <2> QED
    BY <1>1, FromAllBefore
<1> QED
  BY <1>2

-----------------------------------------------------------------------------
(* How many of the first nodes of a level are large.                         *)

LEMMA IncludedFacts ==
  \A n, m \in Nat :
    /\ \A l \in Nat : IncludedLarge(l, n, m) \in Nat
    /\ IncludedLarge(0, n, m) = IF n # 0 /\ m # 0 THEN 1 ELSE 0
    /\ \A l \in Nat :
         IncludedLarge(l + 1, n, m) =
           IF m <= PowerOfTwo[l] THEN IncludedLarge(l, (n + 1) \div 2, m)
           ELSE (n + 1) \div 2 + IncludedLarge(l, n \div 2, m - PowerOfTwo[l])
<1> DEFINE X == [Nat -> [Nat -> Nat]]
           First(n, m) == IF n # 0 /\ m # 0 THEN 1 ELSE 0
           Turn(g, l, n, m) ==
             IF m <= PowerOfTwo[l] THEN g[(n + 1) \div 2][m]
             ELSE (n + 1) \div 2 + g[n \div 2][m - PowerOfTwo[l]]
           start == [n \in Nat |-> [m \in Nat |-> First(n, m)]]
           step == [l \in Nat |-> [g \in X |->
                     [n \in Nat |-> [m \in Nat |-> Turn(g, l, n, m)]]]]
<1>1. ASSUME NEW g \in X, NEW l \in Nat, NEW n \in Nat, NEW m \in Nat
      PROVE  Turn(g, l, n, m) \in Nat
  <2> DEFINE w == PowerOfTwo[l]
  <2>1. (n + 1) \div 2 \in Nat /\ n \div 2 \in Nat /\ w \in Nat
    <3>1. w \in Nat
      BY PowerFacts
    <3> HIDE DEF w
    <3>2. (n + 1) \div 2 \in Nat /\ n \div 2 \in Nat
      OBVIOUS
    <3> QED
      BY <3>1, <3>2
  <2> DEFINE h == (n + 1) \div 2  h2 == n \div 2
  <2>5. Turn(g, l, n, m) = IF m <= w THEN g[h][m] ELSE h + g[h2][m - w]
    OBVIOUS
  <2> HIDE DEF w, h, h2, Turn
  <2>2. \A a, b \in Nat : g[a][b] \in Nat
    <3> SUFFICES ASSUME NEW a \in Nat, NEW b \in Nat PROVE g[a][b] \in Nat
      OBVIOUS
    <3>1. g[a] \in [Nat -> Nat]
      OBVIOUS
    <3> QED
      BY <3>1
  <2>6. h \in Nat /\ h2 \in Nat
    BY <2>1 DEF h, h2
  <2>3. CASE m <= w
    <3>1. g[h][m] \in Nat
      BY <2>2, <2>6
    <3> QED
      BY <2>3, <2>5, <3>1
  <2>4. CASE ~(m <= w)
    <3>1. m - w \in Nat
      BY <2>1, <2>4
    <3>2. g[h2][m - w] \in Nat
      BY <2>2, <2>6, <3>1
    <3> DEFINE y == g[h2][m - w]
    <3>3. y \in Nat /\ Turn(g, l, n, m) = h + y
      BY <2>4, <2>5, <3>2
    <3> HIDE DEF y
    <3> QED
      BY <2>6, <3>3
  <2> QED
    BY <2>3, <2>4
<1>2. \A n, m \in Nat : First(n, m) \in Nat
  OBVIOUS
<1>3. \A n, m \in Nat : start[n][m] = First(n, m)
  OBVIOUS
<1>4. \A l \in Nat : \A g \in X : step[l][g] =
         [n \in Nat |-> [m \in Nat |-> Turn(g, l, n, m)]]
  OBVIOUS
<1> HIDE DEF Turn, First
<1>5. IsStep(start, step, X)
  BY <1>1, <1>2 DEF IsStep
<1>6. PICK f : Follows(f, start, step, X)
  <2> HIDE DEF step, start, X
  <2> QED
    BY <1>5, FunctionExists
<1> HIDE DEF step, start
<1>7. \A l \in Nat : f[l] \in X /\ f[l + 1] = [n \in Nat |-> [m \in Nat |-> Turn(f[l], l, n, m)]]
  BY <1>4, <1>6 DEF Follows
<1>8. \A n, m \in Nat : f[0][n][m] = First(n, m)
  BY <1>3, <1>6 DEF Follows
<1>9. ASSUME NEW l \in Nat, NEW n \in Nat, NEW m \in Nat
      PROVE  f[l][n][m] \in Nat /\ f[l + 1][n][m] = Turn(f[l], l, n, m)
  <2>1. f[l] \in X /\ f[l + 1] = [i \in Nat |-> [j \in Nat |-> Turn(f[l], l, i, j)]]
    BY <1>7
  <2>2. f[l][n] \in [Nat -> Nat] /\ f[l + 1][n] = [j \in Nat |-> Turn(f[l], l, n, j)]
    BY <2>1
  <2> QED
    BY <2>2
<1>10. ASSUME NEW level \in Nat, NEW n \in Nat, NEW m \in Nat
       PROVE  IncludedLarge(level, n, m) = f[level][n][m]
  <2> DEFINE Value(B, l, i, j) ==
               IF l = 0 THEN IF i # 0 /\ j # 0 THEN 1 ELSE 0
               ELSE LET half == PowerOfTwo[l - 1]
                    IN  IF j <= half
                        THEN B[l - 1][(i + 1) \div 2][j]
                        ELSE (i + 1) \div 2 + B[l - 1][i \div 2][j - half]
             IsIt(B) == B = [l \in 0 .. level |->
                          [i \in Nat |-> [j \in Nat |-> Value(B, l, i, j)]]]
             B == CHOOSE B : IsIt(B)
             g == [l \in 0 .. level |-> f[l]]
  <2>1. IncludedLarge(level, n, m) = B[level][n][m]
    BY DEF IncludedLarge
  <2>2. \A i, j \in Nat : \A b : Value(b, 0, i, j) = First(i, j)
    BY DEF First
  <2>3. ASSUME NEW b, NEW l \in Nat, NEW i \in Nat, NEW j \in Nat, b[l] = f[l]
        PROVE  Value(b, l + 1, i, j) = Turn(f[l], l, i, j)
    <3>1. l + 1 # 0 /\ (l + 1) - 1 = l
      OBVIOUS
    <3> QED
      BY <2>3, <3>1 DEF Turn
  <2> HIDE DEF Value
  <2>4. IsIt(g)
    <3>1. ASSUME NEW l \in 0 .. level
          PROVE  f[l] = [i \in Nat |-> [j \in Nat |-> Value(g, l, i, j)]]
      <4>1. CASE l = 0
        <5>1. f[0] = [i \in Nat |-> [j \in Nat |-> First(i, j)]]
          BY <1>6 DEF Follows, start
        <5> QED
          BY <2>2, <4>1, <5>1
      <4>2. CASE l # 0
        <5>1. l - 1 \in Nat /\ (l - 1) + 1 = l /\ g[l - 1] = f[l - 1]
          BY <4>2
        <5>2. \A i, j \in Nat : Value(g, l, i, j) = Turn(f[l - 1], l - 1, i, j)
          BY <2>3, <5>1
        <5>3. f[l] = [i \in Nat |-> [j \in Nat |-> Turn(f[l - 1], l - 1, i, j)]]
          BY <1>7, <5>1
        <5> QED
          BY <5>2, <5>3
      <4> QED
        BY <4>1, <4>2
    <3> QED
      BY <3>1
  <2> HIDE DEF g
  <2>5. IsIt(B)
    <3> HIDE DEF IsIt
    <3> QED
      BY <2>4
  <2> HIDE DEF B
  <2>6. \A l \in 0 .. level : B[l] = [i \in Nat |-> [j \in Nat |-> Value(B, l, i, j)]]
    BY <2>5
  <2> HIDE DEF IsIt
  <2>7. ASSUME NEW l \in 0 .. level - 1, B[l] \in X
        PROVE  B[l + 1] = step[l][B[l]]
    <3>1. l \in Nat /\ l + 1 \in 0 .. level /\ l + 1 # 0 /\ (l + 1) - 1 = l
      OBVIOUS
    <3>2. \A i, j \in Nat : Value(B, l + 1, i, j) = Turn(B[l], l, i, j)
      BY <3>1 DEF Value, Turn
    <3>3. B[l + 1] = [i \in Nat |-> [j \in Nat |-> Turn(B[l], l, i, j)]]
      BY <2>6, <3>1, <3>2
    <3> QED
      BY <1>4, <2>7, <3>1, <3>3
  <2>8. B[0] = start
    <3>1. 0 \in 0 .. level
      OBVIOUS
    <3>2. B[0] = [i \in Nat |-> [j \in Nat |-> Value(B, 0, i, j)]]
      BY <2>6, <3>1
    <3>3. \A i, j \in Nat : Value(B, 0, i, j) = First(i, j)
      BY <2>2
    <3>4. B[0] = [i \in Nat |-> [j \in Nat |-> First(i, j)]]
      BY <3>2, <3>3
    <3> QED
      BY <3>4 DEF start
  <2>9. \A l \in 0 .. level : B[l] = f[l]
    <3> HIDE DEF X
    <3> QED
      BY <1>6, <2>7, <2>8, ComputesIt
  <2> QED
    BY <2>1, <2>9
<1> DEFINE Y(l, n, m) == f[l][n][m]
           Z(l, n, m) == Turn(f[l], l, n, m)
<1>11. \A l, n, m \in Nat : Y(l, n, m) \in Nat /\ Y(l + 1, n, m) = Z(l, n, m)
  BY <1>9
<1>12. \A l, n, m \in Nat : IncludedLarge(l, n, m) = Y(l, n, m)
  BY <1>10
<1>13. \A n, m \in Nat : Y(0, n, m) = IF n # 0 /\ m # 0 THEN 1 ELSE 0
  BY <1>8 DEF First
<1>14. \A l, n, m \in Nat :
         Z(l, n, m) = IF m <= PowerOfTwo[l] THEN Y(l, (n + 1) \div 2, m)
                      ELSE (n + 1) \div 2 + Y(l, n \div 2, m - PowerOfTwo[l])
  BY DEF Turn
<1> HIDE DEF Y, Z
<1> SUFFICES ASSUME NEW n \in Nat, NEW m \in Nat
    PROVE /\ \A l \in Nat : IncludedLarge(l, n, m) \in Nat
          /\ IncludedLarge(0, n, m) = IF n # 0 /\ m # 0 THEN 1 ELSE 0
          /\ \A l \in Nat :
               IncludedLarge(l + 1, n, m) =
                 IF m <= PowerOfTwo[l] THEN IncludedLarge(l, (n + 1) \div 2, m)
                 ELSE (n + 1) \div 2 + IncludedLarge(l, n \div 2, m - PowerOfTwo[l])
  OBVIOUS
<1>15. \A l \in Nat : IncludedLarge(l, n, m) \in Nat
  BY <1>11, <1>12
<1>16. IncludedLarge(0, n, m) = IF n # 0 /\ m # 0 THEN 1 ELSE 0
  BY <1>12, <1>13
<1>17. ASSUME NEW l \in Nat
       PROVE  IncludedLarge(l + 1, n, m) =
                 IF m <= PowerOfTwo[l] THEN IncludedLarge(l, (n + 1) \div 2, m)
                 ELSE (n + 1) \div 2 + IncludedLarge(l, n \div 2, m - PowerOfTwo[l])
  <2> DEFINE w == PowerOfTwo[l]  h == (n + 1) \div 2  h2 == n \div 2
  <2>1. l + 1 \in Nat /\ h \in Nat /\ h2 \in Nat /\ w \in Nat
    <3>1. w \in Nat
      BY PowerFacts
    <3> HIDE DEF w
    <3>2. (n + 1) \div 2 \in Nat /\ n \div 2 \in Nat
      OBVIOUS
    <3> QED
      BY <3>1, <3>2
  <2>2. IncludedLarge(l + 1, n, m) =
           IF m <= w THEN Y(l, h, m) ELSE h + Y(l, h2, m - w)
    <3>1. IncludedLarge(l + 1, n, m) = Y(l + 1, n, m)
      BY <1>12, <2>1
    <3>2. Y(l + 1, n, m) = Z(l, n, m)
      BY <1>11
    <3>3. Z(l, n, m) = IF m <= w THEN Y(l, h, m) ELSE h + Y(l, h2, m - w)
      BY <1>14
    <3> QED
      BY <3>1, <3>2, <3>3
  <2> HIDE DEF w, h, h2
  <2>3. CASE m <= w
    <3>1. IncludedLarge(l, h, m) = Y(l, h, m)
      BY <1>12, <2>1
    <3> QED
      BY <2>2, <2>3, <3>1 DEF w, h, h2
  <2>4. CASE ~(m <= w)
    <3>1. m - w \in Nat
      BY <2>1, <2>4
    <3>2. IncludedLarge(l, h2, m - w) = Y(l, h2, m - w)
      BY <1>12, <2>1, <3>1
    <3> QED
      BY <2>2, <2>4, <3>2 DEF w, h, h2
  <2> QED
    BY <2>3, <2>4
<1> QED
  BY <1>15, <1>16, <1>17

LEMMA IncludedType ==
  ASSUME NEW l \in Nat, NEW n \in Nat, NEW m \in Nat
  PROVE  IncludedLarge(l, n, m) \in Nat
BY IncludedFacts

LEMMA IncludedNext ==
  ASSUME NEW l \in Nat, NEW n \in Nat, NEW m \in Nat
  PROVE  IncludedLarge(l + 1, n, m) =
           IF m <= PowerOfTwo[l] THEN IncludedLarge(l, (n + 1) \div 2, m)
           ELSE (n + 1) \div 2 + IncludedLarge(l, n \div 2, m - PowerOfTwo[l])
BY IncludedFacts

LEMMA IncludedFirst ==
  ASSUME NEW n \in Nat, NEW m \in Nat
  PROVE  IncludedLarge(0, n, m) = IF n # 0 /\ m # 0 THEN 1 ELSE 0
BY IncludedFacts

\* 1 when node q of a level with m large nodes is a large one, 0 otherwise.
LargeNode(l, q, m) == IncludedLarge(l, q + 1, m) - IncludedLarge(l, q, m)

NodeSize(n, l, q) == n \div PowerOfTwo[l] + LargeNode(l, q, n % PowerOfTwo[l])

LEMMA HalfOf ==
  \A q \in Nat :
    /\ q \div 2 \in Nat /\ (q + 1) \div 2 \in Nat /\ ((q + 1) + 1) \div 2 = q \div 2 + 1
    /\ q % 2 = 0 => (q + 1) \div 2 = q \div 2
    /\ q % 2 = 1 => (q + 1) \div 2 = q \div 2 + 1
    /\ q % 2 \in 0 .. 1
    /\ (2 * q) \div 2 = q /\ (2 * q + 1) \div 2 = q
    /\ (2 * q) % 2 = 0 /\ (2 * q + 1) % 2 = 1
OBVIOUS

\* From a level to the next.
LEMMA LargeNodeStep ==
  ASSUME NEW l \in Nat, NEW q \in Nat, NEW m \in Nat
  PROVE  LargeNode(l + 1, q, m) =
           IF m <= PowerOfTwo[l]
           THEN IF q % 2 = 0 THEN LargeNode(l, q \div 2, m) ELSE 0
           ELSE IF q % 2 = 0 THEN 1
                ELSE LargeNode(l, q \div 2, m - PowerOfTwo[l])
<1> DEFINE w == PowerOfTwo[l]  h == q \div 2  u == (q + 1) \div 2
           v == ((q + 1) + 1) \div 2
<1>1. w \in Nat
  BY PowerFacts
<1>2. h \in Nat /\ u \in Nat /\ v = h + 1 /\ q % 2 \in 0 .. 1
      /\ (q % 2 = 0 => u = h) /\ (q % 2 = 1 => u = h + 1) /\ q + 1 \in Nat
      /\ h + 1 \in Nat
  BY HalfOf
<1>3. IncludedLarge(l + 1, q + 1, m) =
        IF m <= w THEN IncludedLarge(l, v, m) ELSE v + IncludedLarge(l, u, m - w)
  BY <1>2, IncludedNext
<1>4. IncludedLarge(l + 1, q, m) =
        IF m <= w THEN IncludedLarge(l, u, m) ELSE u + IncludedLarge(l, h, m - w)
  BY IncludedNext
<1> HIDE DEF w, h, u, v
<1>5. CASE m <= w
  <2>1. IncludedLarge(l, h + 1, m) \in Nat /\ IncludedLarge(l, h, m) \in Nat
    BY <1>2, IncludedType
  <2>2. LargeNode(l + 1, q, m) = IF q % 2 = 0 THEN LargeNode(l, h, m) ELSE 0
    BY <1>2, <1>3, <1>4, <1>5, <2>1 DEF LargeNode
  <2> QED
    BY <1>5, <2>2 DEF w, h
<1>6. CASE ~(m <= w)
  <2>1. m - w \in Nat
    BY <1>1, <1>6
  <2>2. IncludedLarge(l, h + 1, m - w) \in Nat /\ IncludedLarge(l, h, m - w) \in Nat
    BY <1>2, <2>1, IncludedType
  <2>3. LargeNode(l + 1, q, m) = IF q % 2 = 0 THEN 1 ELSE LargeNode(l, h, m - w)
    BY <1>2, <1>3, <1>4, <1>6, <2>2 DEF LargeNode
  <2> QED
    BY <1>6, <2>3 DEF w, h
<1> QED
  BY <1>5, <1>6

LEMMA LargeNodeFirst ==
  ASSUME NEW q \in Nat, NEW m \in Nat
  PROVE  LargeNode(0, q, m) = IF q = 0 /\ m # 0 THEN 1 ELSE 0
<1>1. /\ IncludedLarge(0, q + 1, m) = IF q + 1 # 0 /\ m # 0 THEN 1 ELSE 0
      /\ IncludedLarge(0, q, m) = IF q # 0 /\ m # 0 THEN 1 ELSE 0
  <2>1. q + 1 \in Nat
    OBVIOUS
  <2> QED
    BY <2>1, IncludedFirst
<1> QED
  BY <1>1 DEF LargeNode

LEMMA LargeNodeFacts ==
  ASSUME NEW l \in Nat
  PROVE  /\ \A q, m \in Nat : LargeNode(l, q, m) \in {0, 1}
         /\ \A q \in Nat : LargeNode(l, q, 0) = 0
         /\ \A q \in 0 .. PowerOfTwo[l] - 1 : LargeNode(l, q, PowerOfTwo[l]) = 1
<1> DEFINE S == {k \in Nat :
                  /\ \A q, m \in Nat : LargeNode(k, q, m) \in {0, 1}
                  /\ \A q \in Nat : LargeNode(k, q, 0) = 0
                  /\ \A q \in 0 .. PowerOfTwo[k] - 1 : LargeNode(k, q, PowerOfTwo[k]) = 1}
<1>1. 0 \in S
  <2>1. PowerOfTwo[0] = 1
    BY PowerFacts
  <2>2. LargeNode(0, 0, 1) = 1
    BY LargeNodeFirst
  <2>3. \A q \in 0 .. PowerOfTwo[0] - 1 : q = 0
    BY <2>1
  <2> QED
    BY <2>1, <2>2, <2>3, LargeNodeFirst
<1>2. ASSUME NEW k \in Nat, k \in S PROVE k + 1 \in S
  <2> DEFINE w == PowerOfTwo[k]
  <2>1. w \in Nat \ {0} /\ PowerOfTwo[k + 1] = 2 * w
    BY PowerFacts
  <2>2. /\ \A q, m \in Nat : LargeNode(k, q, m) \in {0, 1}
        /\ \A q \in Nat : LargeNode(k, q, 0) = 0
        /\ \A q \in 0 .. w - 1 : LargeNode(k, q, w) = 1
    BY <1>2
  <2>3. \A q, m \in Nat : LargeNode(k + 1, q, m) =
           IF m <= w
           THEN IF q % 2 = 0 THEN LargeNode(k, q \div 2, m) ELSE 0
           ELSE IF q % 2 = 0 THEN 1
                ELSE LargeNode(k, q \div 2, m - w)
    BY LargeNodeStep
  <2> HIDE DEF w, S
  <2>4. ASSUME NEW q \in Nat, NEW m \in Nat PROVE LargeNode(k + 1, q, m) \in {0, 1}
    <3>1. q \div 2 \in Nat
      OBVIOUS
    <3>2. CASE m <= w
      <4>1. LargeNode(k, q \div 2, m) \in {0, 1}
        BY <2>2, <3>1
      <4> QED
        BY <2>3, <3>2, <4>1
    <3>3. CASE ~(m <= w)
      <4>1. m - w \in Nat
        BY <2>1, <3>3
      <4>2. LargeNode(k, q \div 2, m - w) \in {0, 1}
        BY <2>2, <3>1, <4>1
      <4> QED
        BY <2>3, <3>3, <4>2
    <3> QED
      BY <3>2, <3>3
  <2>5. ASSUME NEW q \in Nat PROVE LargeNode(k + 1, q, 0) = 0
    <3>1. q \div 2 \in Nat /\ 0 <= w
      BY <2>1
    <3>2. LargeNode(k, q \div 2, 0) = 0
      BY <2>2, <3>1
    <3> QED
      BY <2>3, <3>1, <3>2
  <2>6. ASSUME NEW q \in 0 .. 2 * w - 1 PROVE LargeNode(k + 1, q, 2 * w) = 1
    <3>1. q \in Nat /\ q \div 2 \in 0 .. w - 1 /\ 2 * w \in Nat /\ ~(2 * w <= w) /\ 2 * w - w = w
      BY <2>1
    <3>2. LargeNode(k, q \div 2, w) = 1
      BY <2>2, <3>1
    <3>3. LargeNode(k + 1, q, 2 * w) =
            IF q % 2 = 0 THEN 1 ELSE LargeNode(k, q \div 2, 2 * w - w)
      BY <2>3, <3>1
    <3> QED
      BY <3>1, <3>2, <3>3
  <2> QED
    BY <2>1, <2>4, <2>5, <2>6 DEF S
<1>3. Nat \subseteq S
  <2> HIDE DEF S
  <2> QED
    BY <1>1, <1>2, Induction
<1> QED
  BY <1>3

LEMMA IncludedEnds ==
  ASSUME NEW l \in Nat
  PROVE  /\ \A m \in Nat : IncludedLarge(l, 0, m) = 0
         /\ \A m \in 0 .. PowerOfTwo[l] : IncludedLarge(l, PowerOfTwo[l], m) = m
<1> DEFINE S == {k \in Nat :
                  /\ \A m \in Nat : IncludedLarge(k, 0, m) = 0
                  /\ \A m \in 0 .. PowerOfTwo[k] : IncludedLarge(k, PowerOfTwo[k], m) = m}
<1>1. 0 \in S
  <2>1. PowerOfTwo[0] = 1
    BY PowerFacts
  <2>2. \A m \in 0 .. 1 : m \in Nat /\ (m = 0 \/ m = 1)
    OBVIOUS
  <2>3. \A m \in 0 .. 1 : IncludedLarge(0, 1, m) = m
    BY <2>2, IncludedFirst
  <2> QED
    BY <2>1, <2>3, IncludedFirst
<1>2. ASSUME NEW k \in Nat, k \in S PROVE k + 1 \in S
  <2> DEFINE w == PowerOfTwo[k]
  <2>1. w \in Nat \ {0} /\ PowerOfTwo[k + 1] = 2 * w
    BY PowerFacts
  <2>2. /\ \A m \in Nat : IncludedLarge(k, 0, m) = 0
        /\ \A m \in 0 .. w : IncludedLarge(k, w, m) = m
    BY <1>2
  <2>3. \A n, m \in Nat : IncludedLarge(k + 1, n, m) =
           IF m <= w THEN IncludedLarge(k, (n + 1) \div 2, m)
           ELSE (n + 1) \div 2 + IncludedLarge(k, n \div 2, m - w)
    BY IncludedNext
  <2> HIDE DEF w, S
  <2>4. ASSUME NEW m \in Nat PROVE IncludedLarge(k + 1, 0, m) = 0
    <3>1. (0 + 1) \div 2 = 0 /\ 0 \div 2 = 0
      OBVIOUS
    <3>2. CASE m <= w
      BY <2>2, <2>3, <3>1, <3>2
    <3>3. CASE ~(m <= w)
      <4>1. m - w \in Nat
        BY <2>1, <3>3
      <4>2. IncludedLarge(k, 0, m - w) = 0
        BY <2>2, <4>1
      <4> QED
        BY <2>3, <3>1, <3>3, <4>2
    <3> QED
      BY <3>2, <3>3
  <2>5. ASSUME NEW m \in 0 .. 2 * w PROVE IncludedLarge(k + 1, 2 * w, m) = m
    <3>1. m \in Nat /\ 2 * w \in Nat /\ (2 * w + 1) \div 2 = w /\ (2 * w) \div 2 = w
      BY <2>1
    <3>2. CASE m <= w
      <4>1. m \in 0 .. w
        BY <3>2
      <4> QED
        BY <2>2, <2>3, <3>1, <3>2, <4>1
    <3>3. CASE ~(m <= w)
      <4>1. m - w \in 0 .. w
        BY <2>1, <3>3
      <4>2. IncludedLarge(k, w, m - w) = m - w
        BY <2>2, <4>1
      <4>3. IncludedLarge(k + 1, 2 * w, m) = w + (m - w)
        BY <2>3, <3>1, <3>3, <4>2
      <4> QED
        BY <2>1, <3>1, <4>3
    <3> QED
      BY <3>2, <3>3
  <2> QED
    BY <2>1, <2>4, <2>5 DEF S
<1>3. Nat \subseteq S
  <2> HIDE DEF S
  <2> QED
    BY <1>1, <1>2, Induction
<1> QED
  BY <1>3

\* The sizes of the nodes of a level are those that halving gives.
LEMMA NodeSizes ==
  ASSUME NEW n \in Nat
  PROVE  /\ NodeSize(n, 0, 0) = n
         /\ \A l \in Nat : \A q \in 0 .. PowerOfTwo[l] - 1 :
              /\ NodeSize(n, l, q) \in Nat
              /\ NodeSize(n, l + 1, 2 * q) = LeftCount(NodeSize(n, l, q))
              /\ NodeSize(n, l + 1, 2 * q + 1) = RightCount(NodeSize(n, l, q))
<1>1. NodeSize(n, 0, 0) = n
  <2>1. n \div 1 = n /\ n % 1 = 0
    OBVIOUS
  <2>2. LargeNode(0, 0, 0) = 0
    BY LargeNodeFirst
  <2> QED
    BY <2>1, <2>2, PowerFacts DEF NodeSize
<1>2. ASSUME NEW l \in Nat, NEW q \in 0 .. PowerOfTwo[l] - 1
      PROVE  /\ NodeSize(n, l, q) \in Nat
             /\ NodeSize(n, l + 1, 2 * q) = LeftCount(NodeSize(n, l, q))
             /\ NodeSize(n, l + 1, 2 * q + 1) = RightCount(NodeSize(n, l, q))
  <2> DEFINE w == PowerOfTwo[l]  s == n \div w  m == n % w
             t == n \div PowerOfTwo[l + 1]  k == n % PowerOfTwo[l + 1]
             b == LargeNode(l, q, m)
  <2>1. w \in Nat \ {0}
    BY PowerFacts
  <2>2. t = s \div 2 /\ k = m + w * (s % 2)
    BY NextPower
  <2>3. NodeSize(n, l, q) = s + b
    BY DEF NodeSize
  <2>4. /\ NodeSize(n, l + 1, 2 * q) = t + LargeNode(l + 1, 2 * q, k)
        /\ NodeSize(n, l + 1, 2 * q + 1) = t + LargeNode(l + 1, 2 * q + 1, k)
    BY DEF NodeSize
  <2>5. q \in 0 .. w - 1
    OBVIOUS
  <2> HIDE DEF t, k, w
  <2>6. s \in Nat /\ m \in 0 .. w - 1
    BY <2>1, DivisionFacts
  <2> HIDE DEF s, m, b
  <2>7. m \in Nat /\ q \in Nat /\ 2 * q \in Nat /\ 2 * q + 1 \in Nat
    BY <2>1, <2>5, <2>6
  <2>8. b \in {0, 1} /\ (m = 0 => b = 0)
    BY <2>7, LargeNodeFacts DEF b
  <2>9. ASSUME NEW j \in Nat
        PROVE  /\ LargeNode(l + 1, 2 * q, j) =
                    IF j <= w THEN LargeNode(l, q, j) ELSE 1
               /\ LargeNode(l + 1, 2 * q + 1, j) =
                    IF j <= w THEN 0 ELSE LargeNode(l, q, j - w)
    <3> DEFINE x == 2 * q  y == 2 * q + 1
    <3>1. x \in Nat /\ y \in Nat
      BY <2>7
    <3>2. x \div 2 = q /\ y \div 2 = q /\ x % 2 = 0 /\ y % 2 = 1
      BY <2>7
    <3> HIDE DEF x, y
    <3>3. LargeNode(l + 1, x, j) =
           IF j <= w
           THEN IF x % 2 = 0 THEN LargeNode(l, x \div 2, j) ELSE 0
           ELSE IF x % 2 = 0 THEN 1
                ELSE LargeNode(l, x \div 2, j - w)
      BY <3>1, LargeNodeStep DEF w
    <3>4. LargeNode(l + 1, y, j) =
           IF j <= w
           THEN IF y % 2 = 0 THEN LargeNode(l, y \div 2, j) ELSE 0
           ELSE IF y % 2 = 0 THEN 1
                ELSE LargeNode(l, y \div 2, j - w)
      BY <3>1, LargeNodeStep DEF w
    <3> QED
      BY <3>2, <3>3, <3>4 DEF x, y
  <2>10. s % 2 = 0 \/ s % 2 = 1
    BY <2>6
  <2>11. LeftCount(s + b) = (s + b) \div 2 + ((s + b) % 2) /\ RightCount(s + b) = (s + b) \div 2
    BY DEF LeftCount, RightCount
  <2>12. CASE s % 2 = 0
    <3>1. k = m /\ k <= w /\ k \in Nat
      BY <2>1, <2>2, <2>6, <2>12
    <3>2. LargeNode(l + 1, 2 * q, k) = b /\ LargeNode(l + 1, 2 * q + 1, k) = 0
      BY <2>9, <3>1 DEF b
    <3>3. (s + b) \div 2 = t /\ (s + b) % 2 = b
      BY <2>2, <2>6, <2>8, <2>12
    <3> QED
      BY <2>3, <2>4, <2>6, <2>8, <2>11, <3>2, <3>3
  <2>13. CASE s % 2 = 1
    <3>1. k = m + w /\ k \in Nat /\ k - w = m
      BY <2>1, <2>2, <2>6, <2>13
    <3>2. /\ b = 0 => (s + b) \div 2 = t /\ (s + b) % 2 = 1
          /\ b = 1 => (s + b) \div 2 = t + 1 /\ (s + b) % 2 = 0
          /\ t \in Nat
      BY <2>2, <2>6, <2>13
    <3>3. CASE m = 0
      <4>1. k = w /\ k <= w /\ b = 0
        BY <2>1, <2>8, <3>1, <3>3
      <4>2. LargeNode(l, q, w) = 1
        BY <2>5, LargeNodeFacts DEF w
      <4>3. LargeNode(l + 1, 2 * q, k) = 1 /\ LargeNode(l + 1, 2 * q + 1, k) = 0
        BY <2>9, <3>1, <4>1, <4>2
      <4> QED
        BY <2>3, <2>4, <2>6, <2>8, <2>11, <3>2, <4>1, <4>3
    <3>4. CASE m # 0
      <4>1. ~(k <= w)
        BY <2>1, <2>7, <3>1, <3>4
      <4>2. LargeNode(l + 1, 2 * q, k) = 1 /\ LargeNode(l + 1, 2 * q + 1, k) = b
        BY <2>9, <3>1, <4>1 DEF b
      <4> QED
        BY <2>3, <2>4, <2>6, <2>8, <2>11, <3>2, <4>2
    <3> QED
      BY <3>3, <3>4
  <2> QED
    BY <2>10, <2>12, <2>13
<1> QED
  BY <1>1, <1>2

-----------------------------------------------------------------------------
(* Intervals that stand one behind the other.                                *)

LEMMA Ascending ==
  ASSUME NEW f, NEW n \in Nat, \A i \in 0 .. n : f[i] \in Nat,
         \A i \in 0 .. n - 1 : f[i] <= f[i + 1]
  PROVE  \A i \in 0 .. n : \A j \in 0 .. i : f[j] <= f[i]
<1> DEFINE S == {i \in Nat : i <= n => \A j \in 0 .. i : f[j] <= f[i]}
<1>1. 0 \in S
  <2>1. f[0] \in Nat
    OBVIOUS
  <2> QED
    BY <2>1
<1>2. ASSUME NEW i \in Nat, i \in S PROVE i + 1 \in S
  <2> SUFFICES ASSUME i + 1 <= n, NEW j \in 0 .. i + 1 PROVE f[j] <= f[i + 1]
    OBVIOUS
  <2>1. i \in 0 .. n - 1 /\ i \in 0 .. n /\ i + 1 \in 0 .. n /\ j \in 0 .. n
    OBVIOUS
  <2>2. f[i] <= f[i + 1] /\ f[i] \in Nat /\ f[i + 1] \in Nat /\ f[j] \in Nat
    BY <2>1
  <2>3. CASE j = i + 1
    BY <2>2, <2>3
  <2>4. CASE j # i + 1
    <3>1. j \in 0 .. i
      BY <2>4
    <3>2. f[j] <= f[i]
      BY <1>2, <3>1
    <3> QED
      BY <2>2, <3>2
  <2> QED
    BY <2>3, <2>4
<1>3. Nat \subseteq S
  <2> HIDE DEF S
  <2> QED
    BY <1>1, <1>2, Induction
<1> QED
  BY <1>3

\* What lies between the two ends lies in one of the intervals.
LEMMA OneInterval ==
  ASSUME NEW f, NEW n \in Nat, \A i \in 0 .. n : f[i] \in Nat,
         NEW y \in Nat, f[0] <= y, y < f[n]
  PROVE  \E i \in 0 .. n - 1 : f[i] <= y /\ y < f[i + 1]
<1> DEFINE S == {i \in Nat : i <= n => f[i] <= y}
<1> SUFFICES ASSUME ~ \E i \in 0 .. n - 1 : f[i] <= y /\ y < f[i + 1] PROVE FALSE
  OBVIOUS
<1>1. 0 \in S
  OBVIOUS
<1>2. ASSUME NEW i \in Nat, i \in S PROVE i + 1 \in S
  <2> SUFFICES ASSUME i + 1 <= n PROVE f[i + 1] <= y
    OBVIOUS
  <2>1. i \in 0 .. n - 1 /\ i <= n /\ i + 1 \in 0 .. n
    OBVIOUS
  <2>2. f[i] <= y /\ f[i + 1] \in Nat
    BY <1>2, <2>1
  <2>3. ~(y < f[i + 1])
    BY <2>1, <2>2
  <2> QED
    BY <2>2, <2>3
<1>3. Nat \subseteq S
  <2> HIDE DEF S
  <2> QED
    BY <1>1, <1>2, Induction
<1>4. f[n] <= y /\ f[n] \in Nat
  BY <1>3
<1> QED
  BY <1>4

-----------------------------------------------------------------------------
(* The cells of a cluster: what node q of level l has in packet p.           *)

IsCluster(a) == a.root \in Nat /\ a.groupDepth \in Nat

CellSpan(a, l) == PowerOfTwo[a.groupDepth - l - 1]
CellBits(a, p, l, q) == Contribution(NodeSize(a.root, l, q), p, CellSpan(a, l))

LEMMA SpanFacts ==
  ASSUME NEW a, IsCluster(a), NEW l \in 0 .. a.groupDepth - 1
  PROVE  /\ l \in Nat /\ CellSpan(a, l) \in Nat \ {0}
         /\ CellSpan(a, l) * PowerOfTwo[l + 1] = PowerOfTwo[a.groupDepth]
         /\ l + 1 < a.groupDepth => CellSpan(a, l) = 2 * CellSpan(a, l + 1)
<1> DEFINE D == a.groupDepth
           S == {k \in Nat : \A m \in Nat : PowerOfTwo[m] * PowerOfTwo[k] = PowerOfTwo[m + k]}
<1>1. D \in Nat
  BY DEF IsCluster
<1> HIDE DEF D
<1>2. 0 \in S
  BY PowerFacts
<1>3. ASSUME NEW k \in Nat, k \in S PROVE k + 1 \in S
  <2> SUFFICES ASSUME NEW m \in Nat
      PROVE PowerOfTwo[m] * PowerOfTwo[k + 1] = PowerOfTwo[m + (k + 1)]
    OBVIOUS
  <2> DEFINE x == PowerOfTwo[m]  y == PowerOfTwo[k]
  <2>1. m + k \in Nat /\ m + (k + 1) = (m + k) + 1
    OBVIOUS
  <2>2. PowerOfTwo[m + (k + 1)] = 2 * PowerOfTwo[m + k] /\ PowerOfTwo[k + 1] = 2 * y
        /\ x \in Nat /\ y \in Nat
    BY <2>1, PowerFacts
  <2>3. PowerOfTwo[m + k] = x * y
    BY <1>3
  <2> HIDE DEF x, y
  <2>4. x * (2 * y) = 2 * (x * y)
    BY <2>2
  <2> QED
    BY <2>2, <2>3, <2>4 DEF x
<1>4. Nat \subseteq S
  <2> HIDE DEF S
  <2> QED
    BY <1>2, <1>3, Induction
<1>5. l \in 0 .. D - 1 /\ l \in Nat /\ D - l - 1 \in Nat
  BY <1>1 DEF D
<1>6. CellSpan(a, l) \in Nat \ {0}
  BY <1>5, PowerFacts DEF CellSpan, D
<1>7. CellSpan(a, l) * PowerOfTwo[l + 1] = PowerOfTwo[D]
  <2>1. D - l - 1 \in Nat /\ l + 1 \in Nat /\ (D - l - 1) + (l + 1) = D
    BY <1>1, <1>5
  <2>2. PowerOfTwo[D - l - 1] * PowerOfTwo[l + 1] = PowerOfTwo[(D - l - 1) + (l + 1)]
    BY <1>4, <2>1
  <2> QED
    BY <2>1, <2>2 DEF CellSpan, D
<1>8. ASSUME l + 1 < D PROVE CellSpan(a, l) = 2 * CellSpan(a, l + 1)
  <2>1. D - (l + 1) - 1 \in Nat /\ (D - (l + 1) - 1) + 1 = D - l - 1
    BY <1>1, <1>5, <1>8
  <2>2. PowerOfTwo[(D - (l + 1) - 1) + 1] = 2 * PowerOfTwo[D - (l + 1) - 1]
    BY <2>1, PowerFacts
  <2> QED
    BY <2>1, <2>2 DEF CellSpan, D
<1> QED
  BY <1>5, <1>6, <1>7, <1>8 DEF D

LEMMA ContributionType ==
  ASSUME NEW n \in Nat, NEW p \in Nat, NEW span \in Nat
  PROVE  Contribution(n, p, span) \in Nat /\ Contribution(n, p, span) <= span
<1> DEFINE x == p * span  h == n \div 2
<1>1. x \in Nat /\ h \in Nat
  OBVIOUS
<1>2. Contribution(n, p, span) =
        IF n <= LeafSize \/ x >= h THEN 0
        ELSE IF span < h - x THEN span ELSE h - x
  BY DEF Contribution
<1> HIDE DEF x, h
<1> QED
  BY <1>1, <1>2

\* A prefix of a level grows by the cells it takes in.
LEMMA PrefixFacts ==
  ASSUME NEW a, IsCluster(a), NEW p \in Nat, NEW l \in 0 .. a.groupDepth - 1
  PROVE  /\ PathPrefixBits(a, p, l, 0) = 0
         /\ \A q \in Nat : /\ CellBits(a, p, l, q) \in Nat
                           /\ PathPrefixBits(a, p, l, q) \in Nat
                           /\ PathPrefixBits(a, p, l, q + 1)
                                = PathPrefixBits(a, p, l, q) + CellBits(a, p, l, q)
<1> DEFINE w == PowerOfTwo[l]  m == a.root % w  s == a.root \div w
           span == CellSpan(a, l)
           x == Contribution(s + 1, p, span)  y == Contribution(s, p, span)
<1>1. l \in Nat /\ span \in Nat /\ w \in Nat \ {0} /\ a.root \in Nat
  BY SpanFacts, PowerFacts DEF IsCluster
<1>2. \A q \in Nat : PathPrefixBits(a, p, l, q)
                = IncludedLarge(l, q, m) * x + (q - IncludedLarge(l, q, m)) * y
  BY DEF PathPrefixBits, CellSpan
<1> HIDE DEF w, span
<1>3. s \in Nat /\ m \in Nat
  <2> DEFINE r == a.root
  <2>1. r \in Nat
    BY <1>1
  <2>2. s = r \div w /\ m = r % w
    BY DEF s, m
  <2> HIDE DEF r, s, m
  <2>3. r \div w \in Nat /\ r % w \in 0 .. w - 1
    BY <1>1, <2>1, DivisionFacts
  <2> QED
    BY <1>1, <2>2, <2>3
<1>4. \A q : CellBits(a, p, l, q) = Contribution(s + LargeNode(l, q, m), p, span)
  BY DEF CellBits, NodeSize, w, span
<1> HIDE DEF m, s
<1>5. x \in Nat /\ y \in Nat
  <2>1. s + 1 \in Nat
    BY <1>3
  <2> QED
    BY <1>1, <1>3, <2>1, ContributionType
<1>6. ASSUME NEW q \in Nat
      PROVE  /\ CellBits(a, p, l, q) \in Nat
             /\ PathPrefixBits(a, p, l, q + 1)
                  = PathPrefixBits(a, p, l, q) + CellBits(a, p, l, q)
  <2> DEFINE i == IncludedLarge(l, q, m)  j == IncludedLarge(l, q + 1, m)
             b == LargeNode(l, q, m)
  <2>1. q + 1 \in Nat
    OBVIOUS
  <2>2. i \in Nat /\ j \in Nat
    BY <1>1, <1>3, <2>1, IncludedType
  <2>3. b \in {0, 1} /\ j = i + b
    <3>1. b \in {0, 1}
      BY <1>1, <1>3, LargeNodeFacts
    <3>2. b = j - i
      BY DEF LargeNode
    <3> QED
      BY <2>2, <3>1, <3>2
  <2>4. PathPrefixBits(a, p, l, q) = i * x + (q - i) * y
        /\ PathPrefixBits(a, p, l, q + 1) = j * x + ((q + 1) - j) * y
        /\ CellBits(a, p, l, q) = Contribution(s + b, p, span)
    <3> HIDE DEF x, y
    <3>1. PathPrefixBits(a, p, l, q) = i * x + (q - i) * y
      BY <1>2
    <3>2. PathPrefixBits(a, p, l, q + 1) = j * x + ((q + 1) - j) * y
      <4> DEFINE k == q + 1
      <4>1. k \in Nat
        BY <2>1
      <4> HIDE DEF k
      <4>2. PathPrefixBits(a, p, l, k)
              = IncludedLarge(l, k, m) * x + (k - IncludedLarge(l, k, m)) * y
        BY <1>2, <4>1
      <4> QED
        BY <4>2 DEF k
    <3>3. CellBits(a, p, l, q) = Contribution(s + b, p, span)
      BY <1>4
    <3> QED
      BY <3>1, <3>2, <3>3
  <2> HIDE DEF i, j, b
  <2>5. CASE b = 0
    <3>1. s + 0 = s /\ j = i
      BY <1>3, <2>2, <2>3, <2>5
    <3>2. CellBits(a, p, l, q) = y
      BY <2>4, <2>5, <3>1
    <3> HIDE DEF x, y
    <3>3. i * x \in Nat /\ (q - i) * y \in Int
          /\ ((q + 1) - i) * y = (q - i) * y + y
      BY <1>5, <2>2
    <3> QED
      BY <1>5, <2>4, <3>1, <3>2, <3>3
  <2>6. CASE b = 1
    <3>1. j = i + 1
      BY <2>2, <2>3, <2>6
    <3>2. CellBits(a, p, l, q) = x
      BY <2>4, <2>6
    <3> HIDE DEF x, y
    <3>3. i * x \in Nat /\ (q - i) * y \in Int
          /\ (i + 1) * x = i * x + x /\ q + 1 - (i + 1) = q - i
      BY <1>5, <2>2
    <3> QED
      BY <1>5, <2>4, <3>1, <3>2, <3>3
  <2> QED
    BY <2>3, <2>5, <2>6
<1>7. PathPrefixBits(a, p, l, 0) = 0
  <2>1. IncludedLarge(l, 0, m) = 0
    BY <1>1, <1>3, IncludedEnds
  <2> HIDE DEF x, y
  <2> QED
    BY <1>2, <1>5, <2>1
<1> DEFINE S == {q \in Nat : PathPrefixBits(a, p, l, q) \in Nat}
<1>8. Nat \subseteq S
  <2>1. 0 \in S
    BY <1>7
  <2>2. ASSUME NEW q \in Nat, q \in S PROVE q + 1 \in S
    BY <1>6, <2>2
  <2> HIDE DEF S
  <2> QED
    BY <2>1, <2>2, Induction
<1> QED
  BY <1>6, <1>7, <1>8

LEMMA LevelIs ==
  ASSUME NEW a, IsCluster(a), NEW p \in Nat, NEW l \in 0 .. a.groupDepth - 1
  PROVE  LET w == PowerOfTwo[l]
             m == a.root % w
             s == a.root \div w
         IN  /\ LevelBits(a, p, l) \in Nat
             /\ LevelBits(a, p, l) = PathPrefixBits(a, p, l, w)
             /\ LevelBits(a, p, l) = m * Contribution(s + 1, p, CellSpan(a, l))
                                  + (w - m) * Contribution(s, p, CellSpan(a, l))
<1> DEFINE w == PowerOfTwo[l]  m == a.root % w  s == a.root \div w
<1>1. l \in Nat /\ w \in Nat \ {0} /\ a.root \in Nat
  BY SpanFacts, PowerFacts DEF IsCluster
<1>2. LevelBits(a, p, l) = PathPrefixBits(a, p, l, w)
  BY DEF LevelBits
<1>3. PathPrefixBits(a, p, l, w)
        = IncludedLarge(l, w, m) * Contribution(s + 1, p, CellSpan(a, l))
            + (w - IncludedLarge(l, w, m)) * Contribution(s, p, CellSpan(a, l))
  BY DEF PathPrefixBits, CellSpan
<1>4. IncludedLarge(l, w, m) = m
  <2>1. m \in 0 .. w
    <3> HIDE DEF w
    <3>1. m \in 0 .. w - 1
      BY <1>1, DivisionFacts
    <3> HIDE DEF m
    <3> QED
      BY <1>1, <3>1
  <2> HIDE DEF m
  <2> QED
    BY <1>1, <2>1, IncludedEnds
<1>5. PathPrefixBits(a, p, l, w) \in Nat
  BY <1>1, PrefixFacts
<1> QED
  BY <1>2, <1>3, <1>4, <1>5

LEMMA LevelsFacts ==
  ASSUME NEW a, IsCluster(a), NEW p \in Nat
  PROVE  /\ LevelsBits(a, p, 0) = 0
         /\ \A l \in 0 .. a.groupDepth : LevelsBits(a, p, l) \in Nat
         /\ \A l \in 0 .. a.groupDepth - 1 :
              LevelsBits(a, p, l + 1) = LevelsBits(a, p, l) + LevelBits(a, p, l)
<1> DEFINE D == a.groupDepth
           V(l) == IF l < D THEN LevelBits(a, p, l) ELSE 0
           step == [l \in Nat |-> [x \in Nat |-> x + V(l)]]
<1>0. D \in Nat
  BY DEF IsCluster
<1>1. \A l \in Nat : V(l) \in Nat
  <2> SUFFICES ASSUME NEW l \in Nat, l < D PROVE LevelBits(a, p, l) \in Nat
    OBVIOUS
  <2>1. l \in 0 .. a.groupDepth - 1
    BY <1>0
  <2> QED
    BY <2>1, LevelIs
<1>2. \A l \in Nat : l < D => V(l) = LevelBits(a, p, l)
  OBVIOUS
<1> HIDE DEF V
<1>3. IsStep(0, step, Nat)
  BY <1>1 DEF IsStep
<1>4. PICK f : Follows(f, 0, step, Nat)
  BY <1>3, FunctionExists
<1>5. \A k \in Nat : f[k] \in Nat /\ f[k + 1] = f[k] + V(k)
  BY <1>4 DEF Follows
<1>6. f[0] = 0
  BY <1>4 DEF Follows
<1>7. ASSUME NEW n \in 0 .. D PROVE LevelsBits(a, p, n) = f[n]
  <2> DEFINE IsIt(R) == R = [l \in 0 .. n |->
                          IF l = 0 THEN 0 ELSE R[l - 1] + LevelBits(a, p, l - 1)]
             R == CHOOSE R : IsIt(R)
             g == [k \in 0 .. n |-> f[k]]
  <2>1. LevelsBits(a, p, n) = R[n]
    BY DEF LevelsBits
  <2>0. n \in Nat /\ n <= D
    BY <1>0
  <2> HIDE DEF D
  <2>2. IsIt(g)
    <3>1. ASSUME NEW k \in 0 .. n
          PROVE  g[k] = IF k = 0 THEN 0 ELSE g[k - 1] + LevelBits(a, p, k - 1)
      <4>1. CASE k = 0
        BY <1>6, <4>1
      <4>2. CASE k # 0
        <5>1. k - 1 \in Nat /\ k - 1 \in 0 .. n /\ (k - 1) + 1 = k /\ k - 1 < D
          BY <1>0, <2>0, <4>2
        <5>2. f[k] = f[k - 1] + LevelBits(a, p, k - 1)
          BY <1>2, <1>5, <5>1
        <5> QED
          BY <4>2, <5>1, <5>2
      <4> QED
        BY <4>1, <4>2
    <3> QED
      BY <3>1
  <2>3. IsIt(R)
    <3> HIDE DEF IsIt
    <3> QED
      BY <2>2
  <2>4. \A k \in 0 .. n : R[k] = IF k = 0 THEN 0 ELSE R[k - 1] + LevelBits(a, p, k - 1)
    BY <2>3
  <2> HIDE DEF R, g
  <2> DEFINE S == {k \in Nat : k <= n => R[k] = f[k]}
  <2>5. 0 \in S
    BY <1>6, <2>0, <2>4
  <2>6. ASSUME NEW k \in Nat, k \in S PROVE k + 1 \in S
    <3> SUFFICES ASSUME k + 1 <= n PROVE R[k + 1] = f[k + 1]
      BY <2>6
    <3>1. k + 1 \in 0 .. n /\ k + 1 # 0 /\ (k + 1) - 1 = k /\ k <= n /\ k < D
      BY <1>0, <2>0
    <3>2. R[k + 1] = R[k] + LevelBits(a, p, k)
      BY <2>4, <3>1
    <3> QED
      BY <1>2, <1>5, <2>6, <3>1, <3>2
  <2>7. Nat \subseteq S
    <3> HIDE DEF S
    <3> QED
      BY <2>5, <2>6, Induction
  <2> QED
    BY <2>0, <2>1, <2>7
<1>8. LevelsBits(a, p, 0) = 0
  <2>1. 0 \in 0 .. D
    BY <1>0
  <2> QED
    BY <1>6, <1>7, <2>1
<1>9. \A l \in 0 .. D : LevelsBits(a, p, l) \in Nat
  <2> SUFFICES ASSUME NEW l \in 0 .. D PROVE LevelsBits(a, p, l) \in Nat
    OBVIOUS
  <2>1. l \in Nat
    BY <1>0
  <2> QED
    BY <1>5, <1>7, <2>1
<1>10. ASSUME NEW l \in 0 .. D - 1
       PROVE  LevelsBits(a, p, l + 1) = LevelsBits(a, p, l) + LevelBits(a, p, l)
  <2>1. l \in Nat /\ l < D /\ l \in 0 .. D /\ l + 1 \in 0 .. D
    BY <1>0
  <2> HIDE DEF D
  <2>2. LevelsBits(a, p, l + 1) = f[l + 1] /\ LevelsBits(a, p, l) = f[l]
    BY <1>7, <2>1
  <2> QED
    BY <1>2, <1>5, <2>1, <2>2
<1> QED
  BY <1>8, <1>9, <1>10 DEF D

\* The prefixes depend on the cluster only.
LEMMA SameCluster ==
  ASSUME NEW a, IsCluster(a), NEW b, b.root = a.root, b.groupDepth = a.groupDepth,
         NEW p \in Nat
  PROVE  /\ IsCluster(b)
         /\ \A l, q : /\ PathPrefixBits(b, p, l, q) = PathPrefixBits(a, p, l, q)
                      /\ CellBits(b, p, l, q) = CellBits(a, p, l, q)
                      /\ LevelBits(b, p, l) = LevelBits(a, p, l)
         /\ \A l \in 0 .. a.groupDepth : LevelsBits(b, p, l) = LevelsBits(a, p, l)
<1>1. IsCluster(b)
  BY DEF IsCluster
<1>2. \A l, q : /\ PathPrefixBits(b, p, l, q) = PathPrefixBits(a, p, l, q)
                /\ CellBits(b, p, l, q) = CellBits(a, p, l, q)
  BY DEF PathPrefixBits, CellBits, CellSpan
<1>3. \A l : LevelBits(b, p, l) = LevelBits(a, p, l)
  BY <1>2 DEF LevelBits
<1> DEFINE D == a.groupDepth
           S == {l \in Nat : l <= D => LevelsBits(b, p, l) = LevelsBits(a, p, l)}
<1>4. D \in Nat
  BY DEF IsCluster
<1>5. /\ LevelsBits(b, p, 0) = 0
      /\ \A l \in 0 .. D - 1 :
              LevelsBits(b, p, l + 1) = LevelsBits(b, p, l) + LevelBits(b, p, l)
  BY <1>1, LevelsFacts
<1>6. /\ LevelsBits(a, p, 0) = 0
      /\ \A l \in 0 .. D - 1 :
              LevelsBits(a, p, l + 1) = LevelsBits(a, p, l) + LevelBits(a, p, l)
  BY LevelsFacts
<1> HIDE DEF D
<1>7. 0 \in S
  BY <1>5, <1>6
<1>8. ASSUME NEW l \in Nat, l \in S PROVE l + 1 \in S
  <2> SUFFICES ASSUME l + 1 <= D PROVE LevelsBits(b, p, l + 1) = LevelsBits(a, p, l + 1)
    OBVIOUS
  <2>1. l \in 0 .. D - 1 /\ l <= D
    BY <1>4
  <2> QED
    BY <1>3, <1>5, <1>6, <1>8, <2>1
<1>9. Nat \subseteq S
  <2> HIDE DEF S
  <2> QED
    BY <1>7, <1>8, Induction
<1>10. \A l \in 0 .. D : LevelsBits(b, p, l) = LevelsBits(a, p, l)
  BY <1>4, <1>9
<1> QED
  BY <1>1, <1>2, <1>3, <1>10 DEF D

-----------------------------------------------------------------------------
(* The switches of a level, and the packets they are in.                     *)

PairsOf(n) == IF n <= LeafSize THEN 0 ELSE n \div 2

\* Of the nodes on level l below a node of n values.
LevelPairs(n, l) ==
  LET w == PowerOfTwo[l]
      m == n % w
      s == n \div w
  IN  m * PairsOf(s + 1) + (w - m) * PairsOf(s)

LEMMA PairsType ==
  ASSUME NEW n \in Nat
  PROVE  PairsOf(n) \in Nat
BY DEF PairsOf

LEMMA LevelPairsAre ==
  ASSUME NEW l \in Nat, NEW s \in Nat, NEW u \in 0 .. PowerOfTwo[l], NEW k,
         k = s * PowerOfTwo[l] + u
  PROVE  LevelPairs(k, l) = u * PairsOf(s + 1) + (PowerOfTwo[l] - u) * PairsOf(s)
<1> DEFINE w == PowerOfTwo[l]  x == PairsOf(s + 1)  y == PairsOf(s)
<1>1. w \in Nat \ {0}
  BY PowerFacts
<1>2. LevelPairs(k, l) = (k % w) * PairsOf((k \div w) + 1) + (w - (k % w)) * PairsOf(k \div w)
  BY DEF LevelPairs
<1>3. u \in 0 .. w /\ k = s * w + u
  OBVIOUS
<1>4. x \in Nat /\ y \in Nat
  <2>1. s + 1 \in Nat
    OBVIOUS
  <2> QED
    BY <2>1, PairsType
<1> HIDE DEF w
<1>5. k \in Nat
  <2>1. s * w \in Nat
    BY <1>1
  <2> QED
    BY <1>1, <1>3, <2>1
<1>6. CASE u < w
  <2>1. u \in 0 .. w - 1
    BY <1>1, <1>3, <1>6
  <2>2. k \div w = s /\ k % w = u
    BY <1>1, <1>3, <1>5, <2>1, OneQuotient
  <2> QED
    BY <1>2, <2>2 DEF w
<1>7. CASE ~(u < w)
  <2>1. u = w
    BY <1>1, <1>3, <1>7
  <2>2. k = (s + 1) * w + 0 /\ s + 1 \in Nat /\ 0 \in 0 .. w - 1
    BY <1>1, <1>3, <2>1
  <2>3. k \div w = s + 1 /\ k % w = 0
    BY <1>1, <1>5, <2>2, OneQuotient
  <2>4. LevelPairs(k, l) = 0 * PairsOf((s + 1) + 1) + (w - 0) * x
    BY <1>2, <2>3
  <2>5. PairsOf((s + 1) + 1) \in Nat
    <3>1. (s + 1) + 1 \in Nat
      OBVIOUS
    <3> QED
      BY <3>1, PairsType
  <2> HIDE DEF x, y
  <2>6. LevelPairs(k, l) = w * x
    BY <1>1, <1>4, <2>4, <2>5
  <2>7. u * x + (w - u) * y = w * x
    BY <1>1, <1>4, <2>1
  <2> QED
    BY <2>6, <2>7 DEF x, y, w
<1> QED
  BY <1>1, <1>3, <1>6, <1>7

LEMMA LevelPairsNext ==
  ASSUME NEW n \in Nat, NEW l \in Nat
  PROVE  LevelPairs(n, l + 1) = LevelPairs(LeftCount(n), l) + LevelPairs(RightCount(n), l)
<1> DEFINE w == PowerOfTwo[l]  z == PowerOfTwo[l + 1]  s == n \div z  m == n % z
           u == m \div 2 + (m % 2)  v == m \div 2
           x == PairsOf(s + 1)  y == PairsOf(s)
<1>1. w \in Nat \ {0} /\ z = 2 * w /\ l + 1 \in Nat
  BY PowerFacts
<1>2. LevelPairs(n, l + 1) = m * x + (z - m) * y
  BY DEF LevelPairs
<1> HIDE DEF w, z
<1>3. s \in Nat /\ m \in 0 .. z - 1 /\ n = s * z + m
  <2>1. z \in Nat \ {0}
    BY <1>1
  <2> QED
    BY <2>1, DivisionFacts
<1> HIDE DEF s, m
<1>4. x \in Nat /\ y \in Nat
  <2>1. s + 1 \in Nat
    BY <1>3
  <2> QED
    BY <1>3, <2>1, PairsType
<1>5. u \in 0 .. w /\ v \in 0 .. w /\ u + v = m
  BY <1>1, <1>3
<1>6. LeftCount(n) = s * w + u /\ RightCount(n) = s * w + v
  <2> DEFINE k == s * w
  <2>1. k \in Nat /\ n = 2 * k + m /\ m \in Nat
    BY <1>1, <1>3
  <2> HIDE DEF k
  <2>2. n \div 2 = k + m \div 2 /\ n % 2 = m % 2
    BY <2>1
  <2> QED
    BY <2>1, <2>2 DEF LeftCount, RightCount, k
<1> HIDE DEF u, v
<1>7. /\ LevelPairs(LeftCount(n), l) = u * x + (w - u) * y
      /\ LevelPairs(RightCount(n), l) = v * x + (w - v) * y
  BY <1>3, <1>5, <1>6, LevelPairsAre DEF w
<1> HIDE DEF x, y
<1>8. u * x + v * x = m * x /\ (w - u) * y + (w - v) * y = (z - m) * y
  BY <1>1, <1>3, <1>4, <1>5
<1>9. u * x \in Nat /\ v * x \in Nat /\ (w - u) * y \in Nat /\ (w - v) * y \in Nat
  BY <1>1, <1>4, <1>5
<1> QED
  BY <1>2, <1>7, <1>8, <1>9

LEMMA LevelPairsFirst ==
  ASSUME NEW n \in Nat
  PROVE  LevelPairs(n, 0) = PairsOf(n)
<1>1. PowerOfTwo[0] = 1 /\ n = n * 1 + 0
  BY PowerFacts
<1>2. LevelPairs(n, 0) = 0 * PairsOf(n + 1) + (1 - 0) * PairsOf(n)
  <2>1. 0 \in 0 .. PowerOfTwo[0] /\ n = n * PowerOfTwo[0] + 0
    BY <1>1
  <2>2. LevelPairs(n, 0) = 0 * PairsOf(n + 1) + (PowerOfTwo[0] - 0) * PairsOf(n)
    BY <2>1, LevelPairsAre
  <2> QED
    BY <1>1, <2>2
<1>3. PairsOf(n + 1) \in Nat /\ PairsOf(n) \in Nat
  <2>1. n + 1 \in Nat
    OBVIOUS
  <2> QED
    BY <2>1, PairsType
<1> QED
  BY <1>2, <1>3

LEMMA LevelPairsOfLeaf ==
  ASSUME NEW n \in Nat, n <= LeafSize, NEW l \in Nat
  PROVE  LevelPairs(n, l) = 0
<1> DEFINE w == PowerOfTwo[l]  m == n % w  s == n \div w
<1>1. w \in Nat \ {0}
  BY PowerFacts
<1>2. LevelPairs(n, l) = m * PairsOf(s + 1) + (w - m) * PairsOf(s)
  BY DEF LevelPairs
<1> HIDE DEF w
<1>3. s \in Nat /\ m \in 0 .. w - 1 /\ n = s * w + m
  BY <1>1, DivisionFacts
<1> HIDE DEF s, m
<1>4. s <= s * w
  BY <1>1, <1>3
<1>5. s * w \in Nat /\ m \in Nat /\ s + m <= n
  BY <1>1, <1>3, <1>4
<1>6. PairsOf(s) = 0 /\ (m # 0 => PairsOf(s + 1) = 0) /\ PairsOf(s + 1) \in Nat
  <2>1. LeafSize \in Nat
    BY LeafSizes
  <2>2. s + 1 \in Nat
    BY <1>3
  <2>3. s <= LeafSize /\ (m # 0 => s + 1 <= LeafSize)
    BY <1>3, <1>5, <2>1
  <2> QED
    BY <2>2, <2>3, PairsType DEF PairsOf
<1> DEFINE x == PairsOf(s + 1)
<1>7. x \in Nat /\ (m # 0 => x = 0) /\ LevelPairs(n, l) = m * x + (w - m) * 0
  BY <1>2, <1>6
<1> HIDE DEF x
<1>8. m * x = 0 /\ (w - m) * 0 = 0
  BY <1>1, <1>3, <1>7
<1> QED
  BY <1>7, <1>8

\* The first levels of a network, one more.
LEMMA PacketLevels ==
  \A d \in Nat : \A n \in Nat :
    PacketSwitchBits(n, d + 1) = PacketSwitchBits(n, d) + LevelPairs(n, d)
<1> DEFINE Bits(n, d) == PacketSwitchBits(n, d)
           S == {d \in Nat : \A n \in Nat : Bits(n, d + 1) = Bits(n, d) + LevelPairs(n, d)}
<1>1. \A n, d \in Nat :
        /\ Bits(n, d) \in Nat
        /\ n <= LeafSize \/ d = 0 => Bits(n, d) = 0
  BY PacketSwitchBitsFacts
<1>2. \A n, d \in Nat : ~(n <= LeafSize) =>
        Bits(n, d + 1) = n \div 2 + Bits(LeftCount(n), d) + Bits(RightCount(n), d)
  <2> SUFFICES ASSUME NEW n \in Nat, NEW d \in Nat, ~(n <= LeafSize)
      PROVE  Bits(n, d + 1) = n \div 2 + Bits(LeftCount(n), d) + Bits(RightCount(n), d)
    OBVIOUS
  <2> DEFINE e == d + 1
  <2>1. e \in Nat /\ e # 0 /\ e - 1 = d
    OBVIOUS
  <2> HIDE DEF e
  <2>2. Bits(n, e) = n \div 2 + Bits(LeftCount(n), e - 1) + Bits(RightCount(n), e - 1)
    BY <2>1, PacketSwitchBitsFacts
  <2> QED
    BY <2>1, <2>2 DEF e
<1> HIDE DEF Bits
<1>3. \A n, d \in Nat : n <= LeafSize => Bits(n, d + 1) = Bits(n, d) + LevelPairs(n, d)
  <2> SUFFICES ASSUME NEW n \in Nat, NEW d \in Nat, n <= LeafSize
      PROVE  Bits(n, d + 1) = Bits(n, d) + LevelPairs(n, d)
    OBVIOUS
  <2>1. LevelPairs(n, d) = 0
    BY LevelPairsOfLeaf
  <2>2. d + 1 \in Nat
    OBVIOUS
  <2>3. Bits(n, d + 1) = 0 /\ Bits(n, d) = 0
    BY <1>1, <2>2
  <2> QED
    BY <2>1, <2>3
<1>4. 0 \in S
  <2> SUFFICES ASSUME NEW n \in Nat, ~(n <= LeafSize)
      PROVE  Bits(n, 0 + 1) = Bits(n, 0) + LevelPairs(n, 0)
    BY <1>3
  <2>1. LevelPairs(n, 0) = n \div 2
    BY LevelPairsFirst DEF PairsOf
  <2>2. LeftCount(n) \in Nat /\ RightCount(n) \in Nat
    BY Children
  <2>3. Bits(n, 0) = 0 /\ Bits(LeftCount(n), 0) = 0 /\ Bits(RightCount(n), 0) = 0
    BY <1>1, <2>2
  <2>4. Bits(n, 0 + 1) = n \div 2 + Bits(LeftCount(n), 0) + Bits(RightCount(n), 0)
    BY <1>2
  <2>5. n \div 2 \in Nat
    OBVIOUS
  <2> QED
    BY <2>1, <2>3, <2>4, <2>5
<1>5. ASSUME NEW d \in Nat, d \in S PROVE d + 1 \in S
  <2> SUFFICES ASSUME NEW n \in Nat, ~(n <= LeafSize)
      PROVE  Bits(n, (d + 1) + 1) = Bits(n, d + 1) + LevelPairs(n, d + 1)
    BY <1>3
  <2> DEFINE x == LeftCount(n)  y == RightCount(n)
  <2>1. x \in Nat /\ y \in Nat /\ d + 1 \in Nat
    BY Children
  <2>2. /\ Bits(n, d + 1) = n \div 2 + Bits(x, d) + Bits(y, d)
        /\ Bits(n, (d + 1) + 1) = n \div 2 + Bits(x, d + 1) + Bits(y, d + 1)
    BY <1>2, <2>1
  <2>3. LevelPairs(n, d + 1) = LevelPairs(x, d) + LevelPairs(y, d)
    BY LevelPairsNext
  <2> HIDE DEF x, y
  <2>4. /\ Bits(x, d + 1) = Bits(x, d) + LevelPairs(x, d)
        /\ Bits(y, d + 1) = Bits(y, d) + LevelPairs(y, d)
    BY <1>5, <2>1
  <2>5. Bits(x, d) \in Nat /\ Bits(y, d) \in Nat /\ Bits(x, d + 1) \in Nat
        /\ Bits(y, d + 1) \in Nat
    BY <1>1, <2>1
  <2>6. LevelPairs(x, d) \in Int /\ LevelPairs(y, d) \in Int
    <3>1. \A k, c \in Nat : LevelPairs(k, c) \in Int
      <4> SUFFICES ASSUME NEW k \in Nat, NEW c \in Nat PROVE LevelPairs(k, c) \in Int
        OBVIOUS
      <4> DEFINE w == PowerOfTwo[c]  m == k % w  s == k \div w
      <4>1. w \in Nat \ {0}
        BY PowerFacts
      <4>2. LevelPairs(k, c) = m * PairsOf(s + 1) + (w - m) * PairsOf(s)
        BY DEF LevelPairs
      <4> HIDE DEF w
      <4>3. s \in Nat /\ m \in 0 .. w - 1
        BY <4>1, DivisionFacts
      <4> HIDE DEF s, m
      <4>4. PairsOf(s) \in Nat /\ PairsOf(s + 1) \in Nat
        <5>1. s + 1 \in Nat
          BY <4>3
        <5> QED
          BY <4>3, <5>1, PairsType
      <4> DEFINE i == PairsOf(s + 1)  j == PairsOf(s)
      <4>5. i \in Nat /\ j \in Nat /\ LevelPairs(k, c) = m * i + (w - m) * j
        BY <4>2, <4>4
      <4> HIDE DEF i, j
      <4> QED
        BY <4>1, <4>3, <4>5
    <3> QED
      BY <2>1, <3>1
  <2>7. n \div 2 \in Nat
    OBVIOUS
  <2> QED
    BY <2>2, <2>3, <2>4, <2>5, <2>6, <2>7
<1>6. Nat \subseteq S
  <2> HIDE DEF S
  <2> QED
    BY <1>4, <1>5, Induction
<1> QED
  BY <1>6 DEF Bits

\* All packets but this one are as long as packet 0, or empty.
LastPacket(a) == a.root \div PowerOfTwo[a.groupDepth]

LEMMA LastPacketFacts ==
  ASSUME NEW a, IsCluster(a), NEW l \in 0 .. a.groupDepth - 1
  PROVE  LET s == a.root \div PowerOfTwo[l]
             x == LastPacket(a) * CellSpan(a, l)
         IN  /\ s \in Nat /\ LastPacket(a) \in Nat /\ x \in Nat
             /\ x <= s \div 2 /\ (s + 1) \div 2 <= x + CellSpan(a, l)
<1> DEFINE w == PowerOfTwo[l]  z == PowerOfTwo[a.groupDepth]  r == a.root
           span == CellSpan(a, l)  P == r \div z  s == r \div w  m == r % w  k == r % z
           g == 2 * span
<1>1. r \in Nat /\ w \in Nat \ {0} /\ z \in Nat \ {0} /\ PowerOfTwo[l + 1] = 2 * w
  BY PowerFacts, SpanFacts DEF IsCluster
<1>2. span \in Nat \ {0} /\ span * (2 * w) = z
  BY <1>1, SpanFacts
<1> HIDE DEF r, w, z, span
<1>3. P \in Nat /\ k \in 0 .. z - 1 /\ r = P * z + k
  BY <1>1, DivisionFacts
<1>4. s \in Nat /\ m \in 0 .. w - 1 /\ r = s * w + m
  BY <1>1, DivisionFacts
<1> HIDE DEF P, k, s, m
<1>5. g \in Nat \ {0} /\ g * w = z
  BY <1>1, <1>2
<1> DEFINE b == P * g
<1>6. b \in Nat /\ b * w = P * z /\ (b + g) * w = P * z + z
  <2> HIDE DEF g
  <2>1. b \in Nat
    BY <1>3, <1>5
  <2>2. (P * g) * w = P * (g * w)
    BY <1>1, <1>3, <1>5
  <2>3. (b + g) * w = b * w + g * w
    BY <1>1, <1>5, <2>1
  <2> QED
    BY <1>5, <2>1, <2>2, <2>3
<1> HIDE DEF b, g
<1>7. b <= s
  <2> SUFFICES ASSUME s < b PROVE FALSE
    BY <1>4, <1>6
  <2>1. s * w + w <= b * w
    BY <1>1, <1>4, <1>6, Monotone
  <2> QED
    BY <1>1, <1>3, <1>4, <1>6, <2>1
<1>8. s < b + g
  <2> SUFFICES ASSUME b + g <= s PROVE FALSE
    BY <1>4, <1>5, <1>6
  <2>0. b + g \in Nat
    BY <1>5, <1>6
  <2>1. (b + g) * w <= s * w
    BY <1>1, <1>4, <1>6, <2>0, Monotone
  <2> QED
    BY <1>1, <1>3, <1>4, <1>6, <2>1
<1>9. P * span \in Nat /\ b = 2 * (P * span) /\ g = 2 * span
  BY <1>2, <1>3 DEF b, g
<1> DEFINE x == P * span
<1>10. x \in Nat /\ b = 2 * x /\ g = 2 * span
  BY <1>9
<1> HIDE DEF x
<1>11. x <= s \div 2 /\ (s + 1) \div 2 <= x + span
  BY <1>2, <1>4, <1>7, <1>8, <1>10
<1> QED
  BY <1>3, <1>4, <1>10, <1>11 DEF LastPacket, r, z, P, s, w, span, x

LEMMA Contributions ==
  ASSUME NEW n \in Nat, NEW span \in Nat \ {0}, NEW P \in Nat,
         P * span <= n \div 2, n \div 2 <= P * span + span
  PROVE  /\ PairsOf(n) = P * Contribution(n, 0, span) + Contribution(n, P, span)
         /\ \A p \in Nat : p < P => Contribution(n, p, span) = Contribution(n, 0, span)
         /\ \A p \in Nat : p > P => Contribution(n, p, span) = 0
         /\ Contribution(n, P, span) <= Contribution(n, 0, span)
<1> DEFINE h == n \div 2  C(p) == Contribution(n, p, span)
           x == P * span
<1>1. h \in Nat /\ x \in Nat /\ x <= h /\ h <= x + span
  OBVIOUS
<1>2. \A p \in Nat : C(p) = IF n <= LeafSize \/ p * span >= h THEN 0
                            ELSE IF span < h - p * span THEN span ELSE h - p * span
  BY DEF Contribution
<1>3. 0 * span = 0
  OBVIOUS
<1>4. CASE n <= LeafSize
  <2> HIDE DEF C, h
  <2>1. \A p \in Nat : C(p) = 0
    BY <1>2, <1>4
  <2>2. PairsOf(n) = 0
    BY <1>4 DEF PairsOf
  <2>3. C(0) = 0 /\ C(P) = 0
    BY <2>1
  <2>4. PairsOf(n) = P * C(0) + C(P) /\ C(P) <= C(0)
    BY <2>2, <2>3
  <2> QED
    BY <2>1, <2>3, <2>4 DEF C
<1>5. CASE ~(n <= LeafSize)
  <2>1. PairsOf(n) = h
    BY <1>5 DEF PairsOf
  <2> HIDE DEF h, C
  <2>2. C(P) = h - x
    <3>1. C(P) = IF x >= h THEN 0 ELSE IF span < h - x THEN span ELSE h - x
      BY <1>2, <1>5
    <3> HIDE DEF x
    <3> QED
      BY <1>1, <3>1
  <2>3. C(0) = IF 0 >= h THEN 0 ELSE IF span < h THEN span ELSE h
    <3>1. C(0) = IF 0 * span >= h THEN 0
                 ELSE IF span < h - 0 * span THEN span ELSE h - 0 * span
      BY <1>2, <1>5
    <3> QED
      BY <1>1, <1>3, <3>1
  <2>4. P # 0 => span <= x
    BY <1>1
  <2>5. P = 0 => x = 0
    OBVIOUS
  <2>6. P # 0 => C(0) = span
    <3> HIDE DEF x
    <3> QED
      BY <1>1, <2>3, <2>4
  <2>7. P = 0 => C(0) = h
    <3> HIDE DEF x
    <3> QED
      BY <1>1, <2>3, <2>5
  <2>8. PairsOf(n) = P * C(0) + C(P)
    BY <1>1, <2>1, <2>2, <2>5, <2>6, <2>7
  <2>9. C(P) <= C(0)
    <3> HIDE DEF x
    <3> QED
      BY <1>1, <2>2, <2>5, <2>6, <2>7
  <2>10. ASSUME NEW p \in Nat, p < P PROVE C(p) = C(0)
    <3>1. p * span \in Nat /\ p * span + span <= x
      BY <2>10, Monotone
    <3> DEFINE y == p * span
    <3>2. C(p) = IF y >= h THEN 0 ELSE IF span < h - y THEN span ELSE h - y
      BY <1>2, <1>5
    <3> HIDE DEF x, y
    <3>3. y \in Nat /\ y + span <= x
      BY <3>1 DEF y
    <3>4. C(p) = span
      BY <1>1, <3>2, <3>3
    <3> QED
      BY <2>6, <2>10, <3>4
  <2>11. ASSUME NEW p \in Nat, p > P PROVE C(p) = 0
    <3>1. p * span \in Nat /\ x + span <= p * span
      BY <2>11, Monotone
    <3>2. p * span >= h
      <4> DEFINE y == p * span
      <4> HIDE DEF x, y
      <4> QED
        BY <1>1, <3>1 DEF y
    <3> QED
      BY <1>2, <3>2
  <2> QED
    BY <2>8, <2>9, <2>10, <2>11 DEF C
<1> QED
  BY <1>4, <1>5

\* The contributions of the two sizes there are on a level.
LEMMA SizesOfLevel ==
  ASSUME NEW a, IsCluster(a), NEW l \in 0 .. a.groupDepth - 1, NEW b \in {0, 1}
  PROVE  LET n == a.root \div PowerOfTwo[l] + b
             P == LastPacket(a)
             C(p) == Contribution(n, p, CellSpan(a, l))
         IN  /\ n \in Nat
             /\ PairsOf(n) = P * C(0) + C(P)
             /\ \A p \in Nat : p < P => C(p) = C(0)
             /\ \A p \in Nat : p > P => C(p) = 0
             /\ C(P) <= C(0)
<1> DEFINE s == a.root \div PowerOfTwo[l]  P == LastPacket(a)  span == CellSpan(a, l)
           x == P * span  n == s + b
<1>1. s \in Nat /\ P \in Nat /\ x \in Nat /\ x <= s \div 2 /\ (s + 1) \div 2 <= x + span
  BY LastPacketFacts
<1>2. span \in Nat \ {0}
  BY SpanFacts
<1> HIDE DEF s, P, span
<1>3. n \in Nat /\ x <= n \div 2 /\ n \div 2 <= x + span
  <2> HIDE DEF x
  <2>1. s + 0 = s /\ s \div 2 <= (s + 1) \div 2 /\ s \div 2 \in Nat /\ (s + 1) \div 2 \in Nat
    BY <1>1
  <2>2. n = s \/ n = s + 1
    BY <2>1
  <2> HIDE DEF n
  <2>3. n \div 2 = s \div 2 \/ n \div 2 = (s + 1) \div 2
    BY <2>2
  <2>4. n \in Nat
    BY <1>1, <2>2
  <2> DEFINE i == s \div 2  j == (s + 1) \div 2  y == n \div 2
  <2>5. i <= j /\ i \in Nat /\ j \in Nat /\ (y = i \/ y = j) /\ x <= i /\ j <= x + span
    BY <1>1, <2>1, <2>3
  <2> HIDE DEF i, j, y
  <2>6. x <= y /\ y <= x + span
    BY <1>1, <1>2, <2>5
  <2> QED
    BY <2>4, <2>6 DEF y
<1> HIDE DEF n
<1>4. /\ PairsOf(n) = P * Contribution(n, 0, span) + Contribution(n, P, span)
      /\ \A p \in Nat : p < P => Contribution(n, p, span) = Contribution(n, 0, span)
      /\ \A p \in Nat : p > P => Contribution(n, p, span) = 0
      /\ Contribution(n, P, span) <= Contribution(n, 0, span)
  BY <1>1, <1>2, <1>3, Contributions
<1> QED
  BY <1>3, <1>4 DEF n, s, P, span

LEMMA CellPackets ==
  ASSUME NEW a, IsCluster(a), NEW l \in 0 .. a.groupDepth - 1, NEW q \in Nat,
         NEW p \in Nat
  PROVE  /\ p < LastPacket(a) => CellBits(a, p, l, q) = CellBits(a, 0, l, q)
         /\ p > LastPacket(a) => CellBits(a, p, l, q) = 0
<1> DEFINE w == PowerOfTwo[l]  m == a.root % w
           b == LargeNode(l, q, m)
           C(j) == Contribution(a.root \div w + b, j, CellSpan(a, l))
<1>1. b \in {0, 1}
  <2>1. m \in Nat
    <3> DEFINE r == a.root
    <3>1. r \in Nat /\ w \in Nat \ {0}
      BY SpanFacts, PowerFacts DEF IsCluster
    <3> HIDE DEF r, w
    <3>2. r % w \in 0 .. w - 1
      BY <3>1, DivisionFacts
    <3> QED
      BY <3>1, <3>2 DEF r
  <2>2. l \in Nat
    BY SpanFacts
  <2> HIDE DEF m
  <2> QED
    BY <2>1, <2>2, LargeNodeFacts
<1>2. \A j : CellBits(a, j, l, q) = C(j)
  BY DEF CellBits, NodeSize
<1> HIDE DEF b
<1>3. /\ \A j \in Nat : j < LastPacket(a) => C(j) = C(0)
      /\ \A j \in Nat : j > LastPacket(a) => C(j) = 0
  BY <1>1, SizesOfLevel
<1> HIDE DEF C
<1> QED
  BY <1>2, <1>3

LEMMA PrefixPackets ==
  ASSUME NEW a, IsCluster(a), NEW l \in 0 .. a.groupDepth - 1, NEW q \in Nat,
         NEW p \in Nat
  PROVE  p < LastPacket(a) => PathPrefixBits(a, p, l, q) = PathPrefixBits(a, 0, l, q)
<1> SUFFICES ASSUME p < LastPacket(a)
             PROVE PathPrefixBits(a, p, l, q) = PathPrefixBits(a, 0, l, q)
  OBVIOUS
<1> DEFINE S == {k \in Nat : PathPrefixBits(a, p, l, k) = PathPrefixBits(a, 0, l, k)}
<1>1. 0 \in Nat /\ 0 \in S
  BY PrefixFacts
<1>2. ASSUME NEW k \in Nat, k \in S PROVE k + 1 \in S
  <2>1. CellBits(a, p, l, k) = CellBits(a, 0, l, k)
    BY CellPackets
  <2>2. PathPrefixBits(a, p, l, k + 1) = PathPrefixBits(a, p, l, k) + CellBits(a, p, l, k)
    BY PrefixFacts
  <2>3. PathPrefixBits(a, 0, l, k + 1) = PathPrefixBits(a, 0, l, k) + CellBits(a, 0, l, k)
    BY PrefixFacts
  <2> QED
    BY <1>2, <2>1, <2>2, <2>3
<1>3. Nat \subseteq S
  <2> HIDE DEF S
  <2> QED
    BY <1>1, <1>2, Induction
<1> QED
  BY <1>3

LEMMA LevelPackets ==
  ASSUME NEW a, IsCluster(a), NEW l \in 0 .. a.groupDepth - 1
  PROVE  /\ \A p \in Nat : p < LastPacket(a) => LevelBits(a, p, l) = LevelBits(a, 0, l)
         /\ \A p \in Nat : p > LastPacket(a) => LevelBits(a, p, l) = 0
         /\ LevelBits(a, LastPacket(a), l) <= LevelBits(a, 0, l)
         /\ LevelPairs(a.root, l)
              = LastPacket(a) * LevelBits(a, 0, l) + LevelBits(a, LastPacket(a), l)
<1> DEFINE w == PowerOfTwo[l]  m == a.root % w  s == a.root \div w
           P == LastPacket(a)
           x(p) == Contribution(s + 1, p, CellSpan(a, l))
           y(p) == Contribution(s, p, CellSpan(a, l))
           V(p) == LevelBits(a, p, l)
<1>1. P \in Nat /\ s \in Nat
  BY LastPacketFacts
<1>2. w \in Nat \ {0} /\ m \in 0 .. w - 1
  <2> DEFINE r == a.root
  <2>1. r \in Nat /\ w \in Nat \ {0}
    BY SpanFacts, PowerFacts DEF IsCluster
  <2> HIDE DEF r, w
  <2>2. r % w \in 0 .. w - 1
    BY <2>1, DivisionFacts
  <2> QED
    BY <2>1, <2>2 DEF r
<1>3. /\ PairsOf(s + 1) = P * x(0) + x(P)
      /\ \A p \in Nat : p < P => x(p) = x(0)
      /\ \A p \in Nat : p > P => x(p) = 0
      /\ x(P) <= x(0)
  BY SizesOfLevel
<1>4. /\ PairsOf(s) = P * y(0) + y(P)
      /\ \A p \in Nat : p < P => y(p) = y(0)
      /\ \A p \in Nat : p > P => y(p) = 0
      /\ y(P) <= y(0)
  <2>1. s + 0 = s
    BY <1>1
  <2> DEFINE z(b, p) == Contribution(s + b, p, CellSpan(a, l))
  <2>2. \A p : z(0, p) = y(p)
    BY <2>1
  <2>3. /\ PairsOf(s + 0) = P * z(0, 0) + z(0, P)
        /\ \A p \in Nat : p < P => z(0, p) = z(0, 0)
        /\ \A p \in Nat : p > P => z(0, p) = 0
        /\ z(0, P) <= z(0, 0)
    BY SizesOfLevel
  <2> HIDE DEF z, y, s
  <2> QED
    BY <1>1, <2>1, <2>2, <2>3
<1>5. \A p \in Nat : V(p) = m * x(p) + (w - m) * y(p)
  BY LevelIs
<1>6. LevelPairs(a.root, l) = m * PairsOf(s + 1) + (w - m) * PairsOf(s)
  BY DEF LevelPairs
<1>7. x(0) \in Nat /\ x(P) \in Nat /\ y(0) \in Nat /\ y(P) \in Nat
  <2>1. s + 1 \in Nat /\ CellSpan(a, l) \in Nat
    BY <1>1, SpanFacts
  <2> HIDE DEF s, P
  <2> QED
    BY <1>1, <2>1, ContributionType
<1> HIDE DEF x, y, w, m, s, P
<1>8. V(0) = m * x(0) + (w - m) * y(0) /\ V(P) = m * x(P) + (w - m) * y(P)
  BY <1>1, <1>5
<1> HIDE DEF V
<1>9. \A p \in Nat : p < P => V(p) = V(0)
  <2> SUFFICES ASSUME NEW p \in Nat, p < P PROVE V(p) = V(0)
    OBVIOUS
  <2>1. x(p) = x(0) /\ y(p) = y(0)
    BY <1>3, <1>4
  <2>2. V(p) = m * x(p) + (w - m) * y(p)
    BY <1>5
  <2> QED
    BY <1>8, <2>1, <2>2
<1>10. \A p \in Nat : p > P => V(p) = 0
  <2> SUFFICES ASSUME NEW p \in Nat, p > P PROVE V(p) = 0
    OBVIOUS
  <2>1. x(p) = 0 /\ y(p) = 0
    BY <1>3, <1>4
  <2>2. V(p) = m * 0 + (w - m) * 0
    BY <1>5, <2>1
  <2>3. m * 0 = 0 /\ (w - m) * 0 = 0
    BY <1>2
  <2> QED
    BY <2>2, <2>3
<1> DEFINE x0 == x(0)  xp == x(P)  y0 == y(0)  yp == y(P)  d == w - m
<1>11. /\ x0 \in Nat /\ xp \in Nat /\ y0 \in Nat /\ yp \in Nat /\ d \in Nat /\ m \in Nat
       /\ xp <= x0 /\ yp <= y0
       /\ V(0) = m * x0 + d * y0 /\ V(P) = m * xp + d * yp
       /\ LevelPairs(a.root, l) = m * (P * x0 + xp) + d * (P * y0 + yp)
  BY <1>2, <1>3, <1>4, <1>6, <1>7, <1>8
<1> HIDE DEF x0, xp, y0, yp, d
<1>12. V(P) <= V(0)
  <2>1. xp * m <= x0 * m /\ yp * d <= y0 * d
    BY <1>11, Monotone
  <2>2. m * xp = xp * m /\ m * x0 = x0 * m /\ d * yp = yp * d /\ d * y0 = y0 * d
    BY <1>11
  <2>3. m * xp \in Nat /\ m * x0 \in Nat /\ d * yp \in Nat /\ d * y0 \in Nat
    BY <1>11
  <2> QED
    BY <1>11, <2>1, <2>2, <2>3
<1>13. LevelPairs(a.root, l) = P * V(0) + V(P)
  <2>1. /\ m * (P * x0 + xp) = P * (m * x0) + m * xp
        /\ d * (P * y0 + yp) = P * (d * y0) + d * yp
        /\ P * (m * x0 + d * y0) = P * (m * x0) + P * (d * y0)
    BY <1>1, <1>11
  <2>2. /\ m * xp \in Nat /\ P * (m * x0) \in Nat /\ d * yp \in Nat /\ P * (d * y0) \in Nat
    BY <1>1, <1>11
  <2> QED
    BY <1>11, <2>1, <2>2
<1> QED
  BY <1>9, <1>10, <1>12, <1>13 DEF V, P

LEMMA LevelsPackets ==
  ASSUME NEW a, IsCluster(a)
  PROVE  \A l \in 0 .. a.groupDepth :
           /\ \A p \in Nat : p < LastPacket(a) => LevelsBits(a, p, l) = LevelsBits(a, 0, l)
           /\ \A p \in Nat : p > LastPacket(a) => LevelsBits(a, p, l) = 0
           /\ LevelsBits(a, LastPacket(a), l) <= LevelsBits(a, 0, l)
           /\ PacketSwitchBits(a.root, l)
                = LastPacket(a) * LevelsBits(a, 0, l) + LevelsBits(a, LastPacket(a), l)
<1> DEFINE D == a.groupDepth  P == LastPacket(a)  r == a.root
           V(p, l) == LevelBits(a, p, l)
           T(p, l) == LevelsBits(a, p, l)
           Bits(l) == PacketSwitchBits(r, l)
           H(l) == LevelPairs(r, l)
           Good(l) == /\ \A p \in Nat : p < P => T(p, l) = T(0, l)
                      /\ \A p \in Nat : p > P => T(p, l) = 0
                      /\ T(P, l) <= T(0, l)
                      /\ Bits(l) = P * T(0, l) + T(P, l)
           S == {l \in Nat : l <= D => Good(l)}
<1>1. D \in Nat /\ r \in Nat
  BY DEF IsCluster
<1>2. P \in Nat
  <2> DEFINE z == PowerOfTwo[D]
  <2>1. z \in Nat \ {0}
    BY <1>1, PowerFacts
  <2>2. P = r \div z
    BY DEF LastPacket
  <2> HIDE DEF z, r, P
  <2> QED
    BY <1>1, <2>1, <2>2, DivisionFacts
<1>3. \A p \in Nat : T(p, 0) = 0
  BY LevelsFacts
<1>4. \A p \in Nat : \A l \in 0 .. D - 1 :
         T(p, l + 1) = T(p, l) + V(p, l) /\ T(p, l) \in Nat /\ V(p, l) \in Nat
  <2> SUFFICES ASSUME NEW p \in Nat, NEW l \in 0 .. D - 1
      PROVE  T(p, l + 1) = T(p, l) + V(p, l) /\ T(p, l) \in Nat /\ V(p, l) \in Nat
    OBVIOUS
  <2>1. l \in 0 .. D
    BY <1>1
  <2>2. T(p, l + 1) = T(p, l) + V(p, l) /\ T(p, l) \in Nat
    BY <2>1, LevelsFacts
  <2>3. V(p, l) \in Nat
    BY LevelIs
  <2> QED
    BY <2>2, <2>3
<1>5. \A l \in 0 .. D - 1 :
        /\ \A p \in Nat : p < P => V(p, l) = V(0, l)
        /\ \A p \in Nat : p > P => V(p, l) = 0
        /\ V(P, l) <= V(0, l)
        /\ H(l) = P * V(0, l) + V(P, l)
  BY LevelPackets
<1>6. \A l \in Nat : Bits(l + 1) = Bits(l) + H(l)
  BY <1>1, PacketLevels
<1>7. Bits(0) = 0
  BY <1>1, PacketSwitchBitsFacts
<1> HIDE DEF D, P, r, V, T, Bits, H
<1>8. 0 \in S
  <2>1. T(0, 0) = 0 /\ T(P, 0) = 0 /\ P * 0 + 0 = 0
    BY <1>2, <1>3
  <2> QED
    BY <1>3, <1>7, <2>1
<1>9. ASSUME NEW l \in Nat, l \in S PROVE l + 1 \in S
  <2> SUFFICES ASSUME l + 1 <= D PROVE Good(l + 1)
    OBVIOUS
  <2>1. l \in 0 .. D - 1
    BY <1>1
  <2>2. Good(l)
    BY <1>1, <1>9
  <2>3. \A p \in Nat : p < P => T(p, l + 1) = T(0, l + 1)
    <3> SUFFICES ASSUME NEW p \in Nat, p < P PROVE T(p, l + 1) = T(0, l + 1)
      OBVIOUS
    <3>1. T(p, l) = T(0, l) /\ V(p, l) = V(0, l)
      BY <1>5, <2>1, <2>2
    <3>2. T(p, l + 1) = T(p, l) + V(p, l) /\ T(0, l + 1) = T(0, l) + V(0, l)
      BY <1>4, <2>1
    <3> QED
      BY <3>1, <3>2
  <2>4. \A p \in Nat : p > P => T(p, l + 1) = 0
    <3> SUFFICES ASSUME NEW p \in Nat, p > P PROVE T(p, l + 1) = 0
      OBVIOUS
    <3>1. T(p, l) = 0 /\ V(p, l) = 0
      BY <1>5, <2>1, <2>2
    <3>2. T(p, l + 1) = T(p, l) + V(p, l)
      BY <1>4, <2>1
    <3> QED
      BY <3>1, <3>2
  <2>5. /\ T(0, l + 1) = T(0, l) + V(0, l) /\ T(P, l + 1) = T(P, l) + V(P, l)
        /\ T(0, l) \in Nat /\ T(P, l) \in Nat /\ V(0, l) \in Nat /\ V(P, l) \in Nat
    BY <1>2, <1>4, <2>1
  <2>6. /\ V(P, l) <= V(0, l) /\ H(l) = P * V(0, l) + V(P, l)
        /\ T(P, l) <= T(0, l) /\ Bits(l) = P * T(0, l) + T(P, l)
        /\ Bits(l + 1) = Bits(l) + H(l)
    BY <1>5, <1>6, <2>1, <2>2
  <2> DEFINE t == T(0, l)  tp == T(P, l)  v == V(0, l)  vp == V(P, l)
  <2>7. P * (t + v) = P * t + P * v /\ P * t \in Nat /\ P * v \in Nat
    <3>1. t \in Nat /\ v \in Nat
      BY <2>5
    <3> HIDE DEF t, v
    <3> QED
      BY <1>2, <3>1
  <2>8. Bits(l + 1) = P * T(0, l + 1) + T(P, l + 1)
    BY <2>5, <2>6, <2>7
  <2>9. T(P, l + 1) <= T(0, l + 1)
    BY <2>5, <2>6
  <2> QED
    BY <2>3, <2>4, <2>8, <2>9
<1>10. Nat \subseteq S
  <2> HIDE DEF S
  <2> QED
    BY <1>8, <1>9, Induction
<1>11. \A l \in 0 .. D : Good(l)
  BY <1>1, <1>10
<1> QED
  BY <1>11 DEF D, P, r, V, T, Bits, H

-----------------------------------------------------------------------------
(* Every bit that a cluster has for its levels lies in one cell.             *)

CellStart(a, p, l, q) ==
  p * FullPacketBits(a) + LevelsBits(a, p, l) + PathPrefixBits(a, p, l, q)

InCell(a, p, l, q, y) ==
  CellStart(a, p, l, q) <= y /\ y < CellStart(a, p, l, q) + CellBits(a, p, l, q)

LEMMA LevelsAscend ==
  ASSUME NEW a, IsCluster(a), NEW p \in Nat
  PROVE  \A i \in 0 .. a.groupDepth : \A j \in 0 .. i :
           LevelsBits(a, p, j) <= LevelsBits(a, p, i)
<1> DEFINE D == a.groupDepth
           f == [l \in 0 .. D |-> LevelsBits(a, p, l)]
<1>1. D \in Nat
  BY DEF IsCluster
<1>2. \A i \in 0 .. D : f[i] = LevelsBits(a, p, i) /\ f[i] \in Nat
  BY LevelsFacts
<1>3. \A i \in 0 .. D - 1 : f[i] <= f[i + 1]
  <2> SUFFICES ASSUME NEW i \in 0 .. D - 1 PROVE f[i] <= f[i + 1]
    OBVIOUS
  <2>1. LevelsBits(a, p, i + 1) = LevelsBits(a, p, i) + LevelBits(a, p, i)
    BY LevelsFacts
  <2>2. LevelBits(a, p, i) \in Nat
    BY LevelIs
  <2>3. i \in 0 .. D /\ i + 1 \in 0 .. D
    BY <1>1
  <2> HIDE DEF D, f
  <2> QED
    BY <1>2, <2>1, <2>2, <2>3
<1> HIDE DEF f
<1>4. \A i \in 0 .. D : \A j \in 0 .. i : f[j] <= f[i]
  <2> HIDE DEF D
  <2> QED
    BY <1>1, <1>2, <1>3, Ascending
<1>5. \A i \in 0 .. D : \A j \in 0 .. i : j \in 0 .. D
  BY <1>1
<1> QED
  BY <1>2, <1>4, <1>5

LEMMA PrefixAscend ==
  ASSUME NEW a, IsCluster(a), NEW p \in Nat, NEW l \in 0 .. a.groupDepth - 1
  PROVE  \A i \in 0 .. PowerOfTwo[l] : \A j \in 0 .. i :
           PathPrefixBits(a, p, l, j) <= PathPrefixBits(a, p, l, i)
<1> DEFINE w == PowerOfTwo[l]
           f == [q \in 0 .. w |-> PathPrefixBits(a, p, l, q)]
<1>1. w \in Nat
  BY SpanFacts, PowerFacts
<1> HIDE DEF w
<1>2. \A q \in Nat : /\ CellBits(a, p, l, q) \in Nat
                     /\ PathPrefixBits(a, p, l, q) \in Nat
                     /\ PathPrefixBits(a, p, l, q + 1)
                          = PathPrefixBits(a, p, l, q) + CellBits(a, p, l, q)
  BY PrefixFacts
<1>3. \A i \in 0 .. w : f[i] = PathPrefixBits(a, p, l, i) /\ f[i] \in Nat
  BY <1>1, <1>2
<1>4. \A i \in 0 .. w - 1 : f[i] <= f[i + 1]
  <2> SUFFICES ASSUME NEW i \in 0 .. w - 1 PROVE f[i] <= f[i + 1]
    OBVIOUS
  <2>1. i \in Nat /\ i \in 0 .. w /\ i + 1 \in 0 .. w
    BY <1>1
  <2> HIDE DEF f
  <2> QED
    BY <1>2, <1>3, <2>1
<1> HIDE DEF f
<1>5. \A i \in 0 .. w : \A j \in 0 .. i : f[j] <= f[i]
  BY <1>1, <1>3, <1>4, Ascending
<1>6. \A i \in 0 .. w : \A j \in 0 .. i : j \in 0 .. w
  BY <1>1
<1> QED
  BY <1>3, <1>5, <1>6 DEF w

\* A cell in its level, and in its packet.
LEMMA CellBounds ==
  ASSUME NEW a, IsCluster(a), NEW p \in Nat, NEW l \in 0 .. a.groupDepth - 1,
         NEW q \in 0 .. PowerOfTwo[l] - 1, NEW y \in Nat, InCell(a, p, l, q, y)
  PROVE  LET F == FullPacketBits(a)
             T(k) == LevelsBits(a, p, k)
             Q(k) == PathPrefixBits(a, p, l, k)
         IN  /\ F \in Nat
             /\ p * F + T(l) + Q(q) <= y /\ y < p * F + T(l) + Q(q + 1)
             /\ p * F + T(l) <= y /\ y < p * F + T(l + 1)
             /\ p * F <= y /\ y < p * F + T(a.groupDepth)
             /\ y < p * F + F
<1> DEFINE D == a.groupDepth  w == PowerOfTwo[l]
           F == FullPacketBits(a)  T(k) == LevelsBits(a, p, k)
           Q(k) == PathPrefixBits(a, p, l, k)
           x == p * F
<1>1. D \in Nat /\ D \in 0 .. D /\ l \in 0 .. D /\ l + 1 \in 0 .. D /\ 0 \in 0 .. D
  BY DEF IsCluster
<1>2. F = LevelsBits(a, 0, D) /\ F \in Nat
  BY <1>1, LevelsFacts DEF FullPacketBits
<1>3. T(D) \in Nat /\ T(l) \in Nat /\ T(l + 1) \in Nat
  BY <1>1, LevelsFacts
<1>4. T(l + 1) = T(l) + Q(w)
  BY LevelIs, LevelsFacts
<1>5. T(l + 1) <= T(D)
  <2>1. l + 1 \in 0 .. D
    BY <1>1
  <2> QED
    BY <1>1, <2>1, LevelsAscend
<1>6. T(D) <= F
  <2> DEFINE P == LastPacket(a)
  <2>1. /\ p < P => T(D) = F
        /\ p > P => T(D) = 0
        /\ p = P => T(D) <= F
    BY <1>1, <1>2, LevelsPackets
  <2>2. P \in Nat
    BY LastPacketFacts
  <2> HIDE DEF P, T, F
  <2> QED
    BY <1>2, <2>1, <2>2
<1>7. w \in Nat /\ q \in Nat /\ q + 1 \in 0 .. w /\ w \in 0 .. w
  <2>1. w \in Nat
    BY SpanFacts, PowerFacts
  <2>2. q \in 0 .. w - 1
    OBVIOUS
  <2> HIDE DEF w
  <2> QED
    BY <2>1, <2>2
<1>8. Q(q) \in Nat /\ Q(q + 1) = Q(q) + CellBits(a, p, l, q) /\ CellBits(a, p, l, q) \in Nat
      /\ Q(w) \in Nat
  BY <1>7, PrefixFacts
<1>9. Q(q + 1) <= Q(w)
  BY <1>7, PrefixAscend
<1>10. x + T(l) + Q(q) <= y /\ y < x + T(l) + Q(q) + CellBits(a, p, l, q)
  BY DEF InCell, CellStart
<1>11. x \in Nat
  BY <1>2
<1> HIDE DEF T, Q, F, x
<1>12. x + T(l) + Q(q) <= y /\ y < x + T(l) + Q(q + 1)
  BY <1>3, <1>8, <1>10, <1>11
<1>13. x + T(l) <= y /\ y < x + T(l + 1)
  BY <1>3, <1>4, <1>8, <1>9, <1>11, <1>12
<1>14. x <= y /\ y < x + T(D) /\ y < x + F
  BY <1>2, <1>3, <1>5, <1>6, <1>11, <1>13
<1> QED
  BY <1>2, <1>12, <1>13, <1>14 DEF T, Q, F, x

LEMMA OneCell ==
  ASSUME NEW a, IsCluster(a), NEW y \in Nat,
         NEW p \in Nat, NEW l \in 0 .. a.groupDepth - 1,
         NEW q \in 0 .. PowerOfTwo[l] - 1, InCell(a, p, l, q, y),
         NEW p2 \in Nat, NEW l2 \in 0 .. a.groupDepth - 1,
         NEW q2 \in 0 .. PowerOfTwo[l2] - 1, InCell(a, p2, l2, q2, y)
  PROVE  p = p2 /\ l = l2 /\ q = q2
<1> DEFINE F == FullPacketBits(a)  D == a.groupDepth
<1>0. D \in Nat /\ l \in Nat /\ l2 \in Nat
  BY DEF IsCluster
<1>1. F \in Nat /\ p * F <= y /\ y < p * F + F /\ p2 * F <= y /\ y < p2 * F + F
  BY CellBounds
<1> HIDE DEF F
<1>2. p = p2
  <2>1. p * F \in Nat /\ p2 * F \in Nat
    BY <1>1
  <2>2. ~(p < p2)
    <3> SUFFICES ASSUME p < p2 PROVE FALSE
      OBVIOUS
    <3>1. p * F + F <= p2 * F
      BY <1>1, Monotone
    <3> QED
      BY <1>1, <2>1, <3>1
  <2>3. ~(p2 < p)
    <3> SUFFICES ASSUME p2 < p PROVE FALSE
      OBVIOUS
    <3>1. p2 * F + F <= p * F
      BY <1>1, Monotone
    <3> QED
      BY <1>1, <2>1, <3>1
  <2> QED
    BY <2>2, <2>3
<1> DEFINE T(k) == LevelsBits(a, p, k)  x == p * F
<1>3. /\ x + T(l) <= y /\ y < x + T(l + 1) /\ x + T(l2) <= y /\ y < x + T(l2 + 1)
  BY <1>2, CellBounds DEF F
<1>4. x \in Nat
  BY <1>1
<1>5. \A k \in 0 .. D : T(k) \in Nat
  BY LevelsFacts
<1>6. \A i \in 0 .. D : \A j \in 0 .. i : T(j) <= T(i)
  BY LevelsAscend
<1> HIDE DEF T, x
<1>7. l = l2
  <2>0. l \in 0 .. D - 1 /\ l2 \in 0 .. D - 1
    OBVIOUS
  <2> HIDE DEF D
  <2>1. l + 1 \in 0 .. D /\ l2 + 1 \in 0 .. D /\ l \in 0 .. D /\ l2 \in 0 .. D
    BY <1>0, <2>0
  <2>2. T(l) \in Nat /\ T(l2) \in Nat /\ T(l + 1) \in Nat /\ T(l2 + 1) \in Nat
    BY <1>5, <2>1
  <2>3. ~(l < l2)
    <3> SUFFICES ASSUME l < l2 PROVE FALSE
      OBVIOUS
    <3>1. l + 1 \in 0 .. l2
      BY <1>0
    <3>2. T(l + 1) <= T(l2)
      BY <1>6, <2>1, <3>1
    <3> QED
      BY <1>3, <1>4, <2>2, <3>2
  <2>4. ~(l2 < l)
    <3> SUFFICES ASSUME l2 < l PROVE FALSE
      OBVIOUS
    <3>1. l2 + 1 \in 0 .. l
      BY <1>0
    <3>2. T(l2 + 1) <= T(l)
      BY <1>6, <2>1, <3>1
    <3> QED
      BY <1>3, <1>4, <2>2, <3>2
  <2> QED
    BY <1>0, <2>3, <2>4
<1> DEFINE Q(k) == PathPrefixBits(a, p, l, k)  w == PowerOfTwo[l]  z == x + T(l)
<1>8. /\ z + Q(q) <= y /\ y < z + Q(q + 1) /\ z + Q(q2) <= y /\ y < z + Q(q2 + 1)
  BY <1>2, <1>7, CellBounds DEF F, x, T
<1>9. z \in Nat
  <2>1. l \in 0 .. D
    BY <1>0
  <2> QED
    BY <1>4, <1>5, <2>1
<1>10. w \in Nat
  BY <1>0, PowerFacts
<1>11. \A k \in Nat : Q(k) \in Nat
  BY PrefixFacts
<1>12. \A i \in 0 .. w : \A j \in 0 .. i : Q(j) <= Q(i)
  BY PrefixAscend
<1>13. q \in 0 .. w - 1 /\ q2 \in 0 .. w - 1
  BY <1>7
<1> HIDE DEF Q, w, z
<1>14. q \in Nat /\ q2 \in Nat /\ q + 1 \in 0 .. w /\ q2 + 1 \in 0 .. w
       /\ q \in 0 .. w /\ q2 \in 0 .. w /\ q + 1 \in Nat /\ q2 + 1 \in Nat
  BY <1>10, <1>13
<1>15. Q(q) \in Nat /\ Q(q2) \in Nat /\ Q(q + 1) \in Nat /\ Q(q2 + 1) \in Nat
  BY <1>11, <1>14
<1>16. ~(q < q2)
  <2> SUFFICES ASSUME q < q2 PROVE FALSE
    OBVIOUS
  <2>1. q + 1 \in 0 .. q2
    BY <1>14
  <2>2. Q(q + 1) <= Q(q2)
    BY <1>12, <1>14, <2>1
  <2> QED
    BY <1>8, <1>9, <1>15, <2>2
<1>17. ~(q2 < q)
  <2> SUFFICES ASSUME q2 < q PROVE FALSE
    OBVIOUS
  <2>1. q2 + 1 \in 0 .. q
    BY <1>14
  <2>2. Q(q2 + 1) <= Q(q)
    BY <1>12, <1>14, <2>1
  <2> QED
    BY <1>8, <1>9, <1>15, <2>2
<1>18. q = q2
  BY <1>14, <1>16, <1>17
<1> QED
  BY <1>2, <1>7, <1>18

LEMMA CellWithin ==
  ASSUME NEW a, IsCluster(a), NEW p \in Nat, NEW l \in 0 .. a.groupDepth - 1,
         NEW q \in 0 .. PowerOfTwo[l] - 1, NEW y \in Nat, InCell(a, p, l, q, y)
  PROVE  y < PacketSwitchBits(a.root, a.groupDepth)
<1> DEFINE D == a.groupDepth  P == LastPacket(a)  F == FullPacketBits(a)
           T(k) == LevelsBits(a, k, D)
<1>1. D \in Nat /\ D \in 0 .. D
  BY DEF IsCluster
<1>2. /\ F \in Nat /\ y < p * F + T(p) /\ y < p * F + F /\ p * F <= y
  BY CellBounds
<1>3. P \in Nat
  BY LastPacketFacts
<1>4. PacketSwitchBits(a.root, D) = P * F + T(P) /\ (p > P => T(p) = 0)
  BY <1>1, LevelsPackets DEF FullPacketBits
<1>5. T(P) \in Nat
  BY <1>1, <1>3, LevelsFacts
<1> HIDE DEF T, F, P
<1>6. p * F \in Nat /\ P * F \in Nat
  BY <1>2, <1>3
<1>7. p <= P
  <2> SUFFICES ASSUME p > P PROVE FALSE
    BY <1>3
  <2> QED
    BY <1>2, <1>4, <1>6
<1>8. CASE p = P
  BY <1>2, <1>4, <1>8
<1>9. CASE p # P
  <2>1. p < P
    BY <1>3, <1>7, <1>9
  <2>2. p * F + F <= P * F
    BY <1>2, <1>3, <2>1, Monotone
  <2>3. y < P * F + T(P)
    BY <1>2, <1>5, <1>6, <2>2
  <2> QED
    BY <1>4, <2>3
<1> QED
  BY <1>8, <1>9

LEMMA SomeCell ==
  ASSUME NEW a, IsCluster(a), NEW y \in Nat,
         y < PacketSwitchBits(a.root, a.groupDepth)
  PROVE  \E p \in Nat : \E l \in 0 .. a.groupDepth - 1 :
           \E q \in 0 .. PowerOfTwo[l] - 1 : InCell(a, p, l, q, y)
<1> DEFINE D == a.groupDepth  P == LastPacket(a)  F == FullPacketBits(a)
           T(k) == LevelsBits(a, k, D)
<1>1. D \in Nat /\ D \in 0 .. D /\ a.root \in Nat
  BY DEF IsCluster
<1>2. P \in Nat
  <2> DEFINE r == a.root  z == PowerOfTwo[D]
  <2>1. z \in Nat \ {0} /\ r \in Nat
    BY <1>1, PowerFacts
  <2>2. P = r \div z
    BY DEF LastPacket
  <2> HIDE DEF z, r, P
  <2> QED
    BY <2>1, <2>2, DivisionFacts
<1>3. F = T(0) /\ F \in Nat /\ \A p \in Nat : T(p) \in Nat
  BY <1>1, LevelsFacts DEF FullPacketBits
<1>4. PacketSwitchBits(a.root, D) = P * F + T(P)
  BY <1>1, LevelsPackets DEF FullPacketBits
<1>5. \A p \in Nat : p < P => T(p) = F
  BY <1>1, <1>3, LevelsPackets
<1>6. y < P * F + T(P)
  BY <1>4
<1>7. \E p \in Nat : p * F <= y /\ y < p * F + T(p)
  <2> HIDE DEF T, F, P
  <2>1. CASE P * F <= y
    BY <1>2, <1>6, <2>1
  <2>2. CASE ~(P * F <= y)
    <3>1. P * F \in Nat
      BY <1>2, <1>3
    <3>2. F # 0
      <4> SUFFICES ASSUME F = 0 PROVE FALSE
        OBVIOUS
      <4>1. P * F = 0
        BY <1>2
      <4> QED
        BY <2>2, <4>1
    <3> DEFINE p == y \div F
    <3>3. p \in Nat /\ p * F <= y /\ y < p * F + F
      <4>1. F \in Nat \ {0}
        BY <1>3, <3>2
      <4>2. y \div F \in Nat /\ y % F \in 0 .. F - 1 /\ y = (y \div F) * F + (y % F)
        BY <4>1, DivisionFacts
      <4> DEFINE m == y % F
      <4>3. p \in Nat /\ m \in 0 .. F - 1 /\ y = p * F + m
        BY <4>2
      <4> HIDE DEF p, m
      <4>4. p * F \in Nat
        BY <4>1, <4>3
      <4> QED
        BY <4>1, <4>3, <4>4
    <3> HIDE DEF p
    <3>4. p < P
      <4> SUFFICES ASSUME P <= p PROVE FALSE
        BY <1>2, <3>3
      <4>1. P * F <= p * F
        BY <1>2, <1>3, <3>3, Monotone
      <4>2. p * F \in Nat
        BY <1>3, <3>3
      <4> QED
        BY <2>2, <3>1, <3>3, <4>1, <4>2
    <3>5. T(p) = F
      BY <1>5, <3>3, <3>4
    <3> QED
      BY <3>3, <3>5
  <2> QED
    BY <2>1, <2>2
<1>8. PICK p \in Nat : p * F <= y /\ y < p * F + T(p)
  BY <1>7
<1> DEFINE x == p * F  v == y - x
           f == [l \in 0 .. D |-> LevelsBits(a, p, l)]
<1>9. x \in Nat /\ v \in Nat /\ y = x + v /\ v < T(p)
  <2>1. x \in Nat
    BY <1>3
  <2>2. x <= y /\ y < x + T(p) /\ T(p) \in Nat
    BY <1>3, <1>8
  <2> HIDE DEF x, T
  <2> QED
    BY <2>1, <2>2
<1> HIDE DEF v
<1>10. \E l \in 0 .. D - 1 : f[l] <= v /\ v < f[l + 1]
  <2>1. \A i \in 0 .. D : f[i] \in Nat
    BY LevelsFacts
  <2>2. f[0] = 0 /\ f[D] = T(p)
    BY <1>1, LevelsFacts
  <2> HIDE DEF f, D, T
  <2>3. f[0] <= v /\ v < f[D]
    BY <1>9, <2>2
  <2> QED
    BY <1>1, <1>9, <2>1, <2>3, OneInterval
<1>11. PICK l \in 0 .. D - 1 : f[l] <= v /\ v < f[l + 1]
  BY <1>10
<1> DEFINE t == LevelsBits(a, p, l)  u == v - t  w == PowerOfTwo[l]
           g == [q \in 0 .. w |-> PathPrefixBits(a, p, l, q)]
<1>12. l \in 0 .. D /\ l + 1 \in 0 .. D
  BY <1>1
<1>13. t \in Nat /\ t <= v /\ v < LevelsBits(a, p, l + 1)
       /\ LevelsBits(a, p, l + 1) = t + LevelBits(a, p, l)
  BY <1>11, <1>12, LevelsFacts
<1>14. LevelBits(a, p, l) = PathPrefixBits(a, p, l, w) /\ LevelBits(a, p, l) \in Nat
  BY LevelIs
<1>15. u \in Nat /\ v = t + u /\ u < PathPrefixBits(a, p, l, w)
  <2> HIDE DEF t, w
  <2> QED
    BY <1>9, <1>13, <1>14
<1>16. w \in Nat
  BY SpanFacts, PowerFacts
<1> HIDE DEF u, w
<1>17. \E q \in 0 .. w - 1 : g[q] <= u /\ u < g[q + 1]
  <2>1. \A i \in 0 .. w : g[i] \in Nat
    <3>1. \A i \in 0 .. w : i \in Nat
      BY <1>16
    <3>2. \A i \in Nat : PathPrefixBits(a, p, l, i) \in Nat
      BY PrefixFacts
    <3> QED
      BY <3>1, <3>2
  <2>2. g[0] = 0 /\ g[w] = PathPrefixBits(a, p, l, w)
    BY <1>16, PrefixFacts
  <2> HIDE DEF g
  <2>3. g[0] <= u /\ u < g[w]
    BY <1>15, <2>2
  <2> QED
    BY <1>15, <1>16, <2>1, <2>3, OneInterval
<1>18. PICK q \in 0 .. w - 1 : g[q] <= u /\ u < g[q + 1]
  BY <1>17
<1>19. q \in Nat /\ q \in 0 .. w /\ q + 1 \in 0 .. w
  BY <1>16
<1> DEFINE c == PathPrefixBits(a, p, l, q)  e == CellBits(a, p, l, q)
<1>20. c <= u /\ u < c + e /\ c \in Nat /\ e \in Nat
  BY <1>18, <1>19, PrefixFacts
<1>21. InCell(a, p, l, q, y)
  <2>1. CellStart(a, p, l, q) = x + t + c
    BY DEF CellStart
  <2>2. InCell(a, p, l, q, y) <=> x + t + c <= y /\ y < x + t + c + e
    BY <2>1 DEF InCell
  <2> HIDE DEF x, t, c, e
  <2> QED
    BY <1>9, <1>13, <1>15, <1>20, <2>2
<1> QED
  BY <1>21 DEF w

-----------------------------------------------------------------------------
(* Addresses.                                                                *)

\* The address of a node in the levels of its cluster.
IsPlace(a) ==
  /\ IsCluster(a) /\ a.base \in Nat
  /\ a.level \in 0 .. a.groupDepth - 1
  /\ a.path \in 0 .. PowerOfTwo[a.level] - 1
  /\ a.node = NodeSize(a.root, a.level, a.path)

LEMMA PlaceFacts ==
  ASSUME NEW a, IsPlace(a)
  PROVE  /\ a.groupDepth \in Nat /\ a.level \in Nat /\ a.path \in Nat /\ a.base \in Nat
         /\ a.node \in Nat
         /\ PairSpan(a) = CellSpan(a, a.level) /\ PairSpan(a) \in Nat \ {0}
         /\ \A p : CellBits(a, p, a.level, a.path) = Contribution(a.node, p, PairSpan(a))
<1>1. a.groupDepth \in Nat /\ a.level \in Nat /\ a.path \in Nat /\ a.base \in Nat
  <2>1. a.groupDepth \in Nat /\ a.level \in 0 .. a.groupDepth - 1 /\ a.base \in Nat
        /\ a.path \in 0 .. PowerOfTwo[a.level] - 1
    BY DEF IsPlace, IsCluster
  <2>2. PowerOfTwo[a.level] \in Nat
    BY <2>1, PowerFacts
  <2> QED
    BY <2>1, <2>2
<1>2. a.node \in Nat
  BY <1>1, NodeSizes DEF IsPlace, IsCluster
<1>3. PairSpan(a) = CellSpan(a, a.level)
  BY DEF PairSpan, CellSpan
<1>4. CellSpan(a, a.level) \in Nat \ {0}
  BY SpanFacts DEF IsPlace
<1>5. \A p : CellBits(a, p, a.level, a.path) = Contribution(a.node, p, PairSpan(a))
  BY <1>3 DEF CellBits, IsPlace
<1> QED
  BY <1>1, <1>2, <1>3, <1>4, <1>5

\* The bit of a switch is in the cell of its node and its packet.
LEMMA SwitchBitIs ==
  ASSUME NEW a, IsPlace(a), a.node > LeafSize, NEW k \in 0 .. a.node \div 2 - 1
  PROVE  LET p == k \div PairSpan(a)
             r == k % PairSpan(a)
             y == CellStart(a, p, a.level, a.path) + r
         IN  /\ p \in Nat /\ y \in Nat
             /\ SwitchBit(a, k) = a.base + y
             /\ InCell(a, p, a.level, a.path, y)
<1> DEFINE span == PairSpan(a)  p == k \div span  r == k % span  h == a.node \div 2
           l == a.level  q == a.path  tail == TailPacket(a)  P == LastPacket(a)
           F == FullPacketBits(a)
           C(j) == CellBits(a, j, l, q)
           T(j) == LevelsBits(a, j, l)
           Q(j) == PathPrefixBits(a, j, l, q)
           start == CellStart(a, p, l, q)
<1>1. span \in Nat \ {0} /\ h \in Nat /\ k \in 0 .. h - 1 /\ k \in Nat /\ h >= 1 /\ q \in Nat
  <2>1. a.node \in Nat
    BY PlaceFacts
  <2>2. h \in Nat
    BY <2>1
  <2> HIDE DEF h
  <2> QED
    BY <2>2, PlaceFacts DEF h
<1>2. l \in 0 .. a.groupDepth - 1 /\ l \in 0 .. a.groupDepth /\ IsCluster(a)
      /\ 0 \in Nat /\ a.groupDepth \in 0 .. a.groupDepth /\ a.base \in Nat
  BY PlaceFacts DEF IsPlace
<1>3. P \in Nat
  BY <1>2, LastPacketFacts
<1>4. \A j \in Nat : C(j) = IF j * span >= h THEN 0
                            ELSE IF span < h - j * span THEN span ELSE h - j * span
  <2>1. \A j : C(j) = Contribution(a.node, j, span)
    BY PlaceFacts
  <2>2. ~(a.node <= LeafSize)
    BY LeafSizes, PlaceFacts
  <2> HIDE DEF C, span
  <2> QED
    BY <2>1, <2>2 DEF Contribution
<1>5. tail = (h - 1) \div span
  BY <1>1 DEF TailPacket
<1>6. SwitchBit(a, k) = a.base + p * F + PacketPrefix(a, IF p = tail THEN p ELSE 0) + r
  BY DEF SwitchBit
<1>7. \A j : PacketPrefix(a, j) = T(j) + Q(j)
  BY DEF PacketPrefix
<1>8. start = p * F + T(p) + Q(p)
  BY DEF CellStart
<1>9. /\ \A j \in Nat : j < P => T(j) = T(0) /\ Q(j) = Q(0)
      /\ \A j \in Nat : j > P => C(j) = 0
  <2> HIDE DEF P
  <2>1. \A j \in Nat : j < P => T(j) = T(0)
    BY <1>2, LevelsPackets DEF P
  <2>2. \A j \in Nat : j < P => Q(j) = Q(0)
    BY <1>1, <1>2, PrefixPackets DEF P
  <2>3. \A j \in Nat : j > P => C(j) = 0
    BY <1>1, <1>2, CellPackets DEF P
  <2> QED
    BY <2>1, <2>2, <2>3
<1>10. F \in Nat /\ \A j \in Nat : T(j) \in Nat /\ Q(j) \in Nat /\ C(j) \in Nat
  <2>1. F \in Nat
    BY <1>2, LevelsFacts DEF FullPacketBits
  <2>2. \A j \in Nat : T(j) \in Nat
    BY <1>2, LevelsFacts
  <2>3. \A j \in Nat : Q(j) \in Nat /\ C(j) \in Nat
    BY <1>1, <1>2, PrefixFacts
  <2> QED
    BY <2>1, <2>2, <2>3
<1> HIDE DEF span, h, l, q, tail, P, F, C, T, Q, start
<1>11. p \in Nat /\ r \in 0 .. span - 1 /\ k = p * span + r
  BY <1>1, DivisionFacts
<1>12. tail \in Nat /\ tail * span <= h - 1 /\ h - 1 < tail * span + span
  <2> DEFINE g == h - 1  m == g % span
  <2>1. g \in Nat
    BY <1>1
  <2> HIDE DEF g
  <2>2. g \div span \in Nat /\ m \in 0 .. span - 1 /\ g = (g \div span) * span + m
    BY <1>1, <2>1, DivisionFacts
  <2>3. tail = g \div span
    BY <1>5 DEF g
  <2> HIDE DEF m
  <2>4. tail \in Nat /\ m \in 0 .. span - 1 /\ g = tail * span + m
    BY <2>2, <2>3
  <2>5. tail * span \in Nat
    BY <1>1, <2>4
  <2> QED
    BY <1>1, <2>4, <2>5 DEF g
<1> HIDE DEF p, r
<1>13. p * span \in Nat /\ tail * span \in Nat
  BY <1>1, <1>11, <1>12
<1>14. p <= tail
  <2> SUFFICES ASSUME tail < p PROVE FALSE
    BY <1>11, <1>12
  <2>1. tail * span + span <= p * span
    BY <1>1, <1>11, <1>12, Monotone
  <2> QED
    BY <1>1, <1>11, <1>12, <1>13, <2>1
<1>15. tail <= P
  <2> SUFFICES ASSUME P < tail PROVE FALSE
    BY <1>3, <1>12
  <2>1. C(tail) = 0
    BY <1>9, <1>12
  <2> DEFINE x == tail * span
  <2>2. C(tail) = IF x >= h THEN 0 ELSE IF span < h - x THEN span ELSE h - x
    BY <1>4, <1>12
  <2>3. x \in Nat /\ x <= h - 1
    BY <1>12, <1>13
  <2> HIDE DEF x
  <2> QED
    BY <1>1, <2>1, <2>2, <2>3
<1>16. SwitchBit(a, k) = a.base + (start + r)
  <2>1. CASE p = tail
    <3>1. SwitchBit(a, k) = a.base + p * F + (T(p) + Q(p)) + r
      BY <1>6, <1>7, <2>1
    <3> DEFINE x == p * F  i == T(p)  j == Q(p)
    <3>2. x \in Nat /\ i \in Nat /\ j \in Nat
      BY <1>10, <1>11
    <3>3. SwitchBit(a, k) = a.base + x + (i + j) + r /\ start = x + i + j
      BY <1>8, <3>1
    <3> HIDE DEF x, i, j
    <3> QED
      BY <1>1, <1>2, <1>11, <3>2, <3>3
  <2>2. CASE p # tail
    <3>0. p < P
      BY <1>3, <1>11, <1>12, <1>14, <1>15, <2>2
    <3>1. SwitchBit(a, k) = a.base + p * F + (T(p) + Q(p)) + r
      BY <1>6, <1>7, <1>9, <1>11, <2>2, <3>0
    <3> DEFINE x == p * F  i == T(p)  j == Q(p)
    <3>2. x \in Nat /\ i \in Nat /\ j \in Nat
      BY <1>10, <1>11
    <3>3. SwitchBit(a, k) = a.base + x + (i + j) + r /\ start = x + i + j
      BY <1>8, <3>1
    <3> HIDE DEF x, i, j
    <3> QED
      BY <1>1, <1>2, <1>11, <3>2, <3>3
  <2> QED
    BY <2>1, <2>2
<1>17. r < C(p)
  <2> DEFINE x == p * span
  <2>1. C(p) = IF x >= h THEN 0 ELSE IF span < h - x THEN span ELSE h - x
    BY <1>4, <1>11
  <2>2. x \in Nat /\ k = x + r
    BY <1>11, <1>13
  <2> HIDE DEF x
  <2> QED
    BY <1>1, <1>11, <2>1, <2>2
<1>18. start \in Nat /\ start + r \in Nat /\ C(p) \in Nat /\ r \in Nat
  <2>1. start \in Nat /\ C(p) \in Nat
    <3> DEFINE x == p * F  i == T(p)  j == Q(p)
    <3>1. x \in Nat /\ i \in Nat /\ j \in Nat /\ C(p) \in Nat
      BY <1>10, <1>11
    <3>2. start = x + i + j
      BY <1>8
    <3> HIDE DEF x, i, j
    <3> QED
      BY <3>1, <3>2
  <2> QED
    BY <1>1, <1>11, <2>1
<1>19. start <= start + r /\ start + r < start + C(p)
  BY <1>17, <1>18
<1>20. InCell(a, p, l, q, start + r)
  BY <1>19 DEF InCell, C, start
<1> QED
  BY <1>11, <1>16, <1>18, <1>20 DEF p, r, span, l, q, start

\* A cell holds no other bits.
LEMMA CellHasSwitches ==
  ASSUME NEW a, IsPlace(a), NEW p \in Nat, NEW y \in Nat,
         InCell(a, p, a.level, a.path, y)
  PROVE  /\ a.node > LeafSize
         /\ \E k \in 0 .. a.node \div 2 - 1 :
              k \div PairSpan(a) = p /\ SwitchBit(a, k) = a.base + y
<1> DEFINE span == PairSpan(a)  h == a.node \div 2  l == a.level  q == a.path
           C == CellBits(a, p, l, q)  start == CellStart(a, p, l, q)
           x == p * span  r == y - start  k == x + r
<1>1. span \in Nat \ {0} /\ a.node \in Nat /\ LeafSize \in Nat
  BY PlaceFacts, LeafSizes
<1>2. C = Contribution(a.node, p, span)
  BY PlaceFacts
<1>3. start <= y /\ y < start + C
  BY DEF InCell
<1>4. start \in Nat /\ C \in Nat
  <2>1. l \in 0 .. a.groupDepth - 1 /\ l \in 0 .. a.groupDepth /\ IsCluster(a) /\ q \in Nat
        /\ a.groupDepth \in 0 .. a.groupDepth /\ 0 \in Nat
    BY PlaceFacts DEF IsPlace
  <2>2. FullPacketBits(a) \in Nat
    BY <2>1, LevelsFacts DEF FullPacketBits
  <2>3. LevelsBits(a, p, l) \in Nat
    BY <2>1, LevelsFacts
  <2>4. PathPrefixBits(a, p, l, q) \in Nat /\ C \in Nat
    BY <2>1, PrefixFacts
  <2> DEFINE i == FullPacketBits(a)  j == LevelsBits(a, p, l)
             m == PathPrefixBits(a, p, l, q)
  <2>5. start = p * i + j + m
    BY DEF CellStart
  <2>6. i \in Nat /\ j \in Nat /\ m \in Nat
    BY <2>2, <2>3, <2>4
  <2> HIDE DEF i, j, m, start
  <2> QED
    BY <2>4, <2>5, <2>6
<1> HIDE DEF span, C, start
<1>5. r \in Nat /\ r < C /\ y = start + r
  BY <1>3, <1>4
<1> HIDE DEF r
<1>6. h \in Nat /\ x \in Nat
  BY <1>1
<1>7. C = IF a.node <= LeafSize \/ x >= h THEN 0
          ELSE IF span < h - x THEN span ELSE h - x
  BY <1>2 DEF Contribution
<1> HIDE DEF h
<1>8. ~(a.node <= LeafSize)
  BY <1>5, <1>7
<1>9. a.node > LeafSize
  BY <1>1, <1>8
<1>10. r \in 0 .. span - 1 /\ k \in 0 .. h - 1
  <2> HIDE DEF x
  <2> QED
    BY <1>1, <1>5, <1>6, <1>7
<1>11. k \in Nat /\ k = p * span + r
  BY <1>5, <1>6
<1> HIDE DEF k
<1>12. k \div span = p /\ k % span = r
  BY <1>1, <1>10, <1>11, OneQuotient
<1>13. SwitchBit(a, k) = a.base + (CellStart(a, k \div span, l, q) + (k % span))
  BY <1>9, <1>10, SwitchBitIs DEF span, h
<1>14. SwitchBit(a, k) = a.base + y
  BY <1>5, <1>12, <1>13 DEF start
<1> QED
  BY <1>9, <1>10, <1>12, <1>14 DEF span, h

-----------------------------------------------------------------------------
(* What a cluster holds of a node and of the nodes below it.                 *)

Under(a, l, q) ==
  /\ a.level <= l
  /\ a.path * PowerOfTwo[l - a.level] <= q
  /\ q < (a.path + 1) * PowerOfTwo[l - a.level]

Own(a) == {y \in Nat : \E p \in Nat : InCell(a, p, a.level, a.path, y)}

Sub(a) ==
  {y \in Nat :
     \E p \in Nat : \E l \in 0 .. a.groupDepth - 1 :
       \E q \in 0 .. PowerOfTwo[l] - 1 : Under(a, l, q) /\ InCell(a, p, l, q, y)}

\* The child's place in the same cluster.
IsChildPlace(c, a, turn) ==
  /\ c.root = a.root /\ c.groupDepth = a.groupDepth
  /\ c.level = a.level + 1 /\ c.path = 2 * a.path + turn

InThree(x, a, b, c) ==
  /\ x = a \cup b \cup c
  /\ a \cap b = {} /\ a \cap c = {} /\ b \cap c = {}

LEMMA SameCells ==
  ASSUME NEW a, IsCluster(a), NEW c, c.root = a.root, c.groupDepth = a.groupDepth,
         NEW p \in Nat, NEW l \in 0 .. a.groupDepth - 1, NEW q, NEW y
  PROVE  InCell(c, p, l, q, y) <=> InCell(a, p, l, q, y)
<1> DEFINE D == a.groupDepth
<1>1. D \in Nat /\ D \in 0 .. D /\ l \in 0 .. D /\ 0 \in Nat
  BY DEF IsCluster
<1>2. LevelsBits(c, p, l) = LevelsBits(a, p, l)
      /\ PathPrefixBits(c, p, l, q) = PathPrefixBits(a, p, l, q)
      /\ CellBits(c, p, l, q) = CellBits(a, p, l, q)
  BY <1>1, SameCluster
<1>3. FullPacketBits(c) = FullPacketBits(a)
  BY <1>1, SameCluster DEF FullPacketBits
<1> QED
  BY <1>2, <1>3 DEF InCell, CellStart

\* A node below a node is the node itself or below one of its children.
LEMMA UnderSplits ==
  ASSUME NEW a, IsPlace(a), NEW c, IsChildPlace(c, a, 0), NEW d, IsChildPlace(d, a, 1),
         NEW l \in Nat, NEW q \in Nat
  PROVE  /\ Under(a, l, q) <=> \/ l = a.level /\ q = a.path
                               \/ Under(c, l, q) \/ Under(d, l, q)
         /\ Under(c, l, q) => l # a.level /\ ~Under(d, l, q)
         /\ Under(d, l, q) => l # a.level
<1> DEFINE i == a.level  j == a.path
<1>1. i \in Nat /\ j \in Nat
  BY PlaceFacts
<1>2. c.level = i + 1 /\ c.path = 2 * j /\ d.level = i + 1 /\ d.path = 2 * j + 1
  BY <1>1 DEF IsChildPlace
<1> HIDE DEF i, j
<1>3. CASE l <= i
  <2>1. ~Under(c, l, q) /\ ~Under(d, l, q)
    BY <1>1, <1>2, <1>3 DEF Under
  <2>2. Under(a, l, q) <=> l = i /\ q = j
    <3>1. CASE l = i
      <4>1. l - i = 0 /\ PowerOfTwo[0] = 1
        BY <1>1, <3>1, PowerFacts
      <4>2. Under(a, l, q) <=> j * 1 <= q /\ q < (j + 1) * 1
        BY <1>1, <3>1, <4>1 DEF Under, i, j
      <4> QED
        BY <1>1, <3>1, <4>2
    <3>2. CASE l # i
      BY <1>1, <1>3, <3>2 DEF Under, i
    <3> QED
      BY <3>1, <3>2
  <2> QED
    BY <2>1, <2>2 DEF i, j
<1>4. CASE ~(l <= i)
  <2> DEFINE e == l - (i + 1)  w == PowerOfTwo[e]
  <2>1. e \in Nat /\ l - i = e + 1 /\ i <= l /\ i + 1 <= l /\ l # i
    BY <1>1, <1>4
  <2>2. w \in Nat \ {0} /\ PowerOfTwo[l - i] = 2 * w
    BY <2>1, PowerFacts
  <2>3. Under(a, l, q) <=> j * (2 * w) <= q /\ q < (j + 1) * (2 * w)
    BY <2>1, <2>2 DEF Under, i, j
  <2>4. Under(c, l, q) <=> (2 * j) * w <= q /\ q < (2 * j + 1) * w
    BY <1>2, <2>1 DEF Under
  <2>5. Under(d, l, q) <=> (2 * j + 1) * w <= q /\ q < ((2 * j + 1) + 1) * w
    BY <1>2, <2>1 DEF Under
  <2> HIDE DEF w, e
  <2> DEFINE x == j * w
  <2>6. /\ x \in Nat /\ j * (2 * w) = 2 * x /\ (j + 1) * (2 * w) = 2 * x + 2 * w
        /\ (2 * j) * w = 2 * x /\ (2 * j + 1) * w = 2 * x + w
        /\ ((2 * j + 1) + 1) * w = 2 * x + 2 * w
    BY <1>1, <2>2
  <2> HIDE DEF x
  <2>7. /\ Under(a, l, q) <=> Under(c, l, q) \/ Under(d, l, q)
        /\ ~(Under(c, l, q) /\ Under(d, l, q))
    BY <2>2, <2>3, <2>4, <2>5, <2>6
  <2> QED
    BY <2>1, <2>7 DEF i
<1> QED
  BY <1>3, <1>4

LEMMA SubWithin ==
  ASSUME NEW a, IsCluster(a)
  PROVE  Sub(a) \subseteq 0 .. PacketSwitchBits(a.root, a.groupDepth) - 1
<1>1. PacketSwitchBits(a.root, a.groupDepth) \in Nat
  BY PacketSwitchBitsFacts DEF IsCluster
<1>2. ASSUME NEW y \in Sub(a)
      PROVE  y \in Nat /\ y < PacketSwitchBits(a.root, a.groupDepth)
  <2>1. y \in Nat /\ \E p \in Nat : \E l \in 0 .. a.groupDepth - 1 :
          \E q \in 0 .. PowerOfTwo[l] - 1 : InCell(a, p, l, q, y)
    BY DEF Sub
  <2> QED
    BY <2>1, CellWithin
<1> QED
  BY <1>1, <1>2

\* The cluster's root: all of it.
LEMMA SubOfRoot ==
  ASSUME NEW a, IsCluster(a), a.level = 0, a.path = 0
  PROVE  Sub(a) = 0 .. PacketSwitchBits(a.root, a.groupDepth) - 1
<1>1. PacketSwitchBits(a.root, a.groupDepth) \in Nat
  BY PacketSwitchBitsFacts DEF IsCluster
<1>2. ASSUME NEW y \in 0 .. PacketSwitchBits(a.root, a.groupDepth) - 1 PROVE y \in Sub(a)
  <2>1. y \in Nat /\ y < PacketSwitchBits(a.root, a.groupDepth)
    BY <1>1
  <2>2. PICK p \in Nat : \E l \in 0 .. a.groupDepth - 1 :
           \E q \in 0 .. PowerOfTwo[l] - 1 : InCell(a, p, l, q, y)
    BY <2>1, SomeCell
  <2>3. PICK l \in 0 .. a.groupDepth - 1 :
           \E q \in 0 .. PowerOfTwo[l] - 1 : InCell(a, p, l, q, y)
    BY <2>2
  <2>4. PICK q \in 0 .. PowerOfTwo[l] - 1 : InCell(a, p, l, q, y)
    BY <2>3
  <2>5. Under(a, l, q)
    <3> DEFINE w == PowerOfTwo[l]
    <3>1. l \in Nat /\ l - 0 = l /\ w \in Nat
      <4>1. l \in Nat
        BY SpanFacts
      <4> QED
        BY <4>1, PowerFacts
    <3>2. q \in 0 .. w - 1
      OBVIOUS
    <3>3. Under(a, l, q) <=> 0 <= l /\ 0 * w <= q /\ q < (0 + 1) * w
      BY <3>1 DEF Under
    <3> HIDE DEF w
    <3>4. 0 * w = 0 /\ (0 + 1) * w = w
      BY <3>1
    <3> QED
      BY <3>1, <3>2, <3>3, <3>4
  <2> QED
    BY <2>1, <2>4, <2>5 DEF Sub
<1> QED
  BY <1>2, SubWithin

\* A node on the last level of a cluster: its own switches.
LEMMA SubOfLast ==
  ASSUME NEW a, IsPlace(a), a.level = a.groupDepth - 1
  PROVE  Sub(a) = Own(a)
<1>0. a.groupDepth \in Nat /\ a.level \in Nat /\ a.path \in Nat
      /\ a.level \in 0 .. a.groupDepth - 1 /\ a.path \in 0 .. PowerOfTwo[a.level] - 1
  BY PlaceFacts DEF IsPlace
<1>1. ASSUME NEW l \in 0 .. a.groupDepth - 1, NEW q \in 0 .. PowerOfTwo[l] - 1
      PROVE  Under(a, l, q) <=> l = a.level /\ q = a.path
  <2>1. l \in Nat /\ l <= a.level
    BY <1>0
  <2>2. q \in Nat
    <3>1. PowerOfTwo[l] \in Nat
      BY <2>1, PowerFacts
    <3> QED
      BY <3>1
  <2>3. CASE l = a.level
    <3>1. l - a.level = 0 /\ PowerOfTwo[0] = 1
      BY <1>0, <2>3, PowerFacts
    <3>2. Under(a, l, q) <=> a.path * 1 <= q /\ q < (a.path + 1) * 1
      BY <1>0, <2>3, <3>1 DEF Under
    <3> QED
      BY <1>0, <2>2, <2>3, <3>2
  <2>4. CASE l # a.level
    BY <1>0, <2>1, <2>4 DEF Under
  <2> QED
    BY <2>3, <2>4
<1>2. ASSUME NEW y \in Sub(a) PROVE y \in Own(a)
  <2>1. y \in Nat /\ \E p \in Nat : \E l \in 0 .. a.groupDepth - 1 :
          \E q \in 0 .. PowerOfTwo[l] - 1 : Under(a, l, q) /\ InCell(a, p, l, q, y)
    BY DEF Sub
  <2>2. \E p \in Nat : InCell(a, p, a.level, a.path, y)
    BY <1>1, <2>1
  <2> QED
    BY <2>1, <2>2 DEF Own
<1>3. ASSUME NEW y \in Own(a) PROVE y \in Sub(a)
  <2>1. y \in Nat /\ \E p \in Nat : InCell(a, p, a.level, a.path, y)
    BY DEF Own
  <2>2. Under(a, a.level, a.path)
    BY <1>0, <1>1
  <2> QED
    BY <1>0, <2>1, <2>2 DEF Sub
<1> QED
  BY <1>2, <1>3

\* A node on another level: its own switches and its children's.
LEMMA SubOfInner ==
  ASSUME NEW a, IsPlace(a), NEW c, IsChildPlace(c, a, 0), NEW d, IsChildPlace(d, a, 1)
  PROVE  InThree(Sub(a), Own(a), Sub(c), Sub(d))
<1> DEFINE D == a.groupDepth
           Cell(p, l, q, y) == InCell(a, p, l, q, y)
<1>0. IsCluster(a) /\ D \in Nat /\ a.level \in 0 .. D - 1
      /\ a.path \in 0 .. PowerOfTwo[a.level] - 1 /\ a.level \in Nat /\ a.path \in Nat
  BY PlaceFacts DEF IsPlace
<1>1. \A l \in 0 .. D - 1 : l \in Nat /\ \A q \in 0 .. PowerOfTwo[l] - 1 : q \in Nat
  <2> SUFFICES ASSUME NEW l \in 0 .. D - 1, NEW q \in 0 .. PowerOfTwo[l] - 1
      PROVE  q \in Nat
    BY <1>0
  <2>1. PowerOfTwo[l] \in Nat
    BY <1>0, PowerFacts
  <2> QED
    BY <2>1
<1>2. \A p \in Nat : \A l \in 0 .. D - 1 : \A q, y :
        /\ InCell(c, p, l, q, y) <=> Cell(p, l, q, y)
        /\ InCell(d, p, l, q, y) <=> Cell(p, l, q, y)
  BY <1>0, SameCells DEF IsChildPlace
<1>3. c.groupDepth = D /\ d.groupDepth = D
  BY DEF IsChildPlace
<1>4. \A y : y \in Sub(a) <=> y \in Nat /\ \E p \in Nat : \E l \in 0 .. D - 1 :
        \E q \in 0 .. PowerOfTwo[l] - 1 : Under(a, l, q) /\ Cell(p, l, q, y)
  BY DEF Sub
<1>5. \A y : y \in Sub(c) <=> y \in Nat /\ \E p \in Nat : \E l \in 0 .. D - 1 :
        \E q \in 0 .. PowerOfTwo[l] - 1 : Under(c, l, q) /\ Cell(p, l, q, y)
  BY <1>2, <1>3 DEF Sub
<1>6. \A y : y \in Sub(d) <=> y \in Nat /\ \E p \in Nat : \E l \in 0 .. D - 1 :
        \E q \in 0 .. PowerOfTwo[l] - 1 : Under(d, l, q) /\ Cell(p, l, q, y)
  BY <1>2, <1>3 DEF Sub
<1>7. \A y : y \in Own(a) <=> y \in Nat /\ \E p \in Nat : Cell(p, a.level, a.path, y)
  BY DEF Own
<1>8. \A y \in Nat : \A p, p2 \in Nat : \A l, l2 \in 0 .. D - 1 :
        \A q \in 0 .. PowerOfTwo[l] - 1 : \A q2 \in 0 .. PowerOfTwo[l2] - 1 :
          Cell(p, l, q, y) /\ Cell(p2, l2, q2, y) => l = l2 /\ q = q2
  BY <1>0, OneCell
<1>9. \A l \in 0 .. D - 1 : \A q \in 0 .. PowerOfTwo[l] - 1 :
        /\ Under(a, l, q) <=> \/ l = a.level /\ q = a.path
                              \/ Under(c, l, q) \/ Under(d, l, q)
        /\ Under(c, l, q) => l # a.level /\ ~Under(d, l, q)
        /\ Under(d, l, q) => l # a.level
  BY <1>1, UnderSplits
<1> HIDE DEF D, Cell
<1>10. Sub(a) \subseteq Own(a) \cup Sub(c) \cup Sub(d)
  <2> SUFFICES ASSUME NEW y \in Sub(a) PROVE y \in Own(a) \/ y \in Sub(c) \/ y \in Sub(d)
    OBVIOUS
  <2>1. y \in Nat
    BY <1>4
  <2>2. PICK p \in Nat : \E l \in 0 .. D - 1 :
        \E q \in 0 .. PowerOfTwo[l] - 1 : Under(a, l, q) /\ Cell(p, l, q, y)
    BY <1>4
  <2>3. PICK l \in 0 .. D - 1 :
        \E q \in 0 .. PowerOfTwo[l] - 1 : Under(a, l, q) /\ Cell(p, l, q, y)
    BY <2>2
  <2>4. PICK q \in 0 .. PowerOfTwo[l] - 1 : Under(a, l, q) /\ Cell(p, l, q, y)
    BY <2>3
  <2>5. \/ l = a.level /\ q = a.path
        \/ Under(c, l, q) \/ Under(d, l, q)
    BY <1>9, <2>4
  <2>6. CASE l = a.level /\ q = a.path
    BY <1>7, <2>1, <2>4, <2>6
  <2>7. CASE Under(c, l, q)
    BY <1>5, <2>1, <2>4, <2>7
  <2>8. CASE Under(d, l, q)
    BY <1>6, <2>1, <2>4, <2>8
  <2> QED
    BY <2>5, <2>6, <2>7, <2>8
<1>11. Sub(c) \subseteq Sub(a)
  <2> SUFFICES ASSUME NEW y \in Sub(c) PROVE y \in Sub(a)
    OBVIOUS
  <2>1. y \in Nat /\ \E p \in Nat : \E l \in 0 .. D - 1 :
        \E q \in 0 .. PowerOfTwo[l] - 1 : Under(c, l, q) /\ Cell(p, l, q, y)
    BY <1>5
  <2>2. \E p \in Nat : \E l \in 0 .. D - 1 :
        \E q \in 0 .. PowerOfTwo[l] - 1 : Under(a, l, q) /\ Cell(p, l, q, y)
    BY <1>9, <2>1
  <2> QED
    BY <1>4, <2>1, <2>2
<1>12. Sub(d) \subseteq Sub(a)
  <2> SUFFICES ASSUME NEW y \in Sub(d) PROVE y \in Sub(a)
    OBVIOUS
  <2>1. y \in Nat /\ \E p \in Nat : \E l \in 0 .. D - 1 :
        \E q \in 0 .. PowerOfTwo[l] - 1 : Under(d, l, q) /\ Cell(p, l, q, y)
    BY <1>6
  <2>2. \E p \in Nat : \E l \in 0 .. D - 1 :
        \E q \in 0 .. PowerOfTwo[l] - 1 : Under(a, l, q) /\ Cell(p, l, q, y)
    BY <1>9, <2>1
  <2> QED
    BY <1>4, <2>1, <2>2
<1>13. Own(a) \subseteq Sub(a)
  <2> SUFFICES ASSUME NEW y \in Own(a) PROVE y \in Sub(a)
    OBVIOUS
  <2>1. y \in Nat /\ \E p \in Nat : Cell(p, a.level, a.path, y)
    BY <1>7
  <2>2. Under(a, a.level, a.path)
    BY <1>0, <1>9
  <2> QED
    BY <1>0, <1>4, <2>1, <2>2
<1>14. Own(a) \cap Sub(c) = {}
  <2> SUFFICES ASSUME NEW y, y \in Own(a), y \in Sub(c) PROVE FALSE
    OBVIOUS
  <2>1. y \in Nat
    BY <1>7
  <2>2. PICK p \in Nat : Cell(p, a.level, a.path, y)
    BY <1>7
  <2>3. \E p2 \in Nat : \E l \in 0 .. D - 1 :
        \E q \in 0 .. PowerOfTwo[l] - 1 : Under(c, l, q) /\ Cell(p2, l, q, y)
    BY <1>5
  <2>4. PICK p2 \in Nat, l \in 0 .. D - 1 :
        \E q \in 0 .. PowerOfTwo[l] - 1 : Under(c, l, q) /\ Cell(p2, l, q, y)
    BY <2>3
  <2>5. PICK q \in 0 .. PowerOfTwo[l] - 1 : Under(c, l, q) /\ Cell(p2, l, q, y)
    BY <2>4
  <2>6. a.level = l
    BY <1>0, <1>8, <2>1, <2>2, <2>5
  <2> QED
    BY <1>9, <2>5, <2>6
<1>15. Own(a) \cap Sub(d) = {}
  <2> SUFFICES ASSUME NEW y, y \in Own(a), y \in Sub(d) PROVE FALSE
    OBVIOUS
  <2>1. y \in Nat
    BY <1>7
  <2>2. PICK p \in Nat : Cell(p, a.level, a.path, y)
    BY <1>7
  <2>3. \E p2 \in Nat : \E l \in 0 .. D - 1 :
        \E q \in 0 .. PowerOfTwo[l] - 1 : Under(d, l, q) /\ Cell(p2, l, q, y)
    BY <1>6
  <2>4. PICK p2 \in Nat, l \in 0 .. D - 1 :
        \E q \in 0 .. PowerOfTwo[l] - 1 : Under(d, l, q) /\ Cell(p2, l, q, y)
    BY <2>3
  <2>5. PICK q \in 0 .. PowerOfTwo[l] - 1 : Under(d, l, q) /\ Cell(p2, l, q, y)
    BY <2>4
  <2>6. a.level = l
    BY <1>0, <1>8, <2>1, <2>2, <2>5
  <2> QED
    BY <1>9, <2>5, <2>6
<1>16. Sub(c) \cap Sub(d) = {}
  <2> SUFFICES ASSUME NEW y, y \in Sub(c), y \in Sub(d) PROVE FALSE
    OBVIOUS
  <2>1. y \in Nat
    BY <1>5
  <2>2. \E p \in Nat : \E l \in 0 .. D - 1 :
        \E q \in 0 .. PowerOfTwo[l] - 1 : Under(c, l, q) /\ Cell(p, l, q, y)
    BY <1>5
  <2>3. PICK p \in Nat, l \in 0 .. D - 1 :
        \E q \in 0 .. PowerOfTwo[l] - 1 : Under(c, l, q) /\ Cell(p, l, q, y)
    BY <2>2
  <2>4. PICK q \in 0 .. PowerOfTwo[l] - 1 : Under(c, l, q) /\ Cell(p, l, q, y)
    BY <2>3
  <2>5. \E p2 \in Nat : \E l2 \in 0 .. D - 1 :
        \E q2 \in 0 .. PowerOfTwo[l2] - 1 : Under(d, l2, q2) /\ Cell(p2, l2, q2, y)
    BY <1>6
  <2>6. PICK p2 \in Nat, l2 \in 0 .. D - 1 :
        \E q2 \in 0 .. PowerOfTwo[l2] - 1 : Under(d, l2, q2) /\ Cell(p2, l2, q2, y)
    BY <2>5
  <2>7. PICK q2 \in 0 .. PowerOfTwo[l2] - 1 : Under(d, l2, q2) /\ Cell(p2, l2, q2, y)
    BY <2>6
  <2>8. l = l2 /\ q = q2
    BY <1>8, <2>1, <2>4, <2>7
  <2> QED
    BY <1>9, <2>4, <2>7, <2>8
<1> QED
  BY <1>10, <1>11, <1>12, <1>13, <1>14, <1>15, <1>16 DEF InThree

-----------------------------------------------------------------------------
(* Where the bits of a subnetwork stand.                                     *)

Addresses ==
  [clusters : Seq(Nat), embeds : BOOLEAN, index : Nat, groupDepth : Nat,
   level : Nat, path : Nat, root : Nat, node : Nat, base : Nat, residual : Nat]

\* The address of a leaf that is the root of no cluster.
IsLeafRoot(a) ==
  /\ a.node <= LeafSize /\ a.root = a.node
  /\ a.groupDepth = 0 /\ a.level = 0 /\ a.path = 0 /\ a.residual = 0

IsAddress(a) ==
  /\ a \in Addresses
  /\ (IsPlace(a) /\ a.root > LeafSize) \/ IsLeafRoot(a)

Shift(b, x) == {b + y : y \in x}

RestStart(a) == a.base + PacketSwitchBits(a.root, a.groupDepth) + a.residual
RestBits(a)  == SectionBits(a, a.node) - PacketSwitchBits(a.node, a.groupDepth - a.level)

\* The node's part of its cluster, and what follows the cluster for it.
Region(a) ==
  Shift(a.base, Sub(a)) \cup (RestStart(a) .. RestStart(a) + RestBits(a) - 1)

OwnBits(a) == {SwitchBit(a, k) : k \in 0 .. a.node \div 2 - 1}

LEMMA SectionBitsFacts ==
  ASSUME NEW a, NEW n \in Nat
  PROVE  /\ SectionBits(a, n) \in Nat
         /\ n <= LeafSize =>
              SectionBits(a, n) = IF a.embeds THEN FactoradicBitCount(n) ELSE 0
         /\ n > LeafSize =>
              /\ LeftCount(n) \in Nat /\ RightCount(n) \in Nat
              /\ SectionBits(a, n) = n \div 2 + SectionBits(a, LeftCount(n))
                                             + SectionBits(a, RightCount(n))
         /\ \A d \in Nat : /\ PacketSwitchBits(n, d) \in Nat
                           /\ PacketSwitchBits(n, d) <= SectionBits(a, n)
<1> DEFINE S(k) == SwitchBits(k)  M(k) == MiddleBits(k)
           B(k) == SectionBits(a, k)  L == LeftCount(n)  R == RightCount(n)
<1>1. \A k : B(k) = S(k) + IF a.embeds THEN M(k) ELSE 0
  BY DEF SectionBits
<1>2. \A k \in Nat : S(k) \in Nat /\ M(k) \in Nat
  BY SwitchBitsFacts, MiddleBitsFacts
<1>3. LeafSize \in Nat
  BY LeafSizes
<1>4. n <= LeafSize => S(n) = 0 /\ M(n) = FactoradicBitCount(n)
  BY SwitchBitsFacts, MiddleBitsFacts
<1>5. n > LeafSize => /\ L \in Nat /\ R \in Nat
                      /\ S(n) = n \div 2 + S(L) + S(R) /\ M(n) = M(L) + M(R)
  <2> SUFFICES ASSUME n > LeafSize
      PROVE  /\ L \in Nat /\ R \in Nat
             /\ S(n) = n \div 2 + S(L) + S(R) /\ M(n) = M(L) + M(R)
    OBVIOUS
  <2>1. ~(n <= LeafSize)
    BY <1>3
  <2> QED
    BY <2>1, Children, SwitchBitsFacts, MiddleBitsFacts
<1>6. \A d \in Nat : PacketSwitchBits(n, d) \in Nat /\ PacketSwitchBits(n, d) <= S(n)
  BY PacketsWithin, PacketSwitchBitsFacts
<1>7. n \div 2 \in Nat
  OBVIOUS
<1> HIDE DEF S, M, B, L, R
<1>8. B(n) \in Nat /\ S(n) <= B(n)
  BY <1>1, <1>2
<1>9. n <= LeafSize => B(n) = IF a.embeds THEN FactoradicBitCount(n) ELSE 0
  BY <1>1, <1>2, <1>4
<1>10. n > LeafSize => B(n) = n \div 2 + B(L) + B(R)
  <2> SUFFICES ASSUME n > LeafSize PROVE B(n) = n \div 2 + B(L) + B(R)
    OBVIOUS
  <2>1. S(n) = n \div 2 + S(L) + S(R) /\ M(n) = M(L) + M(R)
        /\ S(L) \in Nat /\ S(R) \in Nat /\ M(L) \in Nat /\ M(R) \in Nat
    BY <1>2, <1>5
  <2> QED
    BY <1>1, <1>7, <2>1
<1>11. \A d \in Nat : PacketSwitchBits(n, d) <= B(n)
  BY <1>2, <1>6, <1>8
<1> QED
  BY <1>5, <1>6, <1>8, <1>9, <1>10, <1>11 DEF B, L, R

\* The bits of the next level and of all deeper ones are those of the children.
LEMMA PacketChildren ==
  ASSUME NEW n \in Nat, n > LeafSize, NEW d \in Nat \ {0}
  PROVE  PacketSwitchBits(n, d) = n \div 2 + PacketSwitchBits(LeftCount(n), d - 1)
                                         + PacketSwitchBits(RightCount(n), d - 1)
<1>1. ~(n <= LeafSize) /\ d \in Nat /\ d # 0
  BY LeafSizes
<1> QED
  BY <1>1, PacketSwitchBitsFacts

LEMMA InnerChildIs ==
  ASSUME NEW a \in Addresses, NEW right \in BOOLEAN, NEW n
  PROVE  LET c == InnerChild(a, right, n)
         IN  /\ c.clusters = a.clusters /\ c.embeds = a.embeds /\ c.index = a.index
             /\ c.groupDepth = a.groupDepth /\ c.level = a.level + 1
             /\ c.path = 2 * a.path + (IF right THEN 1 ELSE 0)
             /\ c.root = a.root /\ c.node = ChildCount(right, n) /\ c.base = a.base
             /\ c.residual = a.residual + (IF right
                  THEN ResidualBits(a, LeftCount(n), a.groupDepth - a.level - 1) ELSE 0)
             /\ c.level \in Nat /\ c.path \in Nat /\ c.node \in Nat /\ c.residual \in Nat
                  => c \in Addresses
BY DEF InnerChild, Addresses

LEMMA OuterChildIs ==
  ASSUME NEW a \in Addresses, NEW right \in BOOLEAN, NEW n
  PROVE  LET c == OuterChild(a, right, n)
             m == ChildCount(right, n)
         IN  /\ c.clusters = a.clusters /\ c.embeds = a.embeds
             /\ c.index = IF m > LeafSize THEN a.index + 1 ELSE a.index
             /\ c.groupDepth = IF m > LeafSize THEN a.clusters[a.index + 1] ELSE 0
             /\ c.level = 0 /\ c.path = 0 /\ c.root = m /\ c.node = m
             /\ c.base = a.base + GroupSwitchBits(a) + a.residual
                  + (IF right THEN SectionBits(a, LeftCount(n)) ELSE 0)
             /\ c.residual = 0
             /\ c.groupDepth \in Nat /\ c.node \in Nat /\ c.base \in Nat
                  => c \in Addresses
<1> DEFINE c == OuterChild(a, right, n)  m == ChildCount(right, n)
           base == a.base + GroupSwitchBits(a) + a.residual
                     + (IF right THEN SectionBits(a, LeftCount(n)) ELSE 0)
           index == IF m > LeafSize THEN a.index + 1 ELSE a.index
           depth == IF m > LeafSize THEN a.clusters[a.index + 1] ELSE 0
<1>1. c = [a EXCEPT !.base = base, !.residual = 0, !.root = m, !.node = m, !.level = 0,
                    !.path = 0, !.index = index, !.groupDepth = depth]
  BY DEF OuterChild
<1>2. index \in Nat
  BY DEF Addresses
<1> HIDE DEF c, m, base, index, depth
<1>3. /\ c.clusters = a.clusters /\ c.embeds = a.embeds /\ c.index = index
      /\ c.groupDepth = depth /\ c.level = 0 /\ c.path = 0 /\ c.root = m /\ c.node = m
      /\ c.base = base /\ c.residual = 0
  BY <1>1 DEF Addresses
<1>4. c.groupDepth \in Nat /\ c.node \in Nat /\ c.base \in Nat => c \in Addresses
  BY <1>1, <1>2, <1>3 DEF Addresses
<1> QED
  BY <1>3, <1>4 DEF c, m, base, index, depth

LEMMA AddressFacts ==
  ASSUME NEW a, IsAddress(a)
  PROVE  /\ a \in Addresses /\ IsCluster(a)
         /\ a.base \in Nat /\ a.residual \in Nat /\ a.node \in Nat /\ a.root \in Nat
         /\ a.level \in Nat /\ a.groupDepth \in Nat /\ a.groupDepth - a.level \in Nat
         /\ PacketSwitchBits(a.root, a.groupDepth) \in Nat
         /\ RestStart(a) \in Nat /\ RestBits(a) \in Nat
<1>1. a \in Addresses /\ IsCluster(a)
  BY DEF IsAddress, Addresses, IsCluster
<1>2. /\ a.base \in Nat /\ a.residual \in Nat /\ a.node \in Nat /\ a.root \in Nat
      /\ a.level \in Nat /\ a.groupDepth \in Nat
  BY <1>1 DEF Addresses
<1>3. a.groupDepth - a.level \in Nat
  <2>1. CASE IsPlace(a)
    <3>1. a.level \in 0 .. a.groupDepth - 1
      BY <2>1 DEF IsPlace
    <3> QED
      BY <1>2, <3>1
  <2>2. CASE IsLeafRoot(a)
    BY <2>2 DEF IsLeafRoot
  <2> QED
    BY <2>1, <2>2 DEF IsAddress
<1>4. PacketSwitchBits(a.root, a.groupDepth) \in Nat
  BY <1>2, PacketSwitchBitsFacts
<1>5. RestStart(a) \in Nat
  BY <1>2, <1>4 DEF RestStart
<1>6. RestBits(a) \in Nat
  <2> DEFINE x == SectionBits(a, a.node)
             y == PacketSwitchBits(a.node, a.groupDepth - a.level)
  <2>1. x \in Nat /\ y \in Nat /\ y <= x
    BY <1>2, <1>3, SectionBitsFacts
  <2>2. RestBits(a) = x - y
    BY DEF RestBits
  <2> HIDE DEF x, y
  <2> QED
    BY <2>1, <2>2
<1> QED
  BY <1>1, <1>2, <1>3, <1>4, <1>5, <1>6

\* The children of a node that is not on the last level of its cluster.
LEMMA InnerAddress ==
  ASSUME NEW a, IsAddress(a), IsPlace(a), a.level + 1 < a.groupDepth,
         NEW right \in BOOLEAN
  PROVE  LET c == InnerChild(a, right, a.node)
         IN  /\ IsAddress(c) /\ IsPlace(c)
             /\ IsChildPlace(c, a, IF right THEN 1 ELSE 0)
             /\ c.node = ChildCount(right, a.node)
             /\ c.base = a.base /\ c.embeds = a.embeds
             /\ c.residual = a.residual + (IF right
                  THEN SectionBits(a, LeftCount(a.node))
                         - PacketSwitchBits(LeftCount(a.node), a.groupDepth - a.level - 1)
                  ELSE 0)
<1> DEFINE c == InnerChild(a, right, a.node)  n == a.node  l == a.level  q == a.path
           D == a.groupDepth  t == IF right THEN 1 ELSE 0
           w == PowerOfTwo[l]
           rest == IF right THEN SectionBits(a, LeftCount(n))
                         - PacketSwitchBits(LeftCount(n), D - l - 1) ELSE 0
<1>1. a \in Addresses /\ n \in Nat /\ l \in Nat /\ q \in Nat /\ D \in Nat /\ a.residual \in Nat
      /\ a.root \in Nat /\ a.base \in Nat /\ a.root > LeafSize
      /\ q \in 0 .. w - 1 /\ n = NodeSize(a.root, l, q)
  <2>1. a \in Addresses /\ n \in Nat /\ l \in Nat /\ q \in Nat /\ D \in Nat
        /\ a.residual \in Nat /\ a.root \in Nat /\ a.base \in Nat
    BY DEF IsAddress, Addresses
  <2>2. a.root > LeafSize
    <3>1. ~IsLeafRoot(a)
      BY <2>1 DEF IsLeafRoot
    <3> QED
      BY <3>1 DEF IsAddress
  <2> QED
    BY <2>1, <2>2 DEF IsPlace
<1>2. /\ c.clusters = a.clusters /\ c.embeds = a.embeds /\ c.index = a.index
      /\ c.groupDepth = D /\ c.level = l + 1
      /\ c.path = 2 * q + t
      /\ c.root = a.root /\ c.node = ChildCount(right, n) /\ c.base = a.base
      /\ c.residual = a.residual + rest
      /\ c.level \in Nat /\ c.path \in Nat /\ c.node \in Nat /\ c.residual \in Nat
           => c \in Addresses
  BY <1>1, InnerChildIs DEF ResidualBits
<1>3. rest \in Nat
  <2> SUFFICES ASSUME right = TRUE PROVE rest \in Nat
    OBVIOUS
  <2>1. LeftCount(n) \in Nat /\ D - l - 1 \in Nat
    <3>1. n \div 2 \in Nat /\ n % 2 \in Nat
      BY <1>1
    <3> QED
      BY <1>1, <3>1 DEF LeftCount
  <2> DEFINE x == SectionBits(a, LeftCount(n))  y == PacketSwitchBits(LeftCount(n), D - l - 1)
  <2>2. x \in Nat /\ y \in Nat /\ y <= x
    BY <2>1, SectionBitsFacts
  <2>3. rest = x - y
    OBVIOUS
  <2> HIDE DEF x, y, rest
  <2> QED
    BY <2>2, <2>3
<1>4. PowerOfTwo[l + 1] = 2 * w /\ w \in Nat
  BY <1>1, PowerFacts
<1>5. c.node = NodeSize(a.root, l + 1, 2 * q + t)
  <2>1. /\ NodeSize(a.root, l + 1, 2 * q) = LeftCount(n)
        /\ NodeSize(a.root, l + 1, 2 * q + 1) = RightCount(n)
    BY <1>1, NodeSizes
  <2>2. 2 * q + 0 = 2 * q
    BY <1>1
  <2> QED
    BY <1>2, <2>1, <2>2 DEF ChildCount
<1>6. c.node \in Nat
  <2>1. n \div 2 \in Nat /\ n % 2 \in Nat
    BY <1>1
  <2> QED
    BY <1>2, <2>1 DEF ChildCount, LeftCount, RightCount
<1> HIDE DEF c, n, l, q, D, w, rest
<1>7. t \in 0 .. 1
  OBVIOUS
<1> HIDE DEF t
<1>8. c.level \in 0 .. D - 1 /\ c.level \in Nat /\ c.path \in 0 .. 2 * w - 1 /\ c.path \in Nat
      /\ c.residual \in Nat
  <2>1. l + 1 < D
    BY DEF l, D
  <2> QED
    BY <1>1, <1>2, <1>3, <1>4, <1>7, <2>1
<1>9. c \in Addresses
  BY <1>2, <1>6, <1>8
<1>10. IsPlace(c)
  <2>1. IsCluster(c)
    BY <1>1, <1>2 DEF IsCluster
  <2>2. c.base \in Nat /\ c.level \in 0 .. c.groupDepth - 1
        /\ c.path \in 0 .. PowerOfTwo[c.level] - 1
    BY <1>1, <1>2, <1>4, <1>8
  <2>3. c.node = NodeSize(c.root, c.level, c.path)
    BY <1>2, <1>5
  <2> QED
    BY <2>1, <2>2, <2>3 DEF IsPlace
<1>11. IsChildPlace(c, a, t)
  BY <1>2 DEF IsChildPlace, D, l, q
<1>12. IsAddress(c)
  BY <1>1, <1>2, <1>9, <1>10 DEF IsAddress
<1> QED
  BY <1>2, <1>10, <1>11, <1>12 DEF c, n, rest, t, D, l

\* The children of a node on the last level.
LEMMA OuterAddress ==
  ASSUME NEW a, IsAddress(a), IsPlace(a), a.node > LeafSize, NEW right \in BOOLEAN,
         ChildCount(right, a.node) > LeafSize => a.clusters[a.index + 1] \in Nat \ {0}
  PROVE  LET c == OuterChild(a, right, a.node)
         IN  /\ IsAddress(c) /\ c.level = 0 /\ c.path = 0 /\ c.residual = 0
             /\ c.node = ChildCount(right, a.node) /\ c.root = c.node
             /\ c.embeds = a.embeds
             /\ c.base = a.base + PacketSwitchBits(a.root, a.groupDepth) + a.residual
                  + (IF right THEN SectionBits(a, LeftCount(a.node)) ELSE 0)
<1> DEFINE c == OuterChild(a, right, a.node)  n == a.node  m == ChildCount(right, n)
           g == PacketSwitchBits(a.root, a.groupDepth)
           s == IF right THEN SectionBits(a, LeftCount(n)) ELSE 0
<1>1. a \in Addresses /\ a.base \in Nat /\ a.residual \in Nat /\ n \in Nat /\ g \in Nat
      /\ LeafSize \in Nat
  BY AddressFacts, LeafSizes
<1>2. LeftCount(n) \in Nat /\ m \in Nat
  <2>1. ~(n <= LeafSize)
    BY <1>1
  <2> QED
    BY <1>1, <2>1, Children DEF ChildCount
<1>3. s \in Nat
  BY <1>2, SectionBitsFacts
<1>4. /\ c.clusters = a.clusters /\ c.embeds = a.embeds
      /\ c.groupDepth = IF m > LeafSize THEN a.clusters[a.index + 1] ELSE 0
      /\ c.level = 0 /\ c.path = 0 /\ c.root = m /\ c.node = m
      /\ c.base = a.base + g + a.residual + s
      /\ c.residual = 0
      /\ c.groupDepth \in Nat /\ c.node \in Nat /\ c.base \in Nat => c \in Addresses
  BY <1>1, OuterChildIs DEF GroupSwitchBits
<1>5. m > LeafSize => a.clusters[a.index + 1] \in Nat \ {0}
  OBVIOUS
<1> HIDE DEF c, n, m, g, s
<1>6. c.groupDepth \in Nat /\ c.base \in Nat
  BY <1>1, <1>3, <1>4, <1>5
<1>7. c \in Addresses
  BY <1>2, <1>4, <1>6
<1>8. IsAddress(c)
  <2>1. CASE m > LeafSize
    <3>1. c.groupDepth \in Nat \ {0}
      BY <1>4, <1>5, <2>1
    <3>2. c.level \in 0 .. c.groupDepth - 1
      BY <1>4, <3>1
    <3>3. c.path \in 0 .. PowerOfTwo[c.level] - 1
      BY <1>4, PowerFacts
    <3>4. c.node = NodeSize(c.root, c.level, c.path)
      BY <1>2, <1>4, NodeSizes
    <3>5. IsPlace(c)
      BY <1>2, <1>4, <1>6, <3>2, <3>3, <3>4 DEF IsPlace, IsCluster
    <3> QED
      BY <1>4, <1>7, <2>1, <3>5 DEF IsAddress
  <2>2. CASE ~(m > LeafSize)
    <3>1. m <= LeafSize
      BY <1>1, <1>2, <2>2
    <3> QED
      BY <1>4, <1>7, <2>2, <3>1 DEF IsAddress, IsLeafRoot
  <2> QED
    BY <2>1, <2>2
<1> QED
  BY <1>4, <1>8 DEF c, n, m, g, s

\* The root of a cluster, or a leaf that stands alone: everything from the base on.
LEMMA RegionOfRoot ==
  ASSUME NEW a, IsAddress(a), a.level = 0, a.path = 0, a.residual = 0, a.root = a.node
  PROVE  Region(a) = a.base .. a.base + SectionBits(a, a.node) - 1
<1> DEFINE b == a.base  x == PacketSwitchBits(a.root, a.groupDepth)
           s == SectionBits(a, a.node)
<1>1. b \in Nat /\ x \in Nat /\ IsCluster(a) /\ a.node \in Nat /\ a.groupDepth \in Nat
  BY AddressFacts
<1>2. s \in Nat /\ x <= s
  BY <1>1, SectionBitsFacts
<1>3. Sub(a) = 0 .. x - 1
  BY <1>1, SubOfRoot
<1>4. RestStart(a) = b + x /\ RestBits(a) = s - x
  <2>1. a.groupDepth - 0 = a.groupDepth /\ b + x + 0 = b + x
    BY <1>1
  <2> QED
    BY <2>1 DEF RestStart, RestBits
<1> HIDE DEF b, x, s
<1>5. Region(a) = Shift(b, 0 .. x - 1) \cup ((b + x) .. (b + x) + (s - x) - 1)
  BY <1>3, <1>4 DEF Region, b
<1>6. Shift(b, 0 .. x - 1) = b .. b + x - 1
  <2>1. \A y \in 0 .. x - 1 : b + y \in b .. b + x - 1
    BY <1>1
  <2>2. \A z \in b .. b + x - 1 : z - b \in 0 .. x - 1 /\ b + (z - b) = z
    BY <1>1
  <2>3. \A z \in b .. b + x - 1 : z \in Shift(b, 0 .. x - 1)
    <3> SUFFICES ASSUME NEW z \in b .. b + x - 1 PROVE \E y \in 0 .. x - 1 : z = b + y
      BY DEF Shift
    <3> QED
      BY <2>2
  <2> QED
    BY <2>1, <2>3 DEF Shift
<1>7. (b .. b + x - 1) \cup ((b + x) .. (b + x) + (s - x) - 1) = b .. b + s - 1
  BY <1>1, <1>2
<1> QED
  BY <1>5, <1>6, <1>7 DEF b, s

LEMMA ShiftInterval ==
  ASSUME NEW b \in Nat, NEW x \in Nat
  PROVE  Shift(b, 0 .. x - 1) = b .. b + x - 1
<1>1. \A y \in 0 .. x - 1 : b + y \in b .. b + x - 1
  OBVIOUS
<1>2. \A z \in b .. b + x - 1 : z - b \in 0 .. x - 1 /\ b + (z - b) = z
  OBVIOUS
<1>3. ASSUME NEW z \in b .. b + x - 1 PROVE z \in Shift(b, 0 .. x - 1)
  BY <1>2 DEF Shift
<1> QED
  BY <1>1, <1>3 DEF Shift

\* A leaf has nothing in the cluster it is in.
LEMMA SubOfLeaf ==
  ASSUME NEW a, IsAddress(a), a.node <= LeafSize
  PROVE  Sub(a) = {}
<1> DEFINE S == {e \in Nat : \A b : IsAddress(b) /\ IsPlace(b) /\ b.node <= LeafSize
                                     /\ b.groupDepth - b.level = e + 1 => Sub(b) = {}}
<1>1. ASSUME NEW b, IsPlace(b), b.node <= LeafSize PROVE Own(b) = {}
  <2> SUFFICES ASSUME NEW y \in Own(b) PROVE FALSE
    OBVIOUS
  <2>1. y \in Nat /\ \E p \in Nat : InCell(b, p, b.level, b.path, y)
    BY DEF Own
  <2>2. b.node > LeafSize
    BY <1>1, <2>1, CellHasSwitches
  <2>3. b.node \in Nat /\ LeafSize \in Nat
    BY <1>1, PlaceFacts, LeafSizes
  <2> QED
    BY <1>1, <2>2, <2>3
<1>2. 0 \in S
  <2> SUFFICES ASSUME NEW b, IsAddress(b), IsPlace(b), b.node <= LeafSize,
                      b.groupDepth - b.level = 0 + 1
               PROVE  Sub(b) = {}
    OBVIOUS
  <2>1. b.level = b.groupDepth - 1
    BY AddressFacts
  <2> QED
    BY <1>1, <2>1, SubOfLast
<1>3. ASSUME NEW e \in Nat, e \in S PROVE e + 1 \in S
  <2> SUFFICES ASSUME NEW b, IsAddress(b), IsPlace(b), b.node <= LeafSize,
                      b.groupDepth - b.level = (e + 1) + 1
               PROVE  Sub(b) = {}
    OBVIOUS
  <2> DEFINE c == InnerChild(b, FALSE, b.node)  d == InnerChild(b, TRUE, b.node)
  <2>1. b.level \in Nat /\ b.groupDepth \in Nat /\ b.node \in Nat
    BY AddressFacts
  <2>2. b.level + 1 < b.groupDepth
    BY <2>1
  <2>3. IsAddress(c) /\ IsPlace(c) /\ IsChildPlace(c, b, 0) /\ c.node = ChildCount(FALSE, b.node)
    BY <2>2, InnerAddress
  <2>4. IsAddress(d) /\ IsPlace(d) /\ IsChildPlace(d, b, 1) /\ d.node = ChildCount(TRUE, b.node)
    BY <2>2, InnerAddress
  <2>5. c.node <= LeafSize /\ d.node <= LeafSize
    <3>1. \A n \in Nat : n \div 2 + (n % 2) <= n /\ n \div 2 <= n
          /\ n \div 2 + (n % 2) \in Nat /\ n \div 2 \in Nat
      OBVIOUS
    <3>2. LeftCount(b.node) \in Nat /\ LeftCount(b.node) <= b.node
          /\ RightCount(b.node) \in Nat /\ RightCount(b.node) <= b.node
      BY <2>1, <3>1 DEF LeftCount, RightCount
    <3>3. c.node = LeftCount(b.node) /\ d.node = RightCount(b.node)
      BY <2>3, <2>4 DEF ChildCount
    <3>4. LeafSize \in Nat /\ b.node <= LeafSize
      BY LeafSizes
    <3> DEFINE x == LeftCount(b.node)  y == RightCount(b.node)  z == b.node
    <3> HIDE DEF c, d, x, y, z
    <3>5. x \in Nat /\ x <= z /\ y \in Nat /\ y <= z /\ z \in Nat /\ z <= LeafSize
      BY <2>1, <3>2, <3>4 DEF x, y, z
    <3>6. x <= LeafSize /\ y <= LeafSize
      BY <3>4, <3>5
    <3> QED
      BY <3>3, <3>6 DEF x, y
  <2> HIDE DEF c, d
  <2>6. c.groupDepth - c.level = e + 1 /\ d.groupDepth - d.level = e + 1
    <3>1. c.groupDepth = b.groupDepth /\ c.level = b.level + 1
          /\ d.groupDepth = b.groupDepth /\ d.level = b.level + 1
      BY <2>3, <2>4 DEF IsChildPlace
    <3>2. b.groupDepth - (b.level + 1) = e + 1
      BY <2>1
    <3> QED
      BY <3>1, <3>2
  <2>7. Sub(c) = {} /\ Sub(d) = {}
    BY <1>3, <2>3, <2>4, <2>5, <2>6
  <2>8. InThree(Sub(b), Own(b), Sub(c), Sub(d))
    BY <2>3, <2>4, SubOfInner
  <2> QED
    BY <1>1, <2>7, <2>8 DEF InThree
<1>4. Nat \subseteq S
  <2> HIDE DEF S
  <2> QED
    BY <1>2, <1>3, Induction
<1>5. CASE IsPlace(a)
  <2> DEFINE e == a.groupDepth - a.level - 1
  <2>1. e \in Nat /\ a.groupDepth - a.level = e + 1
    <3>1. a.groupDepth \in Nat /\ a.level \in 0 .. a.groupDepth - 1
      BY <1>5, PlaceFacts DEF IsPlace
    <3> QED
      BY <3>1
  <2> HIDE DEF e
  <2>2. e \in S
    BY <1>4, <2>1
  <2> QED
    BY <1>5, <2>1, <2>2
<1>6. CASE IsLeafRoot(a)
  <2>1. a.groupDepth = 0
    BY <1>6 DEF IsLeafRoot
  <2>2. \A l \in 0 .. 0 - 1 : FALSE
    OBVIOUS
  <2> QED
    BY <2>1, <2>2 DEF Sub
<1> QED
  BY <1>5, <1>6 DEF IsAddress

\* A leaf: the bits of its rank, if the section has them.
LEMMA RegionOfLeaf ==
  ASSUME NEW a, IsAddress(a), a.node <= LeafSize
  PROVE  /\ MiddleBit(a) \in Nat
         /\ Region(a) = IF a.embeds
              THEN {MiddleBit(a) + b : b \in 0 .. FactoradicBitCount(a.node) - 1}
              ELSE {}
<1> DEFINE x == RestStart(a)  n == RestBits(a)  f == FactoradicBitCount(a.node)
<1>1. a.base \in Nat /\ a.residual \in Nat /\ a.node \in Nat /\ a.root \in Nat
      /\ a.groupDepth \in Nat /\ a.groupDepth - a.level \in Nat
      /\ PacketSwitchBits(a.root, a.groupDepth) \in Nat /\ x \in Nat /\ n \in Nat
  BY AddressFacts
<1>2. n = IF a.embeds THEN f ELSE 0
  <2>1. PacketSwitchBits(a.node, a.groupDepth - a.level) = 0
    BY <1>1, PacketSwitchBitsFacts
  <2>2. SectionBits(a, a.node) = IF a.embeds THEN f ELSE 0
    BY <1>1, SectionBitsFacts
  <2>3. f \in Nat
    BY <1>1, BitCountType
  <2> HIDE DEF f
  <2> QED
    BY <2>1, <2>2, <2>3 DEF RestBits
<1>3. MiddleBit(a) = x
  <2>1. CASE IsLeafRoot(a)
    <3>1. a.root <= LeafSize /\ a.groupDepth = 0 /\ a.residual = 0
      BY <2>1 DEF IsLeafRoot
    <3>2. PacketSwitchBits(a.root, 0) = 0
      BY <1>1, PacketSwitchBitsFacts
    <3> QED
      BY <1>1, <3>1, <3>2 DEF MiddleBit, RestStart
  <2>2. CASE a.root > LeafSize
    <3>1. ~(a.root <= LeafSize)
      BY <1>1, <2>2, LeafSizes
    <3> QED
      BY <3>1 DEF MiddleBit, RestStart, GroupSwitchBits
  <2> QED
    BY <2>1, <2>2 DEF IsAddress
<1>4. Region(a) = x .. x + n - 1
  <2>1. Shift(a.base, {}) = {}
    BY DEF Shift
  <2> QED
    BY <2>1, SubOfLeaf DEF Region
<1>5. Shift(x, 0 .. n - 1) = x .. x + n - 1
  BY <1>1, ShiftInterval
<1> HIDE DEF x, n, f
<1>6. CASE a.embeds
  BY <1>1, <1>2, <1>3, <1>4, <1>5, <1>6 DEF Shift, f
<1>7. CASE ~a.embeds
  <2>1. x .. x + 0 - 1 = {}
    BY <1>1
  <2> QED
    BY <1>1, <1>2, <1>3, <1>4, <1>7, <2>1
<1> QED
  BY <1>6, <1>7

LEMMA OwnBitsAre ==
  ASSUME NEW a, IsPlace(a), a.node > LeafSize
  PROVE  OwnBits(a) = Shift(a.base, Own(a))
<1> DEFINE D == 0 .. a.node \div 2 - 1
<1>1. ASSUME NEW k \in D PROVE SwitchBit(a, k) \in Shift(a.base, Own(a))
  <2> DEFINE p == k \div PairSpan(a)
             y == CellStart(a, p, a.level, a.path) + (k % PairSpan(a))
  <2>1. p \in Nat /\ y \in Nat /\ SwitchBit(a, k) = a.base + y
        /\ InCell(a, p, a.level, a.path, y)
    BY SwitchBitIs
  <2> HIDE DEF p, y
  <2> QED
    BY <2>1 DEF Shift, Own
<1>2. ASSUME NEW y \in Own(a) PROVE \E k \in D : a.base + y = SwitchBit(a, k)
  <2>1. y \in Nat
    BY DEF Own
  <2>2. PICK p \in Nat : InCell(a, p, a.level, a.path, y)
    BY DEF Own
  <2> QED
    BY <2>1, <2>2, CellHasSwitches
<1> HIDE DEF D
<1>3. OwnBits(a) = {SwitchBit(a, k) : k \in D}
  BY DEF OwnBits, D
<1> QED
  BY <1>1, <1>2, <1>3 DEF Shift

LEMMA ShiftThree ==
  ASSUME NEW b \in Nat, NEW x, x \subseteq Nat, NEW i, NEW j, NEW k, InThree(x, i, j, k)
  PROVE  InThree(Shift(b, x), Shift(b, i), Shift(b, j), Shift(b, k))
<1>1. \A y, z \in Nat : b + y = b + z => y = z
  OBVIOUS
<1>2. i \subseteq Nat /\ j \subseteq Nat /\ k \subseteq Nat
  BY DEF InThree
<1>3. Shift(b, x) = Shift(b, i) \cup Shift(b, j) \cup Shift(b, k)
  BY DEF InThree, Shift
<1>4. ASSUME NEW u, u \subseteq Nat, NEW v, v \subseteq Nat, u \cap v = {}
      PROVE  Shift(b, u) \cap Shift(b, v) = {}
  <2> SUFFICES ASSUME NEW s \in Shift(b, u), s \in Shift(b, v) PROVE FALSE
    OBVIOUS
  <2>1. PICK y \in u : s = b + y
    BY DEF Shift
  <2>2. PICK z \in v : s = b + z
    BY DEF Shift
  <2>3. y \in Nat /\ z \in Nat
    BY <1>4
  <2>4. y = z
    BY <1>1, <2>1, <2>2, <2>3
  <2> QED
    BY <1>4, <2>4
<1>5. i \cap j = {} /\ i \cap k = {} /\ j \cap k = {}
  BY DEF InThree
<1> QED
  BY <1>2, <1>3, <1>4, <1>5 DEF InThree

LEMMA JoinThree ==
  ASSUME NEW s, NEW i, NEW j, NEW k, InThree(s, i, j, k),
         NEW r, NEW rj, NEW rk, r = rj \cup rk, rj \cap rk = {}, s \cap r = {}
  PROVE  InThree(s \cup r, i, j \cup rj, k \cup rk)
BY DEF InThree

\* An interval cut in two.
LEMMA CutInterval ==
  ASSUME NEW x \in Nat, NEW m \in Nat, NEW n \in Nat
  PROVE  /\ x .. x + (m + n) - 1 = (x .. x + m - 1) \cup (x + m .. (x + m) + n - 1)
         /\ (x .. x + m - 1) \cap (x + m .. (x + m) + n - 1) = {}
OBVIOUS

\* A node's part of its cluster stands before all rests.
LEMMA SubBeforeRest ==
  ASSUME NEW a, IsAddress(a), NEW n \in Nat
  PROVE  Shift(a.base, Sub(a)) \cap (RestStart(a) .. RestStart(a) + n - 1) = {}
<1> DEFINE x == PacketSwitchBits(a.root, a.groupDepth)
<1>1. x \in Nat /\ a.base \in Nat /\ a.residual \in Nat /\ IsCluster(a)
  BY AddressFacts
<1>2. Sub(a) \subseteq 0 .. x - 1
  BY <1>1, SubWithin
<1>3. RestStart(a) = a.base + x + a.residual
  BY DEF RestStart
<1> HIDE DEF x
<1>4. \A y \in 0 .. x - 1 : ~(a.base + y \in RestStart(a) .. RestStart(a) + n - 1)
  BY <1>1, <1>3
<1> QED
  BY <1>2, <1>4 DEF Shift

\* Inside a cluster: the node's own bits, and what its children have.
LEMMA RegionOfInner ==
  ASSUME NEW a, IsAddress(a), IsPlace(a), a.node > LeafSize, a.level + 1 < a.groupDepth
  PROVE  InThree(Region(a), OwnBits(a),
                 Region(InnerChild(a, FALSE, a.node)), Region(InnerChild(a, TRUE, a.node)))
<1> DEFINE c == InnerChild(a, FALSE, a.node)  d == InnerChild(a, TRUE, a.node)
           n == a.node  L == LeftCount(n)  R == RightCount(n)  e == a.groupDepth - a.level
           x == RestStart(a)  P == PacketSwitchBits(a.root, a.groupDepth)
           sL == SectionBits(a, L)  sR == SectionBits(a, R)
           pL == PacketSwitchBits(L, e - 1)  pR == PacketSwitchBits(R, e - 1)
<1>1. /\ IsAddress(c) /\ IsPlace(c) /\ IsChildPlace(c, a, 0) /\ c.node = L
      /\ c.base = a.base /\ c.embeds = a.embeds /\ c.residual = a.residual + 0
  BY InnerAddress DEF ChildCount
<1>2. /\ IsAddress(d) /\ IsPlace(d) /\ IsChildPlace(d, a, 1) /\ d.node = R
      /\ d.base = a.base /\ d.embeds = a.embeds
      /\ d.residual = a.residual + (sL - pL)
  BY InnerAddress DEF ChildCount
<1>3. /\ a.base \in Nat /\ a.residual \in Nat /\ n \in Nat /\ a.level \in Nat
      /\ a.groupDepth \in Nat /\ e \in Nat /\ P \in Nat /\ x \in Nat
  BY AddressFacts
<1>4. /\ c.root = a.root /\ c.groupDepth = a.groupDepth /\ c.level = a.level + 1
      /\ d.root = a.root /\ d.groupDepth = a.groupDepth /\ d.level = a.level + 1
  BY <1>1, <1>2 DEF IsChildPlace
<1>5. e \in Nat \ {0} /\ e - 1 \in Nat /\ c.groupDepth - c.level = e - 1
      /\ d.groupDepth - d.level = e - 1
  <2> HIDE DEF c, d
  <2> QED
    BY <1>3, <1>4
<1>6. L \in Nat /\ R \in Nat /\ SectionBits(a, n) = n \div 2 + sL + sR
  BY <1>3, SectionBitsFacts
<1>7. PacketSwitchBits(n, e) = n \div 2 + pL + pR
  <2> HIDE DEF e
  <2> QED
    BY <1>3, <1>5, PacketChildren
<1>8. sL \in Nat /\ sR \in Nat /\ pL \in Nat /\ pR \in Nat /\ pL <= sL /\ pR <= sR
  <2> HIDE DEF e, L, R
  <2> QED
    BY <1>5, <1>6, SectionBitsFacts
<1>9. RestStart(c) = a.base + P + (a.residual + 0)
      /\ RestStart(d) = a.base + P + (a.residual + (sL - pL))
      /\ x = a.base + P + a.residual
  BY <1>1, <1>2, <1>4 DEF RestStart
<1>10. RestBits(c) = sL - pL /\ RestBits(d) = sR - pR
       /\ RestBits(a) = SectionBits(a, n) - PacketSwitchBits(n, e)
  <2>1. SectionBits(c, L) = sL /\ SectionBits(d, R) = sR
    BY <1>1, <1>2 DEF SectionBits
  <2> QED
    BY <1>1, <1>2, <1>5, <2>1 DEF RestBits
<1>11. n \div 2 \in Nat
  BY <1>3
<1>12. InThree(Sub(a), Own(a), Sub(c), Sub(d))
  BY <1>1, <1>2, SubOfInner
<1>13. Sub(a) \subseteq Nat
  BY DEF Sub
<1>14. OwnBits(a) = Shift(a.base, Own(a))
  BY OwnBitsAre
<1> HIDE DEF c, d
<1>15. InThree(Shift(a.base, Sub(a)), OwnBits(a), Shift(a.base, Sub(c)), Shift(a.base, Sub(d)))
  BY <1>3, <1>12, <1>13, <1>14, ShiftThree
<1> DEFINE u == sL - pL  v == sR - pR
<1>16. u \in Nat /\ v \in Nat
  <2> HIDE DEF sL, sR, pL, pR
  <2> QED
    BY <1>8
<1>17. RestBits(a) = u + v
  <2> HIDE DEF n, e, sL, sR, pL, pR
  <2>1. n \in Nat
    BY <1>3
  <2> QED
    BY <1>6, <1>7, <1>8, <1>10, <1>11
<1>18. RestStart(c) = x /\ RestStart(d) = x + u
  <2> HIDE DEF P, sL, pL, x
  <2> QED
    BY <1>3, <1>8, <1>9, <1>16
<1> HIDE DEF n, e, x, u, v, P
<1>19. Shift(a.base, Sub(a)) \cap (x .. x + (u + v) - 1) = {}
  <2>1. u + v \in Nat
    BY <1>16
  <2> QED
    BY <2>1, SubBeforeRest DEF x
<1>20. /\ x .. x + (u + v) - 1 = (x .. x + u - 1) \cup (x + u .. (x + u) + v - 1)
       /\ (x .. x + u - 1) \cap (x + u .. (x + u) + v - 1) = {}
  BY <1>3, <1>16, CutInterval
<1>21. /\ Region(a) = Shift(a.base, Sub(a)) \cup (x .. x + (u + v) - 1)
       /\ Region(c) = Shift(a.base, Sub(c)) \cup (x .. x + u - 1)
       /\ Region(d) = Shift(a.base, Sub(d)) \cup (x + u .. (x + u) + v - 1)
  BY <1>1, <1>2, <1>10, <1>17, <1>18 DEF Region, u, v, x
<1>22. InThree(Region(a), OwnBits(a), Region(c), Region(d))
  <2> DEFINE s == Shift(a.base, Sub(a))  o == OwnBits(a)
             j == Shift(a.base, Sub(c))  k == Shift(a.base, Sub(d))
             r == x .. x + (u + v) - 1   rj == x .. x + u - 1
             rk == x + u .. (x + u) + v - 1
  <2>1. InThree(s, o, j, k) /\ r = rj \cup rk /\ rj \cap rk = {} /\ s \cap r = {}
    BY <1>15, <1>19, <1>20
  <2>2. Region(a) = s \cup r /\ Region(c) = j \cup rj /\ Region(d) = k \cup rk
    BY <1>21
  <2> HIDE DEF s, o, j, k, r, rj, rk
  <2>3. InThree(s \cup r, o, j \cup rj, k \cup rk)
    BY <2>1, JoinThree
  <2> QED
    BY <2>2, <2>3 DEF o
<1> QED
  BY <1>22 DEF c, d

\* At the end of a cluster: the children are roots.
LEMMA RegionOfLast ==
  ASSUME NEW a, IsAddress(a), IsPlace(a), a.node > LeafSize, a.level + 1 = a.groupDepth,
         \A t \in BOOLEAN : ChildCount(t, a.node) > LeafSize =>
                              a.clusters[a.index + 1] \in Nat \ {0}
  PROVE  InThree(Region(a), OwnBits(a),
                 Region(OuterChild(a, FALSE, a.node)), Region(OuterChild(a, TRUE, a.node)))
<1> DEFINE c == OuterChild(a, FALSE, a.node)  d == OuterChild(a, TRUE, a.node)
           n == a.node  L == LeftCount(n)  R == RightCount(n)
           x == RestStart(a)  P == PacketSwitchBits(a.root, a.groupDepth)
           u == SectionBits(a, L)  v == SectionBits(a, R)
<1>1. /\ IsAddress(c) /\ c.level = 0 /\ c.path = 0 /\ c.residual = 0
      /\ c.node = L /\ c.root = c.node /\ c.embeds = a.embeds
      /\ c.base = a.base + P + a.residual + 0
  BY OuterAddress DEF ChildCount
<1>2. /\ IsAddress(d) /\ d.level = 0 /\ d.path = 0 /\ d.residual = 0
      /\ d.node = R /\ d.root = d.node /\ d.embeds = a.embeds
      /\ d.base = a.base + P + a.residual + u
  BY OuterAddress DEF ChildCount
<1>3. /\ a.base \in Nat /\ a.residual \in Nat /\ n \in Nat /\ a.level \in Nat
      /\ a.groupDepth \in Nat /\ P \in Nat /\ x \in Nat /\ x = a.base + P + a.residual
  BY AddressFacts DEF RestStart
<1>4. L \in Nat /\ R \in Nat /\ SectionBits(a, n) = n \div 2 + u + v
  BY <1>3, SectionBitsFacts
<1>5. u \in Nat /\ v \in Nat
  <2> HIDE DEF L, R
  <2> QED
    BY <1>4, SectionBitsFacts
<1>6. SectionBits(c, L) = u /\ SectionBits(d, R) = v
  BY <1>1, <1>2 DEF SectionBits
<1>7. a.groupDepth - a.level = 1
  BY <1>3
<1>8. RestBits(a) = u + v
  <2>1. PacketSwitchBits(L, 0) = 0 /\ PacketSwitchBits(R, 0) = 0
    <3> HIDE DEF L, R
    <3> QED
      BY <1>4, PacketSwitchBitsFacts
  <2>2. 1 \in Nat \ {0} /\ 1 - 1 = 0
    OBVIOUS
  <2>3. PacketSwitchBits(n, 1) = n \div 2 + PacketSwitchBits(L, 1 - 1)
                                         + PacketSwitchBits(R, 1 - 1)
    BY <1>3, <2>2, PacketChildren
  <2>4. RestBits(a) = SectionBits(a, n) - PacketSwitchBits(n, 1)
    BY <1>7 DEF RestBits
  <2>5. PacketSwitchBits(n, 1) = n \div 2 + 0 + 0
    BY <2>1, <2>2, <2>3
  <2>6. n \div 2 \in Nat
    BY <1>3
  <2> HIDE DEF n, u, v
  <2> QED
    BY <1>4, <1>5, <2>4, <2>5, <2>6
<1> HIDE DEF c, d
<1>9. Region(c) = c.base .. c.base + u - 1 /\ Region(d) = d.base .. d.base + v - 1
  BY <1>1, <1>2, <1>6, RegionOfRoot
<1>10. c.base = x /\ d.base = x + u
  <2> HIDE DEF P, u, x
  <2> QED
    BY <1>1, <1>2, <1>3, <1>5
<1>11. Shift(a.base, Sub(a)) = OwnBits(a)
  <2>1. a.level = a.groupDepth - 1
    BY <1>3
  <2> QED
    BY <2>1, SubOfLast, OwnBitsAre
<1> HIDE DEF n, x, u, v, P
<1>12. OwnBits(a) \cap (x .. x + (u + v) - 1) = {}
  <2>1. u + v \in Nat
    BY <1>5
  <2> QED
    BY <1>11, <2>1, SubBeforeRest DEF x
<1>13. /\ x .. x + (u + v) - 1 = (x .. x + u - 1) \cup (x + u .. (x + u) + v - 1)
       /\ (x .. x + u - 1) \cap (x + u .. (x + u) + v - 1) = {}
  BY <1>3, <1>5, CutInterval
<1>14. Region(a) = OwnBits(a) \cup (x .. x + (u + v) - 1)
  BY <1>8, <1>11 DEF Region, x
<1>15. InThree(Region(a), OwnBits(a), Region(c), Region(d))
  BY <1>9, <1>10, <1>12, <1>13, <1>14 DEF InThree
<1> QED
  BY <1>15 DEF c, d

LEMMA RegionOfNode ==
  ASSUME NEW a, IsAddress(a), a.node > LeafSize,
         a.level + 1 = a.groupDepth =>
           \A t \in BOOLEAN : ChildCount(t, a.node) > LeafSize =>
                                a.clusters[a.index + 1] \in Nat \ {0}
  PROVE  InThree(Region(a), OwnBits(a),
                 Region(Child(a, FALSE, a.node)), Region(Child(a, TRUE, a.node)))
<1>1. IsPlace(a)
  <2>1. a.node \in Nat /\ LeafSize \in Nat
    BY AddressFacts, LeafSizes
  <2>2. ~(a.node <= LeafSize)
    BY <2>1
  <2> QED
    BY <2>2 DEF IsAddress, IsLeafRoot
<1>2. a.groupDepth \in Nat /\ a.level \in Nat /\ a.level \in 0 .. a.groupDepth - 1
  BY <1>1, PlaceFacts DEF IsPlace
<1>3. CASE a.groupDepth - a.level > 1
  <2>1. a.level + 1 < a.groupDepth
    BY <1>2, <1>3
  <2> QED
    BY <1>1, <1>3, <2>1, RegionOfInner DEF Child
<1>4. CASE ~(a.groupDepth - a.level > 1)
  <2>1. a.level + 1 = a.groupDepth
    BY <1>2, <1>4
  <2> QED
    BY <1>1, <1>4, <2>1, RegionOfLast DEF Child
<1> QED
  BY <1>3, <1>4

-----------------------------------------------------------------------------
(* Cluster lists, and the addresses a walk comes to.                         *)

ValidList(s) == \E k \in Nat : s \in [1 .. k -> Nat \ {0}]

SumStep(s) == [l \in Nat |-> [x \in Nat |-> IF l < Len(s) THEN s[l + 1] + x ELSE x]]
Sums(s)    == CHOOSE f : Follows(f, 0, SumStep(s), Nat)

LEMMA SumsFacts ==
  ASSUME NEW s, ValidList(s)
  PROVE  /\ Len(s) \in Nat /\ s \in [1 .. Len(s) -> Nat \ {0}] /\ s \in Seq(Nat)
         /\ Sums(s)[0] = 0 /\ \A m \in Nat : Sums(s)[m] \in Nat
         /\ \A m \in 1 .. Len(s) : Sums(s)[m] = s[m] + Sums(s)[m - 1]
         /\ SumOf(s) = Sums(s)[Len(s)]
<1> DEFINE n == Len(s)
<1>1. PICK k \in Nat : s \in [1 .. k -> Nat \ {0}]
  BY DEF ValidList
<1>2. s \in Seq(Nat \ {0})
  BY <1>1
<1>3. n = k /\ n \in Nat /\ s \in Seq(Nat)
  BY <1>1, <1>2
<1>4. IsStep(0, SumStep(s), Nat)
  <2>1. \A l \in Nat : l < n => s[l + 1] \in Nat
    <3> SUFFICES ASSUME NEW l \in Nat, l < n PROVE s[l + 1] \in Nat
      OBVIOUS
    <3>1. l + 1 \in 1 .. k
      BY <1>3
    <3> QED
      BY <1>1, <3>1
  <2> HIDE DEF n
  <2>2. ASSUME NEW l \in Nat, NEW x \in Nat
        PROVE  (IF l < n THEN s[l + 1] + x ELSE x) \in Nat
    BY <2>1
  <2> QED
    BY <2>2 DEF IsStep, SumStep, n
<1>5. Follows(Sums(s), 0, SumStep(s), Nat)
  <2>1. \E f : Follows(f, 0, SumStep(s), Nat)
    BY <1>4, FunctionExists
  <2> QED
    BY <2>1 DEF Sums
<1> DEFINE f == Sums(s)
<1>6. f[0] = 0 /\ \A m \in Nat : f[m] \in Nat
  BY <1>5 DEF Follows
<1> HIDE DEF n
<1>7. \A m \in 1 .. n : f[m] = s[m] + f[m - 1]
  <2> SUFFICES ASSUME NEW m \in 1 .. n PROVE f[m] = s[m] + f[m - 1]
    OBVIOUS
  <2>1. m - 1 \in Nat /\ (m - 1) + 1 = m /\ m - 1 < n
    BY <1>3
  <2>2. f[(m - 1) + 1] = SumStep(s)[m - 1][f[m - 1]]
    BY <1>5, <2>1 DEF Follows
  <2>3. SumStep(s)[m - 1][f[m - 1]] = s[(m - 1) + 1] + f[m - 1]
    BY <1>6, <2>1 DEF SumStep, n
  <2> QED
    BY <2>1, <2>2, <2>3
<1>8. SumOf(s) = f[n]
  <2> DEFINE IsIt(R) == R = [m \in 0 .. n |-> IF m = 0 THEN 0 ELSE s[m] + R[m - 1]]
             R == CHOOSE R : IsIt(R)
             g == [m \in 0 .. n |-> f[m]]
  <2>1. SumOf(s) = R[n]
    BY DEF SumOf, n
  <2> HIDE DEF f
  <2>2. IsIt(g)
    <3>1. ASSUME NEW m \in 0 .. n PROVE g[m] = IF m = 0 THEN 0 ELSE s[m] + g[m - 1]
      <4>1. CASE m = 0
        BY <1>6, <4>1
      <4>2. CASE m # 0
        <5>1. m \in 1 .. n /\ m - 1 \in 0 .. n
          BY <1>3, <4>2
        <5> QED
          BY <1>7, <4>2, <5>1
      <4> QED
        BY <4>1, <4>2
    <3> QED
      BY <3>1
  <2>3. IsIt(R)
    <3> HIDE DEF IsIt
    <3> QED
      BY <2>2
  <2>4. \A m \in 0 .. n : R[m] = IF m = 0 THEN 0 ELSE s[m] + R[m - 1]
    BY <2>3
  <2> HIDE DEF R, g
  <2> DEFINE S == {m \in Nat : m <= n => R[m] = f[m]}
  <2>5. 0 \in S
    BY <1>3, <1>6, <2>4
  <2>6. ASSUME NEW m \in Nat, m \in S PROVE m + 1 \in S
    <3> SUFFICES ASSUME m + 1 <= n PROVE R[m + 1] = f[m + 1]
      BY <2>6
    <3>1. m + 1 \in 0 .. n /\ m + 1 \in 1 .. n /\ m + 1 # 0 /\ (m + 1) - 1 = m /\ m <= n
      BY <1>3
    <3>2. R[m + 1] = s[m + 1] + R[m] /\ f[m + 1] = s[m + 1] + f[m]
      BY <1>7, <2>4, <3>1
    <3> QED
      BY <2>6, <3>1, <3>2
  <2>7. Nat \subseteq S
    <3> HIDE DEF S
    <3> QED
      BY <2>5, <2>6, Induction
  <2> QED
    BY <1>3, <2>1, <2>7
<1> QED
  BY <1>1, <1>3, <1>6, <1>7, <1>8 DEF n

\* An address whose clusters are s and leave the levels that the node needs.
Fits(a, s) ==
  /\ IsAddress(a)
  /\ a.clusters = s
  /\ a.node > LeafSize =>
       /\ a.index \in 1 .. Len(s) /\ a.groupDepth = s[a.index]
       /\ Sums(s)[a.index - 1] + a.level + RoutingDepth(a.node) <= SumOf(s)

\* A child that is no leaf needs one level less than its parent.
LEMMA ChildDepth ==
  ASSUME NEW n \in Nat, n > LeafSize, NEW right \in BOOLEAN
  PROVE  /\ ChildCount(right, n) \in Nat /\ LeafSize \in Nat
         /\ RoutingDepth(n) \in Nat /\ RoutingDepth(ChildCount(right, n)) \in Nat
         /\ RoutingDepth(ChildCount(right, n)) + 1 <= RoutingDepth(n)
         /\ ChildCount(right, n) > LeafSize => RoutingDepth(ChildCount(right, n)) >= 1
<1> DEFINE L == LeftCount(n)  R == RightCount(n)
<1>1. LeafSize \in Nat /\ ~(n <= LeafSize)
  BY LeafSizes
<1>2. L \in Nat /\ R \in Nat /\ R <= L
  BY <1>1, Children
<1>3. RoutingDepth(n) = 1 + RoutingDepth(L)
  BY <1>1, RoutingDepthFacts
<1> DEFINE m == ChildCount(right, n)
<1>4. m \in Nat /\ m \in 0 .. L
  <2> HIDE DEF L, R
  <2> QED
    BY <1>2 DEF ChildCount, L, R
<1>5. RoutingDepth(m) <= RoutingDepth(L)
  <2> HIDE DEF L, m
  <2> QED
    BY <1>2, <1>4, DepthGrows
<1>6. RoutingDepth(m) \in Nat /\ RoutingDepth(L) \in Nat
  <2> HIDE DEF L, m
  <2> QED
    BY <1>2, <1>4, RoutingDepthFacts
<1>7. m > LeafSize => RoutingDepth(m) >= 1
  <2> SUFFICES ASSUME m > LeafSize PROVE RoutingDepth(m) >= 1
    OBVIOUS
  <2>1. ~(m <= LeafSize)
    <3> HIDE DEF m
    <3> QED
      BY <1>1, <1>4
  <2> HIDE DEF m
  <2>2. LeftCount(m) \in Nat
    BY <1>4, <2>1, Children
  <2>3. RoutingDepth(m) = 1 + RoutingDepth(LeftCount(m)) /\ RoutingDepth(LeftCount(m)) \in Nat
    BY <1>4, <2>1, <2>2, RoutingDepthFacts
  <2> QED
    BY <2>3
<1> HIDE DEF L, R, m
<1>8. RoutingDepth(n) \in Nat /\ RoutingDepth(m) + 1 <= RoutingDepth(n)
  BY <1>3, <1>5, <1>6
<1> QED
  BY <1>1, <1>4, <1>6, <1>7, <1>8 DEF m

\* The list has a cluster for the children at the end of one.
LEMMA NextCluster ==
  ASSUME NEW s, ValidList(s), NEW a, Fits(a, s), a.node > LeafSize,
         a.level + 1 = a.groupDepth,
         NEW right \in BOOLEAN, ChildCount(right, a.node) > LeafSize
  PROVE  a.index + 1 \in 1 .. Len(s) /\ s[a.index + 1] \in Nat \ {0}
<1> DEFINE i == a.index  l == a.level  k == Len(s)  t == RoutingDepth(a.node)
           r == RoutingDepth(ChildCount(right, a.node))
<1>1. IsAddress(a) /\ i \in 1 .. k /\ a.groupDepth = s[i]
      /\ Sums(s)[i - 1] + l + t <= SumOf(s)
  BY DEF Fits
<1>2. l \in Nat /\ a.node \in Nat
  BY <1>1, AddressFacts
<1>3. r \in Nat /\ t \in Nat /\ r + 1 <= t /\ r >= 1
  BY <1>2, ChildDepth
<1>4. k \in Nat /\ Sums(s)[i] = s[i] + Sums(s)[i - 1] /\ SumOf(s) = Sums(s)[k]
      /\ s \in [1 .. k -> Nat \ {0}]
  BY <1>1, SumsFacts
<1>5. i \in Nat /\ i - 1 \in Nat
  BY <1>1, <1>4
<1>6. Sums(s)[i - 1] \in Nat /\ Sums(s)[k] \in Nat
  BY <1>4, <1>5, SumsFacts
<1>7. s[i] = l + 1
  BY <1>1
<1> HIDE DEF i, l, k, t, r
<1>8. Sums(s)[i] < Sums(s)[k]
  BY <1>1, <1>2, <1>3, <1>4, <1>6, <1>7
<1>9. i # k
  BY <1>6, <1>8
<1>10. i + 1 \in 1 .. k
  BY <1>1, <1>4, <1>5, <1>9
<1> QED
  BY <1>4, <1>10 DEF i, k

LEMMA ChildFits ==
  ASSUME NEW s, ValidList(s), NEW a, Fits(a, s), a.node > LeafSize, NEW right \in BOOLEAN
  PROVE  LET c == Child(a, right, a.node)
         IN  /\ Fits(c, s) /\ c.embeds = a.embeds /\ c.node = ChildCount(right, a.node)
<1> DEFINE c == Child(a, right, a.node)  n == a.node  m == ChildCount(right, n)
           i == a.index  l == a.level
<1>1. IsAddress(a) /\ a \in Addresses /\ a.clusters = s /\ i \in 1 .. Len(s)
      /\ a.groupDepth = s[i] /\ Sums(s)[i - 1] + l + RoutingDepth(n) <= SumOf(s)
  BY AddressFacts DEF Fits
<1>2. n \in Nat /\ l \in Nat /\ a.groupDepth \in Nat /\ LeafSize \in Nat
  BY <1>1, AddressFacts, LeafSizes
<1>3. IsPlace(a) /\ l \in 0 .. a.groupDepth - 1
  <2>1. ~(n <= LeafSize)
    BY <1>2
  <2> QED
    BY <1>1, <2>1 DEF IsAddress, IsLeafRoot, IsPlace
<1>4. /\ m \in Nat /\ RoutingDepth(n) \in Nat /\ RoutingDepth(m) \in Nat
      /\ RoutingDepth(m) + 1 <= RoutingDepth(n)
  BY <1>2, ChildDepth
<1>5. Len(s) \in Nat /\ i \in Nat /\ i - 1 \in Nat
  <2>1. Len(s) \in Nat
    BY SumsFacts
  <2> QED
    BY <1>1, <2>1
<1>6. Sums(s)[i - 1] \in Nat /\ Sums(s)[i] \in Nat /\ SumOf(s) \in Nat
      /\ Sums(s)[i] = s[i] + Sums(s)[i - 1]
  <2> HIDE DEF i
  <2> QED
    BY <1>1, <1>5, SumsFacts
<1>7. CASE l + 1 < a.groupDepth
  <2>1. c = InnerChild(a, right, n)
    BY <1>2, <1>7 DEF Child
  <2>2. /\ IsAddress(c) /\ c.node = m /\ c.embeds = a.embeds
    BY <1>1, <1>3, <1>7, <2>1, InnerAddress
  <2>3. c.clusters = s /\ c.index = i /\ c.groupDepth = a.groupDepth /\ c.level = l + 1
    BY <1>1, <2>1, InnerChildIs
  <2> HIDE DEF c, n, m, i, l
  <2>4. Sums(s)[i - 1] + (l + 1) + RoutingDepth(m) <= SumOf(s)
    BY <1>1, <1>2, <1>4, <1>6
  <2>5. Fits(c, s)
    BY <1>1, <2>2, <2>3, <2>4 DEF Fits
  <2> QED
    BY <2>2, <2>5 DEF c, n, m
<1>8. CASE ~(l + 1 < a.groupDepth)
  <2>1. l + 1 = a.groupDepth
    BY <1>2, <1>3, <1>8
  <2>2. c = OuterChild(a, right, n)
    BY <1>2, <1>8 DEF Child
  <2>3. m > LeafSize => i + 1 \in 1 .. Len(s) /\ s[i + 1] \in Nat \ {0}
    BY <2>1, NextCluster
  <2>4. m > LeafSize => a.clusters[a.index + 1] \in Nat \ {0}
    BY <1>1, <2>3
  <2>5. IsAddress(c) /\ c.level = 0 /\ c.node = m /\ c.embeds = a.embeds
    BY <1>1, <1>3, <2>2, <2>4, OuterAddress
  <2>6. c.clusters = s /\ (m > LeafSize => c.index = i + 1 /\ c.groupDepth = s[i + 1])
    BY <1>1, <2>2, OuterChildIs
  <2>7. s[i] = l + 1
    BY <1>1, <2>1
  <2> HIDE DEF c, n, m, i, l
  <2>8. Sums(s)[(i + 1) - 1] + 0 + RoutingDepth(m) <= SumOf(s)
    <3>1. (i + 1) - 1 = i
      BY <1>5
    <3>2. Sums(s)[i] + 0 + RoutingDepth(m) <= SumOf(s)
      <4> DEFINE x == Sums(s)[i - 1]  y == Sums(s)[i]  z == SumOf(s)
                 u == RoutingDepth(n)  v == RoutingDepth(m)
      <4>1. /\ x \in Nat /\ y \in Nat /\ z \in Nat /\ y = (l + 1) + x
            /\ x + l + u <= z /\ v + 1 <= u /\ u \in Nat /\ v \in Nat
        BY <1>1, <1>4, <1>6, <2>7
      <4> HIDE DEF x, y, z, u, v
      <4>2. y + 0 + v <= z
        BY <1>2, <4>1
      <4> QED
        BY <4>2 DEF y, z, v
    <3> QED
      BY <3>1, <3>2
  <2>9. Fits(c, s)
    BY <2>3, <2>5, <2>6, <2>8 DEF Fits
  <2> QED
    BY <2>5, <2>9 DEF c, n, m
<1> QED
  BY <1>7, <1>8

\* What a node and its children take, for a fitting address.
LEMMA FitsSplits ==
  ASSUME NEW s, ValidList(s), NEW a, Fits(a, s), a.node > LeafSize
  PROVE  InThree(Region(a), OwnBits(a),
                 Region(Child(a, FALSE, a.node)), Region(Child(a, TRUE, a.node)))
<1>1. a.level + 1 = a.groupDepth =>
        \A t \in BOOLEAN : ChildCount(t, a.node) > LeafSize =>
                             a.clusters[a.index + 1] \in Nat \ {0}
  BY NextCluster DEF Fits
<1> QED
  BY <1>1, RegionOfNode DEF Fits

\* The addresses the walk starts from.
LEMMA RootFits ==
  ASSUME NEW n \in Nat, NEW s \in ClusterLists(RoutingDepth(n)), NEW embeds \in BOOLEAN
  PROVE  LET a == RootAddress(n, s, embeds)
         IN  /\ ValidList(s) /\ Fits(a, s) /\ a.node = n /\ a.embeds = embeds
             /\ Region(a) = 0 .. SectionBits(a, n) - 1
<1> DEFINE a == RootAddress(n, s, embeds)  d == RoutingDepth(n)
<1>1. d \in Nat
  BY RoutingDepthFacts
<1> HIDE DEF d
<1>2. PICK k \in 0 .. d : s \in [1 .. k -> 1 .. d]
  BY DEF ClusterLists, d
<1>3. SumOf(s) = d
  BY DEF ClusterLists, d
<1>4. k \in Nat /\ s \in [1 .. k -> Nat \ {0}]
  <2>1. \A x \in 1 .. d : x \in Nat \ {0}
    BY <1>1
  <2> QED
    BY <1>1, <1>2, <2>1
<1>5. ValidList(s)
  BY <1>4 DEF ValidList
<1>6. /\ Len(s) \in Nat /\ s \in [1 .. Len(s) -> Nat \ {0}] /\ s \in Seq(Nat)
      /\ Sums(s)[0] = 0 /\ SumOf(s) = Sums(s)[Len(s)]
  BY <1>5, SumsFacts
<1>7. LeafSize \in Nat /\ 0 \in Nat
  BY LeafSizes
<1>8. n > LeafSize => 1 \in 1 .. Len(s) /\ s[1] \in Nat \ {0}
  <2> SUFFICES ASSUME n > LeafSize PROVE 1 \in 1 .. Len(s) /\ s[1] \in Nat \ {0}
    OBVIOUS
  <2>1. RoutingDepth(n) >= 1
    <3>1. FALSE \in BOOLEAN
      OBVIOUS
    <3>2. RoutingDepth(n) \in Nat /\ RoutingDepth(ChildCount(FALSE, n)) \in Nat
          /\ RoutingDepth(ChildCount(FALSE, n)) + 1 <= RoutingDepth(n)
      BY <3>1, ChildDepth
    <3> DEFINE x == RoutingDepth(n)  y == RoutingDepth(ChildCount(FALSE, n))
    <3>3. x \in Nat /\ y \in Nat /\ y + 1 <= x
      BY <3>2
    <3> HIDE DEF x, y
    <3>4. x >= 1
      BY <3>3
    <3> QED
      BY <3>4 DEF x
  <2>2. Len(s) # 0
    BY <1>3, <1>6, <2>1 DEF d
  <2>3. 1 \in 1 .. Len(s)
    BY <1>6, <2>2
  <2> QED
    BY <1>6, <2>3
<1> DEFINE g == IF n > LeafSize THEN s[1] ELSE 0
<1>9. g \in Nat
  BY <1>8
<1>10. /\ a.clusters = s /\ a.embeds = embeds /\ a.index = 1 /\ a.groupDepth = g
       /\ a.level = 0 /\ a.path = 0 /\ a.root = n /\ a.node = n
       /\ a.base = 0 /\ a.residual = 0
  BY DEF RootAddress
<1>11. a \in Addresses
  <2> HIDE DEF g
  <2> QED
    BY <1>6, <1>9 DEF RootAddress, Addresses, g
<1> HIDE DEF a
<1>12. IsAddress(a)
  <2>1. CASE n > LeafSize
    <3>1. a.groupDepth \in Nat \ {0}
      BY <1>8, <1>10, <2>1
    <3>2. a.level \in 0 .. a.groupDepth - 1
      BY <1>10, <3>1
    <3>3. a.path \in 0 .. PowerOfTwo[a.level] - 1
      BY <1>10, PowerFacts
    <3>4. a.node = NodeSize(a.root, a.level, a.path)
      BY <1>10, NodeSizes
    <3>5. IsPlace(a)
      BY <1>10, <3>1, <3>2, <3>3, <3>4 DEF IsPlace, IsCluster
    <3> QED
      BY <1>10, <1>11, <2>1, <3>5 DEF IsAddress
  <2>2. CASE ~(n > LeafSize)
    <3>1. n <= LeafSize
      BY <1>7, <2>2
    <3> QED
      BY <1>10, <1>11, <2>2, <3>1 DEF IsAddress, IsLeafRoot
  <2> QED
    BY <2>1, <2>2
<1>13. Fits(a, s)
  <2>1. 1 - 1 = 0
    OBVIOUS
  <2>2. Sums(s)[1 - 1] + 0 + RoutingDepth(n) <= SumOf(s)
    BY <1>1, <1>3, <1>6, <2>1 DEF d
  <2> QED
    BY <1>8, <1>10, <1>12, <2>2 DEF Fits
<1>14. Region(a) = 0 .. SectionBits(a, n) - 1
  <2>1. Region(a) = a.base .. a.base + SectionBits(a, a.node) - 1
    BY <1>10, <1>12, RegionOfRoot
  <2>2. SectionBits(a, n) \in Nat
    BY SectionBitsFacts
  <2> HIDE DEF d
  <2>3. 0 + SectionBits(a, n) - 1 = SectionBits(a, n) - 1
    BY <2>2
  <2> QED
    BY <1>10, <2>1, <2>3
<1> QED
  BY <1>5, <1>10, <1>13, <1>14 DEF a

-----------------------------------------------------------------------------
(* The kernels' own sum.  The loop over the bits of a level keeps what it    *)
(* has counted and what is left to count together equal to the number that   *)
(* SectionAddress has (LoopIs); it computes in the kernel's counting type,   *)
(* and nothing wraps around while the address has room in it (HasRoom).      *)

LEMMA CountedIs ==
  ASSUME NEW n \in Nat, NEW wide \in BOOLEAN, wide \/ n <= UintMax
  PROVE  Counted(n, wide) = n
<1>1. CASE wide
  BY <1>1 DEF Counted
<1>2. CASE n <= UintMax
  <2>1. UintMax + 1 \in Nat \ {0} /\ n \in 0 .. (UintMax + 1) - 1 /\ n = 0 * (UintMax + 1) + n
    BY <1>2, DeviceAssumption
  <2>2. n % (UintMax + 1) = n
    BY <2>1, OneQuotient
  <2> QED
    BY <2>2 DEF Counted
<1> QED
  BY <1>1, <1>2

LEMMA PowersGrow ==
  ASSUME NEW k \in Nat, NEW j \in 0 .. k
  PROVE  PowerOfTwo[j] <= PowerOfTwo[k]
<1> DEFINE S == {m \in Nat : \A i \in 0 .. m : PowerOfTwo[i] <= PowerOfTwo[m]}
<1>1. 0 \in S
  <2>1. \A i \in 0 .. 0 : i = 0
    OBVIOUS
  <2>2. 1 <= 1
    OBVIOUS
  <2> QED
    BY <2>1, <2>2, PowerFacts
<1>2. ASSUME NEW m \in Nat, m \in S PROVE m + 1 \in S
  <2> SUFFICES ASSUME NEW i \in 0 .. m + 1 PROVE PowerOfTwo[i] <= PowerOfTwo[m + 1]
    OBVIOUS
  <2>1. /\ PowerOfTwo[m] \in Nat /\ PowerOfTwo[m + 1] = 2 * PowerOfTwo[m]
        /\ i \in Nat /\ PowerOfTwo[i] \in Nat
    BY PowerFacts
  <2>2. CASE i = m + 1
    BY <2>1, <2>2
  <2>3. CASE i # m + 1
    <3>1. i \in 0 .. m
      BY <2>3
    <3>2. PowerOfTwo[i] <= PowerOfTwo[m]
      BY <1>2, <3>1
    <3> QED
      BY <2>1, <3>2
  <2> QED
    BY <2>2, <2>3
<1>3. Nat \subseteq S
  <2> HIDE DEF S
  <2> QED
    BY <1>1, <1>2, Induction
<1> QED
  BY <1>3

\* What is left to do in the loop, and what is done, make up the whole.
LoopIs(s, level, turns, paths, large) ==
  /\ s.paths \in Nat /\ s.large \in Nat /\ s.included \in Nat
  /\ s.included + s.paths <= paths
  /\ IncludedLarge(level, paths, large)
       = s.included + IncludedLarge(level - turns, s.paths, s.large)

LEMMA LoopTurnIs ==
  ASSUME NEW level \in Nat, NEW turns \in 0 .. level - 1, NEW paths \in Nat, NEW large \in Nat,
         NEW s, LoopIs(s, level, turns, paths, large),
         NEW wide \in BOOLEAN, wide \/ paths < UintMax,
         s = [paths |-> s.paths, large |-> s.large, included |-> s.included]
  PROVE  LET t == LoopTurn(s, PowerOfTwo[level - (turns + 1)], wide)
         IN  /\ LoopIs(t, level, turns + 1, paths, large)
             /\ t = [paths |-> t.paths, large |-> t.large, included |-> t.included]
<1> DEFINE p == s.paths  m == s.large  c == s.included
           l == level - (turns + 1)  h == PowerOfTwo[l]
           t == LoopTurn(s, h, wide)
<1>1. l \in Nat /\ level - turns = l + 1 /\ level \in Nat
  OBVIOUS
<1>2. h \in Nat
  BY <1>1, PowerFacts
<1>3. /\ p \in Nat /\ m \in Nat /\ c \in Nat /\ c + p <= paths
      /\ IncludedLarge(level, paths, large) = c + IncludedLarge(l + 1, p, m)
  BY <1>1 DEF LoopIs
<1>4. IncludedLarge(l + 1, p, m) =
        IF m <= h THEN IncludedLarge(l, (p + 1) \div 2, m)
        ELSE (p + 1) \div 2 + IncludedLarge(l, p \div 2, m - h)
  BY <1>1, <1>3, IncludedNext
<1>5. s = [paths |-> p, large |-> m, included |-> c]
  OBVIOUS
<1> DEFINE u == (p + 1) \div 2  v == p \div 2
<1>7. u \in Nat /\ v \in Nat /\ u + v = p /\ u <= p
  BY <1>3
<1>6. Counted(p + 1, wide) = p + 1 /\ Counted(c + u, wide) = c + u
  <2> HIDE DEF p, m, c, u, v, h, t, l
  <2>1. p + 1 \in Nat /\ c + u \in Nat
    BY <1>3, <1>7
  <2>2. wide \/ (p + 1 <= UintMax /\ c + u <= UintMax)
    BY <1>3, <1>7, DeviceAssumption
  <2> QED
    BY <2>1, <2>2, CountedIs
<1>8. t = IF m <= h THEN [paths |-> u, large |-> m, included |-> c]
          ELSE [paths |-> v, large |-> m - h, included |-> c + u]
  <2>1. t = IF m <= h THEN [s EXCEPT !.paths = Counted(p + 1, wide) \div 2]
            ELSE [paths |-> v, large |-> m - h,
                  included |-> Counted(c + Counted(p + 1, wide) \div 2, wide)]
    BY DEF LoopTurn
  <2>2. [s EXCEPT !.paths = u] = [paths |-> u, large |-> m, included |-> c]
    <3> HIDE DEF p, m, c, u
    <3> QED
      BY <1>5
  <2>3. Counted(p + 1, wide) \div 2 = u
    BY <1>6
  <2>4. t = IF m <= h THEN [s EXCEPT !.paths = u]
            ELSE [paths |-> v, large |-> m - h, included |-> Counted(c + u, wide)]
    <3> HIDE DEF u, v, t, p, m, c, h
    <3> QED
      BY <2>1, <2>3
  <2> HIDE DEF t, u, v, p, m, c, h
  <2> QED
    BY <1>6, <2>2, <2>4
<1> DEFINE i1 == IncludedLarge(l, u, m)  i2 == IncludedLarge(l, v, m - h)
           i0 == IncludedLarge(level, paths, large)
<1>9. i0 = c + (IF m <= h THEN i1 ELSE u + i2)
  BY <1>3, <1>4
<1>10. CASE m <= h
  <2>1. t = [paths |-> u, large |-> m, included |-> c]
    BY <1>8, <1>10
  <2>2. c + u <= paths /\ i0 = c + i1
    <3> HIDE DEF p, m, c, u, v, h, t, l, i0, i1, i2
    <3> QED
      BY <1>3, <1>7, <1>9, <1>10
  <2>3. level - (turns + 1) = l
    OBVIOUS
  <2>5. t.paths = u /\ t.large = m /\ t.included = c
    <3> HIDE DEF p, m, c, u, v, h, t, l, i0, i1, i2
    <3> QED
      BY <2>1
  <2>4. LoopIs(t, level, turns + 1, paths, large)
    <3>1. /\ t.paths \in Nat /\ t.large \in Nat /\ t.included \in Nat
          /\ t.included + t.paths <= paths
      <4> HIDE DEF p, m, c, u, v, h, t, l, i0, i1, i2
      <4> QED
        BY <1>3, <1>7, <2>2, <2>5
    <3>2. i0 = t.included + IncludedLarge(l, t.paths, t.large)
      <4> HIDE DEF p, m, c, u, v, h, t, l, i0, i2
      <4> QED
        BY <2>2, <2>5 DEF i1
    <3> HIDE DEF t
    <3> QED
      BY <3>1, <3>2 DEF LoopIs
  <2> QED
    BY <2>1, <2>4, <2>5
<1>11. CASE ~(m <= h)
  <2>1. t = [paths |-> v, large |-> m - h, included |-> c + u]
    BY <1>8, <1>11
  <2>2. (c + u) + v <= paths /\ i0 = (c + u) + i2 /\ m - h \in Nat
    <3>1. i2 \in Nat
      <4>1. m - h \in Nat
        <5> HIDE DEF p, m, c, u, v, h, t, l, i0, i1, i2
        <5> QED
          BY <1>2, <1>3, <1>11
      <4> HIDE DEF p, m, c, u, v, h, t, l
      <4> QED
        BY <1>1, <1>7, <4>1, IncludedType
    <3> HIDE DEF p, m, c, u, v, h, t, l, i0, i1, i2
    <3> QED
      BY <1>2, <1>3, <1>7, <1>9, <1>11, <3>1
  <2>5. t.paths = v /\ t.large = m - h /\ t.included = c + u
    <3> HIDE DEF p, m, c, u, v, h, t, l, i0, i1, i2
    <3> QED
      BY <2>1
  <2>4. LoopIs(t, level, turns + 1, paths, large)
    <3>1. /\ t.paths \in Nat /\ t.large \in Nat /\ t.included \in Nat
          /\ t.included + t.paths <= paths
      <4> HIDE DEF p, m, c, u, v, h, t, l, i0, i1, i2
      <4> QED
        BY <1>3, <1>7, <2>2, <2>5
    <3>2. i0 = t.included + IncludedLarge(l, t.paths, t.large)
      <4> HIDE DEF p, m, c, u, v, h, t, l, i0, i1
      <4> QED
        BY <2>2, <2>5 DEF i2
    <3> HIDE DEF t
    <3> QED
      BY <3>1, <3>2 DEF LoopIs
  <2> QED
    BY <2>1, <2>4, <2>5
<1> QED
  BY <1>10, <1>11

LoopStates == [paths : Nat, large : Nat, included : Nat]

LEMMA CountedType ==
  ASSUME NEW n \in Nat, NEW wide \in BOOLEAN
  PROVE  Counted(n, wide) \in Nat
<1>1. CASE wide
  BY <1>1 DEF Counted
<1>2. CASE ~wide
  <2>1. UintMax + 1 \in Nat \ {0}
    BY DeviceAssumption
  <2>2. n % (UintMax + 1) \in 0 .. (UintMax + 1) - 1
    BY <2>1, DivisionFacts
  <2>3. n % (UintMax + 1) \in Nat
    BY <2>1, <2>2
  <2> QED
    BY <1>2, <2>3 DEF Counted
<1> QED
  BY <1>1, <1>2

LEMMA LoopTurnType ==
  ASSUME NEW s \in LoopStates, NEW h \in Nat, NEW wide \in BOOLEAN
  PROVE  LoopTurn(s, h, wide) \in LoopStates
<1> DEFINE p == s.paths  m == s.large  c == s.included
           x == Counted(p + 1, wide)  y == Counted(c + x \div 2, wide)
<1>1. p \in Nat /\ m \in Nat /\ c \in Nat
  BY DEF LoopStates
<1>2. p + 1 \in Nat /\ p \div 2 \in Nat
  BY <1>1
<1> HIDE DEF p, m, c
<1>3. x \in Nat
  BY <1>2, CountedType
<1>4. x \div 2 \in Nat
  <2> HIDE DEF x
  <2> QED
    BY <1>3
<1>5. c + x \div 2 \in Nat
  <2> HIDE DEF x
  <2> QED
    BY <1>1, <1>4
<1>6. y \in Nat
  <2> HIDE DEF x
  <2> QED
    BY <1>5, CountedType
<1>7. LoopTurn(s, h, wide) = IF m <= h THEN [s EXCEPT !.paths = x \div 2]
                             ELSE [paths |-> p \div 2, large |-> m - h, included |-> y]
  BY DEF LoopTurn, p, m, c
<1> HIDE DEF x, y
<1>8. CASE m <= h
  <2>1. [s EXCEPT !.paths = x \div 2] \in LoopStates
    BY <1>4 DEF LoopStates
  <2> QED
    BY <1>7, <1>8, <2>1
<1>9. CASE ~(m <= h)
  <2>1. m - h \in Nat
    BY <1>1, <1>9
  <2>2. [paths |-> p \div 2, large |-> m - h, included |-> y] \in LoopStates
    BY <1>2, <1>6, <2>1 DEF LoopStates
  <2> QED
    BY <1>7, <1>9, <2>2
<1> QED
  BY <1>8, <1>9

\* The loop ends with the number that SectionAddress computes.
LEMMA DeviceIncludedIs ==
  ASSUME NEW level \in Nat, NEW paths \in Nat, NEW large \in Nat, NEW wide \in BOOLEAN,
         wide \/ (paths < UintMax /\ PowerOfTwo[level] <= UintMax)
  PROVE  /\ DeviceIncluded(level, paths, large, wide) = IncludedLarge(level, paths, large)
         /\ IncludedLarge(level, paths, large) <= paths
<1> DEFINE first == [paths |-> paths, large |-> large, included |-> 0]
           V(t) == IF t < level THEN Counted(PowerOfTwo[level - (t + 1)], wide) ELSE 0
           step == [t \in Nat |-> [s \in LoopStates |-> LoopTurn(s, V(t), wide)]]
<1>1. \A t \in Nat : t < level => level - (t + 1) \in 0 .. level
  OBVIOUS
<1>2. \A t \in Nat : V(t) \in Nat
  <2> SUFFICES ASSUME NEW t \in Nat, t < level
               PROVE  Counted(PowerOfTwo[level - (t + 1)], wide) \in Nat
    OBVIOUS
  <2>1. level - (t + 1) \in Nat
    OBVIOUS
  <2>2. PowerOfTwo[level - (t + 1)] \in Nat
    BY <2>1, PowerFacts
  <2> QED
    BY <2>2, CountedType
<1>3. \A t \in 0 .. level - 1 : V(t) = PowerOfTwo[level - (t + 1)]
  <2> SUFFICES ASSUME NEW t \in 0 .. level - 1
               PROVE  Counted(PowerOfTwo[level - (t + 1)], wide) = PowerOfTwo[level - (t + 1)]
    OBVIOUS
  <2> DEFINE j == level - (t + 1)
  <2>1. j \in 0 .. level /\ j \in Nat
    OBVIOUS
  <2> HIDE DEF j
  <2>2. PowerOfTwo[j] <= PowerOfTwo[level] /\ PowerOfTwo[j] \in Nat /\ PowerOfTwo[level] \in Nat
    BY <2>1, PowersGrow, PowerFacts
  <2>3. wide \/ PowerOfTwo[j] <= UintMax
    BY <2>2, DeviceAssumption
  <2>4. Counted(PowerOfTwo[j], wide) = PowerOfTwo[j]
    BY <2>2, <2>3, CountedIs
  <2> QED
    BY <2>4 DEF j
<1>20. \A t \in 0 .. level - 1 : V(t) = Counted(PowerOfTwo[level - (t + 1)], wide)
  OBVIOUS
<1> HIDE DEF V
<1>4. first \in LoopStates
  BY DEF LoopStates
<1>5. IsStep(first, step, LoopStates)
  BY <1>2, <1>4, LoopTurnType DEF IsStep
<1>6. PICK f : Follows(f, first, step, LoopStates)
  BY <1>5, FunctionExists
<1>7. /\ f[0] = first
      /\ \A t \in Nat : f[t] \in LoopStates /\ f[t + 1] = LoopTurn(f[t], V(t), wide)
  BY <1>6 DEF Follows
<1> DEFINE IsIt(R) == R = [turns \in 0 .. level |->
              IF turns = 0 THEN [paths |-> paths, large |-> large, included |-> 0]
              ELSE LoopTurn(R[turns - 1], Counted(PowerOfTwo[level - turns], wide), wide)]
           R == CHOOSE R : IsIt(R)
           g == [t \in 0 .. level |-> f[t]]
<1>8. DeviceIncluded(level, paths, large, wide)
        = IF R[level].paths # 0 /\ R[level].large # 0
          THEN Counted(R[level].included + 1, wide) ELSE R[level].included
  BY DEF DeviceIncluded
<1>9. IsIt(g)
  <2>1. ASSUME NEW t \in 0 .. level
        PROVE  g[t] = IF t = 0 THEN first
                      ELSE LoopTurn(g[t - 1], Counted(PowerOfTwo[level - t], wide), wide)
    <3>1. CASE t = 0
      BY <1>7, <3>1
    <3>2. CASE t # 0
      <4>1. t - 1 \in 0 .. level - 1 /\ t - 1 \in Nat /\ (t - 1) + 1 = t /\ t - 1 \in 0 .. level
        BY <3>2
      <4>2. V(t - 1) = Counted(PowerOfTwo[level - t], wide)
        BY <1>20, <4>1
      <4>3. f[(t - 1) + 1] = LoopTurn(f[t - 1], V(t - 1), wide)
        BY <1>7, <4>1
      <4> QED
        BY <3>2, <4>1, <4>2, <4>3
    <3> QED
      BY <3>1, <3>2
  <2> QED
    BY <2>1
<1>10. IsIt(R)
  <2> HIDE DEF IsIt
  <2> QED
    BY <1>9
<1>11. \A t \in 0 .. level :
         R[t] = IF t = 0 THEN first
                ELSE LoopTurn(R[t - 1], Counted(PowerOfTwo[level - t], wide), wide)
  BY <1>10
<1> HIDE DEF R, g, step
<1> DEFINE IsRecord(s) == s = [paths |-> s.paths, large |-> s.large, included |-> s.included]
           S == {t \in Nat : t <= level => LoopIs(R[t], level, t, paths, large) /\ IsRecord(R[t])}
<1>12. 0 \in S
  <2>1. R[0] = first /\ level - 0 = level
    BY <1>11
  <2>2. IncludedLarge(level, paths, large) \in Nat
    BY IncludedType
  <2>4. /\ first.paths = paths /\ first.large = large /\ first.included = 0
        /\ 0 + paths <= paths
    OBVIOUS
  <2> HIDE DEF first
  <2>5. LoopIs(first, level, 0, paths, large)
    BY <2>1, <2>2, <2>4 DEF LoopIs
  <2>6. IsRecord(first)
    BY <2>4 DEF first
  <2> HIDE DEF IsRecord
  <2> QED
    BY <2>1, <2>5, <2>6
<1>13. ASSUME NEW t \in Nat, t \in S PROVE t + 1 \in S
  <2> SUFFICES ASSUME t + 1 <= level
               PROVE  LoopIs(R[t + 1], level, t + 1, paths, large) /\ IsRecord(R[t + 1])
    OBVIOUS
  <2>1. /\ t <= level /\ t \in 0 .. level - 1 /\ t + 1 \in 0 .. level
        /\ (t + 1) - 1 = t /\ t + 1 # 0
    OBVIOUS
  <2>2. LoopIs(R[t], level, t, paths, large) /\ IsRecord(R[t])
    BY <1>13, <2>1
  <2>3. R[t + 1] = LoopTurn(R[t], PowerOfTwo[level - (t + 1)], wide)
    BY <1>3, <1>20, <1>11, <2>1
  <2> HIDE DEF first
  <2> QED
    BY <2>1, <2>2, <2>3, LoopTurnIs
<1>14. Nat \subseteq S
  <2> HIDE DEF S
  <2> QED
    BY <1>12, <1>13, Induction
<1>15. LoopIs(R[level], level, level, paths, large)
  <2>1. level \in S /\ level <= level
    BY <1>14
  <2> QED
    BY <2>1
<1> DEFINE last == R[level]
<1>16. level - level = 0
  OBVIOUS
<1>17. /\ last.paths \in Nat /\ last.large \in Nat /\ last.included \in Nat
       /\ last.included + last.paths <= paths
       /\ IncludedLarge(level, paths, large)
            = last.included + IncludedLarge(0, last.paths, last.large)
  BY <1>15, <1>16 DEF LoopIs
<1>18. IncludedLarge(0, last.paths, last.large)
         = IF last.paths # 0 /\ last.large # 0 THEN 1 ELSE 0
  BY <1>17, IncludedFirst
<1> HIDE DEF last
<1>19. last.paths # 0 => Counted(last.included + 1, wide) = last.included + 1
  <2> SUFFICES ASSUME last.paths # 0
               PROVE  Counted(last.included + 1, wide) = last.included + 1
    OBVIOUS
  <2>1. last.included + 1 \in Nat /\ last.included + 1 <= paths
    BY <1>17
  <2>2. wide \/ last.included + 1 <= UintMax
    BY <2>1, DeviceAssumption
  <2> QED
    BY <2>1, <2>2, CountedIs
<1> DEFINE i0 == IncludedLarge(level, paths, large)
           d == DeviceIncluded(level, paths, large, wide)
<1>21. d = IF last.paths # 0 /\ last.large # 0
           THEN Counted(last.included + 1, wide) ELSE last.included
  BY <1>8 DEF last
<1>22. i0 = last.included + (IF last.paths # 0 /\ last.large # 0 THEN 1 ELSE 0)
  BY <1>17, <1>18
<1> HIDE DEF i0, d
<1>23. d = i0 /\ i0 <= paths
  BY <1>17, <1>19, <1>21, <1>22
<1> QED
  BY <1>23 DEF i0, d

\* The numbers of an address have room in the kernel's counting type.
HasRoom(a, wide) ==
  wide \/ (a.root < UintMax /\ a.node <= UintMax /\ PowerOfTwo[a.groupDepth] <= UintMax)

LEMMA RoomForLevel ==
  ASSUME NEW a, IsCluster(a), NEW l \in 0 .. a.groupDepth - 1, NEW wide \in BOOLEAN,
         HasRoom(a, wide)
  PROVE  /\ l \in Nat /\ PowerOfTwo[l] \in Nat \ {0}
         /\ wide \/ PowerOfTwo[l] < UintMax
         /\ Counted(PowerOfTwo[l], wide) = PowerOfTwo[l]
<1>1. a.groupDepth \in Nat
  BY DEF IsCluster
<1>2. l \in Nat /\ l + 1 \in 0 .. a.groupDepth
  BY <1>1
<1>3. /\ PowerOfTwo[l] \in Nat \ {0} /\ PowerOfTwo[l + 1] = 2 * PowerOfTwo[l]
      /\ PowerOfTwo[a.groupDepth] \in Nat
  BY <1>1, <1>2, PowerFacts
<1>4. PowerOfTwo[l + 1] <= PowerOfTwo[a.groupDepth]
  BY <1>1, <1>2, PowersGrow
<1>5. wide \/ PowerOfTwo[l] < UintMax
  BY <1>3, <1>4, DeviceAssumption DEF HasRoom
<1>6. wide \/ PowerOfTwo[l] <= UintMax
  BY <1>3, <1>5, DeviceAssumption
<1>7. Counted(PowerOfTwo[l], wide) = PowerOfTwo[l]
  BY <1>3, <1>6, CountedIs
<1> QED
  BY <1>2, <1>3, <1>5, <1>7

LEMMA DevicePrefixIs ==
  ASSUME NEW a, IsCluster(a), NEW l \in 0 .. a.groupDepth - 1, NEW wide \in BOOLEAN,
         HasRoom(a, wide), NEW packet \in Nat, NEW paths \in 0 .. PowerOfTwo[l]
  PROVE  DevicePrefix(a, l, packet, paths, wide) = PathPrefixBits(a, packet, l, paths)
<1> DEFINE w == PowerOfTwo[l]  m == a.root % w  s == a.root \div w
           span == PowerOfTwo[a.groupDepth - l - 1]
           first == packet * span
           d == DeviceIncluded(l, paths, m, wide)
           i == IncludedLarge(l, paths, m)
<1>1. /\ l \in Nat /\ w \in Nat \ {0} /\ a.root \in Nat
      /\ wide \/ w < UintMax
      /\ Counted(w, wide) = w
  BY RoomForLevel DEF IsCluster
<1>2. m \in Nat /\ s \in Nat /\ s <= a.root
  <2>1. m \in 0 .. w - 1 /\ s \in Nat /\ a.root = s * w + m
    BY <1>1, DivisionFacts
  <2>2. s * 1 <= s * w
    <3> HIDE DEF s, w
    <3> QED
      BY <1>1, <2>1
  <2> HIDE DEF s, w, m
  <2>3. s * w \in Nat
    BY <1>1, <2>1
  <2> QED
    BY <1>1, <2>1, <2>2, <2>3
<1>3. paths \in Nat /\ paths <= w
  BY <1>1
<1>4. Counted(a.root, wide) = a.root
  <2>1. wide \/ a.root <= UintMax
    BY <1>1, DeviceAssumption DEF HasRoom
  <2> QED
    BY <1>1, <2>1, CountedIs
<1>5. Counted(s + 1, wide) = s + 1
  <2> HIDE DEF s
  <2>1. s + 1 \in Nat /\ (wide \/ s + 1 <= UintMax)
    BY <1>1, <1>2, DeviceAssumption DEF HasRoom
  <2> QED
    BY <2>1, CountedIs
<1>6. d = i /\ i <= paths
  <2> HIDE DEF m
  <2>1. wide \/ (paths < UintMax /\ PowerOfTwo[l] <= UintMax)
    <3> HIDE DEF w
    <3>1. wide \/ (paths < UintMax /\ w <= UintMax)
      BY <1>1, <1>3, DeviceAssumption
    <3> QED
      BY <3>1 DEF w
  <2> QED
    BY <1>1, <1>2, <1>3, <2>1, DeviceIncludedIs
<1>7. i \in Nat
  <2> HIDE DEF m
  <2> QED
    BY <1>1, <1>2, <1>3, IncludedType
<1>8. Counted(paths - i, wide) = paths - i
  <2> HIDE DEF i, w
  <2>1. paths - i \in Nat /\ (wide \/ paths - i <= UintMax)
    BY <1>1, <1>3, <1>6, <1>7, DeviceAssumption
  <2> QED
    BY <2>1, CountedIs
<1>9. \A n : DeviceContribution(n, first, span) = Contribution(n, packet, span)
  BY DEF DeviceContribution, Contribution
<1>10. DevicePrefix(a, l, packet, paths, wide)
         = d * DeviceContribution(Counted(s + 1, wide), first, span)
             + Counted(paths - d, wide) * DeviceContribution(s, first, span)
  BY <1>1, <1>4 DEF DevicePrefix
<1>11. PathPrefixBits(a, packet, l, paths)
         = i * Contribution(s + 1, packet, span) + (paths - i) * Contribution(s, packet, span)
  BY DEF PathPrefixBits
<1>12. DeviceContribution(s, first, span) = Contribution(s, packet, span)
  BY <1>9
<1>13. DeviceContribution(s + 1, first, span) = Contribution(s + 1, packet, span)
  BY <1>9
<1> HIDE DEF d, i, s, span, first
<1> QED
  BY <1>5, <1>6, <1>8, <1>10, <1>11, <1>12, <1>13

LEMMA DeviceLevelsIs ==
  ASSUME NEW a, IsCluster(a), NEW wide \in BOOLEAN, HasRoom(a, wide), NEW packet \in Nat,
         a.level \in 0 .. a.groupDepth - 1
  PROVE  DeviceLevels(a, packet, wide) = LevelsBits(a, packet, a.level)
<1> DEFINE n == a.level  D == a.groupDepth
           E(l) == DevicePrefix(a, l, packet, Counted(PowerOfTwo[l], wide), wide)
           IsIt(R) == R = [l \in 0 .. n |-> IF l = 0 THEN 0 ELSE R[l - 1] + E(l - 1)]
           R == CHOOSE R : IsIt(R)
           g == [l \in 0 .. n |-> LevelsBits(a, packet, l)]
<1>1. DeviceLevels(a, packet, wide) = R[n]
  BY DEF DeviceLevels
<1>2. n \in Nat /\ D \in Nat /\ n <= D - 1
  BY DEF IsCluster
<1>3. ASSUME NEW l \in 0 .. D - 1 PROVE E(l) = LevelBits(a, packet, l)
  <2>1. /\ l \in Nat /\ PowerOfTwo[l] \in Nat
        /\ Counted(PowerOfTwo[l], wide) = PowerOfTwo[l]
    BY <1>3, RoomForLevel
  <2>2. PowerOfTwo[l] \in 0 .. PowerOfTwo[l]
    BY <2>1
  <2>3. DevicePrefix(a, l, packet, PowerOfTwo[l], wide)
          = PathPrefixBits(a, packet, l, PowerOfTwo[l])
    BY <1>3, <2>2, DevicePrefixIs
  <2> QED
    BY <2>1, <2>3 DEF LevelBits
<1>4. /\ LevelsBits(a, packet, 0) = 0
      /\ \A l \in 0 .. D - 1 :
           LevelsBits(a, packet, l + 1) = LevelsBits(a, packet, l) + LevelBits(a, packet, l)
  BY LevelsFacts
<1> HIDE DEF E, D, n
<1>5. \A l \in 0 .. n : l # 0 => /\ l - 1 \in 0 .. D - 1 /\ (l - 1) + 1 = l
                                /\ l - 1 \in 0 .. n
  BY <1>2
<1>6. \A l \in 0 .. n : l # 0 =>
        LevelsBits(a, packet, l) = LevelsBits(a, packet, l - 1) + E(l - 1)
  <2> SUFFICES ASSUME NEW l \in 0 .. n, l # 0
      PROVE LevelsBits(a, packet, l) = LevelsBits(a, packet, l - 1) + E(l - 1)
    OBVIOUS
  <2>1. l - 1 \in 0 .. D - 1 /\ (l - 1) + 1 = l
    BY <1>5
  <2>2. E(l - 1) = LevelBits(a, packet, l - 1)
    BY <1>3, <2>1
  <2>3. LevelsBits(a, packet, (l - 1) + 1)
          = LevelsBits(a, packet, l - 1) + LevelBits(a, packet, l - 1)
    BY <1>4, <2>1
  <2> QED
    BY <2>1, <2>2, <2>3
<1>7. IsIt(g)
  <2>1. ASSUME NEW l \in 0 .. n PROVE g[l] = IF l = 0 THEN 0 ELSE g[l - 1] + E(l - 1)
    <3>1. CASE l = 0
      BY <1>4, <3>1
    <3>2. CASE l # 0
      BY <1>5, <1>6, <3>2
    <3> QED
      BY <3>1, <3>2
  <2> QED
    BY <2>1
<1>8. IsIt(R)
  <2> HIDE DEF IsIt
  <2> QED
    BY <1>7
<1>9. \A l \in 0 .. n : R[l] = IF l = 0 THEN 0 ELSE R[l - 1] + E(l - 1)
  BY <1>8
<1> HIDE DEF R, g
<1> DEFINE S == {l \in Nat : l <= n => R[l] = LevelsBits(a, packet, l)}
<1>10. 0 \in S
  BY <1>2, <1>4, <1>9
<1>11. ASSUME NEW l \in Nat, l \in S PROVE l + 1 \in S
  <2> SUFFICES ASSUME l + 1 <= n PROVE R[l + 1] = LevelsBits(a, packet, l + 1)
    OBVIOUS
  <2>1. l + 1 \in 0 .. n /\ l + 1 # 0 /\ (l + 1) - 1 = l /\ l <= n
    BY <1>2
  <2> QED
    BY <1>6, <1>9, <1>11, <2>1
<1>12. Nat \subseteq S
  <2> HIDE DEF S
  <2> QED
    BY <1>10, <1>11, Induction
<1>13. R[n] = LevelsBits(a, packet, n)
  <2>1. n \in S /\ n <= n
    BY <1>2, <1>12
  <2> QED
    BY <2>1
<1> QED
  BY <1>1, <1>13 DEF n

\* The kernels put a switch where SectionAddress has its bit.
LEMMA DeviceBit ==
  ASSUME NEW a, IsAddress(a), a.node > LeafSize, NEW wide \in BOOLEAN, HasRoom(a, wide),
         NEW k \in Nat
  PROVE  DeviceSwitchBit(a, k, wide) = SwitchBit(a, k)
<1>0. a.node \in Nat
  BY AddressFacts
<1>1. IsPlace(a)
  BY <1>0, LeafSizes DEF IsAddress, IsLeafRoot
<1>2. /\ IsCluster(a) /\ a.level \in 0 .. a.groupDepth - 1
      /\ a.path \in 0 .. PowerOfTwo[a.level] - 1
  BY <1>1 DEF IsPlace
<1>3. a.node \in Nat /\ a.level \in Nat /\ a.groupDepth \in Nat /\ PairSpan(a) \in Nat \ {0}
  BY <1>1, PlaceFacts
<1>4. a.node \div 2 # 0
  BY <1>3, LeafSizes
<1>5. TailPacket(a) = (a.node \div 2 - 1) \div PairSpan(a)
  BY <1>4 DEF TailPacket
<1> DEFINE span == PairSpan(a)  p == k \div span  t == (a.node \div 2 - 1) \div span
           full == FullPacketBits(a)
           tail == DeviceLevels(a, p, wide)
                     + DevicePrefix(a, a.level, p, Counted(a.path, wide), wide)
<1>6. Counted(PowerOfTwo[a.groupDepth - a.level - 1], wide) = span
  <2>1. a.groupDepth - a.level - 1 \in 0 .. a.groupDepth - 1
    BY <1>2, <1>3
  <2>2. Counted(PowerOfTwo[a.groupDepth - a.level - 1], wide)
          = PowerOfTwo[a.groupDepth - a.level - 1]
    BY <1>2, <2>1, RoomForLevel
  <2> QED
    BY <2>2 DEF PairSpan
<1>7. Counted(Counted(a.node, wide) \div 2 - 1, wide) = a.node \div 2 - 1
  <2>1. wide \/ a.node <= UintMax
    BY DEF HasRoom
  <2>2. Counted(a.node, wide) = a.node
    BY <1>3, <2>1, CountedIs
  <2>3. a.node \div 2 - 1 \in Nat /\ a.node \div 2 - 1 <= a.node
    BY <1>3, <1>4
  <2>4. wide \/ a.node \div 2 - 1 <= UintMax
    BY <1>3, <2>1, <2>3, DeviceAssumption
  <2>5. Counted(a.node \div 2 - 1, wide) = a.node \div 2 - 1
    BY <2>3, <2>4, CountedIs
  <2> QED
    BY <2>2, <2>5
<1>8. p \in Nat
  <2> HIDE DEF span
  <2>1. span \in Nat \ {0}
    BY <1>3 DEF span
  <2> QED
    BY <2>1, DivisionFacts
<1>9. Counted(a.path, wide) = a.path /\ a.path \in 0 .. PowerOfTwo[a.level]
  <2>1. PowerOfTwo[a.level] \in Nat \ {0} /\ (wide \/ PowerOfTwo[a.level] < UintMax)
    BY <1>2, RoomForLevel
  <2>2. a.path \in Nat /\ a.path < PowerOfTwo[a.level] /\ a.path \in 0 .. PowerOfTwo[a.level]
    BY <1>2, <2>1
  <2>3. wide \/ a.path <= UintMax
    BY <2>1, <2>2, DeviceAssumption
  <2> QED
    BY <2>2, <2>3, CountedIs
<1>10. tail = PacketPrefix(a, p)
  <2> HIDE DEF p
  <2>1. DeviceLevels(a, p, wide) = LevelsBits(a, p, a.level)
    BY <1>2, <1>8, DeviceLevelsIs
  <2>2. DevicePrefix(a, a.level, p, a.path, wide) = PathPrefixBits(a, p, a.level, a.path)
    BY <1>2, <1>8, <1>9, DevicePrefixIs
  <2> QED
    BY <1>9, <2>1, <2>2 DEF PacketPrefix
<1>11. SwitchBit(a, k) = a.base + p * full
         + PacketPrefix(a, IF p = t THEN p ELSE 0) + (k % span)
  BY <1>5 DEF SwitchBit
<1>12. DeviceSwitchBit(a, k, wide) = a.base + p * full
         + (IF p = t THEN tail ELSE PacketPrefix(a, 0)) + (k % span)
  BY <1>6, <1>7 DEF DeviceSwitchBit
<1> HIDE DEF p, t, tail, span, full
<1> QED
  BY <1>10, <1>11, <1>12

\* A network with leaves of two values or more has fewer levels than its values
\* have bits.
LEMMA DepthOfCount ==
  \A n \in Nat \ {0} : PowerOfTwo[RoutingDepth(n)] <= n
<1> DEFINE Good(n) == n > LeafSize => PowerOfTwo[RoutingDepth(n)] < n
           S == {b \in Nat : \A n \in 0 .. b : Good(n)}
<1>1. 0 \in S
  <2>1. \A n \in 0 .. 0 : n = 0 /\ ~(n > LeafSize)
    BY LeafSizes
  <2> QED
    BY <2>1
<1>2. ASSUME NEW b \in Nat, b \in S PROVE b + 1 \in S
  <2> SUFFICES ASSUME NEW n \in 0 .. b + 1, n > LeafSize
               PROVE  PowerOfTwo[RoutingDepth(n)] < n
    OBVIOUS
  <2> DEFINE l == LeftCount(n)  r == RoutingDepth(l)
  <2>1. n \in Nat /\ n > 2 /\ LeafSize \in Nat /\ LeafSize >= 2
    BY LeafSizes
  <2>2. l \in Nat /\ l \in 0 .. b /\ 2 * l <= n + 1
    BY <2>1 DEF LeftCount
  <2>3. r \in Nat /\ RoutingDepth(n) = 1 + r /\ (l <= LeafSize => r = 0)
    BY <2>1, <2>2, RoutingDepthFacts
  <2> HIDE DEF l, r
  <2>4. /\ PowerOfTwo[r] \in Nat /\ PowerOfTwo[RoutingDepth(n)] = 2 * PowerOfTwo[r]
        /\ PowerOfTwo[0] = 1
    <3>1. 1 + r = r + 1
      BY <2>3
    <3> QED
      BY <2>3, <3>1, PowerFacts
  <2>5. CASE l <= LeafSize
    BY <2>1, <2>3, <2>4, <2>5
  <2>6. CASE l > LeafSize
    <3>1. PowerOfTwo[r] < l
      BY <1>2, <2>2, <2>6 DEF r
    <3> QED
      BY <2>1, <2>2, <2>4, <3>1
  <2> QED
    BY <2>1, <2>2, <2>5, <2>6
<1>3. Nat \subseteq S
  <2> HIDE DEF S
  <2> QED
    BY <1>1, <1>2, Induction
<1> SUFFICES ASSUME NEW n \in Nat \ {0} PROVE PowerOfTwo[RoutingDepth(n)] <= n
  OBVIOUS
<1>4. RoutingDepth(n) \in Nat /\ (n <= LeafSize => RoutingDepth(n) = 0)
  BY RoutingDepthFacts
<1>5. PowerOfTwo[RoutingDepth(n)] \in Nat /\ PowerOfTwo[0] = 1
  BY <1>4, PowerFacts
<1>6. CASE n <= LeafSize
  BY <1>4, <1>5, <1>6
<1>7. CASE ~(n <= LeafSize)
  <2>1. n \in S /\ n \in 0 .. n /\ n > LeafSize
    BY <1>3, <1>7, LeafSizes
  <2>2. PowerOfTwo[RoutingDepth(n)] < n
    BY <2>1
  <2> QED
    BY <1>5, <2>2
<1> QED
  BY <1>6, <1>7

LEMMA SumsGrow ==
  ASSUME NEW s, ValidList(s), NEW m \in 1 .. Len(s)
  PROVE  s[m] <= SumOf(s)
<1> DEFINE n == Len(s)  f == Sums(s)
<1>1. /\ n \in Nat /\ s \in [1 .. n -> Nat \ {0}] /\ SumOf(s) = f[n]
      /\ \A i \in Nat : f[i] \in Nat
      /\ \A i \in 1 .. n : f[i] = s[i] + f[i - 1]
  BY SumsFacts
<1> HIDE DEF n, f
<1> DEFINE S == {k \in Nat : m <= k /\ k <= n => s[m] <= f[k]}
<1>2. m \in Nat /\ m \in 1 .. n /\ s[m] \in Nat
  BY <1>1 DEF n
<1>3. 0 \in S
  BY <1>2
<1>4. ASSUME NEW k \in Nat, k \in S PROVE k + 1 \in S
  <2> SUFFICES ASSUME m <= k + 1, k + 1 <= n PROVE s[m] <= f[k + 1]
    OBVIOUS
  <2>1. k + 1 \in 1 .. n /\ (k + 1) - 1 = k /\ k <= n
    BY <1>1
  <2>2. f[k + 1] = s[k + 1] + f[k] /\ f[k] \in Nat /\ s[k + 1] \in Nat
    BY <1>1, <2>1
  <2>3. CASE m = k + 1
    BY <1>2, <2>2, <2>3
  <2>4. CASE m # k + 1
    <3>1. m <= k
      BY <1>2, <2>4
    <3>2. s[m] <= f[k]
      BY <1>4, <2>1, <3>1
    <3> QED
      BY <1>2, <2>2, <3>2
  <2> QED
    BY <2>3, <2>4
<1>5. Nat \subseteq S
  <2> HIDE DEF S
  <2> QED
    BY <1>3, <1>4, Induction
<1>6. n \in S /\ m <= n /\ n <= n
  BY <1>1, <1>2, <1>5
<1>7. s[m] <= f[n]
  BY <1>6
<1> QED
  BY <1>1, <1>7

\* The sizes an address stands for are no larger than a count.
Within(a, count) == a.root <= count /\ a.node <= count

LEMMA ChildWithin ==
  ASSUME NEW a, IsAddress(a), a.node > LeafSize, NEW count \in Nat, Within(a, count),
         NEW right \in BOOLEAN
  PROVE  Within(Child(a, right, a.node), count)
<1> DEFINE n == a.node  m == ChildCount(right, n)
<1>1. a \in Addresses /\ n \in Nat /\ n > LeafSize
  BY AddressFacts
<1>2. m \in 1 .. n - 1
  BY <1>1, ChildCounts
<1>3. a.root <= count /\ n <= count
  BY DEF Within
<1>4. m <= count
  BY <1>1, <1>2, <1>3
<1>5. CASE a.groupDepth - a.level > 1
  <2>1. InnerChild(a, right, n).root = a.root /\ InnerChild(a, right, n).node = m
    BY <1>1, InnerChildIs
  <2>2. Child(a, right, n) = InnerChild(a, right, n)
    BY <1>5 DEF Child
  <2> HIDE DEF n, m
  <2> QED
    BY <1>3, <1>4, <2>1, <2>2 DEF Within, n
<1>6. CASE ~(a.groupDepth - a.level > 1)
  <2>1. OuterChild(a, right, n).root = m /\ OuterChild(a, right, n).node = m
    BY <1>1, OuterChildIs
  <2>2. Child(a, right, n) = OuterChild(a, right, n)
    BY <1>6 DEF Child
  <2> HIDE DEF n, m
  <2> QED
    BY <1>4, <2>1, <2>2 DEF Within, n
<1> QED
  BY <1>5, <1>6

\* Up to the count the 32-bit kernels take, every address has room.
LEMMA RoomForAll ==
  ASSUME NEW count \in Nat \ {0}, NEW wide \in BOOLEAN,
         wide \/ count <= UintMax \div 2,
         NEW s, ValidList(s), SumOf(s) = RoutingDepth(count),
         NEW a, Fits(a, s), a.node > LeafSize, Within(a, count)
  PROVE  HasRoom(a, wide)
<1> SUFFICES ASSUME ~wide PROVE HasRoom(a, wide)
  BY DEF HasRoom
<1>1. IsAddress(a) /\ a.index \in 1 .. Len(s) /\ a.groupDepth = s[a.index]
  BY DEF Fits
<1>2. a.root \in Nat /\ a.node \in Nat /\ a.groupDepth \in Nat
  BY <1>1, AddressFacts
<1>3. RoutingDepth(count) \in Nat /\ a.groupDepth \in 0 .. RoutingDepth(count)
  <2>1. a.groupDepth <= RoutingDepth(count)
    BY <1>1, SumsGrow
  <2>2. RoutingDepth(count) \in Nat
    BY RoutingDepthFacts
  <2> QED
    BY <1>2, <2>1, <2>2
<1>4. PowerOfTwo[a.groupDepth] <= PowerOfTwo[RoutingDepth(count)]
  BY <1>3, PowersGrow
<1>5. PowerOfTwo[RoutingDepth(count)] <= count
  BY DepthOfCount
<1>6. PowerOfTwo[a.groupDepth] \in Nat /\ PowerOfTwo[RoutingDepth(count)] \in Nat
  BY <1>2, <1>3, PowerFacts
<1>7. count < UintMax /\ UintMax \in Nat /\ a.root <= count /\ a.node <= count
  BY DeviceAssumption DEF Within
<1>8. a.root < UintMax /\ a.node <= UintMax /\ PowerOfTwo[a.groupDepth] <= UintMax
  BY <1>2, <1>4, <1>5, <1>6, <1>7
<1> QED
  BY <1>8 DEF HasRoom

-----------------------------------------------------------------------------
(* What an encoder writes for a node.  BenesNodeProofs speaks of one Count.  *)
(* Exception is a size for which the facts would fail, if there is one, so   *)
(* that what holds for it as Count holds for every size.                     *)

NodeIsRouted(n) ==
  \A p \in Node(n)!Permutations :
    /\ \E c \in Node(n)!Colorings : Node(n)!IsCanonical(Node(n)!InverseOf(p), c)
    /\ Node(n)!InverseOf(p) \in [Node(n)!Index -> Node(n)!Index]
    /\ \A o \in Node(n)!Index : p[Node(n)!InverseOf(p)[o]] = o
    /\ \A x \in Node(n)!Index : Node(n)!InverseOf(p)[p[x]] = x
    /\ \A c \in Node(n)!Colorings :
         /\ Node(n)!Proper(Node(n)!InverseOf(p), c)
         /\ \A e \in Node(n)!OddEnds(Node(n)!InverseOf(p)) : c[e] = 0
         => Node(n)!IsSplit(Node(n)!Writes(p, c))

Exception == CHOOSE n \in Nat \ {0} : ~NodeIsRouted(n)

Worst == INSTANCE BenesNodeProofs WITH Count <- Exception

LEMMA EveryNodeIsRouted ==
  ASSUME NEW n \in Nat \ {0}
  PROVE  NodeIsRouted(n)
<1> SUFFICES ASSUME ~NodeIsRouted(n) PROVE FALSE
  OBVIOUS
<1>1. Exception \in Nat \ {0} /\ ~NodeIsRouted(Exception)
  BY Zenon DEF Exception
<1>2. \A p \in Worst!Permutations :
        \E c \in Worst!Colorings : Worst!IsCanonical(Worst!InverseOf(p), c)
  BY <1>1, Worst!CanonicalExists
<1>3. \A p \in Worst!Permutations :
        /\ Worst!InverseOf(p) \in [Worst!Index -> Worst!Index]
        /\ \A o \in Worst!Index : p[Worst!InverseOf(p)[o]] = o
        /\ \A x \in Worst!Index : Worst!InverseOf(p)[p[x]] = x
  BY <1>1, Worst!InverseType
<1>4. \A p \in Worst!Permutations : \A c \in Worst!Colorings :
        /\ Worst!Proper(Worst!InverseOf(p), c)
        /\ \A e \in Worst!OddEnds(Worst!InverseOf(p)) : c[e] = 0
        => Worst!IsSplit(Worst!Writes(p, c))
  BY <1>1, Worst!ProperSplits
<1>5. NodeIsRouted(Exception)
  BY <1>2, <1>3, <1>4, Zenon
     DEF NodeIsRouted, Node!Permutations, Worst!Permutations, Node!Colorings, Worst!Colorings,
         Node!IsCanonical, Worst!IsCanonical, Node!InverseOf, Worst!InverseOf,
         Node!Index, Worst!Index, Node!Bit, Worst!Bit, Node!Proper, Worst!Proper,
         Node!Leaders, Worst!Leaders, Node!LeftEnd, Worst!LeftEnd,
         Node!RightEnd, Worst!RightEnd, Node!Pair, Worst!Pair, Node!OddEnds, Worst!OddEnds,
         Node!Odd, Worst!Odd, Node!Unpaired, Worst!Unpaired, Node!Tied, Worst!Tied,
         Node!Xor, Worst!Xor, Node!ProperColorings, Worst!ProperColorings,
         Node!IsSplit, Worst!IsSplit, Node!Writes, Worst!Writes,
         Node!ChildSize, Worst!ChildSize
<1> QED
  BY <1>1, <1>5

\* Two values that an edge of the constraints joins.
Joins(inv, n, x, y) ==
  \E pair \in Node(n)!Pair, number \in {1, 2} :
    {x, y} = {Node(n)!LeftEnd(inv, pair, number), Node(n)!RightEnd(inv, pair, number)}

\* The proper colourings of the first values.
ProperUpto(inv, n, x) ==
  {c \in [0 .. x - 1 -> {0, 1}] :
     \A z \in 0 .. x - 1 : \A y \in 0 .. z - 1 : Joins(inv, n, z, y) => c[y] # c[z]}

OneMoreColor(inv, n, x, before) ==
  {[y \in 0 .. x - 1 |-> IF y = x - 1 THEN w[2] ELSE w[1][y]] :
     w \in {v \in before \X {0, 1} :
              \A y \in {y \in 0 .. x - 2 : Joins(inv, n, x - 1, y)} : v[1][y] # v[2]}}

LEMMA ProperStep ==
  ASSUME NEW inv, NEW n, NEW x \in Nat \ {0}
  PROVE  OneMoreColor(inv, n, x, ProperUpto(inv, n, x - 1)) = ProperUpto(inv, n, x)
<1> DEFINE before == ProperUpto(inv, n, x - 1)
           longer(w) == [y \in 0 .. x - 1 |-> IF y = x - 1 THEN w[2] ELSE w[1][y]]
<1>1. ASSUME NEW w \in before \X {0, 1},
             \A y \in {y \in 0 .. x - 2 : Joins(inv, n, x - 1, y)} : w[1][y] # w[2]
      PROVE  longer(w) \in ProperUpto(inv, n, x)
  <2> DEFINE c == longer(w)
  <2>1. /\ w[1] \in [0 .. x - 2 -> {0, 1}] /\ w[2] \in {0, 1}
        /\ \A z \in 0 .. x - 2 : \A y \in 0 .. z - 1 :
             Joins(inv, n, z, y) => w[1][y] # w[1][z]
    <3>1. (x - 1) - 1 = x - 2
      OBVIOUS
    <3> QED
      BY <3>1 DEF ProperUpto
  <2>2. /\ c \in [0 .. x - 1 -> {0, 1}] /\ c[x - 1] = w[2]
        /\ \A y \in 0 .. x - 2 : c[y] = w[1][y]
    BY <2>1
  <2> HIDE DEF c
  <2>3. ASSUME NEW z \in 0 .. x - 1, NEW y \in 0 .. z - 1, Joins(inv, n, z, y)
        PROVE  c[y] # c[z]
    <3>1. CASE z = x - 1
      BY <3>1, <2>2, <2>3, <1>1
    <3>2. CASE z # x - 1
      <4>1. z \in 0 .. x - 2 /\ y \in 0 .. x - 2
        BY <3>2
      <4> QED
        BY <4>1, <2>1, <2>2, <2>3
    <3> QED
      BY <3>1, <3>2
  <2> QED
    BY <2>2, <2>3 DEF ProperUpto, c
<1>2. ASSUME NEW c \in ProperUpto(inv, n, x)
      PROVE  \E w \in before \X {0, 1} :
               /\ \A y \in {y \in 0 .. x - 2 : Joins(inv, n, x - 1, y)} : w[1][y] # w[2]
               /\ c = longer(w)
  <2> DEFINE d == [y \in 0 .. x - 2 |-> c[y]]
             w == <<d, c[x - 1]>>
  <2>1. /\ c \in [0 .. x - 1 -> {0, 1}]
        /\ \A z \in 0 .. x - 1 : \A y \in 0 .. z - 1 : Joins(inv, n, z, y) => c[y] # c[z]
    BY DEF ProperUpto
  <2>2. d \in [0 .. (x - 1) - 1 -> {0, 1}] /\ \A y \in 0 .. x - 2 : d[y] = c[y]
    <3>1. (x - 1) - 1 = x - 2 /\ 0 .. x - 2 \subseteq 0 .. x - 1
      OBVIOUS
    <3> QED
      BY <2>1, <3>1
  <2> HIDE DEF d
  <2>3. \A z \in 0 .. (x - 1) - 1 : \A y \in 0 .. z - 1 :
          Joins(inv, n, z, y) => d[y] # d[z]
    <3> SUFFICES ASSUME NEW z \in 0 .. (x - 1) - 1, NEW y \in 0 .. z - 1, Joins(inv, n, z, y)
                 PROVE  d[y] # d[z]
      OBVIOUS
    <3>1. z \in 0 .. x - 1 /\ z \in 0 .. x - 2 /\ y \in 0 .. x - 2
      OBVIOUS
    <3> QED
      BY <3>1, <2>1, <2>2
  <2>4. w \in before \X {0, 1} /\ w[1] = d /\ w[2] = c[x - 1]
    <3>1. x - 1 \in 0 .. x - 1
      OBVIOUS
    <3> QED
      BY <2>1, <2>2, <2>3, <3>1 DEF ProperUpto
  <2> HIDE DEF w
  <2>5. c = longer(w)
    <3>1. \A y \in 0 .. x - 1 : y # x - 1 => y \in 0 .. x - 2
      OBVIOUS
    <3> QED
      BY <2>1, <2>2, <2>4, <3>1
  <2>6. \A y \in 0 .. x - 2 : Joins(inv, n, x - 1, y) => w[1][y] # w[2]
    <3>1. x - 1 \in 0 .. x - 1 /\ \A y \in 0 .. x - 2 : y \in 0 .. (x - 1) - 1
      OBVIOUS
    <3> QED
      BY <2>1, <2>2, <2>4, <3>1
  <2> QED
    BY <2>4, <2>5, <2>6
<1> DEFINE fit(w) == \A y \in {y \in 0 .. x - 2 : Joins(inv, n, x - 1, y)} : w[1][y] # w[2]
<1>3. OneMoreColor(inv, n, x, before) = {longer(w) : w \in {v \in before \X {0, 1} : fit(v)}}
  BY Zenon DEF OneMoreColor
<1>4. \A w \in before \X {0, 1} : fit(w) => longer(w) \in ProperUpto(inv, n, x)
  BY <1>1
<1>5. \A c \in ProperUpto(inv, n, x) : \E w \in before \X {0, 1} : fit(w) /\ c = longer(w)
  BY <1>2
<1> HIDE DEF longer, fit
<1>6. {longer(w) : w \in {v \in before \X {0, 1} : fit(v)}} = ProperUpto(inv, n, x)
  BY <1>4, <1>5
<1> QED
  BY <1>3, <1>6

LEMMA ProperExists ==
  ASSUME NEW inv, NEW n \in Nat, NEW Below,
         Below = CHOOSE G : G = [x \in 0 .. n |->
                   IF x = 0 THEN [{} -> {0, 1}] ELSE OneMoreColor(inv, n, x, G[x - 1])]
  PROVE  Below[n] = ProperUpto(inv, n, n)
<1> DEFINE G == [x \in 0 .. n |-> ProperUpto(inv, n, x)]
<1>1. ProperUpto(inv, n, 0) = [{} -> {0, 1}]
  <2>1. 0 .. 0 - 1 = {}
    OBVIOUS
  <2> QED
    BY <2>1 DEF ProperUpto
<1>2. G = [x \in 0 .. n |->
             IF x = 0 THEN [{} -> {0, 1}] ELSE OneMoreColor(inv, n, x, G[x - 1])]
  <2> SUFFICES ASSUME NEW x \in 0 .. n
               PROVE  G[x] = IF x = 0 THEN [{} -> {0, 1}]
                             ELSE OneMoreColor(inv, n, x, G[x - 1])
    BY Zenon
  <2>1. CASE x = 0
    BY <2>1, <1>1
  <2>2. CASE x # 0
    <3>1. x \in Nat \ {0} /\ x - 1 \in 0 .. n
      BY <2>2
    <3> QED
      BY <3>1, <2>2, ProperStep
  <2> QED
    BY <2>1, <2>2
<1> HIDE DEF G
<1>3. Below = [x \in 0 .. n |->
             IF x = 0 THEN [{} -> {0, 1}] ELSE OneMoreColor(inv, n, x, Below[x - 1])]
  BY <1>2, Zenon
<1> DEFINE S == {x \in Nat : x \in 0 .. n => Below[x] = ProperUpto(inv, n, x)}
<1>4. 0 \in S
  BY <1>1, <1>3
<1>5. ASSUME NEW k \in Nat, k \in S
      PROVE  k + 1 \in S
  <2> SUFFICES ASSUME k + 1 \in 0 .. n
               PROVE  Below[k + 1] = ProperUpto(inv, n, k + 1)
    OBVIOUS
  <2>1. k \in 0 .. n /\ (k + 1) - 1 = k /\ k + 1 # 0 /\ k + 1 \in Nat \ {0}
    OBVIOUS
  <2>2. Below[k + 1] = OneMoreColor(inv, n, k + 1, Below[k])
    BY <1>3, <2>1
  <2>3. Below[k] = ProperUpto(inv, n, k)
    BY <1>5, <2>1
  <2>4. OneMoreColor(inv, n, k + 1, ProperUpto(inv, n, (k + 1) - 1)) = ProperUpto(inv, n, k + 1)
    BY <2>1, ProperStep
  <2> QED
    BY <2>1, <2>2, <2>3, <2>4
<1> HIDE DEF S
<1>6. n \in S
  BY <1>4, <1>5, Induction
<1> QED
  BY <1>6 DEF S

LEMMA ProperColoringsAre ==
  ASSUME NEW n \in Nat \ {0}, NEW inv \in [0 .. n - 1 -> 0 .. n - 1],
         \A x, y \in 0 .. n - 1 : inv[x] = inv[y] => x = y
  PROVE  ProperColorings(inv, n) = Node(n)!ProperColorings(inv)
<1>1. ProperColorings(inv, n) = ProperUpto(inv, n, n)
  <2> DEFINE B == CHOOSE G : G = [x \in 0 .. n |->
                   IF x = 0 THEN [{} -> {0, 1}] ELSE OneMoreColor(inv, n, x, G[x - 1])]
  <2>1. B[n] = ProperUpto(inv, n, n)
    BY ProperExists
  <2>2. ProperColorings(inv, n) = B[n]
    BY Zenon DEF ProperColorings, OneMoreColor, Joins
  <2> QED
    BY <2>1, <2>2
<1>2. ASSUME NEW pair \in Node(n)!Pair, NEW number \in {1, 2}
      PROVE  LET l == Node(n)!LeftEnd(inv, pair, number)
                 r == Node(n)!RightEnd(inv, pair, number)
             IN  l \in 0 .. n - 1 /\ r \in 0 .. n - 1 /\ l # r
  <2>1. /\ pair \in Nat
        /\ 2 * pair \in 0 .. n - 1 /\ 2 * pair + 1 \in 0 .. n - 1
        /\ 2 * pair # 2 * pair + 1
    BY DEF Node!Pair
  <2> QED
    BY <2>1 DEF Node!LeftEnd, Node!RightEnd
<1>3. ASSUME NEW c \in [0 .. n - 1 -> {0, 1}]
      PROVE  c \in ProperUpto(inv, n, n) <=> Node(n)!Proper(inv, c)
  <2>1. ASSUME c \in ProperUpto(inv, n, n)
        PROVE  Node(n)!Proper(inv, c)
    <3> SUFFICES ASSUME NEW pair \in Node(n)!Pair, NEW number \in {1, 2}
                 PROVE  c[Node(n)!LeftEnd(inv, pair, number)]
                          # c[Node(n)!RightEnd(inv, pair, number)]
      BY DEF Node!Proper
    <3> DEFINE l == Node(n)!LeftEnd(inv, pair, number)
               r == Node(n)!RightEnd(inv, pair, number)
    <3>1. l \in 0 .. n - 1 /\ r \in 0 .. n - 1 /\ l # r
      BY <1>2
    <3>2. Joins(inv, n, l, r) /\ Joins(inv, n, r, l)
      <4>1. {l, r} = {r, l}
        OBVIOUS
      <4>2. Joins(inv, n, l, r)
        BY Zenon DEF Joins
      <4>3. Joins(inv, n, r, l)
        BY <4>1, Zenon DEF Joins
      <4> QED
        BY <4>2, <4>3
    <3> HIDE DEF l, r
    <3>3. l \in 0 .. r - 1 \/ r \in 0 .. l - 1
      BY <3>1
    <3>4. c[l] # c[r]
      BY <2>1, <3>1, <3>2, <3>3 DEF ProperUpto
    <3> QED
      BY <3>4 DEF l, r
  <2>2. ASSUME Node(n)!Proper(inv, c),
               NEW z \in 0 .. n - 1, NEW y \in 0 .. z - 1, Joins(inv, n, z, y)
        PROVE  c[y] # c[z]
    <3>1. PICK pair \in Node(n)!Pair, number \in {1, 2} :
            {z, y} = {Node(n)!LeftEnd(inv, pair, number),
                      Node(n)!RightEnd(inv, pair, number)}
      BY <2>2 DEF Joins
    <3>2. c[Node(n)!LeftEnd(inv, pair, number)] # c[Node(n)!RightEnd(inv, pair, number)]
      BY <2>2 DEF Node!Proper
    <3> QED
      BY <3>1, <3>2, Zenon
  <2> QED
    BY <2>1, <2>2 DEF ProperUpto
<1>4. \A c \in ProperUpto(inv, n, n) : c \in [0 .. n - 1 -> {0, 1}]
  BY DEF ProperUpto
<1>5. Node(n)!ProperColorings(inv)
        = {c \in [0 .. n - 1 -> {0, 1}] : Node(n)!Proper(inv, c)}
  BY Zenon DEF Node!ProperColorings, Node!Colorings, Node!Index, Node!Bit
<1> QED
  BY <1>1, <1>3, <1>4, <1>5

\* The colouring of a node, and what it makes of a permutation.
LEMMA NodePermutations ==
  ASSUME NEW n \in Nat \ {0}, NEW p \in Orders(n)
  PROVE  /\ p \in Node(n)!Permutations /\ Node(n)!Index = 0 .. n - 1
         /\ p \in [0 .. n - 1 -> 0 .. n - 1]
         /\ \A x, y \in 0 .. n - 1 : p[x] = p[y] => x = y
         /\ Node(n)!InverseOf(p) \in [0 .. n - 1 -> 0 .. n - 1]
         /\ \A o \in 0 .. n - 1 : p[Node(n)!InverseOf(p)[o]] = o
         /\ \A x \in 0 .. n - 1 : Node(n)!InverseOf(p)[p[x]] = x
<1>1. p \in Node(n)!Permutations /\ Node(n)!Index = 0 .. n - 1
  BY DEF Orders, Node!Permutations, Node!Index
<1>2. NodeIsRouted(n)
  BY EveryNodeIsRouted
<1> QED
  BY <1>1, <1>2 DEF NodeIsRouted, Orders

LEMMA ColoringFacts ==
  ASSUME NEW n \in Nat \ {0}, NEW p \in Orders(n)
  PROVE  LET c   == Coloring(p, n)
             inv == Node(n)!InverseOf(p)
         IN  /\ c \in [0 .. n - 1 -> {0, 1}]
             /\ \A k \in 0 .. n \div 2 - 1 : /\ c[2 * k] # c[2 * k + 1]
                                             /\ c[inv[2 * k]] # c[inv[2 * k + 1]]
             /\ n % 2 = 1 => c[n - 1] = 0 /\ c[inv[n - 1]] = 0
             /\ Node(n)!IsSplit(Node(n)!Writes(p, c))
<1> DEFINE c == Coloring(p, n)
           inv == Node(n)!InverseOf(p)
           proper == ProperColorings(inv, n)
<1>1. /\ p \in Node(n)!Permutations /\ Node(n)!Index = 0 .. n - 1
      /\ inv \in [0 .. n - 1 -> 0 .. n - 1]
      /\ \A x, y \in 0 .. n - 1 : inv[x] = inv[y] => x = y
  <2>1. \A o \in 0 .. n - 1 : p[inv[o]] = o
    BY NodePermutations
  <2> QED
    BY <2>1, NodePermutations
<1>2. proper = Node(n)!ProperColorings(inv)
  BY <1>1, ProperColoringsAre
<1>3. NodeIsRouted(n)
  BY EveryNodeIsRouted
<1>4. PICK c0 \in Node(n)!Colorings : Node(n)!IsCanonical(inv, c0)
  BY <1>1, <1>3 DEF NodeIsRouted
<1>5. c0 \in proper /\ \A x \in Node(n)!Leaders(inv, proper) : c0[x] = 0
  BY <1>2, <1>4 DEF Node!IsCanonical, Node!ProperColorings
<1>6. c = CHOOSE d \in proper : \A x \in Node(n)!Leaders(inv, proper) : d[x] = 0
  BY Zenon DEF Coloring, CanonicalColoring
<1> HIDE DEF c, proper
<1>7. c \in proper /\ \A x \in Node(n)!Leaders(inv, proper) : c[x] = 0
  BY <1>5, <1>6, Zenon
<1>8. c \in Node(n)!Colorings /\ Node(n)!Proper(inv, c)
  BY <1>2, <1>7 DEF Node!ProperColorings
<1>9. \A e \in Node(n)!OddEnds(inv) : c[e] = 0
  BY <1>7 DEF Node!Leaders
<1>10. Node(n)!IsSplit(Node(n)!Writes(p, c))
  BY <1>1, <1>3, <1>8, <1>9 DEF NodeIsRouted
<1>11. c \in [0 .. n - 1 -> {0, 1}]
  BY <1>8 DEF Node!Colorings, Node!Index, Node!Bit
<1>12. ASSUME NEW k \in 0 .. n \div 2 - 1
       PROVE  c[2 * k] # c[2 * k + 1] /\ c[inv[2 * k]] # c[inv[2 * k + 1]]
  <2>1. k \in Node(n)!Pair /\ 1 \in {1, 2} /\ 2 \in {1, 2} /\ ~(2 = 1)
    BY DEF Node!Pair
  <2>2. \A number \in {1, 2} :
          c[Node(n)!LeftEnd(inv, k, number)] # c[Node(n)!RightEnd(inv, k, number)]
    BY <1>8, <2>1 DEF Node!Proper
  <2> QED
    BY <2>1, <2>2, Zenon DEF Node!LeftEnd, Node!RightEnd
<1>13. n % 2 = 1 => c[n - 1] = 0 /\ c[inv[n - 1]] = 0
  BY <1>9 DEF Node!OddEnds, Node!Odd, Node!Unpaired
<1> QED
  BY <1>10, <1>11, <1>12, <1>13 DEF c

LEMMA ChildOrderFacts ==
  ASSUME NEW n \in Nat \ {0}, NEW p \in Orders(n), NEW right \in BOOLEAN
  PROVE  LET c == Coloring(p, n)
             d == ChildOrder(p, n, c, right)
         IN  /\ d \in Orders(ChildCount(right, n))
             /\ \A x \in 0 .. n - 1 : c[x] = (IF right THEN 1 ELSE 0) =>
                  /\ x \div 2 \in 0 .. ChildCount(right, n) - 1
                  /\ d[x \div 2] = p[x] \div 2
<1> DEFINE c == Coloring(p, n)
           d == ChildOrder(p, n, c, right)
           child == IF right THEN 1 ELSE 0
           mine == {w \in Node(n)!Writes(p, c) : w[1] = child}
           slot == 0 .. ChildCount(right, n) - 1
<1>1. Node(n)!IsSplit(Node(n)!Writes(p, c))
  BY ColoringFacts
<1>2. slot = 0 .. Node(n)!ChildSize(child) - 1 /\ child \in {0, 1}
  BY DEF ChildCount, LeftCount, RightCount, Node!ChildSize
<1>3. d = [s \in slot |-> (CHOOSE w \in mine : w[2] = s)[3]]
  BY Zenon DEF ChildOrder
<1> HIDE DEF c, d, slot
<1>4. /\ \A s \in slot : \E w \in mine : w[2] = s
      /\ \A w \in mine : w[2] \in slot /\ w[3] \in slot
      /\ \A v, w \in mine : v[2] = w[2] <=> v[3] = w[3]
  BY <1>1, <1>2, Zenon DEF Node!IsSplit, Node!Bit
<1> HIDE DEF mine, child
<1>5. \A w \in mine : d[w[2]] = w[3]
  <2> SUFFICES ASSUME NEW w \in mine
               PROVE  d[w[2]] = w[3]
    OBVIOUS
  <2> DEFINE v == CHOOSE v \in mine : v[2] = w[2]
  <2>1. v \in mine /\ v[2] = w[2]
    OBVIOUS
  <2>2. d[w[2]] = v[3]
    BY <1>3, <1>4
  <2> HIDE DEF v
  <2> QED
    BY <2>1, <2>2, <1>4
<1>6. d \in Orders(ChildCount(right, n))
  <2>1. \A s \in slot : \E w \in mine : w[2] = s /\ d[s] = w[3] /\ d[s] \in slot
    BY <1>4, <1>5
  <2>2. d \in [slot -> slot]
    BY <2>1, <1>3
  <2>3. ASSUME NEW s \in slot, NEW t \in slot, d[s] = d[t]
        PROVE  s = t
    BY <2>1, <2>3, <1>4
  <2> QED
    BY <2>2, <2>3 DEF Orders, slot
<1>7. ASSUME NEW x \in 0 .. n - 1, c[x] = child
      PROVE  x \div 2 \in slot /\ d[x \div 2] = p[x] \div 2
  <2> DEFINE w == <<c[x], x \div 2, p[x] \div 2>>
  <2>1. w \in Node(n)!Writes(p, c)
    <3>1. x \in Node(n)!Index
      BY DEF Node!Index
    <3> QED
      BY <3>1, Zenon DEF Node!Writes
  <2>2. w[1] = c[x] /\ w[2] = x \div 2 /\ w[3] = p[x] \div 2
    OBVIOUS
  <2> HIDE DEF w
  <2>3. w \in mine
    BY <2>1, <2>2, <1>7, Zenon DEF mine
  <2> QED
    BY <2>2, <2>3, <1>4, <1>5
<1> QED
  BY <1>6, <1>7 DEF c, d, slot, child

-----------------------------------------------------------------------------
(* The calls of an encoding.  Space is the part of a section that belongs to *)
(* a call and to those it makes; Mine is what the call itself keeps of it.   *)

IsFormat(form) ==
  /\ form.count \in Nat \ {0}
  /\ form.input \in ClusterLists(RoutingDepth(form.count))
  /\ form.output \in ClusterLists(RoutingDepth(form.count))
  /\ form.placement \in {"separate", "input", "output"}

GoodCall(call, form) ==
  /\ call.count \in Nat \ {0}
  /\ call.order \in Orders(call.count)
  /\ Fits(call.in, form.input) /\ call.in.node = call.count
  /\ Fits(call.out, form.output) /\ call.out.node = call.count
  /\ call.in.embeds = (form.placement = "input")
  /\ call.out.embeds = (form.placement = "output")
  /\ call.middle \in Nat
  /\ Within(call.in, form.count) /\ Within(call.out, form.count)
  /\ call.count > LeafSize => call.colors = Coloring(call.order, call.count)

Sides == {"input", "output", "middle"}

Space(call, side) ==
  CASE side = "input"  -> Region(call.in)
    [] side = "output" -> Region(call.out)
    [] side = "middle" -> call.middle .. call.middle + MiddleBits(call.count) - 1

Mine(call, side) ==
  CASE side = "input"  -> OwnBits(call.in)
    [] side = "output" -> OwnBits(call.out)
    [] side = "middle" -> {}

LEMMA CallIs ==
  ASSUME NEW p, NEW n, NEW a, NEW b, NEW m
  PROVE  LET call == CallFor(p, n, a, b, m)
         IN  /\ call.order = p /\ call.count = n /\ call.in = a /\ call.out = b
             /\ call.middle = m
             /\ ~(n <= LeafSize) => call.colors = Coloring(p, n)
BY DEF CallFor

LEMMA FormatLists ==
  ASSUME NEW form, IsFormat(form)
  PROVE  ValidList(form.input) /\ ValidList(form.output)
<1>1. form.count \in Nat /\ TRUE \in BOOLEAN
  BY DEF IsFormat
<1> QED
  BY <1>1, RootFits DEF IsFormat

LEMMA RootIsGood ==
  ASSUME NEW form, IsFormat(form), NEW p \in Orders(form.count)
  PROVE  GoodCall(RootCall(p, form), form)
<1> DEFINE a == RootOf(form, form.input, "input")
           b == RootOf(form, form.output, "output")
           n == form.count
           call == RootCall(p, form)
<1>1. n \in Nat \ {0} /\ n \in Nat /\ 0 \in Nat
  BY DEF IsFormat
<1>2. /\ Fits(a, form.input) /\ a.node = n /\ a.embeds = (form.placement = "input")
      /\ Fits(b, form.output) /\ b.node = n /\ b.embeds = (form.placement = "output")
  <2>1. (form.placement = "input") \in BOOLEAN /\ (form.placement = "output") \in BOOLEAN
    OBVIOUS
  <2> QED
    BY <1>1, <2>1, RootFits DEF IsFormat, RootOf
<1>3. call = CallFor(p, n, a, b, 0)
  BY Zenon DEF RootCall
<1> HIDE DEF a, b, call
<1>4. LeafSize \in Nat
  BY LeafSizes
<1>5. /\ call.order = p /\ call.count = n /\ call.in = a /\ call.out = b
      /\ call.middle = 0
      /\ ~(n <= LeafSize) => call.colors = Coloring(p, n)
  BY <1>3, CallIs
<1>6. Within(a, n) /\ Within(b, n)
  BY <1>1 DEF Within, a, b, RootOf, RootAddress
<1> QED
  BY <1>1, <1>2, <1>4, <1>5, <1>6 DEF GoodCall, call

LEMMA ChildIsGood ==
  ASSUME NEW form, IsFormat(form), NEW call, GoodCall(call, form),
         call.count > LeafSize, NEW right \in BOOLEAN
  PROVE  LET d == ChildCall(call, right)
         IN  /\ GoodCall(d, form)
             /\ d.order = ChildOrder(call.order, call.count, call.colors, right)
             /\ d.count = ChildCount(right, call.count)
             /\ d.in = Child(call.in, right, call.count)
             /\ d.out = Child(call.out, right, call.count)
             /\ d.middle = call.middle
                  + (IF right THEN MiddleBits(LeftCount(call.count)) ELSE 0)
<1> DEFINE n == call.count
           q == ChildOrder(call.order, n, call.colors, right)
           a == Child(call.in, right, n)
           b == Child(call.out, right, n)
           m == call.middle + (IF right THEN MiddleBits(LeftCount(n)) ELSE 0)
           d == ChildCall(call, right)
<1>1. /\ n \in Nat \ {0} /\ n \in Nat /\ call.order \in Orders(n)
      /\ call.colors = Coloring(call.order, n) /\ LeafSize \in Nat
  BY LeafSizes DEF GoodCall
<1>2. d = CallFor(q, ChildCount(right, n), a, b, m)
  BY Zenon DEF ChildCall
<1>3. /\ d.order = q /\ d.count = ChildCount(right, n) /\ d.in = a /\ d.out = b
      /\ d.middle = m
      /\ ~(d.count <= LeafSize) => d.colors = Coloring(q, ChildCount(right, n))
  BY <1>2, CallIs
<1>4. ChildCount(right, n) \in 1 .. n - 1
  BY <1>1, ChildCounts
<1>5. q \in Orders(ChildCount(right, n))
  BY <1>1, ChildOrderFacts
<1>6. /\ Fits(a, form.input) /\ a.embeds = call.in.embeds /\ a.node = ChildCount(right, n)
      /\ Fits(b, form.output) /\ b.embeds = call.out.embeds /\ b.node = ChildCount(right, n)
  BY FormatLists, ChildFits DEF GoodCall
<1>7. m \in Nat
  BY <1>1, Children, MiddleBitsFacts DEF GoodCall
<1>8. Within(a, form.count) /\ Within(b, form.count)
  <2>1. /\ IsAddress(call.in) /\ call.in.node = n /\ Within(call.in, form.count)
        /\ IsAddress(call.out) /\ call.out.node = n /\ Within(call.out, form.count)
        /\ form.count \in Nat
    BY DEF GoodCall, Fits, IsFormat
  <2>2. /\ Within(Child(call.in, right, call.in.node), form.count)
        /\ Within(Child(call.out, right, call.out.node), form.count)
    BY <2>1, ChildWithin
  <2> QED
    BY <2>1, <2>2
<1> HIDE DEF d, q, a, b, m
<1>9. GoodCall(d, form)
  BY <1>1, <1>3, <1>4, <1>5, <1>6, <1>7, <1>8 DEF GoodCall
<1> QED
  BY <1>3, <1>9, Zenon DEF d, q, a, b, m

LEMMA SpaceSplits ==
  ASSUME NEW form, IsFormat(form), NEW call, GoodCall(call, form),
         call.count > LeafSize, NEW side \in Sides
  PROVE  InThree(Space(call, side), Mine(call, side),
                 Space(ChildCall(call, FALSE), side), Space(ChildCall(call, TRUE), side))
<1> DEFINE n == call.count
           x == ChildCall(call, FALSE)
           y == ChildCall(call, TRUE)
<1>1. /\ n \in Nat \ {0} /\ n \in Nat /\ call.middle \in Nat /\ LeafSize \in Nat
      /\ call.in.node = n /\ call.out.node = n
  BY LeafSizes DEF GoodCall
<1>2. /\ x.count = LeftCount(n) /\ x.middle = call.middle
      /\ x.in = Child(call.in, FALSE, n) /\ x.out = Child(call.out, FALSE, n)
      /\ y.count = RightCount(n) /\ y.middle = call.middle + MiddleBits(LeftCount(n))
      /\ y.in = Child(call.in, TRUE, n) /\ y.out = Child(call.out, TRUE, n)
  <2>1. FALSE \in BOOLEAN /\ TRUE \in BOOLEAN /\ call.middle + 0 = call.middle
    BY <1>1
  <2> QED
    BY <2>1, ChildIsGood DEF ChildCount
<1> HIDE DEF x, y
<1>3. CASE side = "input"
  BY <1>1, <1>2, <1>3, FormatLists, FitsSplits DEF Space, Mine, GoodCall, x, y
<1>4. CASE side = "output"
  BY <1>1, <1>2, <1>4, FormatLists, FitsSplits DEF Space, Mine, GoodCall, x, y
<1>5. CASE side = "middle"
  <2>1. /\ MiddleBits(LeftCount(n)) \in Nat /\ MiddleBits(RightCount(n)) \in Nat
        /\ MiddleBits(n) = MiddleBits(LeftCount(n)) + MiddleBits(RightCount(n))
    BY <1>1, Children, MiddleBitsFacts
  <2>2. /\ Space(call, side) = call.middle .. call.middle + MiddleBits(n) - 1
        /\ Space(x, side) = x.middle .. x.middle + MiddleBits(x.count) - 1
        /\ Space(y, side) = y.middle .. y.middle + MiddleBits(y.count) - 1
        /\ Mine(call, side) = {}
    BY <1>5 DEF Space, Mine
  <2>3. /\ Space(call, side) = Space(x, side) \cup Space(y, side)
        /\ Space(x, side) \cap Space(y, side) = {}
    BY <1>1, <1>2, <2>1, <2>2, CutInterval
  <2> QED
    BY <2>2, <2>3 DEF InThree, x, y
<1> QED
  BY <1>3, <1>4, <1>5 DEF Sides

LEMMA LeafCall ==
  ASSUME NEW form, IsFormat(form), NEW call, GoodCall(call, form),
         call.count <= LeafSize
  PROVE  LET start == RankStart(form, call.in, call.out, call.middle)
             width == FactoradicBitCount(call.count)
             rank  == Rank(call.order, call.count)
             bits  == CallBits(call, form)
         IN  /\ start \in Nat /\ width \in Nat /\ RankSection(form) \in Sides
             /\ Space(call, RankSection(form)) = {start + b : b \in 0 .. width - 1}
             /\ bits[RankSection(form)] =
                  {start + b : b \in {d \in 0 .. width - 1 : (rank \div PowerOfTwo[d]) % 2 = 1}}
             /\ \A side \in Sides : bits[side] \subseteq Space(call, side)
<1> DEFINE n == call.count
           start == RankStart(form, call.in, call.out, call.middle)
           width == FactoradicBitCount(n)
           rank == Rank(call.order, n)
           set == {start + b : b \in {d \in 0 .. width - 1 : (rank \div PowerOfTwo[d]) % 2 = 1}}
           bits == CallBits(call, form)
           sec == RankSection(form)
<1>1. /\ n \in Nat \ {0} /\ n \in Nat /\ width \in Nat /\ call.middle \in Nat
      /\ IsAddress(call.in) /\ call.in.node = n
      /\ IsAddress(call.out) /\ call.out.node = n
      /\ MiddleBits(n) = width
  BY BitCountType, MiddleBitsFacts DEF GoodCall, Fits
<1>2. bits = [Blank EXCEPT ![sec] = set]
  BY Zenon DEF CallBits, LeafBits
<1>3. sec \in Sides
  BY DEF IsFormat, RankSection, Sides
<1>4. Blank \in [Sides -> {{}}]
  BY DEF Blank, Sides
<1> HIDE DEF set, sec
<1>5. bits[sec] = set /\ \A side \in Sides : side # sec => bits[side] = {}
  BY <1>2, <1>3, <1>4
<1>6. start \in Nat /\ Space(call, sec) = {start + b : b \in 0 .. width - 1}
  <2>1. CASE form.placement = "separate"
    <3>1. sec = "middle" /\ start = call.middle
      BY <2>1, Zenon DEF sec, RankSection, RankStart
    <3>2. Space(call, sec) = start .. start + width - 1
      BY <3>1, <1>1 DEF Space
    <3>3. {start + b : b \in 0 .. width - 1} = start .. start + width - 1
      BY <3>1, <1>1, ShiftInterval DEF Shift
    <3> QED
      BY <3>1, <3>2, <3>3, <1>1
  <2>2. CASE form.placement = "input"
    <3>1. sec = "input" /\ start = MiddleBit(call.in) /\ call.in.embeds
      BY <2>2 DEF sec, RankSection, RankStart, GoodCall
    <3>2. Space(call, sec) = Region(call.in)
      BY <3>1 DEF Space
    <3>3. /\ MiddleBit(call.in) \in Nat
          /\ Region(call.in) = {MiddleBit(call.in) + b : b \in 0 .. width - 1}
      BY <1>1, <3>1, RegionOfLeaf
    <3> QED
      BY <3>1, <3>2, <3>3, Zenon
  <2>3. CASE form.placement = "output"
    <3>1. sec = "output" /\ start = MiddleBit(call.out) /\ call.out.embeds
      BY <2>3 DEF sec, RankSection, RankStart, GoodCall
    <3>2. Space(call, sec) = Region(call.out)
      BY <3>1 DEF Space
    <3>3. /\ MiddleBit(call.out) \in Nat
          /\ Region(call.out) = {MiddleBit(call.out) + b : b \in 0 .. width - 1}
      BY <1>1, <3>1, RegionOfLeaf
    <3> QED
      BY <3>1, <3>2, <3>3, Zenon
  <2> QED
    BY <2>1, <2>2, <2>3 DEF IsFormat
<1>7. set \subseteq {start + b : b \in 0 .. width - 1}
  BY DEF set
<1>8. \A side \in Sides : bits[side] \subseteq Space(call, side)
  BY <1>5, <1>6, <1>7
<1> QED
  BY <1>1, <1>3, <1>5, <1>6, <1>8 DEF set, sec

LEMMA NodeCall ==
  ASSUME NEW form, NEW call, GoodCall(call, form), call.count > LeafSize
  PROVE  LET pairs == 0 .. call.count \div 2 - 1
             inv   == Node(call.count)!InverseOf(call.order)
             bits  == CallBits(call, form)
         IN  /\ bits.input = {SwitchBit(call.in, k) :
                                k \in {j \in pairs : call.colors[2 * j] = 1}}
             /\ bits.output = {SwitchBit(call.out, k) :
                                k \in {j \in pairs : call.colors[inv[2 * j]] = 1}}
             /\ Mine(call, "input") = {SwitchBit(call.in, k) : k \in pairs}
             /\ Mine(call, "output") = {SwitchBit(call.out, k) : k \in pairs}
             /\ \A side \in Sides : bits[side] \subseteq Mine(call, side)
<1> DEFINE n == call.count
           pairs == 0 .. n \div 2 - 1
           inv == Node(n)!InverseOf(call.order)
           bits == CallBits(call, form)
           ask == {SwitchBit(call.in, k) : k \in {j \in pairs : call.colors[2 * j] = 1}}
           tell == {SwitchBit(call.out, k) : k \in {j \in pairs : call.colors[inv[2 * j]] = 1}}
<1>1. ~(n <= LeafSize) /\ call.in.node = n /\ call.out.node = n
  BY LeafSizes DEF GoodCall
<1>2. bits = [Blank EXCEPT !.input = ask, !.output = tell]
  BY <1>1, Zenon DEF CallBits, NodeBits
<1>3. /\ Mine(call, "input") = {SwitchBit(call.in, k) : k \in pairs}
      /\ Mine(call, "output") = {SwitchBit(call.out, k) : k \in pairs}
  BY <1>1 DEF Mine, OwnBits
<1>4. /\ ask \subseteq {SwitchBit(call.in, k) : k \in pairs}
      /\ tell \subseteq {SwitchBit(call.out, k) : k \in pairs}
  OBVIOUS
<1> HIDE DEF ask, tell
<1>5. bits.input = ask /\ bits.output = tell /\ bits.middle = {}
  BY <1>2 DEF Blank
<1>6. \A side \in Sides : bits[side] \subseteq Mine(call, side)
  BY <1>3, <1>4, <1>5 DEF Sides
<1> QED
  BY <1>3, <1>5, <1>6 DEF ask, tell

\* What is left of a call's space: its own bits if it has made its calls.
Part(calls, k, side) ==
  IF 2 * k \in DOMAIN calls THEN Mine(calls[k], side) ELSE Space(calls[k], side)

IsTree(calls, form) ==
  /\ DOMAIN calls \subseteq Nat \ {0}
  /\ \A k \in DOMAIN calls :
       /\ GoodCall(calls[k], form)
       /\ k = 1 \/ k \div 2 \in DOMAIN calls
       /\ 2 * k \in DOMAIN calls <=> 2 * k + 1 \in DOMAIN calls
       /\ 2 * k \in DOMAIN calls =>
            /\ calls[k].count > LeafSize
            /\ calls[2 * k] = ChildCall(calls[k], FALSE)
            /\ calls[2 * k + 1] = ChildCall(calls[k], TRUE)
  /\ \A side \in Sides : \A j, k \in DOMAIN calls :
       j # k => Part(calls, j, side) \cap Part(calls, k, side) = {}

Waits(calls, k) == calls[k].count > LeafSize /\ 2 * k \notin DOMAIN calls

\* The calls that have not called yet are deep enough.
Deepened(calls, form, depth) ==
  \A k \in DOMAIN calls :
    Waits(calls, k) => RoutingDepth(calls[k].count) + depth <= RoutingDepth(form.count)

LEMMA Numbers2 ==
  \A j, k \in Nat : /\ 2 * j # 2 * k + 1
                    /\ 2 * j = 2 * k => j = k
                    /\ 2 * j + 1 = 2 * k + 1 => j = k
                    /\ (2 * k) \div 2 = k /\ (2 * k + 1) \div 2 = k
                    /\ (2 * k) % 2 = 0 /\ (2 * k + 1) % 2 = 1
                    /\ k # 0 => 2 * k # k /\ 2 * k + 1 # k /\ 2 * k # 1 /\ 2 * k + 1 # 1
OBVIOUS

LEMMA WithChildrenIs ==
  ASSUME NEW form, IsFormat(form), NEW calls, IsTree(calls, form)
  PROVE  LET new == WithChildren(calls)
         IN  /\ DOMAIN calls \subseteq DOMAIN new /\ DOMAIN new \subseteq Nat \ {0}
             /\ \A k \in DOMAIN calls : /\ new[k] = calls[k]
                                        /\ Waits(calls, k) =>
                                             /\ 2 * k \in DOMAIN new
                                             /\ new[2 * k] = ChildCall(calls[k], FALSE)
                                             /\ 2 * k + 1 \in DOMAIN new
                                             /\ new[2 * k + 1] = ChildCall(calls[k], TRUE)
             /\ \A k \in DOMAIN new : k \notin DOMAIN calls =>
                  \E j \in DOMAIN calls :
                    Waits(calls, j) /\ (k = 2 * j \/ k = 2 * j + 1)
<1> DEFINE calling == {k \in DOMAIN calls : calls[k].count > LeafSize
                                             /\ 2 * k \notin DOMAIN calls}
           made == {2 * k : k \in calling} \cup {2 * k + 1 : k \in calling}
           new == WithChildren(calls)
<1>1. new = [k \in DOMAIN calls \cup made |->
               IF k \in made THEN ChildCall(calls[k \div 2], k % 2 = 1) ELSE calls[k]]
  BY Zenon DEF WithChildren
<1>2. \A k \in DOMAIN calls : k \in Nat \ {0}
  BY DEF IsTree
<1>3. \A k \in DOMAIN calls : Waits(calls, k) <=> k \in calling
  BY DEF Waits
<1>4. \A k \in made : \E j \in calling : k = 2 * j \/ k = 2 * j + 1
  OBVIOUS
<1>5. \A k \in calling : 2 * k \in made /\ 2 * k + 1 \in made /\ k \in DOMAIN calls
  OBVIOUS
<1>6. \A k \in calling : 2 * k \notin DOMAIN calls /\ 2 * k + 1 \notin DOMAIN calls
  BY DEF IsTree
<1> HIDE DEF made, calling
<1>7. DOMAIN new = DOMAIN calls \cup made
  BY <1>1
<1>8. \A k \in DOMAIN calls : k \notin made
  BY <1>4, <1>6
<1>9. \A k \in DOMAIN calls : new[k] = calls[k]
  BY <1>1, <1>8
<1>10. ASSUME NEW k \in calling
       PROVE  /\ new[2 * k] = ChildCall(calls[k], FALSE)
              /\ new[2 * k + 1] = ChildCall(calls[k], TRUE)
  <2>1. /\ (2 * k) \div 2 = k /\ (2 * k + 1) \div 2 = k
        /\ ((2 * k) % 2 = 1) = FALSE /\ ((2 * k + 1) % 2 = 1) = TRUE
    BY <1>2, <1>5, Numbers2
  <2> QED
    BY <2>1, <1>1, <1>5
<1>11. \A k \in made : k \in Nat \ {0}
  BY <1>2, <1>4, <1>5
<1> HIDE DEF new
<1> QED
  BY <1>2, <1>3, <1>4, <1>5, <1>7, <1>9, <1>10, <1>11 DEF new

LEMMA TreeGrows ==
  ASSUME NEW form, IsFormat(form), NEW calls, IsTree(calls, form)
  PROVE  IsTree(WithChildren(calls), form)
<1> DEFINE new == WithChildren(calls)
           D == DOMAIN calls
           E == DOMAIN new
<1>0. D \subseteq Nat \ {0}
  BY DEF IsTree
<1>1. /\ D \subseteq E /\ E \subseteq Nat \ {0}
      /\ \A k \in D : /\ new[k] = calls[k]
                      /\ Waits(calls, k) =>
                           /\ 2 * k \in E /\ new[2 * k] = ChildCall(calls[k], FALSE)
                           /\ 2 * k + 1 \in E /\ new[2 * k + 1] = ChildCall(calls[k], TRUE)
      /\ \A k \in E : k \notin D =>
           \E j \in D : Waits(calls, j) /\ (k = 2 * j \/ k = 2 * j + 1)
  BY WithChildrenIs
<1> HIDE DEF new
<1>2. /\ \A k \in D : /\ GoodCall(calls[k], form)
                      /\ k = 1 \/ k \div 2 \in D
                      /\ 2 * k \in D <=> 2 * k + 1 \in D
                      /\ 2 * k \in D => /\ calls[k].count > LeafSize
                                        /\ calls[2 * k] = ChildCall(calls[k], FALSE)
                                        /\ calls[2 * k + 1] = ChildCall(calls[k], TRUE)
      /\ \A side \in Sides : \A j, k \in D :
           j # k => Part(calls, j, side) \cap Part(calls, k, side) = {}
  BY DEF IsTree
<1> HIDE DEF D, E
<1>3. ASSUME NEW k \in E, k \notin D
      PROVE  /\ GoodCall(new[k], form) /\ k \div 2 \in D
             /\ 2 * k \notin E /\ 2 * k + 1 \notin E
  <2>1. PICK j \in D : Waits(calls, j) /\ (k = 2 * j \/ k = 2 * j + 1)
    BY <1>1, <1>3
  <2>2. j \in Nat \ {0} /\ k \in Nat \ {0} /\ k \div 2 = j
    BY <1>0, <2>1, Numbers2
  <2>3. GoodCall(new[k], form)
    <3>1. GoodCall(calls[j], form) /\ calls[j].count > LeafSize
      BY <2>1, <1>2 DEF Waits
    <3>2. \E right \in BOOLEAN : new[k] = ChildCall(calls[j], right)
      BY <2>1, <1>1
    <3> QED
      BY <3>1, <3>2, ChildIsGood
  <2>4. ASSUME NEW x \in E, x = 2 * k \/ x = 2 * k + 1
        PROVE  FALSE
    <3>1. x \div 2 = k /\ x # 1
      BY <2>2, <2>4, Numbers2
    <3>2. x \notin D
      BY <1>2, <1>3, <3>1
    <3>3. PICK i2 \in D : x = 2 * i2 \/ x = 2 * i2 + 1
      BY <1>1, <3>2
    <3>4. x \div 2 = i2
      BY <1>0, <3>3, Numbers2
    <3> QED
      BY <1>3, <3>1, <3>4
  <2> QED
    BY <2>2, <2>3, <2>4
<1>4. ASSUME NEW k \in D
      PROVE  /\ 2 * k \in E <=> 2 * k + 1 \in E
             /\ 2 * k \in E => /\ new[k].count > LeafSize
                               /\ new[2 * k] = ChildCall(new[k], FALSE)
                               /\ new[2 * k + 1] = ChildCall(new[k], TRUE)
             /\ 2 * k \in E <=> 2 * k \in D \/ Waits(calls, k)
  <2>1. k \in Nat \ {0}
    BY <1>0
  <2>2. CASE 2 * k \in D
    <3>1. 2 * k + 1 \in D
      BY <2>2, <1>2
    <3> QED
      BY <2>2, <3>1, <1>1, <1>2
  <2>3. CASE Waits(calls, k)
    BY <2>3, <1>1 DEF Waits
  <2>4. CASE 2 * k \notin D /\ ~Waits(calls, k)
    <3>1. ASSUME NEW x \in E, x = 2 * k \/ x = 2 * k + 1
          PROVE  FALSE
      <4>1. x \notin D
        BY <3>1, <2>4, <1>2
      <4>2. PICK j \in D : Waits(calls, j) /\ (x = 2 * j \/ x = 2 * j + 1)
        BY <1>1, <4>1
      <4>3. x \div 2 = j /\ x \div 2 = k
        BY <1>0, <2>1, <3>1, <4>2, Numbers2
      <4> QED
        BY <2>4, <4>2, <4>3
    <3> QED
      BY <3>1, <2>4
  <2> QED
    BY <2>2, <2>3, <2>4
<1>5. \A k \in E : /\ GoodCall(new[k], form)
                   /\ k = 1 \/ k \div 2 \in E
                   /\ 2 * k \in E <=> 2 * k + 1 \in E
                   /\ 2 * k \in E => /\ new[k].count > LeafSize
                                     /\ new[2 * k] = ChildCall(new[k], FALSE)
                                     /\ new[2 * k + 1] = ChildCall(new[k], TRUE)
  <2> SUFFICES ASSUME NEW k \in E
               PROVE  /\ GoodCall(new[k], form)
                      /\ k = 1 \/ k \div 2 \in E
                      /\ 2 * k \in E <=> 2 * k + 1 \in E
                      /\ 2 * k \in E => /\ new[k].count > LeafSize
                                        /\ new[2 * k] = ChildCall(new[k], FALSE)
                                        /\ new[2 * k + 1] = ChildCall(new[k], TRUE)
    OBVIOUS
  <2>1. CASE k \in D
    BY <2>1, <1>1, <1>2, <1>4
  <2>2. CASE k \notin D
    BY <2>2, <1>1, <1>3
  <2> QED
    BY <2>1, <2>2
<1>6. ASSUME NEW side \in Sides, NEW j \in E, NEW k \in E, j # k
      PROVE  Part(new, j, side) \cap Part(new, k, side) = {}
  <2> DEFINE old(x) == IF x \in D THEN x ELSE x \div 2
  <2>1. ASSUME NEW x \in E
        PROVE  /\ old(x) \in D
               /\ x \in D /\ ~Waits(calls, x) => Part(new, x, side) = Part(calls, x, side)
               /\ x \in D /\ Waits(calls, x) => Part(new, x, side) = Mine(calls[x], side)
               /\ x \notin D => Part(new, x, side) = Space(new[x], side)
               /\ Waits(calls, old(x)) => Part(calls, old(x), side) = Space(calls[old(x)], side)
               /\ x \notin D => Waits(calls, old(x)) /\ (x = 2 * old(x) \/ x = 2 * old(x) + 1)
    <3>1. CASE x \in D
      <4>1. new[x] = calls[x] /\ (2 * x \in E <=> 2 * x \in D \/ Waits(calls, x))
        BY <3>1, <1>1, <1>4
      <4> QED
        BY <3>1, <4>1 DEF Part, Waits, D, E
    <3>2. CASE x \notin D
      <4>1. PICK y \in D : Waits(calls, y) /\ (x = 2 * y \/ x = 2 * y + 1)
        BY <3>2, <1>1
      <4>2. y = x \div 2
        BY <4>1, <1>0, Numbers2
      <4>3. 2 * x \notin E
        BY <3>2, <1>3
      <4> QED
        BY <3>2, <4>1, <4>2, <4>3 DEF Part, Waits, D, E
    <3> QED
      BY <3>1, <3>2
  <2>2. ASSUME NEW o \in D, Waits(calls, o)
        PROVE  InThree(Space(calls[o], side), Mine(calls[o], side),
                       Space(new[2 * o], side), Space(new[2 * o + 1], side))
    <3>1. GoodCall(calls[o], form) /\ calls[o].count > LeafSize
      BY <2>2, <1>2 DEF Waits
    <3>2. /\ new[2 * o] = ChildCall(calls[o], FALSE)
          /\ new[2 * o + 1] = ChildCall(calls[o], TRUE)
      BY <2>2, <1>1
    <3>3. InThree(Space(calls[o], side), Mine(calls[o], side),
                  Space(ChildCall(calls[o], FALSE), side),
                  Space(ChildCall(calls[o], TRUE), side))
      BY <3>1, SpaceSplits
    <3> QED
      BY <3>2, <3>3, Zenon
  <2>3. \A x \in E : Part(new, x, side) \subseteq Part(calls, old(x), side)
    <3> SUFFICES ASSUME NEW x \in E
                 PROVE  Part(new, x, side) \subseteq Part(calls, old(x), side)
      OBVIOUS
    <3>1. CASE x \in D /\ ~Waits(calls, x)
      BY <3>1, <2>1
    <3>2. CASE x \in D /\ Waits(calls, x)
      BY <3>2, <2>1, <2>2 DEF InThree
    <3>3. CASE x \notin D
      BY <3>3, <2>1, <2>2 DEF InThree
    <3> QED
      BY <3>1, <3>2, <3>3
  <2>4. CASE old(j) # old(k)
    <3>1. Part(calls, old(j), side) \cap Part(calls, old(k), side) = {}
      BY <2>1, <2>4, <1>2
    <3> QED
      BY <3>1, <2>3
  <2>5. CASE old(j) = old(k)
    <3> DEFINE o == old(j)
    <3>1. o \in D /\ Waits(calls, o)
      <4>1. j \notin D \/ k \notin D
        BY <2>5, <1>6
      <4> QED
        BY <4>1, <2>1, <2>5
    <3>2. \A x \in {j, k} :
            \/ x = o /\ Part(new, x, side) = Mine(calls[o], side)
            \/ x = 2 * o /\ Part(new, x, side) = Space(new[2 * o], side)
            \/ x = 2 * o + 1 /\ Part(new, x, side) = Space(new[2 * o + 1], side)
      <4> SUFFICES ASSUME NEW x \in {j, k}
                   PROVE  \/ x = o /\ Part(new, x, side) = Mine(calls[o], side)
                          \/ x = 2 * o /\ Part(new, x, side) = Space(new[2 * o], side)
                          \/ x = 2 * o + 1 /\ Part(new, x, side) = Space(new[2 * o + 1], side)
        OBVIOUS
      <4>1. x \in E /\ old(x) = o
        BY <2>5
      <4>2. CASE x \in D
        BY <4>1, <4>2, <3>1, <2>1
      <4>3. CASE x \notin D
        BY <4>1, <4>3, <3>1, <2>1
      <4> QED
        BY <4>2, <4>3
    <3> HIDE DEF o
    <3>3. InThree(Space(calls[o], side), Mine(calls[o], side),
                  Space(new[2 * o], side), Space(new[2 * o + 1], side))
      BY <2>2, <3>1
    <3> QED
      BY <3>2, <3>3, <1>6 DEF InThree
  <2> QED
    BY <2>4, <2>5
<1> QED
  BY <1>1, <1>5, <1>6 DEF IsTree, E, new

LEMMA TreeDeepens ==
  ASSUME NEW form, IsFormat(form), NEW calls, IsTree(calls, form),
         NEW depth \in Nat, Deepened(calls, form, depth)
  PROVE  Deepened(WithChildren(calls), form, depth + 1)
<1> DEFINE new == WithChildren(calls)
           D == DOMAIN calls
           E == DOMAIN new
<1>1. /\ D \subseteq E
      /\ \A k \in D : /\ new[k] = calls[k]
                      /\ Waits(calls, k) =>
                           /\ 2 * k \in E /\ new[2 * k] = ChildCall(calls[k], FALSE)
                           /\ new[2 * k + 1] = ChildCall(calls[k], TRUE)
      /\ \A k \in E : k \notin D =>
           \E j \in D : Waits(calls, j) /\ (k = 2 * j \/ k = 2 * j + 1)
  BY WithChildrenIs
<1> HIDE DEF new, D, E
<1> SUFFICES ASSUME NEW k \in E, Waits(new, k)
             PROVE  RoutingDepth(new[k].count) + (depth + 1) <= RoutingDepth(form.count)
  BY DEF Deepened, new, E
<1>2. k \notin D
  <2> SUFFICES ASSUME k \in D PROVE FALSE
    OBVIOUS
  <2>1. ~Waits(calls, k)
    BY <1>1 DEF Waits, D, E
  <2>2. 2 * k \notin D
    BY <1>1 DEF Waits, D, E
  <2> QED
    BY <1>1, <2>1, <2>2 DEF Waits, D, E
<1>3. PICK j \in D : Waits(calls, j) /\ (k = 2 * j \/ k = 2 * j + 1)
  BY <1>1, <1>2
<1>4. PICK right \in BOOLEAN : new[k] = ChildCall(calls[j], right)
  BY <1>1, <1>3
<1>5. calls[j].count \in Nat /\ calls[j].count > LeafSize /\ GoodCall(calls[j], form)
  BY <1>3 DEF Waits, IsTree, GoodCall, D
<1>6. new[k].count = ChildCount(right, calls[j].count)
  BY <1>4, <1>5, ChildIsGood
<1>7. RoutingDepth(calls[j].count) + depth <= RoutingDepth(form.count)
  BY <1>3 DEF Deepened, D
<1>8. /\ RoutingDepth(calls[j].count) \in Nat /\ RoutingDepth(new[k].count) \in Nat
      /\ RoutingDepth(new[k].count) + 1 <= RoutingDepth(calls[j].count)
  BY <1>5, <1>6, ChildDepth
<1>9. RoutingDepth(form.count) \in Nat
  BY RoutingDepthFacts DEF IsFormat
<1> QED
  BY <1>7, <1>8, <1>9

LEMMA TreeFacts ==
  ASSUME NEW form, NEW calls, IsTree(calls, form), NEW k \in DOMAIN calls
  PROVE  /\ k \in Nat \ {0} /\ GoodCall(calls[k], form)
         /\ calls[k].count \in Nat \ {0} /\ LeafSize \in Nat
         /\ calls[k].count <= LeafSize => 2 * k \notin DOMAIN calls
         /\ calls[k].count > LeafSize /\ ~Waits(calls, k) =>
              /\ 2 * k \in DOMAIN calls /\ calls[2 * k] = ChildCall(calls[k], FALSE)
              /\ 2 * k + 1 \in DOMAIN calls /\ calls[2 * k + 1] = ChildCall(calls[k], TRUE)
         /\ \A side \in Sides : \A j \in DOMAIN calls :
              j # k => Part(calls, j, side) \cap Part(calls, k, side) = {}
<1>0. /\ k \in Nat \ {0} /\ GoodCall(calls[k], form)
      /\ 2 * k \in DOMAIN calls => calls[k].count > LeafSize
  BY Zenon DEF IsTree
<1>1. /\ calls[k].count \in Nat \ {0} /\ LeafSize \in Nat
  BY <1>0, LeafSizes DEF GoodCall
<1>2. calls[k].count <= LeafSize => 2 * k \notin DOMAIN calls
  BY <1>0, <1>1
<1>3. calls[k].count > LeafSize /\ ~Waits(calls, k) =>
         /\ 2 * k \in DOMAIN calls /\ calls[2 * k] = ChildCall(calls[k], FALSE)
         /\ 2 * k + 1 \in DOMAIN calls /\ calls[2 * k + 1] = ChildCall(calls[k], TRUE)
  BY Zenon DEF IsTree, Waits
<1>4. \A side \in Sides : \A j \in DOMAIN calls :
        j # k => Part(calls, j, side) \cap Part(calls, k, side) = {}
  BY DEF IsTree
<1> QED
  BY <1>0, <1>1, <1>2, <1>3, <1>4

LEMMA BitsInPart ==
  ASSUME NEW form, IsFormat(form), NEW calls, IsTree(calls, form), NEW k \in DOMAIN calls,
         ~Waits(calls, k), NEW side \in Sides
  PROVE  CallBits(calls[k], form)[side] \subseteq Part(calls, k, side)
<1>1. GoodCall(calls[k], form) /\ calls[k].count \in Nat /\ LeafSize \in Nat
  BY TreeFacts
<1>2. CASE calls[k].count > LeafSize
  <2>1. Part(calls, k, side) = Mine(calls[k], side)
    BY <1>2, TreeFacts DEF Part
  <2> QED
    BY <1>1, <1>2, <2>1, NodeCall
<1>3. CASE calls[k].count <= LeafSize
  <2>1. Part(calls, k, side) = Space(calls[k], side)
    BY <1>3, TreeFacts DEF Part
  <2> QED
    BY <1>1, <1>3, <2>1, LeafCall
<1> QED
  BY <1>1, <1>2, <1>3

LEMMA EnoughLevels ==
  ASSUME NEW form, IsFormat(form), NEW calls, IsTree(calls, form),
         Deepened(calls, form, RoutingDepth(form.count)), NEW k \in DOMAIN calls
  PROVE  ~Waits(calls, k)
<1> SUFFICES ASSUME Waits(calls, k) PROVE FALSE
  OBVIOUS
<1> DEFINE n == calls[k].count
           d == RoutingDepth(form.count)
<1>1. n \in Nat /\ n > LeafSize /\ LeafSize \in Nat
  BY TreeFacts DEF Waits
<1>2. RoutingDepth(n) + d <= d /\ d \in Nat
  BY RoutingDepthFacts DEF Deepened, IsFormat
<1> HIDE DEF n, d
<1>3. RoutingDepth(n) = 1 + RoutingDepth(LeftCount(n)) /\ RoutingDepth(LeftCount(n)) \in Nat
  BY <1>1, RoutingDepthFacts, Children
<1> QED
  BY <1>2, <1>3

LEMMA LevelsExist ==
  ASSUME NEW start, NEW d \in Nat, NEW M,
         M = CHOOSE G : G = [level \in 0 .. d |->
               IF level = 0 THEN start ELSE WithChildren(G[level - 1])]
  PROVE  M = [level \in 0 .. d |->
               IF level = 0 THEN start ELSE WithChildren(M[level - 1])]
<1> DEFINE Is(G, n) == G = [level \in 0 .. n |->
                         IF level = 0 THEN start ELSE WithChildren(G[level - 1])]
           S == {n \in Nat : \E G : Is(G, n)}
<1>1. 0 \in S
  <2> DEFINE G == [level \in 0 .. 0 |-> start]
  <2>1. Is(G, 0)
    OBVIOUS
  <2> QED
    BY <2>1
<1>2. ASSUME NEW k \in Nat, k \in S
      PROVE  k + 1 \in S
  <2>1. PICK G : Is(G, k)
    BY <1>2
  <2> DEFINE H == [level \in 0 .. k + 1 |->
                     IF level = k + 1 THEN WithChildren(G[k]) ELSE G[level]]
  <2>2. ASSUME NEW level \in 0 .. k + 1
        PROVE  H[level] = IF level = 0 THEN start ELSE WithChildren(H[level - 1])
    <3>1. CASE level = k + 1
      <4>1. level # 0 /\ level - 1 = k /\ k \in 0 .. k + 1 /\ k # k + 1
        BY <3>1
      <4>2. H[level] = WithChildren(G[k]) /\ H[k] = G[k]
        BY <3>1, <4>1
      <4> QED
        BY <4>1, <4>2
    <3>2. CASE level # k + 1
      <4>1. level \in 0 .. k
        BY <3>2
      <4>2. H[level] = G[level]
        BY <3>2
      <4>3. G[level] = IF level = 0 THEN start ELSE WithChildren(G[level - 1])
        BY <2>1, <4>1
      <4>4. level # 0 => H[level - 1] = G[level - 1]
        <5>1. level # 0 => level - 1 \in 0 .. k + 1 /\ level - 1 # k + 1
          BY <4>1
        <5> QED
          BY <5>1
      <4> QED
        BY <4>2, <4>3, <4>4
    <3> QED
      BY <3>1, <3>2
  <2>3. Is(H, k + 1)
    <3>1. H = [level \in 0 .. k + 1 |-> H[level]]
      OBVIOUS
    <3> HIDE DEF H
    <3> QED
      BY <2>2, <3>1, Zenon
  <2> HIDE DEF H, Is
  <2> QED
    BY <2>3
<1> HIDE DEF S
<1>3. d \in S
  BY <1>1, <1>2, Induction
<1>4. \E G : Is(G, d)
  BY <1>3 DEF S
<1> QED
  BY <1>4, Zenon

LEMMA CallsFacts ==
  ASSUME NEW form, IsFormat(form), NEW p \in Orders(form.count)
  PROVE  LET calls == Calls(p, form)
         IN  /\ IsTree(calls, form)
             /\ 1 \in DOMAIN calls /\ calls[1] = RootCall(p, form)
             /\ \A k \in DOMAIN calls : ~Waits(calls, k)
<1> DEFINE start == [k \in {1} |-> RootCall(p, form)]
           d == RoutingDepth(form.count)
           M == CHOOSE G : G = [level \in 0 .. d |->
                  IF level = 0 THEN start ELSE WithChildren(G[level - 1])]
           Fine(calls, depth) ==
             /\ IsTree(calls, form) /\ Deepened(calls, form, depth)
             /\ 1 \in DOMAIN calls /\ calls[1] = RootCall(p, form)
<1>1. d \in Nat /\ form.count \in Nat
  BY RoutingDepthFacts DEF IsFormat
<1>2. Calls(p, form) = M[d]
  BY Zenon DEF Calls
<1>3. M = [level \in 0 .. d |-> IF level = 0 THEN start ELSE WithChildren(M[level - 1])]
  <2> HIDE DEF start, d
  <2> QED
    BY <1>1, LevelsExist
<1>4. Fine(start, 0)
  <2>1. /\ DOMAIN start = {1} /\ start[1] = RootCall(p, form)
        /\ 2 * 1 \notin {1} /\ 2 * 1 + 1 \notin {1}
    OBVIOUS
  <2> HIDE DEF start
  <2>2. GoodCall(start[1], form)
    BY <2>1, RootIsGood
  <2>3. IsTree(start, form)
    BY <2>1, <2>2 DEF IsTree
  <2>4. start[1].count = form.count
    <3>1. RootCall(p, form).count = form.count
      BY CallIs DEF RootCall
    <3> QED
      BY <2>1, <3>1
  <2>5. Deepened(start, form, 0)
    BY <1>1, <2>1, <2>4 DEF Deepened, d
  <2> QED
    BY <2>1, <2>3, <2>5
<1> HIDE DEF start, M
<1> DEFINE S == {n \in Nat : n <= d => Fine(M[n], n)}
<1>5. 0 \in S
  <2>1. 0 \in 0 .. d
    BY <1>1
  <2> QED
    BY <2>1, <1>3, <1>4
<1>6. ASSUME NEW n \in Nat, n \in S
      PROVE  n + 1 \in S
  <2> SUFFICES ASSUME n + 1 <= d PROVE Fine(M[n + 1], n + 1)
    OBVIOUS
  <2>1. n <= d /\ n + 1 \in 0 .. d /\ n + 1 # 0 /\ (n + 1) - 1 = n
    BY <1>1
  <2>2. Fine(M[n], n)
    BY <1>6, <2>1
  <2>3. M[n + 1] = WithChildren(M[n])
    BY <1>3, <2>1
  <2>4. IsTree(M[n + 1], form) /\ Deepened(M[n + 1], form, n + 1)
    BY <2>2, <2>3, TreeGrows, TreeDeepens
  <2>5. 1 \in DOMAIN M[n + 1] /\ M[n + 1][1] = RootCall(p, form)
    <3>1. 1 \in DOMAIN M[n] /\ M[n][1] = RootCall(p, form) /\ IsTree(M[n], form)
      BY <2>2
    <3>2. 1 \in DOMAIN WithChildren(M[n]) /\ WithChildren(M[n])[1] = M[n][1]
      BY <3>1, WithChildrenIs
    <3> QED
      BY <2>3, <3>1, <3>2
  <2> QED
    BY <2>4, <2>5
<1> HIDE DEF S, d
<1>7. d \in S
  BY <1>1, <1>5, <1>6, Induction
<1>8. Fine(M[d], d)
  BY <1>1, <1>7 DEF S
<1>9. \A k \in DOMAIN M[d] : ~Waits(M[d], k)
  BY <1>8, EnoughLevels DEF d
<1> QED
  BY <1>2, <1>8, <1>9

LEMMA EncodedBits ==
  ASSUME NEW form, IsFormat(form), NEW p \in Orders(form.count),
         NEW k \in DOMAIN Calls(p, form), NEW side \in Sides,
         NEW y \in Part(Calls(p, form), k, side)
  PROVE  y \in Encoded(p, form)[side] <=> y \in CallBits(Calls(p, form)[k], form)[side]
<1> DEFINE calls == Calls(p, form)
<1>1. IsTree(calls, form) /\ \A j \in DOMAIN calls : ~Waits(calls, j)
  BY CallsFacts
<1>2. Encoded(p, form)[side] = UNION {CallBits(calls[j], form)[side] : j \in DOMAIN calls}
  <2> DEFINE all == AllCalls(p, form)
  <2>1. /\ DOMAIN all = DOMAIN calls
        /\ \A j \in DOMAIN calls : all[j].bits = CallBits(calls[j], form)
    BY DEF AllCalls
  <2>2. side \in DOMAIN Blank
    BY DEF Blank, Sides
  <2>3. Encoded(p, form)[side] = UNION {all[j].bits[side] : j \in DOMAIN all}
    BY <2>2 DEF Encoded
  <2> HIDE DEF all, calls
  <2> QED
    BY <2>1, <2>3
<1> HIDE DEF calls
<1>3. \A j \in DOMAIN calls : CallBits(calls[j], form)[side] \subseteq Part(calls, j, side)
  BY <1>1, BitsInPart
<1>4. \A j \in DOMAIN calls : j # k => Part(calls, j, side) \cap Part(calls, k, side) = {}
  BY <1>1, TreeFacts DEF calls
<1>5. k \in DOMAIN calls /\ y \in Part(calls, k, side)
  BY DEF calls
<1> QED
  BY <1>2, <1>3, <1>4, <1>5 DEF calls
=============================================================================
