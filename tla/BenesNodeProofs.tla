-------------------------- MODULE BenesNodeProofs --------------------------
(***************************************************************************)
(* What holds of a node of any size and any permutation, whoever colours   *)
(* it: there is a routing, there is exactly one canonical routing, and it  *)
(* splits the permutation into one for each child.                         *)
(***************************************************************************)
EXTENDS BenesNode, FiniteSetTheorems, WellFoundedInduction, TLAPS

USE CountAssumption

-----------------------------------------------------------------------------
(* Facts about the data. *)

LEMMA IndexFacts ==
  /\ Count \in Nat /\ Count > 0
  /\ Pair \subseteq Nat
  /\ \A k \in Pair : 2 * k \in Index /\ 2 * k + 1 \in Index
  /\ Unpaired \in Index
BY DEF Pair, Index, Unpaired

LEMMA XorType == \A a, b \in Bit : Xor(a, b) \in Bit
BY DEF Xor, Bit

LEMMA XorGroup ==
  /\ \A a \in Bit : Xor(0, a) = a /\ Xor(a, 0) = a /\ Xor(a, a) = 0
  /\ \A a, b \in Bit : Xor(a, b) = Xor(b, a)
  /\ \A a, b, c \in Bit : Xor(Xor(a, b), c) = Xor(a, Xor(b, c))
  /\ \A a, b \in Bit : a # b <=> Xor(a, b) = 1
BY DEF Xor, Bit

\* An injection of the finite set of positions reaches every position.
LEMMA PermutationOnto ==
  ASSUME NEW p \in Permutations
  PROVE  \A o \in Index : \E i \in Index : p[i] = o
<1>1. IsFiniteSet(Index)
  BY FS_Interval DEF Index
<1>2. p \in Injection(Index, Index)
  BY DEF Permutations, Injection, IsInjective
<1>3. p \in Surjection(Index, Index)
  BY <1>1, <1>2, FS_Injection
<1> QED
  BY <1>3 DEF Surjection

LEMMA InverseType ==
  ASSUME NEW p \in Permutations
  PROVE  /\ InverseOf(p) \in [Index -> Index]
         /\ \A o \in Index : p[InverseOf(p)[o]] = o
         /\ \A i \in Index : InverseOf(p)[p[i]] = i
<1>1. /\ InverseOf(p) \in [Index -> Index]
      /\ \A o \in Index : p[InverseOf(p)[o]] = o
  BY PermutationOnto DEF InverseOf
<1> QED
  BY <1>1 DEF Permutations

LEMMA EndType ==
  ASSUME NEW inv \in [Index -> Index], NEW t \in Pair, NEW n \in {1, 2}
  PROVE  LeftEnd(inv, t, n) \in Index /\ RightEnd(inv, t, n) \in Index
BY IndexFacts DEF LeftEnd, RightEnd

\* A set of naturals has a smallest element.
LEMMA SmallestOf ==
  ASSUME NEW S \in SUBSET Nat, S # {}
  PROVE  \E k \in S : \A j \in S : k <= j
<1>1. PICK k \in S : \A j \in S : ~(<<j, k>> \in OpToRel(<, Nat))
  BY NatLessThanWellFounded, WFMin
<1>2. \A j \in S : ~(j < k)
  BY <1>1 DEF OpToRel
<1> QED
  BY <1>2

-----------------------------------------------------------------------------
(***************************************************************************)
(* There is a routing.  2m values without an unpaired end are paired by    *)
(* their numbers, and by their places under a bijection w, v being its     *)
(* inverse.  The pairs by place are put in one after the other.  Of those  *)
(* put in, the values that are still free by place are ends of chains:     *)
(* e leads to the other end, L is constant on a chain and different on     *)
(* different ones.  However the values are coloured, the two ends of a     *)
(* chain have different colours, as both its first and its last constraint *)
(* are pairs by number.  So a pair that closes a chain is already split,   *)
(* and if a pair joins two chains with equal colours at its ends, one of   *)
(* the chains can be recoloured.                                           *)
(***************************************************************************)
Places(m) == 0 .. 2 * m - 1

IsNet(m, w, v) ==
  /\ m \in Nat
  /\ w \in [Places(m) -> Places(m)] /\ v \in [Places(m) -> Places(m)]
  /\ \A o \in Places(m) : v[w[o]] = o
  /\ \A x \in Places(m) : w[v[x]] = x

\* A colouring in which all pairs by number and the first k by place are split.
Splits(d, k, m, w) ==
  /\ d \in [Places(m) -> Bit]
  /\ \A j \in 0 .. m - 1 : d[2 * j] # d[2 * j + 1]
  /\ \A j \in 0 .. k - 1 : d[w[2 * j]] # d[w[2 * j + 1]]

IsChainName(L, k, m, w) ==
  /\ L \in [Places(m) -> Places(m)]
  /\ \A j \in 0 .. m - 1 : L[2 * j] = L[2 * j + 1]
  /\ \A j \in 0 .. k - 1 : L[w[2 * j]] = L[w[2 * j + 1]]

Free(k, m, v) == {x \in Places(m) : v[x] >= 2 * k}

IsOtherEnd(e, L, k, m, v) ==
  /\ e \in [Places(m) -> Places(m)]
  /\ \A x \in Free(k, m, v) :
       /\ e[x] \in Free(k, m, v) /\ e[e[x]] = x /\ L[e[x]] = L[x]
       /\ \A y \in Free(k, m, v) : L[y] = L[x] => y \in {x, e[x]}

EndsDiffer(e, k, m, w, v) ==
  \A d : Splits(d, k, m, w) => \A x \in Free(k, m, v) : d[e[x]] # d[x]

Chained(k, m, w, v) ==
  \E c, L, e : /\ Splits(c, k, m, w)
               /\ IsChainName(L, k, m, w)
               /\ IsOtherEnd(e, L, k, m, v)
               /\ EndsDiffer(e, k, m, w, v)

LEMMA ChainsBegin ==
  ASSUME NEW m, NEW w, NEW v, IsNet(m, w, v)
  PROVE  Chained(0, m, w, v)
<1> DEFINE c == [x \in Places(m) |-> x % 2]
           L == [x \in Places(m) |-> x \div 2]
           e == [x \in Places(m) |-> IF x % 2 = 0 THEN x + 1 ELSE x - 1]
<1>1. m \in Nat
  BY DEF IsNet
<1>2. \A x \in Places(m) : /\ x \in Nat /\ x % 2 \in Bit /\ x \div 2 \in Places(m)
                           /\ e[x] \in Places(m) /\ e[x] # x /\ e[e[x]] = x
                           /\ e[x] \div 2 = x \div 2
                           /\ x = 2 * (x \div 2) \/ x = 2 * (x \div 2) + 1
                           /\ x \div 2 \in 0 .. m - 1
                           /\ e[x] = IF x = 2 * (x \div 2) THEN x + 1 ELSE x - 1
  BY <1>1 DEF Places, Bit
<1>3. \A j \in 0 .. m - 1 : /\ 2 * j \in Places(m) /\ 2 * j + 1 \in Places(m)
                            /\ (2 * j) % 2 = 0 /\ (2 * j + 1) % 2 = 1
                            /\ (2 * j) \div 2 = j /\ (2 * j + 1) \div 2 = j
  BY <1>1 DEF Places
<1>4. Splits(c, 0, m, w)
  <2>1. c \in [Places(m) -> Bit] /\ \A x \in Places(m) : c[x] = x % 2
    BY <1>2
  <2> HIDE DEF c
  <2> QED
    BY <1>3, <2>1 DEF Splits
<1>5. IsChainName(L, 0, m, w)
  <2>1. L \in [Places(m) -> Places(m)] /\ \A x \in Places(m) : L[x] = x \div 2
    BY <1>2
  <2> HIDE DEF L
  <2> QED
    BY <1>3, <2>1 DEF IsChainName
<1>6. \A x, y \in Places(m) : y \div 2 = x \div 2 => y \in {x, e[x]}
  <2> SUFFICES ASSUME NEW x \in Places(m), NEW y \in Places(m), y \div 2 = x \div 2, y # x
               PROVE  y = e[x]
    OBVIOUS
  <2> DEFINE q == x \div 2
  <2> HIDE DEF e
  <2>1. x = 2 * q \/ x = 2 * q + 1
    BY <1>2
  <2>2. y = 2 * q \/ y = 2 * q + 1
    BY <1>2
  <2>3. e[x] = IF x = 2 * q THEN x + 1 ELSE x - 1
    BY <1>2
  <2>4. q \in Nat
    BY <1>1, <1>2
  <2> HIDE DEF q
  <2> QED
    BY <2>1, <2>2, <2>3, <2>4
<1>7. IsOtherEnd(e, L, 0, m, v)
  <2>1. Free(0, m, v) = Places(m)
    BY <1>1 DEF Free, IsNet, Places
  <2>2. e \in [Places(m) -> Places(m)]
    BY <1>2
  <2>3. \A x \in Places(m) : L[x] = x \div 2
    OBVIOUS
  <2> HIDE DEF e, L
  <2> QED
    BY <1>2, <1>6, <2>1, <2>2, <2>3 DEF IsOtherEnd
<1>8. EndsDiffer(e, 0, m, w, v)
  <2> SUFFICES ASSUME NEW d, Splits(d, 0, m, w), NEW x \in Places(m)
               PROVE  d[e[x]] # d[x]
    BY DEF EndsDiffer, Free
  <2> DEFINE j == x \div 2
  <2>1. j \in 0 .. m - 1 /\ d[2 * j] # d[2 * j + 1]
    BY <1>2 DEF Splits
  <2>2. \/ x = 2 * j /\ e[x] = 2 * j + 1
        \/ x = 2 * j + 1 /\ e[x] = 2 * j
    <3> HIDE DEF e
    <3> QED BY <1>2
  <2> QED
    BY <2>1, <2>2
<1> QED
  BY <1>4, <1>5, <1>7, <1>8 DEF Chained

\* The next pair by place, a and b, is free until it is put in.
LEMMA NextPair ==
  ASSUME NEW m, NEW w, NEW v, IsNet(m, w, v), NEW k \in 0 .. m - 1
  PROVE  /\ k + 1 \in Nat /\ 2 * k \in Places(m) /\ 2 * k + 1 \in Places(m)
         /\ w[2 * k] \in Free(k, m, v) /\ w[2 * k + 1] \in Free(k, m, v)
         /\ w[2 * k] # w[2 * k + 1]
         /\ Free(k + 1, m, v) = Free(k, m, v) \ {w[2 * k], w[2 * k + 1]}
<1>1. m \in Nat /\ k \in Nat
  BY DEF IsNet
<1>2. 2 * k \in Places(m) /\ 2 * k + 1 \in Places(m)
  BY <1>1 DEF Places
<1>3. /\ w[2 * k] \in Places(m) /\ w[2 * k + 1] \in Places(m)
      /\ v[w[2 * k]] = 2 * k /\ v[w[2 * k + 1]] = 2 * k + 1
  BY <1>2 DEF IsNet
<1>4. ASSUME NEW x \in Places(m)
      PROVE  x \in Free(k + 1, m, v) <=> x \in Free(k, m, v) \ {w[2 * k], w[2 * k + 1]}
  <2>1. v[x] \in Nat /\ w[v[x]] = x
    BY <1>1 DEF IsNet, Places
  <2>2. \A z \in Nat : z >= 2 * (k + 1) <=> z >= 2 * k /\ z # 2 * k /\ z # 2 * k + 1
    BY <1>1
  <2> QED
    BY <1>3, <2>1, <2>2 DEF Free
<1> QED
  BY <1>1, <1>2, <1>3, <1>4 DEF Free

\* One more pair is split, or on one chain.
LEMMA OneMorePair ==
  ASSUME NEW m, NEW w, NEW k \in 0 .. m - 1, m \in Nat, NEW d, NEW L
  PROVE  /\ Splits(d, k, m, w) /\ d[w[2 * k]] # d[w[2 * k + 1]] => Splits(d, k + 1, m, w)
         /\ Splits(d, k + 1, m, w) => Splits(d, k, m, w) /\ d[w[2 * k]] # d[w[2 * k + 1]]
         /\ IsChainName(L, k, m, w) /\ L[w[2 * k]] = L[w[2 * k + 1]] =>
              IsChainName(L, k + 1, m, w)
<1>1. \A j : j \in 0 .. (k + 1) - 1 <=> j \in 0 .. k - 1 \/ j = k
  OBVIOUS
<1> QED
  BY <1>1 DEF Splits, IsChainName

\* The pair closes a chain.
LEMMA ChainCloses ==
  ASSUME NEW m, NEW w, NEW v, IsNet(m, w, v), NEW k \in 0 .. m - 1,
         NEW c, NEW L, NEW e,
         Splits(c, k, m, w), IsChainName(L, k, m, w),
         IsOtherEnd(e, L, k, m, v), EndsDiffer(e, k, m, w, v),
         e[w[2 * k]] = w[2 * k + 1]
  PROVE  Chained(k + 1, m, w, v)
<1> DEFINE a == w[2 * k]
           b == w[2 * k + 1]
<1>1. /\ a \in Free(k, m, v) /\ b \in Free(k, m, v) /\ a # b
      /\ Free(k + 1, m, v) = Free(k, m, v) \ {a, b}
  BY NextPair
<1>2. m \in Nat
  BY DEF IsNet
<1>3. Splits(c, k + 1, m, w)
  <2>1. c[a] # c[b]
    BY <1>1 DEF EndsDiffer
  <2> QED
    BY <1>2, <2>1, OneMorePair
<1>4. IsChainName(L, k + 1, m, w)
  BY <1>1, <1>2, OneMorePair DEF IsOtherEnd
<1>5. IsOtherEnd(e, L, k + 1, m, v)
  BY <1>1 DEF IsOtherEnd
<1>6. EndsDiffer(e, k + 1, m, w, v)
  BY <1>1, <1>2, OneMorePair DEF EndsDiffer
<1> QED
  BY <1>3, <1>4, <1>5, <1>6 DEF Chained

\* The pair joins two chains.
LEMMA ChainsJoin ==
  ASSUME NEW m, NEW w, NEW v, IsNet(m, w, v), NEW k \in 0 .. m - 1,
         NEW c, NEW L, NEW e,
         Splits(c, k, m, w), IsChainName(L, k, m, w),
         IsOtherEnd(e, L, k, m, v), EndsDiffer(e, k, m, w, v),
         e[w[2 * k]] # w[2 * k + 1]
  PROVE  Chained(k + 1, m, w, v)
<1> DEFINE a == w[2 * k]
           b == w[2 * k + 1]
           now   == Free(k, m, v)
           later == Free(k + 1, m, v)
           joined == [x \in Places(m) |-> IF L[x] = L[a] THEN L[b] ELSE L[x]]
           other == [x \in Places(m) |-> IF x = e[a] THEN e[b]
                                         ELSE IF x = e[b] THEN e[a] ELSE e[x]]
           split == IF c[a] # c[b] THEN c
                    ELSE [x \in Places(m) |-> IF L[x] = L[a] THEN 1 - c[x] ELSE c[x]]
<1>1. /\ a \in now /\ b \in now /\ a # b /\ later = now \ {a, b}
      /\ now \subseteq Places(m) /\ m \in Nat
  BY NextPair DEF Free, IsNet
<1>2. /\ e[a] # a /\ e[b] # b /\ e[a] # b /\ e[b] # a /\ e[a] # e[b]
      /\ e[a] \in now /\ e[b] \in now /\ e[e[a]] = a /\ e[e[b]] = b
      /\ L[e[a]] = L[a] /\ L[e[b]] = L[b] /\ L[a] # L[b]
  BY <1>1 DEF IsOtherEnd, EndsDiffer
<1>3. Splits(split, k + 1, m, w)
  <2>1. CASE c[a] # c[b]
    BY <1>1, <2>1, OneMorePair
  <2>2. CASE c[a] = c[b]
    <3>1. /\ \A x \in Places(m) : c[x] \in {0, 1}
          /\ \A x \in Places(m) :
               split[x] = IF L[x] = L[a] THEN 1 - c[x] ELSE c[x]
          /\ split \in [Places(m) -> Bit]
      BY <2>2 DEF Splits, Bit
    <3>2. /\ \A j \in 0 .. m - 1 : 2 * j \in Places(m) /\ 2 * j + 1 \in Places(m)
          /\ \A j \in 0 .. k - 1 : w[2 * j] \in Places(m) /\ w[2 * j + 1] \in Places(m)
      <4>1. \A j \in 0 .. m - 1 : 2 * j \in Places(m) /\ 2 * j + 1 \in Places(m)
        BY <1>1 DEF Places
      <4> QED
        BY <1>1, <4>1 DEF IsNet
    <3> HIDE DEF split, a, b
    <3>3. Splits(split, k, m, w)
      BY <3>1, <3>2 DEF Splits, IsChainName
    <3>4. split[a] # split[b]
      BY <1>1, <1>2, <2>2, <3>1
    <3> QED
      BY <1>1, <3>3, <3>4, OneMorePair DEF a, b
  <2> QED
    BY <2>1, <2>2
<1>4. IsChainName(joined, k + 1, m, w)
  <2>1. /\ joined \in [Places(m) -> Places(m)]
        /\ \A x \in Places(m) : joined[x] = IF L[x] = L[a] THEN L[b] ELSE L[x]
    BY <1>1 DEF IsChainName
  <2>2. /\ \A j \in 0 .. m - 1 : 2 * j \in Places(m) /\ 2 * j + 1 \in Places(m)
        /\ \A j \in 0 .. k - 1 : w[2 * j] \in Places(m) /\ w[2 * j + 1] \in Places(m)
    <3>1. \A j \in 0 .. m - 1 : 2 * j \in Places(m) /\ 2 * j + 1 \in Places(m)
      BY <1>1 DEF Places
    <3> QED
      BY <1>1, <3>1 DEF IsNet
  <2> HIDE DEF joined, a, b
  <2>3. IsChainName(joined, k, m, w)
    BY <2>1, <2>2 DEF IsChainName
  <2>4. joined[a] = joined[b]
    BY <1>1, <2>1
  <2> QED
    BY <1>1, <2>3, <2>4, OneMorePair DEF a, b
<1>5. IsOtherEnd(other, joined, k + 1, m, v)
  <2>1. /\ other \in [Places(m) -> Places(m)]
        /\ \A x \in Places(m) : other[x] = IF x = e[a] THEN e[b]
                                           ELSE IF x = e[b] THEN e[a] ELSE e[x]
        /\ \A x \in Places(m) : joined[x] = IF L[x] = L[a] THEN L[b] ELSE L[x]
    BY <1>1, <1>2 DEF IsOtherEnd
  <2> HIDE DEF other, joined, a, b
  <2>2. \A x \in now : /\ e[x] \in now /\ e[e[x]] = x /\ L[e[x]] = L[x]
                       /\ \A y \in now : L[y] = L[x] => y \in {x, e[x]}
    BY DEF IsOtherEnd
  <2> HIDE DEF now, later
  <2> SUFFICES ASSUME NEW x \in later
               PROVE  /\ other[x] \in later /\ other[other[x]] = x
                      /\ joined[other[x]] = joined[x]
                      /\ \A y \in later : joined[y] = joined[x] => y \in {x, other[x]}
    BY <2>1 DEF IsOtherEnd, later
  <2>3. other[x] \in later /\ other[other[x]] = x /\ joined[other[x]] = joined[x]
    BY <1>1, <1>2, <2>1, <2>2
  <2>4. ASSUME NEW y \in later, joined[y] = joined[x]
        PROVE  y \in {x, other[x]}
    BY <1>1, <1>2, <2>1, <2>2, <2>4
  <2> QED
    BY <2>3, <2>4
<1>6. EndsDiffer(other, k + 1, m, w, v)
  <2> SUFFICES ASSUME NEW d, Splits(d, k + 1, m, w), NEW x \in later
               PROVE  d[other[x]] # d[x]
    BY DEF EndsDiffer
  <2>1. Splits(d, k, m, w) /\ d[a] # d[b]
    BY <1>1, OneMorePair
  <2>2. \A y \in now : d[e[y]] # d[y]
    BY <2>1 DEF EndsDiffer
  <2>3. \A y \in now : d[y] \in {0, 1}
    BY <1>1, <2>1 DEF Splits, Bit
  <2>4. other[x] = IF x = e[a] THEN e[b] ELSE IF x = e[b] THEN e[a] ELSE e[x]
    BY <1>1
  <2>5. d[e[a]] # d[e[b]]
    BY <1>1, <1>2, <2>1, <2>2, <2>3
  <2> QED
    BY <1>1, <2>2, <2>4, <2>5
<1> QED
  BY <1>3, <1>4, <1>5, <1>6 DEF Chained

\* All pairs can be put in: at the first that cannot, the others before it can.
LEMMA ChainsAll ==
  ASSUME NEW m, NEW w, NEW v, IsNet(m, w, v)
  PROVE  \A k \in 0 .. m : Chained(k, m, w, v)
<1>1. ASSUME NEW k \in 0 .. m - 1, Chained(k, m, w, v)
      PROVE  Chained(k + 1, m, w, v)
  BY <1>1, ChainCloses, ChainsJoin DEF Chained
<1> DEFINE Bad == {k \in 0 .. m : ~Chained(k, m, w, v)}
<1>2. ASSUME Bad # {} PROVE FALSE
  <2>1. PICK k \in Bad : \A j \in Bad : k <= j
    <3>1. Bad \in SUBSET Nat
      OBVIOUS
    <3> HIDE DEF Bad
    <3> QED
      BY <1>2, <3>1, SmallestOf
  <2>2. k \in 0 .. m /\ ~Chained(k, m, w, v) /\ k # 0
    BY ChainsBegin
  <2>3. k - 1 \in 0 .. m - 1 /\ (k - 1) + 1 = k /\ ~(k <= k - 1) /\ k - 1 \in 0 .. m
    BY <2>2 DEF IsNet
  <2>4. Chained(k - 1, m, w, v)
    BY <2>1, <2>3
  <2> QED
    BY <1>1, <2>2, <2>3, <2>4
<1> QED
  BY <1>2

\* An odd node is made even by one more value that both unpaired ends are paired
\* with.
Half == Count - (Count \div 2)
Widened(f) == [x \in Places(Half) |-> IF x \in Index THEN f[x] ELSE x]

LEMMA HalfFacts ==
  /\ Half \in Nat /\ Half - 1 \in 0 .. Half
  /\ Index \subseteq Places(Half) /\ Count \notin Index
  /\ Pair \subseteq 0 .. Half - 1
  /\ ~Odd => Index = Places(Half)
  /\ Odd => /\ Places(Half) = Index \cup {Count}
            /\ Pair = 0 .. (Half - 1) - 1
            /\ 2 * (Half - 1) = Unpaired /\ 2 * (Half - 1) + 1 = Count
<1> DEFINE q == Count \div 2
<1>1. q \in Nat /\ Count = IF Odd THEN 2 * q + 1 ELSE 2 * q
  BY DEF Odd
<1> HIDE DEF q
<1>2. Half = IF Odd THEN q + 1 ELSE q
  BY <1>1 DEF Half, q
<1>3. Pair = 0 .. q - 1
  BY DEF Pair, q
<1> QED
  BY <1>1, <1>2, <1>3 DEF Index, Unpaired, Places

LEMMA WidenedIsNet ==
  ASSUME NEW p \in Permutations
  PROVE  IsNet(Half, Widened(InverseOf(p)), Widened(p))
<1> DEFINE w == Widened(InverseOf(p))
           v == Widened(p)
<1>1. /\ InverseOf(p) \in [Index -> Index] /\ p \in [Index -> Index]
      /\ \A o \in Index : p[InverseOf(p)[o]] = o
      /\ \A i \in Index : InverseOf(p)[p[i]] = i
  BY InverseType DEF Permutations
<1>2. /\ \A o \in Places(Half) : w[o] = IF o \in Index THEN InverseOf(p)[o] ELSE o
      /\ \A x \in Places(Half) : v[x] = IF x \in Index THEN p[x] ELSE x
      /\ w \in [Places(Half) -> Places(Half)] /\ v \in [Places(Half) -> Places(Half)]
  BY <1>1, HalfFacts DEF Widened
<1> HIDE DEF w, v
<1>3. \A o \in Places(Half) : v[w[o]] = o /\ w[v[o]] = o
  BY <1>1, <1>2, HalfFacts
<1> QED
  BY <1>2, <1>3, HalfFacts DEF IsNet, w, v

\* Every permutation can be routed.
LEMMA ProperExists ==
  ASSUME NEW p \in Permutations
  PROVE  \E c \in Colorings : Proper(InverseOf(p), c)
<1> DEFINE inv == InverseOf(p)
           w == Widened(inv)
<1>1. PICK d : Splits(d, Half, Half, w)
  <2>1. Chained(Half, Half, w, Widened(p))
    BY WidenedIsNet, ChainsAll, HalfFacts
  <2> QED
    BY <2>1 DEF Chained
<1> DEFINE c == [x \in Index |-> d[x]]
<1>2. c \in Colorings
  BY <1>1, HalfFacts DEF Splits, Colorings
<1>3. ASSUME NEW k \in Pair
      PROVE  c[2 * k] # c[2 * k + 1] /\ c[inv[2 * k]] # c[inv[2 * k + 1]]
  <2>1. k \in 0 .. Half - 1 /\ 2 * k \in Index /\ 2 * k + 1 \in Index
    BY HalfFacts, IndexFacts
  <2>2. /\ w[2 * k] = inv[2 * k] /\ w[2 * k + 1] = inv[2 * k + 1]
        /\ inv[2 * k] \in Index /\ inv[2 * k + 1] \in Index
    BY <2>1, HalfFacts, InverseType DEF Widened
  <2> QED
    BY <1>1, <2>1, <2>2 DEF Splits
<1>4. Proper(inv, c)
  BY <1>3 DEF Proper, LeftEnd, RightEnd
<1> QED
  BY <1>2, <1>4

\* However an odd permutation is routed, its two unpaired ends go to one child:
\* they are the ends of one chain.
LEMMA OddEndsAgree ==
  ASSUME NEW p \in Permutations, Odd,
         NEW c \in Colorings, Proper(InverseOf(p), c)
  PROVE  c[Unpaired] = c[InverseOf(p)[Unpaired]]
<1> DEFINE inv == InverseOf(p)
           w == Widened(inv)
           v == Widened(p)
           a == w[Unpaired]
           d == [x \in Places(Half) |-> IF x \in Index THEN c[x] ELSE 1 - c[Unpaired]]
<1>1. IsNet(Half, w, v)
  BY WidenedIsNet
<1>2. PICK L, e : IsOtherEnd(e, L, Half - 1, Half, v) /\ EndsDiffer(e, Half - 1, Half, w, v)
  BY <1>1, ChainsAll, HalfFacts DEF Chained
<1>3. \A x \in Index : c[x] \in {0, 1} /\ inv[x] \in Index
  BY InverseType DEF Colorings, Bit
<1>4. /\ a = inv[Unpaired] /\ a \in Index /\ w[Count] = Count
      /\ Unpaired \in Index /\ d[Count] = 1 - c[Unpaired] /\ \A x \in Index : d[x] = c[x]
      /\ d \in [Places(Half) -> Bit]
  BY <1>3, HalfFacts, IndexFacts DEF Widened, Bit
<1>5. Splits(d, Half - 1, Half, w)
  <2> HIDE DEF d
  <2>1. ASSUME NEW j \in 0 .. Half - 1 PROVE d[2 * j] # d[2 * j + 1]
    <3>1. CASE j \in Pair
      <4>1. 2 * j \in Index /\ 2 * j + 1 \in Index
        BY <3>1, IndexFacts
      <4>2. c[2 * j] # c[2 * j + 1]
        BY <3>1 DEF Proper, LeftEnd, RightEnd
      <4> QED
        BY <1>4, <4>1, <4>2
    <3>2. CASE j \notin Pair
      <4>1. j = Half - 1
        BY <3>2, HalfFacts
      <4> QED
        BY <1>3, <1>4, <4>1, HalfFacts
    <3> QED
      BY <3>1, <3>2
  <2>2. ASSUME NEW j \in 0 .. (Half - 1) - 1 PROVE d[w[2 * j]] # d[w[2 * j + 1]]
    <3>1. j \in Pair /\ 2 * j \in Index /\ 2 * j + 1 \in Index
      BY HalfFacts, IndexFacts
    <3>2. /\ w[2 * j] = inv[2 * j] /\ w[2 * j + 1] = inv[2 * j + 1]
          /\ inv[2 * j] \in Index /\ inv[2 * j + 1] \in Index
      BY <1>3, <3>1, HalfFacts DEF Widened
    <3>3. c[inv[2 * j]] # c[inv[2 * j + 1]]
      BY <3>1 DEF Proper, LeftEnd, RightEnd
    <3> QED
      BY <1>4, <3>2, <3>3
  <2> QED
    BY <1>4, <2>1, <2>2 DEF Splits
<1>6. Free(Half - 1, Half, v) = {a, Count} /\ a # Count
  <2>1. Half - 1 \in 0 .. Half - 1 /\ (Half - 1) + 1 = Half
    BY HalfFacts
  <2>2. /\ w[2 * (Half - 1)] \in Free(Half - 1, Half, v)
        /\ w[2 * (Half - 1) + 1] \in Free(Half - 1, Half, v)
        /\ w[2 * (Half - 1)] # w[2 * (Half - 1) + 1]
        /\ Free(Half, Half, v) =
             Free(Half - 1, Half, v) \ {w[2 * (Half - 1)], w[2 * (Half - 1) + 1]}
    BY <1>1, <2>1, NextPair
  <2>3. Free(Half, Half, v) = {}
    <3>1. \A z \in Places(Half) : ~(z >= 2 * Half)
      BY HalfFacts DEF Places
    <3> QED
      BY <1>1, <3>1 DEF Free, IsNet
  <2> QED
    BY <1>4, <2>2, <2>3, HalfFacts
<1>7. d[e[a]] # d[a] /\ e[a] \in {a, Count}
  BY <1>2, <1>5, <1>6 DEF IsOtherEnd, EndsDiffer
<1>8. d[Count] # d[a]
  BY <1>7
<1> HIDE DEF d
<1> QED
  BY <1>3, <1>4, <1>8

-----------------------------------------------------------------------------
(* There is exactly one canonical routing. *)

\* Being tied is an equivalence.
LEMMA TiedEquivalence ==
  ASSUME NEW S \in SUBSET Colorings, NEW i \in Index, NEW j \in Index, NEW k \in Index
  PROVE  /\ Tied(S, i, i)
         /\ Tied(S, i, j) => Tied(S, j, i)
         /\ Tied(S, i, j) /\ Tied(S, j, k) => Tied(S, i, k)
<1>1. \A c \in S : c[i] \in Bit /\ c[j] \in Bit /\ c[k] \in Bit
  BY DEF Colorings
<1>2. Tied(S, i, i)
  BY <1>1, XorGroup DEF Tied, Bit
<1>3. Tied(S, i, j) => Tied(S, j, i)
  BY <1>1, XorGroup DEF Tied
<1>4. ASSUME Tied(S, i, j), Tied(S, j, k) PROVE Tied(S, i, k)
  <2>1. PICK u \in Bit : \A c \in S : Xor(c[i], c[j]) = u
    BY <1>4 DEF Tied
  <2>2. PICK v \in Bit : \A c \in S : Xor(c[j], c[k]) = v
    BY <1>4 DEF Tied
  <2>3. \A x, y, z \in Bit : Xor(x, z) = Xor(Xor(x, y), Xor(y, z))
    BY DEF Xor, Bit
  <2>4. \A c \in S : Xor(c[i], c[k]) = Xor(u, v)
    BY <1>1, <2>1, <2>2, <2>3
  <2> QED
    BY <2>4, XorType DEF Tied
<1> QED
  BY <1>2, <1>3, <1>4

\* Tied values with equal colours in one routing have equal colours in all.
LEMMA TiedColors ==
  ASSUME NEW S \in SUBSET Colorings, NEW i \in Index, NEW j \in Index, Tied(S, i, j),
         NEW c \in S, NEW d \in S
  PROVE  c[i] = c[j] <=> d[i] = d[j]
BY DEF Tied, Colorings, Xor, Bit

LEMMA ConstraintTies ==
  ASSUME NEW inv \in [Index -> Index], NEW k \in Pair, NEW n \in {1, 2}
  PROVE  Tied(ProperColorings(inv), LeftEnd(inv, k, n), RightEnd(inv, k, n))
<1>1. \A c \in ProperColorings(inv) :
        Xor(c[LeftEnd(inv, k, n)], c[RightEnd(inv, k, n)]) = 1
  BY EndType, XorGroup DEF ProperColorings, Proper, Colorings
<1> QED
  BY <1>1 DEF Tied, Bit

LEMMA OddEndFacts ==
  ASSUME NEW p \in Permutations
  PROVE  /\ OddEnds(InverseOf(p)) \subseteq Index
         /\ \A c \in ProperColorings(InverseOf(p)), e, f \in OddEnds(InverseOf(p)) :
              c[e] = c[f]
<1>1. OddEnds(InverseOf(p)) \subseteq Index
  BY InverseType, IndexFacts DEF OddEnds
<1>2. ASSUME NEW c \in ProperColorings(InverseOf(p)), Odd
      PROVE  c[Unpaired] = c[InverseOf(p)[Unpaired]]
  BY <1>2, OddEndsAgree DEF ProperColorings
<1> QED
  BY <1>1, <1>2 DEF OddEnds

\* Every value is tied to a leader.
LEMMA LeaderExists ==
  ASSUME NEW p \in Permutations, NEW j \in Index
  PROVE  \E i \in Leaders(InverseOf(p), ProperColorings(InverseOf(p))) :
           i \in Index /\ Tied(ProperColorings(InverseOf(p)), i, j)
<1> DEFINE inv == InverseOf(p)
           S == ProperColorings(inv)
<1>1. S \in SUBSET Colorings
  BY DEF ProperColorings
<1>2. CASE \E e \in OddEnds(inv) : Tied(S, j, e)
  <2>1. PICK e \in OddEnds(inv) : Tied(S, j, e)
    BY <1>2
  <2>2. e \in Index
    BY OddEndFacts
  <2>3. Tied(S, e, j)
    BY <1>1, <2>1, <2>2, TiedEquivalence
  <2> QED
    BY <2>2, <2>3 DEF Leaders
<1>3. CASE \A e \in OddEnds(inv) : ~Tied(S, j, e)
  <2> DEFINE group == {i \in Index : Tied(S, i, j)}
  <2>1. PICK i \in group : \A k \in group : i <= k
    <3>1. group \in SUBSET Nat
      BY DEF Index
    <3>2. j \in group
      BY <1>1, TiedEquivalence
    <3> HIDE DEF group
    <3> QED
      BY <3>1, <3>2, SmallestOf
  <2>2. i \in Index /\ Tied(S, i, j) /\ Tied(S, j, i)
    BY <1>1, TiedEquivalence
  <2>3. \A e \in OddEnds(inv) : ~Tied(S, i, e)
    BY <1>1, <1>3, <2>2, TiedEquivalence, OddEndFacts
  <2>4. ASSUME NEW k \in Index, k < i PROVE ~Tied(S, i, k)
    <3>1. ~(i <= k)
      BY <2>2, <2>4 DEF Index
    <3>2. ~Tied(S, k, j)
      BY <2>1, <3>1
    <3> QED
      BY <1>1, <2>2, <3>2, TiedEquivalence
  <2> QED
    BY <2>2, <2>3, <2>4 DEF Leaders
<1> QED
  BY <1>2, <1>3

\* Leaders of one group are its odd ends, or there is one only.
LEMMA LeadersApart ==
  ASSUME NEW p \in Permutations,
         NEW i \in Leaders(InverseOf(p), ProperColorings(InverseOf(p))),
         NEW j \in Leaders(InverseOf(p), ProperColorings(InverseOf(p))),
         Tied(ProperColorings(InverseOf(p)), i, j)
  PROVE  i = j \/ {i, j} \subseteq OddEnds(InverseOf(p))
<1> DEFINE inv == InverseOf(p)
           S == ProperColorings(inv)
<1>1. S \in SUBSET Colorings /\ i \in Index /\ j \in Index
  BY OddEndFacts DEF ProperColorings, Leaders
<1>2. Tied(S, j, i)
  BY <1>1, TiedEquivalence
<1>3. i \in OddEnds(inv) <=> j \in OddEnds(inv)
  BY <1>1, <1>2 DEF Leaders
<1>4. ASSUME i \notin OddEnds(inv) PROVE i = j
  <2>1. ~(i < j) /\ ~(j < i)
    BY <1>1, <1>2, <1>3, <1>4 DEF Leaders
  <2> QED
    BY <1>1, <2>1 DEF Index
<1> QED
  BY <1>3, <1>4

LEMMA AtMostOneCanonical ==
  ASSUME NEW p \in Permutations, NEW c, NEW d,
         IsCanonical(InverseOf(p), c), IsCanonical(InverseOf(p), d)
  PROVE  c = d
<1> DEFINE S == ProperColorings(InverseOf(p))
<1>1. c \in S /\ d \in S /\ S \in SUBSET Colorings
  BY DEF IsCanonical, ProperColorings
<1>2. ASSUME NEW j \in Index PROVE c[j] = d[j]
  <2>1. PICK i \in Leaders(InverseOf(p), S) : i \in Index /\ Tied(S, i, j)
    BY LeaderExists
  <2>2. c[i] = 0 /\ d[i] = 0
    BY <2>1 DEF IsCanonical
  <2>3. c[i] = c[j] <=> d[i] = d[j]
    BY <1>1, <2>1, TiedColors
  <2>4. c[j] \in {0, 1} /\ d[j] \in {0, 1}
    BY <1>1 DEF Colorings, Bit
  <2> QED
    BY <2>2, <2>3, <2>4
<1> QED
  BY <1>1, <1>2 DEF Colorings

\* Each group of some routing is turned so that its leaders get 0.
LEMMA CanonicalExists ==
  ASSUME NEW p \in Permutations
  PROVE  \E c \in Colorings : IsCanonical(InverseOf(p), c)
<1> DEFINE inv == InverseOf(p)
           S == ProperColorings(inv)
           L == Leaders(inv, S)
<1>1. PICK b \in Colorings : Proper(inv, b)
  BY ProperExists
<1>2. /\ b \in S /\ S \in SUBSET Colorings /\ L \subseteq Index
      /\ inv \in [Index -> Index] /\ \A x \in Index : b[x] \in {0, 1}
  BY <1>1, OddEndFacts, InverseType DEF ProperColorings, Leaders, Colorings, Bit
<1> DEFINE leader == [j \in Index |-> CHOOSE i \in L : Tied(S, i, j)]
           c == [j \in Index |-> Xor(b[j], b[leader[j]])]
<1>3. \A j \in Index : leader[j] \in L /\ leader[j] \in Index /\ Tied(S, leader[j], j)
  BY <1>2, LeaderExists
<1> HIDE DEF leader
<1>4. /\ c \in Colorings
      /\ \A j \in Index : c[j] = Xor(b[j], b[leader[j]])
  BY <1>2, <1>3, XorType DEF Colorings, Bit
<1> HIDE DEF c
<1>5. ASSUME NEW i \in Index, NEW j \in Index, Tied(S, i, j)
      PROVE  b[leader[i]] = b[leader[j]]
  <2>1. Tied(S, leader[i], leader[j])
    <3>1. Tied(S, leader[i], j)
      BY <1>2, <1>3, <1>5, TiedEquivalence
    <3>2. Tied(S, j, leader[j])
      BY <1>2, <1>3, TiedEquivalence
    <3> QED
      BY <1>2, <1>3, <3>1, <3>2, TiedEquivalence
  <2>2. leader[i] = leader[j] \/ {leader[i], leader[j]} \subseteq OddEnds(inv)
    BY <1>3, <2>1, LeadersApart
  <2> QED
    BY <1>2, <2>2, OddEndFacts
<1>6. Proper(inv, c)
  <2> SUFFICES ASSUME NEW k \in Pair, NEW n \in {1, 2}
               PROVE  c[LeftEnd(inv, k, n)] # c[RightEnd(inv, k, n)]
    BY DEF Proper
  <2> DEFINE l == LeftEnd(inv, k, n)
             r == RightEnd(inv, k, n)
  <2>1. l \in Index /\ r \in Index /\ b[l] # b[r] /\ Tied(S, l, r)
    BY <1>1, <1>2, EndType, ConstraintTies DEF Proper
  <2>2. b[leader[l]] = b[leader[r]] /\ b[leader[l]] \in {0, 1}
    BY <1>2, <1>3, <1>5, <2>1
  <2> HIDE DEF l, r
  <2>3. c[l] # c[r]
    BY <1>2, <1>4, <2>1, <2>2 DEF Xor
  <2> QED
    BY <2>3 DEF l, r
<1>7. ASSUME NEW i \in L PROVE c[i] = 0
  <2>1. leader[i] = i \/ {leader[i], i} \subseteq OddEnds(inv)
    BY <1>2, <1>3, LeadersApart
  <2>2. b[leader[i]] = b[i]
    BY <1>2, <2>1, OddEndFacts
  <2> QED
    BY <1>2, <1>4, <2>2 DEF Xor
<1> QED
  BY <1>4, <1>6, <1>7 DEF IsCanonical

\* The format leaves an encoder no choice and never leaves it without one.
THEOREM OneCanonicalRouting ==
  \A p \in Permutations :
    \E c \in Colorings :
      \A d \in Colorings : IsCanonical(InverseOf(p), d) <=> d = c
BY CanonicalExists, AtMostOneCanonical

-----------------------------------------------------------------------------
(* The children get permutations. *)

LEMMA SlotFacts ==
  /\ \A o \in Index : /\ o \in Nat /\ o \div 2 \in Nat
                      /\ o = 2 * (o \div 2) \/ o = 2 * (o \div 2) + 1
                      /\ o \div 2 \in Pair \/ (Odd /\ o = Unpaired)
                      /\ o \div 2 \in 0 .. ChildSize(0) - 1
                      /\ o \div 2 \in Pair => o \div 2 \in 0 .. ChildSize(1) - 1
  /\ \A k \in Pair : (2 * k) \div 2 = k /\ (2 * k + 1) \div 2 = k
  /\ \A s \in 0 .. ChildSize(0) - 1 : s \in Pair \/ (Odd /\ s = Unpaired \div 2)
  /\ 0 .. ChildSize(1) - 1 = Pair
<1> DEFINE q == Count \div 2
<1>1. q \in Nat /\ Count = IF Odd THEN 2 * q + 1 ELSE 2 * q
  BY DEF Odd
<1>2. Pair = 0 .. q - 1 /\ ChildSize(1) = q /\ ChildSize(0) = Count - q
  BY DEF Pair, ChildSize
<1> HIDE DEF q
<1>3. ASSUME NEW o \in Index
      PROVE  /\ o \in Nat /\ o \div 2 \in Nat
             /\ o = 2 * (o \div 2) \/ o = 2 * (o \div 2) + 1
             /\ o \div 2 \in Pair \/ (Odd /\ o = Unpaired)
             /\ o \div 2 \in 0 .. ChildSize(0) - 1
             /\ o \div 2 \in Pair => o \div 2 \in 0 .. ChildSize(1) - 1
  <2> DEFINE h == o \div 2
  <2>1. o \in 0 .. Count - 1 /\ h \in Nat /\ (o = 2 * h \/ o = 2 * h + 1)
    BY DEF Index
  <2> HIDE DEF h
  <2>2. /\ h \in Pair \/ (Odd /\ o = Unpaired)
        /\ h \in 0 .. ChildSize(0) - 1
        /\ h \in Pair => h \in 0 .. ChildSize(1) - 1
    BY <1>1, <1>2, <2>1 DEF Unpaired
  <2> QED
    BY <2>1, <2>2 DEF h
<1>4. \A k \in Pair : (2 * k) \div 2 = k /\ (2 * k + 1) \div 2 = k
  BY <1>1, <1>2
<1>5. Odd => Unpaired = 2 * q /\ Unpaired \div 2 = q
  BY <1>1 DEF Unpaired
<1>6. \A s \in 0 .. ChildSize(0) - 1 : s \in Pair \/ (Odd /\ s = Unpaired \div 2)
  BY <1>1, <1>2, <1>5
<1> QED
  BY <1>2, <1>3, <1>4, <1>6

\* One side of the node.  f is the place of a value on that side, g the value at
\* a place: each child gets one value of each pair, and the unpaired one is in
\* the upper child.
LEMMA SideSplits ==
  ASSUME NEW f \in [Index -> Index], NEW g \in [Index -> Index],
         \A i \in Index : g[f[i]] = i,
         \A o \in Index : f[g[o]] = o,
         NEW c \in Colorings,
         \A k \in Pair : c[g[2 * k]] # c[g[2 * k + 1]],
         Odd => c[g[Unpaired]] = 0
  PROVE  /\ \A i, j \in Index : f[i] \div 2 = f[j] \div 2 /\ c[i] = c[j] => i = j
         /\ \A i \in Index : f[i] \div 2 \in 0 .. ChildSize(c[i]) - 1
         /\ \A child \in Bit : \A s \in 0 .. ChildSize(child) - 1 :
              \E i \in Index : c[i] = child /\ f[i] \div 2 = s
<1>1. ASSUME NEW i \in Index, NEW j \in Index, f[i] \div 2 = f[j] \div 2, c[i] = c[j]
      PROVE  i = j
  <2> DEFINE k == f[i] \div 2
  <2>1. /\ f[i] = 2 * k \/ f[i] = 2 * k + 1
        /\ k \in Pair \/ (Odd /\ f[i] = Unpaired)
    BY SlotFacts
  <2>2. /\ f[j] = 2 * k \/ f[j] = 2 * k + 1
        /\ k \in Pair \/ (Odd /\ f[j] = Unpaired)
    BY <1>1, SlotFacts
  <2> HIDE DEF k
  <2>3. CASE k \in Pair
    <3>1. c[g[2 * k]] # c[g[2 * k + 1]]
      BY <2>3
    <3>2. f[i] = f[j]
      BY <1>1, <2>1, <2>2, <3>1
    <3> QED
      BY <3>2
  <2>4. CASE f[i] = Unpaired /\ f[j] = Unpaired
    BY <2>4
  <2> QED
    BY <2>1, <2>2, <2>3, <2>4
<1>2. ASSUME NEW i \in Index
      PROVE  f[i] \div 2 \in 0 .. ChildSize(c[i]) - 1
  <2>1. c[i] \in {0, 1}
    BY DEF Colorings, Bit
  <2>2. CASE f[i] \div 2 \in Pair
    BY <2>1, <2>2, SlotFacts
  <2>3. CASE Odd /\ f[i] = Unpaired
    <3>1. c[i] = 0
      BY <2>3
    <3> QED
      BY <3>1, SlotFacts
  <2> QED
    BY <2>2, <2>3, SlotFacts
<1>3. ASSUME NEW child \in Bit, NEW s \in 0 .. ChildSize(child) - 1
      PROVE  \E i \in Index : c[i] = child /\ f[i] \div 2 = s
  <2>1. CASE s \in Pair
    <3>1. /\ 2 * s \in Index /\ 2 * s + 1 \in Index
          /\ (2 * s) \div 2 = s /\ (2 * s + 1) \div 2 = s
      BY <2>1, IndexFacts, SlotFacts
    <3>2. /\ g[2 * s] \in Index /\ g[2 * s + 1] \in Index
          /\ f[g[2 * s]] = 2 * s /\ f[g[2 * s + 1]] = 2 * s + 1
          /\ c[g[2 * s]] # c[g[2 * s + 1]]
      BY <2>1, <3>1
    <3>3. c[g[2 * s]] = child \/ c[g[2 * s + 1]] = child
      BY <3>2 DEF Colorings, Bit
    <3> QED
      BY <3>1, <3>2, <3>3
  <2>2. CASE s \notin Pair
    <3>1. child = 0 /\ Odd /\ s = Unpaired \div 2
      BY <2>2, SlotFacts DEF Bit
    <3>2. g[Unpaired] \in Index /\ f[g[Unpaired]] = Unpaired /\ c[g[Unpaired]] = 0
      BY <3>1, IndexFacts
    <3> QED
      BY <3>1, <3>2
  <2> QED
    BY <2>1, <2>2
<1> QED
  BY <1>1, <1>2, <1>3

LEMMA ProperSplits ==
  ASSUME NEW p \in Permutations, NEW c \in Colorings, Proper(InverseOf(p), c),
         \A e \in OddEnds(InverseOf(p)) : c[e] = 0
  PROVE  IsSplit(Writes(p, c))
<1> DEFINE inv == InverseOf(p)
           id == [i \in Index |-> i]
<1>1. /\ \A k \in Pair : c[2 * k] # c[2 * k + 1] /\ c[inv[2 * k]] # c[inv[2 * k + 1]]
      /\ Odd => c[Unpaired] = 0 /\ c[inv[Unpaired]] = 0
  BY DEF Proper, LeftEnd, RightEnd, OddEnds
<1>2. /\ \A i, j \in Index : i \div 2 = j \div 2 /\ c[i] = c[j] => i = j
      /\ \A i \in Index : i \div 2 \in 0 .. ChildSize(c[i]) - 1
      /\ \A child \in Bit : \A s \in 0 .. ChildSize(child) - 1 :
           \E i \in Index : c[i] = child /\ i \div 2 = s
  <2>1. id \in [Index -> Index] /\ \A i \in Index : id[i] = i
    OBVIOUS
  <2> HIDE DEF id
  <2>2. \A k \in Pair : c[id[2 * k]] # c[id[2 * k + 1]]
    BY <1>1, <2>1, IndexFacts
  <2>3. Odd => c[id[Unpaired]] = 0
    BY <1>1, <2>1, IndexFacts
  <2>4. /\ \A i, j \in Index : id[i] \div 2 = id[j] \div 2 /\ c[i] = c[j] => i = j
        /\ \A i \in Index : id[i] \div 2 \in 0 .. ChildSize(c[i]) - 1
        /\ \A child \in Bit : \A s \in 0 .. ChildSize(child) - 1 :
             \E i \in Index : c[i] = child /\ id[i] \div 2 = s
    BY <2>1, <2>2, <2>3, SideSplits
  <2> QED
    BY <2>1, <2>4
<1>3. /\ \A i, j \in Index : p[i] \div 2 = p[j] \div 2 /\ c[i] = c[j] => i = j
      /\ \A i \in Index : p[i] \div 2 \in 0 .. ChildSize(c[i]) - 1
      /\ \A child \in Bit : \A s \in 0 .. ChildSize(child) - 1 :
           \E i \in Index : c[i] = child /\ p[i] \div 2 = s
  <2>1. p \in [Index -> Index]
    BY DEF Permutations
  <2> QED
    BY <1>1, <2>1, InverseType, SideSplits
<1> SUFFICES ASSUME NEW child \in Bit
             PROVE  LET mine == {u \in Writes(p, c) : u[1] = child}
                        slot == 0 .. ChildSize(child) - 1
                    IN  /\ \A s \in slot : \E u \in mine : u[2] = s
                        /\ \A s \in slot : \E u \in mine : u[3] = s
                        /\ \A u \in mine : u[2] \in slot /\ u[3] \in slot
                        /\ \A t, u \in mine : t[2] = u[2] <=> t[3] = u[3]
  BY DEF IsSplit
<1> DEFINE mine == {u \in Writes(p, c) : u[1] = child}
<1>4. /\ \A i \in Index : c[i] = child => <<c[i], i \div 2, p[i] \div 2>> \in mine
      /\ \A u \in mine : \E i \in Index :
           c[i] = child /\ u[2] = i \div 2 /\ u[3] = p[i] \div 2
  BY DEF Writes
<1> HIDE DEF mine
<1>5. \A s \in 0 .. ChildSize(child) - 1 :
        (\E u \in mine : u[2] = s) /\ (\E u \in mine : u[3] = s)
  <2> SUFFICES ASSUME NEW s \in 0 .. ChildSize(child) - 1
               PROVE  (\E u \in mine : u[2] = s) /\ (\E u \in mine : u[3] = s)
    OBVIOUS
  <2>1. PICK i \in Index : c[i] = child /\ i \div 2 = s
    BY <1>2
  <2>2. PICK j \in Index : c[j] = child /\ p[j] \div 2 = s
    BY <1>3
  <2>3. /\ <<c[i], i \div 2, p[i] \div 2>>[2] = s
        /\ <<c[j], j \div 2, p[j] \div 2>>[3] = s
    BY <2>1, <2>2
  <2> QED
    BY <1>4, <2>1, <2>2, <2>3
<1>6. \A u \in mine : u[2] \in 0 .. ChildSize(child) - 1 /\ u[3] \in 0 .. ChildSize(child) - 1
  BY <1>2, <1>3, <1>4
<1>7. ASSUME NEW t \in mine, NEW u \in mine PROVE t[2] = u[2] <=> t[3] = u[3]
  <2>1. PICK i \in Index : c[i] = child /\ t[2] = i \div 2 /\ t[3] = p[i] \div 2
    BY <1>4
  <2>2. PICK j \in Index : c[j] = child /\ u[2] = j \div 2 /\ u[3] = p[j] \div 2
    BY <1>4
  <2> QED
    BY <1>2, <1>3, <2>1, <2>2
<1> QED
  BY <1>5, <1>6, <1>7 DEF mine

\* A decoder that has the bits of one side finds the routing.
LEMMA DecodedIsColoring ==
  ASSUME NEW f \in [Index -> Index], NEW g \in [Index -> Index],
         \A i \in Index : g[f[i]] = i,
         NEW c \in Colorings,
         \A k \in Pair : c[g[2 * k]] # c[g[2 * k + 1]],
         Odd => c[g[Unpaired]] = 0,
         NEW bits, \A k \in Pair : bits[k] = c[g[2 * k]]
  PROVE  Decoded(bits, f) = c
<1>1. ASSUME NEW i \in Index PROVE Decoded(bits, f)[i] = c[i]
  <2>1. CASE Odd /\ f[i] = Unpaired
    <3>1. c[i] = 0
      BY <2>1
    <3> QED
      BY <2>1, <3>1 DEF Decoded
  <2>2. CASE ~(Odd /\ f[i] = Unpaired)
    <3> DEFINE k == f[i] \div 2
    <3>1. Decoded(bits, f)[i] = Xor(bits[k], f[i] % 2)
      BY <2>2 DEF Decoded
    <3>2. k \in Pair /\ (f[i] = 2 * k \/ f[i] = 2 * k + 1)
      BY <2>2, SlotFacts
    <3> HIDE DEF k
    <3>3. (2 * k) % 2 = 0 /\ (2 * k + 1) % 2 = 1 /\ k \in Nat
      <4>1. k \in Nat
        BY <3>2, IndexFacts
      <4> QED
        BY <4>1
    <3>4. 2 * k \in Index /\ 2 * k + 1 \in Index
      BY <3>2, IndexFacts
    <3>5. g[2 * k] \in Index /\ g[2 * k + 1] \in Index
      BY <3>4
    <3>6. /\ c[g[2 * k]] \in {0, 1} /\ c[g[2 * k + 1]] \in {0, 1}
          /\ c[g[2 * k]] # c[g[2 * k + 1]] /\ bits[k] = c[g[2 * k]]
      BY <3>2, <3>5 DEF Colorings, Bit
    <3>7. CASE f[i] = 2 * k
      <4>1. g[2 * k] = i
        BY <3>7
      <4> QED
        BY <3>1, <3>3, <3>6, <3>7, <4>1 DEF Xor
    <3>8. CASE f[i] = 2 * k + 1
      <4>1. g[2 * k + 1] = i
        BY <3>8
      <4> QED
        BY <3>1, <3>3, <3>6, <3>8, <4>1 DEF Xor
    <3> QED
      BY <3>2, <3>7, <3>8
  <2> QED
    BY <2>1, <2>2
<1>2. DOMAIN Decoded(bits, f) = Index /\ Decoded(bits, f) = [i \in Index |-> Decoded(bits, f)[i]]
  BY DEF Decoded
<1> QED
  BY <1>1, <1>2 DEF Colorings
=============================================================================
