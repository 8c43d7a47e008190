--------------------------- MODULE FileViewProofs ---------------------------
(***************************************************************************)
(* Header, proved for every format and every file: a file opens in memory  *)
(* exactly when it opens from a stream, what was written opens as it was   *)
(* laid out and no shorter part of it opens, and no bit is set where no    *)
(* section uses it.                                                        *)
(*                                                                         *)
(* The sizes of a format are recursive functions.  That they are numbers   *)
(* follows from the order of the naturals: the equations of such a         *)
(* function have a solution up to each n, and of values of which one would *)
(* not be a number there would be a first.                                 *)
(***************************************************************************)
EXTENDS Header, PageCache, FiniteSetTheorems, WellFoundedInduction, TLAPS

LEMMA LeafSizeFacts ==
  ASSUME NEW g \in 1 .. 5
  PROVE  Sizes(g)!LeafSize \in Nat \ {0}
<1>1. g = 1 \/ g = 2 \/ g = 3 \/ g = 4 \/ g = 5
  OBVIOUS
<1> QED
  BY <1>1 DEF Sizes!LeafSize

LEMMA Halves ==
  ASSUME NEW g \in 1 .. 5, NEW k \in Nat, ~(k <= Sizes(g)!LeafSize)
  PROVE  /\ Sizes(g)!LeftCount(k) \in 0 .. k - 1
         /\ Sizes(g)!RightCount(k) \in 0 .. k - 1
<1>1. k >= 2
  BY LeafSizeFacts
<1> QED
  BY <1>1 DEF Sizes!LeftCount, Sizes!RightCount

LEMMA Bits ==
  ASSUME NEW g \in 1 .. 5, NEW c \in Nat
  PROVE  Sizes(g)!FactoradicBitCount(c) \in Nat
<1>1. 0 .. g * c \subseteq Nat /\ g * c \in Nat
  OBVIOUS
<1>2. IsFiniteSet(0 .. g * c)
  BY <1>1, FS_Interval
<1>3. IsFiniteSet({b \in 0 .. g * c : Sizes(g)!PowerOfTwo[b] < Sizes(g)!Factorial[c]})
  BY <1>2, FS_Subset
<1>4. Cardinality({b \in 0 .. g * c : Sizes(g)!PowerOfTwo[b] < Sizes(g)!Factorial[c]}) \in Nat
  BY <1>3, FS_CardinalityType
<1> QED
  BY <1>4 DEF Sizes!FactoradicBitCount, Sizes!Cardinality, Cardinality

LEMMA SmallestOf ==
  ASSUME NEW S \in SUBSET Nat, S # {}
  PROVE  \E k \in S : \A j \in S : k <= j
<1>1. PICK k \in S : \A j \in S : ~(<<j, k>> \in OpToRel(<, Nat))
  BY NatLessThanWellFounded, WFMin
<1>2. \A j \in S : ~(j < k)
  BY <1>1 DEF OpToRel
<1> QED
  BY <1>2

\* A function on 0 .. n is given by a rule for each value in terms of the values
\* before it.
IsRule(rule, n) ==
  /\ rule \in [0 .. n -> [[0 .. n -> Nat] -> Nat]]
  /\ \A k \in 0 .. n : \A f, h \in [0 .. n -> Nat] :
       (\A j \in 0 .. k - 1 : f[j] = h[j]) => rule[k][f] = rule[k][h]

LEMMA RuleHasFunction ==
  ASSUME NEW n \in Nat, NEW rule, IsRule(rule, n)
  PROVE  \E f \in [0 .. n -> Nat] : \A k \in 0 .. n : f[k] = rule[k][f]
<1> DEFINE F       == [0 .. n -> Nat]
           Upto(m) == {f \in F : \A k \in 0 .. m - 1 : f[k] = rule[k][f]}
           Bad     == {m \in 0 .. n + 1 : Upto(m) = {}}
<1>1. \A m \in 0 .. n + 1 : m \in Bad <=> Upto(m) = {}
  OBVIOUS
<1>2. Bad \in SUBSET Nat
  OBVIOUS
<1>3. \A m \in Nat : \A f : f \in Upto(m) <=> f \in F /\ \A k \in 0 .. m - 1 : f[k] = rule[k][f]
  OBVIOUS
<1> HIDE DEF Bad, Upto
<1>4. Upto(0) # {}
  <2>1. [k \in 0 .. n |-> 0] \in F
    OBVIOUS
  <2>2. \A k \in 0 .. 0 - 1 : FALSE
    OBVIOUS
  <2>3. [k \in 0 .. n |-> 0] \in Upto(0)
    BY <1>3, <2>1, <2>2
  <2> QED
    BY <2>3
<1>5. ASSUME NEW p \in 0 .. n, NEW f \in Upto(p) PROVE Upto(p + 1) # {}
  <2> DEFINE h == [f EXCEPT ![p] = rule[p][f]]
  <2>1. f \in F /\ rule[p][f] \in Nat /\ p \in Nat /\ p + 1 \in Nat
    <3>1. p \in Nat /\ p + 1 \in Nat
      OBVIOUS
    <3>2. f \in F
      BY <1>3, <1>5, <3>1
    <3> QED
      BY <3>1, <3>2 DEF IsRule
  <2>2. h \in F /\ h[p] = rule[p][f] /\ \A k \in 0 .. n : k # p => h[k] = f[k]
    BY <2>1
  <2> HIDE DEF h
  <2>3. ASSUME NEW k \in 0 .. p PROVE h[k] = rule[k][h]
    <3>1. k \in 0 .. n /\ \A j \in 0 .. k - 1 : j \in 0 .. n /\ j # p
      OBVIOUS
    <3>2. rule[k][f] = rule[k][h]
      BY <2>1, <2>2, <3>1 DEF IsRule
    <3>3. k # p => h[k] = f[k] /\ f[k] = rule[k][f]
      BY <1>3, <1>5, <2>1, <2>2, <3>1
    <3> QED
      BY <2>2, <3>2, <3>3
  <2>4. h \in Upto(p + 1)
    <3>1. p + 1 \in Nat /\ (p + 1) - 1 = p
      OBVIOUS
    <3> QED
      BY <1>3, <2>2, <2>3, <3>1
  <2> QED
    BY <2>4
<1>6. Bad = {}
  <2> SUFFICES ASSUME Bad # {} PROVE FALSE
    OBVIOUS
  <2>1. PICK m \in Bad : \A j \in Bad : m <= j
    BY <1>2, SmallestOf
  <2>2. m \in 0 .. n + 1 /\ Upto(m) = {}
    BY <1>1, <2>1 DEF Bad
  <2>3. m # 0
    BY <1>4, <2>2
  <2>4. m - 1 \in 0 .. n /\ m - 1 \notin Bad /\ (m - 1) + 1 = m
    BY <2>1, <2>2, <2>3
  <2>5. Upto(m - 1) # {}
    BY <1>1, <2>4
  <2> QED
    BY <1>5, <2>2, <2>4, <2>5
<1>7. PICK f : f \in Upto(n + 1)
  BY <1>1, <1>6
<1> QED
  BY <1>3, <1>7

\* What holds of a value whenever it holds of those before it, holds of all.
LEMMA FromSmaller ==
  ASSUME NEW n \in Nat, NEW S,
         \A k \in 0 .. n : (\A j \in 0 .. k - 1 : j \in S) => k \in S
  PROVE  n \in S
<1> SUFFICES ASSUME n \notin S PROVE FALSE
  OBVIOUS
<1> DEFINE Bad == {k \in 0 .. n : k \notin S}
<1>1. n \in Bad /\ Bad \in SUBSET Nat
  OBVIOUS
<1>2. PICK m \in Bad : \A j \in Bad : m <= j
  <2>1. Bad # {}
    BY <1>1
  <2> HIDE DEF Bad
  <2> QED
    BY <1>1, <2>1, SmallestOf
<1>3. m \in 0 .. n /\ m \notin S
  OBVIOUS
<1>4. \A j \in 0 .. m - 1 : j \in S
  BY <1>2, <1>3
<1> QED
  BY <1>3, <1>4

-----------------------------------------------------------------------------
(* The sizes of a format are numbers. *)

LEMMA SwitchBitsType ==
  ASSUME NEW g \in 1 .. 5, NEW n \in Nat
  PROVE  Sizes(g)!SwitchBits(n) \in Nat
<1> DEFINE Leaf(k)  == k <= Sizes(g)!LeafSize
           Left(k)  == Sizes(g)!LeftCount(k)
           Right(k) == Sizes(g)!RightCount(k)
           IsBits(f) == f = [k \in 0 .. n |->
              IF Leaf(k) THEN 0 ELSE k \div 2 + f[Left(k)] + f[Right(k)]]
           bits == CHOOSE f : IsBits(f)
           rule == [k \in 0 .. n |-> [f \in [0 .. n -> Nat] |->
              IF Leaf(k) THEN 0 ELSE k \div 2 + f[Left(k)] + f[Right(k)]]]
<1>1. Sizes(g)!SwitchBits(n) = bits[n]
  BY DEF Sizes!SwitchBits
<1>2. \A k \in 0 .. n : ~Leaf(k) => Left(k) \in 0 .. k - 1 /\ Right(k) \in 0 .. k - 1
  <2>1. \A k \in 0 .. n : k \in Nat
    OBVIOUS
  <2> QED
    BY <2>1, Halves
<1> HIDE DEF Leaf, Left, Right
<1>3. \A k \in 0 .. n : k \div 2 \in Nat
  OBVIOUS
<1>4. IsRule(rule, n)
  <2>1. ASSUME NEW k \in 0 .. n, NEW f \in [0 .. n -> Nat]
        PROVE  rule[k][f] \in Nat
    <3>1. rule[k][f] = IF Leaf(k) THEN 0 ELSE k \div 2 + f[Left(k)] + f[Right(k)]
      OBVIOUS
    <3> HIDE DEF rule
    <3>2. CASE Leaf(k)
      BY <1>3, <3>1, <3>2
    <3>3. CASE ~Leaf(k)
      <4>1. f[Left(k)] \in Nat /\ f[Right(k)] \in Nat
        BY <1>2, <3>3
      <4> QED
        BY <1>3, <3>1, <3>3, <4>1
    <3> QED
      BY <3>2, <3>3
  <2> QED
    BY <1>2, <2>1 DEF IsRule
<1>5. \E f : IsBits(f)
  <2>1. PICK f \in [0 .. n -> Nat] : \A k \in 0 .. n : f[k] = rule[k][f]
    <3> HIDE DEF rule
    <3> QED
      BY <1>4, RuleHasFunction
  <2> QED
    BY <2>1
<1>6. IsBits(bits)
  BY <1>5
<1> HIDE DEF bits
<1>7. \A k \in 0 .. n : bits[k] = IF Leaf(k) THEN 0 ELSE k \div 2 + bits[Left(k)] + bits[Right(k)]
  BY <1>6
<1>8. bits[n] \in Nat
  <2> DEFINE S == {k \in 0 .. n : bits[k] \in Nat}
  <2>1. ASSUME NEW k \in 0 .. n, \A j \in 0 .. k - 1 : j \in S PROVE k \in S
    BY <1>2, <1>3, <1>7, <2>1
  <2>2. n \in S
    <3> HIDE DEF S
    <3> QED
      BY <2>1, FromSmaller
  <2> QED
    BY <2>2
<1> QED
  BY <1>1, <1>8

LEMMA MiddleBitsType ==
  ASSUME NEW g \in 1 .. 5, NEW n \in Nat
  PROVE  Sizes(g)!MiddleBits(n) \in Nat
<1> DEFINE Leaf(k)  == k <= Sizes(g)!LeafSize
           Left(k)  == Sizes(g)!LeftCount(k)
           Right(k) == Sizes(g)!RightCount(k)
           Rank(k)  == Sizes(g)!FactoradicBitCount(k)
           IsBits(f) == f = [k \in 0 .. n |->
              IF Leaf(k) THEN Rank(k) ELSE f[Left(k)] + f[Right(k)]]
           bits == CHOOSE f : IsBits(f)
           rule == [k \in 0 .. n |-> [f \in [0 .. n -> Nat] |->
              IF Leaf(k) THEN Rank(k) ELSE f[Left(k)] + f[Right(k)]]]
<1>1. Sizes(g)!MiddleBits(n) = bits[n]
  BY DEF Sizes!MiddleBits
<1>2. \A k \in 0 .. n : ~Leaf(k) => Left(k) \in 0 .. k - 1 /\ Right(k) \in 0 .. k - 1
  <2>1. \A k \in 0 .. n : k \in Nat
    OBVIOUS
  <2> QED
    BY <2>1, Halves
<1>3. \A k \in 0 .. n : Rank(k) \in Nat
  BY Bits
<1> HIDE DEF Leaf, Left, Right, Rank
<1>4. IsRule(rule, n)
  <2>1. ASSUME NEW k \in 0 .. n, NEW f \in [0 .. n -> Nat]
        PROVE  rule[k][f] \in Nat
    <3>1. rule[k][f] = IF Leaf(k) THEN Rank(k) ELSE f[Left(k)] + f[Right(k)]
      OBVIOUS
    <3> HIDE DEF rule
    <3>2. CASE Leaf(k)
      BY <1>3, <3>1, <3>2
    <3>3. CASE ~Leaf(k)
      <4>1. f[Left(k)] \in Nat /\ f[Right(k)] \in Nat
        BY <1>2, <3>3
      <4> QED
        BY <1>3, <3>1, <3>3, <4>1
    <3> QED
      BY <3>2, <3>3
  <2> QED
    BY <1>2, <2>1 DEF IsRule
<1>5. \E f : IsBits(f)
  <2>1. PICK f \in [0 .. n -> Nat] : \A k \in 0 .. n : f[k] = rule[k][f]
    <3> HIDE DEF rule
    <3> QED
      BY <1>4, RuleHasFunction
  <2> QED
    BY <2>1
<1>6. IsBits(bits)
  BY <1>5
<1> HIDE DEF bits
<1>7. \A k \in 0 .. n : bits[k] = IF Leaf(k) THEN Rank(k) ELSE bits[Left(k)] + bits[Right(k)]
  BY <1>6
<1>8. bits[n] \in Nat
  <2> DEFINE S == {k \in 0 .. n : bits[k] \in Nat}
  <2>1. ASSUME NEW k \in 0 .. n, \A j \in 0 .. k - 1 : j \in S PROVE k \in S
    BY <1>2, <1>3, <1>7, <2>1
  <2>2. n \in S
    <3> HIDE DEF S
    <3> QED
      BY <2>1, FromSmaller
  <2> QED
    BY <2>2
<1> QED
  BY <1>1, <1>8

LEMMA RoutingDepthType ==
  ASSUME NEW g \in 1 .. 5, NEW n \in Nat
  PROVE  Sizes(g)!RoutingDepth(n) \in Nat
<1> DEFINE Leaf(k)  == k <= Sizes(g)!LeafSize
           Left(k)  == Sizes(g)!LeftCount(k)
           IsDepth(f) == f = [k \in 0 .. n |->
              IF Leaf(k) THEN 0 ELSE 1 + f[Left(k)]]
           depth == CHOOSE f : IsDepth(f)
           rule == [k \in 0 .. n |-> [f \in [0 .. n -> Nat] |->
              IF Leaf(k) THEN 0 ELSE 1 + f[Left(k)]]]
<1>1. Sizes(g)!RoutingDepth(n) = depth[n]
  BY DEF Sizes!RoutingDepth
<1>2. \A k \in 0 .. n : ~Leaf(k) => Left(k) \in 0 .. k - 1
  <2>1. \A k \in 0 .. n : k \in Nat
    OBVIOUS
  <2> QED
    BY <2>1, Halves
<1> HIDE DEF Leaf, Left
<1>4. IsRule(rule, n)
  <2>1. ASSUME NEW k \in 0 .. n, NEW f \in [0 .. n -> Nat]
        PROVE  rule[k][f] \in Nat
    <3>1. ~Leaf(k) => f[Left(k)] \in Nat
      BY <1>2
    <3> QED
      BY <3>1
  <2> QED
    BY <1>2, <2>1 DEF IsRule
<1>5. \E f : IsDepth(f)
  <2>1. PICK f \in [0 .. n -> Nat] : \A k \in 0 .. n : f[k] = rule[k][f]
    <3> HIDE DEF rule
    <3> QED
      BY <1>4, RuleHasFunction
  <2> QED
    BY <2>1
<1>6. IsDepth(depth)
  BY <1>5
<1> HIDE DEF depth
<1>7. \A k \in 0 .. n : depth[k] = IF Leaf(k) THEN 0 ELSE 1 + depth[Left(k)]
  BY <1>6
<1>8. depth[n] \in Nat
  <2> DEFINE S == {k \in 0 .. n : depth[k] \in Nat}
  <2>1. ASSUME NEW k \in 0 .. n, \A j \in 0 .. k - 1 : j \in S PROVE k \in S
    BY <1>2, <1>7, <2>1
  <2>2. n \in S
    <3> HIDE DEF S
    <3> QED
      BY <2>1, FromSmaller
  <2> QED
    BY <2>2
<1> QED
  BY <1>1, <1>8

-----------------------------------------------------------------------------
(* Normalising and laying out. *)

Format == [size : Nat, groupLog2 : Nat, placement : PlacementBytes,
           input : Seq(Nat), output : Seq(Nat)]

DepthOf(f)  == Sizes(f.groupLog2)!RoutingDepth(f.size)
Filled(list, depth) == IF list = <<>> THEN DefaultClusters(depth) ELSE list
Accepted(f) ==
  /\ f.groupLog2 \in 1 .. 5 /\ f.placement \in Placements
  /\ ValidClusters(Filled(f.input, DepthOf(f)), DepthOf(f))
  /\ ValidClusters(Filled(f.output, DepthOf(f)), DepthOf(f))
Normal(f) ==
  [f EXCEPT !.input = Filled(f.input, DepthOf(f)),
            !.output = Filled(f.output, DepthOf(f)),
            !.placement = IF DepthOf(f) = 0 THEN "separate" ELSE @]

LEMMA NormalizedIs ==
  ASSUME NEW f
  PROVE  Normalized(f) = IF Accepted(f) THEN {Normal(f)} ELSE {}
BY DEF Normalized, Accepted, Normal, Filled, DepthOf

LEMMA FilledType ==
  ASSUME NEW list \in Seq(Nat), NEW depth \in Nat
  PROVE  /\ Filled(list, depth) \in Seq(Nat)
         /\ Filled(Filled(list, depth), depth) = Filled(list, depth)
<1>1. CASE list = <<>>
  <2>1. depth = 0 \/ depth = 1 \/ depth > 1
    OBVIOUS
  <2>2. (depth + 1) \div 2 \in Nat /\ depth \div 2 \in Nat
    OBVIOUS
  <2>3. DefaultClusters(depth) \in Seq(Nat)
    BY <2>1, <2>2 DEF DefaultClusters
  <2> QED
    BY <1>1, <2>3 DEF Filled
<1>2. CASE list # <<>>
  BY <1>2 DEF Filled
<1> QED
  BY <1>1, <1>2

\* What is normal stays as it is.
LEMMA NormalFacts ==
  ASSUME NEW f \in Format, Accepted(f)
  PROVE  /\ Normal(f) \in Format
         /\ Normal(f).size = f.size /\ Normal(f).groupLog2 = f.groupLog2
         /\ Normal(f).placement \in Placements
         /\ Accepted(Normal(f)) /\ Normal(Normal(f)) = Normal(f)
<1> DEFINE d == DepthOf(f)
<1>1. f.groupLog2 \in 1 .. 5 /\ f.size \in Nat /\ f.placement \in Placements
  BY DEF Accepted, Format
<1>2. d \in Nat
  BY <1>1, RoutingDepthType DEF DepthOf
<1> DEFINE in == Filled(f.input, d)  out == Filled(f.output, d)
           p == IF d = 0 THEN "separate" ELSE f.placement
<1>3. /\ in \in Seq(Nat) /\ Filled(in, d) = in
      /\ out \in Seq(Nat) /\ Filled(out, d) = out
  BY <1>2, FilledType DEF Format
<1>4. ValidClusters(in, d) /\ ValidClusters(out, d)
  BY DEF Accepted
<1>5. p \in Placements /\ (IF d = 0 THEN "separate" ELSE p) = p
  BY <1>1 DEF Placements
<1>6. Normal(f) = [f EXCEPT !.input = in, !.output = out, !.placement = p]
  BY DEF Normal
<1> HIDE DEF in, out, p
<1>7. /\ Normal(f) \in Format /\ Normal(f).size = f.size
      /\ Normal(f).groupLog2 = f.groupLog2 /\ Normal(f).placement = p
      /\ Normal(f).input = in /\ Normal(f).output = out
  BY <1>3, <1>5, <1>6 DEF Format, PlacementBytes
<1>8. DepthOf(Normal(f)) = d
  BY <1>7 DEF DepthOf
<1> HIDE DEF d
<1>9. Accepted(Normal(f))
  BY <1>1, <1>3, <1>4, <1>5, <1>7, <1>8 DEF Accepted
<1>10. Normal(Normal(f)) =
         [Normal(f) EXCEPT !.input = in, !.output = out, !.placement = p]
  BY <1>3, <1>5, <1>7, <1>8 DEF Normal
<1>11. Normal(Normal(f)) = Normal(f)
  BY <1>7, <1>10 DEF Format
<1> QED
  BY <1>5, <1>7, <1>9, <1>11

LEMMA ByteCountFacts ==
  \A b \in Nat : ByteCount(b) \in Nat /\ b <= ByteCount(b) * 8
BY DEF ByteCount

\* The sections stand one after the other behind the header, and have room for
\* what they hold.
LEMMA LayoutFacts ==
  ASSUME NEW f \in Format, f.groupLog2 \in 1 .. 5
  PROVE  LET l == Layout(f)
         IN  /\ l.format = f
             /\ l.input = HeaderSize + Len(f.input) + Len(f.output)
             /\ l.input \in Nat /\ l.end \in Nat /\ l.input <= l.end
             /\ \A s \in Sections(l) :
                  /\ s.begin \in Nat /\ s.end \in Nat /\ s.used \in Nat
                  /\ l.input <= s.begin
                  /\ s.used <= (s.end - s.begin) * 8
             /\ \A x \in Nat : l.input <= x /\ x < l.end =>
                  \E s \in Sections(l) : s.begin <= x /\ x < s.end
<1> DEFINE l  == Layout(f)
           sw == Sizes(f.groupLog2)!SwitchBits(f.size)
           mb == Sizes(f.groupLog2)!MiddleBits(f.size)
           sb == ByteCount(sw)
           bb == ByteCount(mb)
           Bytes(side) == IF f.placement = side THEN bb ELSE 0
           Used(side)  == IF f.placement = side THEN mb ELSE 0
           i == HeaderSize + Len(f.input) + Len(f.output)
           o == i + sb + Bytes("input")
           m == o + sb + Bytes("output")
           e == m + Bytes("separate")
           s1 == [begin |-> i, end |-> o, used |-> sw + Used("input")]
           s2 == [begin |-> o, end |-> m, used |-> sw + Used("output")]
           s3 == [begin |-> m, end |-> e, used |-> Used("separate")]
<1>1. l = [format |-> f, input |-> i, output |-> o, middle |-> m, end |-> e]
  BY DEF Layout
<1>2. Sections(l) = {s1, s2, s3}
  BY <1>1 DEF Sections
<1>3. sw \in Nat /\ mb \in Nat
  BY SwitchBitsType, MiddleBitsType DEF Format
<1>4. i \in Nat
  BY DEF Format, HeaderSize
<1> HIDE DEF l, sw, mb
<1>5. sb \in Nat /\ sw <= sb * 8 /\ bb \in Nat /\ mb <= bb * 8
  BY <1>3, ByteCountFacts
<1> HIDE DEF sb, bb, i
<1>6. \A side : /\ Bytes(side) \in Nat /\ Used(side) \in Nat
                /\ Used(side) <= Bytes(side) * 8
  BY <1>3, <1>5
<1> HIDE DEF Bytes, Used
<1>7. o \in Nat /\ i <= o /\ sw + Used("input") <= (o - i) * 8 /\ sw + Used("input") \in Nat
  BY <1>3, <1>4, <1>5, <1>6
<1>8. o - i = sb + Bytes("input")
  BY <1>4, <1>5, <1>6
<1> HIDE DEF o
<1>9. m \in Nat /\ o <= m /\ sw + Used("output") <= (m - o) * 8 /\ sw + Used("output") \in Nat
  BY <1>3, <1>5, <1>6, <1>7
<1> HIDE DEF m
<1>10. e \in Nat /\ m <= e /\ Used("separate") <= (e - m) * 8
  BY <1>5, <1>6, <1>9
<1> HIDE DEF e
<1>11. \A s \in Sections(l) :
         /\ s.begin \in Nat /\ s.end \in Nat /\ s.used \in Nat
         /\ i <= s.begin /\ s.used <= (s.end - s.begin) * 8
  BY <1>2, <1>4, <1>6, <1>7, <1>9, <1>10
<1>12. ASSUME NEW x \in Nat, i <= x, x < e
       PROVE  \E s \in Sections(l) : s.begin <= x /\ x < s.end
  <2>1. x < o \/ (o <= x /\ x < m) \/ m <= x
    BY <1>7, <1>9
  <2>2. s1 \in Sections(l) /\ s2 \in Sections(l) /\ s3 \in Sections(l)
    BY <1>2
  <2> QED
    BY <1>12, <2>1, <2>2
<1>13. i <= e
  BY <1>4, <1>7, <1>9, <1>10
<1>14. i = HeaderSize + Len(f.input) + Len(f.output)
  BY DEF i
<1>15. l.format = f /\ l.input = i /\ l.end = e
  BY <1>1
<1> SUFFICES
      /\ l.format = f
      /\ l.input = HeaderSize + Len(f.input) + Len(f.output)
      /\ l.input \in Nat /\ l.end \in Nat /\ l.input <= l.end
      /\ \A s \in Sections(l) :
           /\ s.begin \in Nat /\ s.end \in Nat /\ s.used \in Nat
           /\ l.input <= s.begin
           /\ s.used <= (s.end - s.begin) * 8
      /\ \A x \in Nat : l.input <= x /\ x < l.end =>
           \E s \in Sections(l) : s.begin <= x /\ x < s.end
  BY DEF l
<1> QED
  BY <1>4, <1>10, <1>11, <1>12, <1>13, <1>14, <1>15

-----------------------------------------------------------------------------
(* Parsing. *)

File == [magic : BOOLEAN, size : Nat, groupLog2 : Nat, placement : PlacementBytes,
         inputs : Nat, outputs : Nat, length : Nat, clusters : Seq(Nat),
         ones : SUBSET Nat]

\* The format a header states.
Stated(f) ==
  [size |-> f.size, groupLog2 |-> f.groupLog2, placement |-> f.placement,
   input |-> Depths(f, 0, f.inputs), output |-> Depths(f, f.inputs, f.outputs)]

\* The parser has its say on the first bytes, and on the length.
Refused(f, have, actual) ==
  \/ have < HeaderSize \/ ~f.magic \/ ~Supported(f, actual)
  \/ have < HeaderLength(f) \/ f.size = 0 \/ ~Accepted(Stated(f))
  \/ Layout(Normal(Stated(f))).end # actual

LEMMA ParsedIs ==
  ASSUME NEW f, NEW have, NEW actual
  PROVE  Parsed(f, have, actual) =
           IF Refused(f, have, actual) THEN {} ELSE {Layout(Normal(Stated(f)))}
<1>1. Normalized(Stated(f)) =
        IF Accepted(Stated(f)) THEN {Normal(Stated(f))} ELSE {}
  BY NormalizedIs
<1>2. Parsed(f, have, actual) =
        IF have < HeaderSize \/ ~f.magic \/ ~Supported(f, actual)
           \/ have < HeaderLength(f) \/ f.size = 0
        THEN {} ELSE {l \in {Layout(n) : n \in Normalized(Stated(f))} : l.end = actual}
  BY DEF Parsed, Stated
<1> QED
  BY <1>1, <1>2 DEF Refused

LEMMA StatedType ==
  ASSUME NEW f \in File
  PROVE  Stated(f) \in Format
<1>1. ASSUME NEW first \in Nat, NEW count \in Nat
      PROVE  Depths(f, first, count) \in Seq(Nat)
  <2>1. \A n \in 1 .. count :
          (IF first + n \in DOMAIN f.clusters THEN f.clusters[first + n] ELSE 0) \in Nat
    BY DEF File
  <2> QED
    BY <2>1 DEF Depths
<1>2. f.inputs \in Nat /\ f.outputs \in Nat
  BY DEF File
<1>3. Depths(f, 0, f.inputs) \in Seq(Nat) /\ Depths(f, f.inputs, f.outputs) \in Seq(Nat)
  BY <1>1, <1>2
<1> QED
  BY <1>3 DEF Stated, Format, File

\* The file a view is opened on.
IsFile(f) == f \in File /\ Len(f.clusters) = f.inputs + f.outputs

\* What a view makes of a file that says nothing behind its clusters.
Opened(f) == {l \in Parsed(f, f.length, f.length) : PaddingIsZero(f, l)}

LEMMA NoBitsNoPadding ==
  ASSUME NEW f \in File, f.ones = {}, NEW n \in Format, n.groupLog2 \in 1 .. 5,
         Layout(n).input = HeaderSize + Len(f.clusters)
  PROVE  PaddingIsZero(f, Layout(n))
<1> DEFINE l == Layout(n)
<1>1. \A s \in Sections(l) :
        /\ s.begin \in Nat /\ s.end \in Nat /\ s.used \in Nat
        /\ l.input <= s.begin /\ s.used <= (s.end - s.begin) * 8
  BY LayoutFacts
<1> HIDE DEF l
<1>2. ASSUME NEW s \in Sections(l), NEW b \in PaddingBits(s)
      PROVE  ~IsSet(f, s.begin + b \div 8, b % 8)
  <2>1. b \in Nat
    BY <1>1, <1>2 DEF PaddingBits
  <2>2. b \div 8 \in Nat
    BY <2>1
  <2>3. (s.begin + b \div 8) - HeaderSize + 1 \notin DOMAIN f.clusters
    <3>1. l.input = HeaderSize + Len(f.clusters) /\ Len(f.clusters) \in Nat
          /\ DOMAIN f.clusters = 1 .. Len(f.clusters)
      BY DEF l, File
    <3> QED
      BY <1>1, <2>2, <3>1 DEF HeaderSize
  <2> QED
    BY <2>3 DEF IsSet
<1> QED
  BY <1>1, <1>2 DEF PaddingIsZero, l

LEMMA Joined ==
  ASSUME NEW a \in Seq(Nat), NEW b \in Seq(Nat)
  PROVE  /\ a \o b \in Seq(Nat) /\ Len(a \o b) = Len(a) + Len(b)
         /\ DOMAIN (a \o b) = 1 .. Len(a) + Len(b)
         /\ \A k \in 1 .. Len(a) : (a \o b)[k] = a[k]
         /\ \A k \in 1 .. Len(b) : (a \o b)[Len(a) + k] = b[k]
OBVIOUS

\* The file that is written, in whole or in part.
LEMMA WrittenFacts ==
  ASSUME NEW n \in Format, n.groupLog2 \in 1 .. 5, NEW m \in Nat
  PROVE  LET f == Stored(Written(Layout(n)), m)
         IN  /\ f \in File
             /\ f.magic /\ f.size = n.size /\ f.placement = n.placement
             /\ f.groupLog2 = n.groupLog2
             /\ f.inputs = Len(n.input) /\ f.outputs = Len(n.output)
             /\ f.length = m /\ f.clusters = n.input \o n.output /\ f.ones = {}
             /\ Len(f.clusters) = f.inputs + f.outputs
             /\ Written(Layout(n)) = Stored(Written(Layout(n)), Layout(n).end)
             /\ \A k : Stored(f, k) = Stored(Written(Layout(n)), k)
<1> DEFINE f == Stored(Written(Layout(n)), m)
           a == Len(n.input)  b == Len(n.output)  w == n.input \o n.output
<1>1. Layout(n).format = n /\ Layout(n).end \in Nat
  BY LayoutFacts
<1>2. /\ n.input \in Seq(Nat) /\ n.output \in Seq(Nat)
      /\ a \in Nat /\ b \in Nat
  BY DEF Format
<1>3. /\ w \in Seq(Nat) /\ Len(w) = a + b /\ DOMAIN w = 1 .. a + b
  <2>1. n.input \in Seq(Nat) /\ n.output \in Seq(Nat)
    BY DEF Format
  <2> QED
    BY <2>1, Joined
<1>4. /\ f \in File
      /\ f.magic /\ f.size = n.size /\ f.placement = n.placement
      /\ f.groupLog2 = n.groupLog2 /\ f.inputs = a /\ f.outputs = b
      /\ f.length = m /\ f.clusters = w /\ f.ones = {}
      /\ Written(Layout(n)) = Stored(Written(Layout(n)), Layout(n).end)
      /\ \A k : Stored(f, k) = Stored(Written(Layout(n)), k)
  <2> DEFINE r == Written(Layout(n))
  <2>1. r = [magic |-> TRUE, size |-> n.size, placement |-> n.placement,
             groupLog2 |-> n.groupLog2, inputs |-> a, outputs |-> b,
             length |-> Layout(n).end, clusters |-> w, ones |-> {}]
    BY <1>1, Zenon DEF Written
  <2>2. f = [r EXCEPT !.length = m]
    BY DEF Stored
  <2> HIDE DEF a, b, w, f, r
  <2>3. /\ r \in File
        /\ r.magic /\ r.size = n.size /\ r.placement = n.placement
        /\ r.groupLog2 = n.groupLog2 /\ r.inputs = a /\ r.outputs = b
        /\ r.clusters = w /\ r.ones = {}
    BY <1>1, <1>2, <1>3, <2>1 DEF File, Format
  <2>4. /\ r = [r EXCEPT !.length = r.length] /\ r.length = Layout(n).end
        /\ \A k : [f EXCEPT !.length = k] = [r EXCEPT !.length = k]
    BY <2>1, <2>2
  <2>5. /\ r = Stored(r, Layout(n).end)
        /\ \A k : Stored(f, k) = Stored(r, k)
    BY <2>4 DEF Stored
  <2>6. /\ f \in File
        /\ f.magic /\ f.size = n.size /\ f.placement = n.placement
        /\ f.groupLog2 = n.groupLog2 /\ f.inputs = a /\ f.outputs = b
        /\ f.length = m /\ f.clusters = w /\ f.ones = {}
    BY <2>2, <2>3 DEF File
  <2> QED
    BY <2>5, <2>6 DEF r
<1>5. Len(f.clusters) = f.inputs + f.outputs
  BY <1>3, <1>4
<1> QED
  BY <1>4, <1>5 DEF f, a, b, w

\* What compress_file has stored of a header that fits opens if nothing is missing.
LEMMA WrittenIsOpened ==
  ASSUME NEW n \in Format, Accepted(n), Normal(n) = n, n.size # 0, NEW m \in Nat,
         Len(n.input) + Len(n.output) <= MaxClusterBytes
  PROVE  Opened(Stored(Written(Layout(n)), m)) = {l \in {Layout(n)} : l.end = m}
<1> DEFINE f == Stored(Written(Layout(n)), m)
           a == Len(n.input)  b == Len(n.output)  w == n.input \o n.output
<1>1. /\ Layout(n).format = n /\ Layout(n).input = HeaderSize + a + b
      /\ Layout(n).end \in Nat /\ Layout(n).input <= Layout(n).end
      /\ n.groupLog2 \in 1 .. 5
  BY LayoutFacts DEF Accepted
<1>2. /\ n.input \in Seq(Nat) /\ n.output \in Seq(Nat)
      /\ a \in Nat /\ b \in Nat
      /\ n.input = [k \in 1 .. a |-> n.input[k]]
      /\ n.output = [k \in 1 .. b |-> n.output[k]]
  BY DEF Format
<1>3. /\ w \in Seq(Nat) /\ Len(w) = a + b /\ DOMAIN w = 1 .. a + b
      /\ \A k \in 1 .. a : w[k] = n.input[k]
      /\ \A k \in 1 .. b : w[a + k] = n.output[k]
  <2>1. n.input \in Seq(Nat) /\ n.output \in Seq(Nat)
    BY DEF Format
  <2> QED
    BY <2>1, Joined
<1>4. /\ f \in File
      /\ f.magic /\ f.size = n.size /\ f.placement = n.placement
      /\ f.groupLog2 = n.groupLog2 /\ f.inputs = a /\ f.outputs = b
      /\ f.length = m /\ f.clusters = w /\ f.ones = {}
  <2>1. n.groupLog2 \in 1 .. 5
    BY <1>1
  <2> QED
    BY <2>1, WrittenFacts, Zenon
<1>5. a + b <= MaxClusterBytes /\ MaxClusterBytes \in Nat
  BY HeaderAssumption
<1> HIDE DEF f, a, b, w
<1>6. Depths(f, 0, f.inputs) = n.input
  <2>1. Depths(f, 0, f.inputs) =
          [k \in 1 .. a |-> IF 0 + k \in 1 .. a + b THEN w[0 + k] ELSE 0]
    <3>1. f.inputs = a /\ f.clusters = w
      BY <1>4
    <3> QED
      BY <1>3, <3>1, Zenon DEF Depths
  <2>2. \A k \in 1 .. a : 0 + k = k /\ k \in 1 .. a + b
    BY <1>2
  <2>3. \A k \in 1 .. a :
          (IF 0 + k \in 1 .. a + b THEN w[0 + k] ELSE 0) = n.input[k]
    BY <1>3, <2>2
  <2> QED
    BY <1>2, <2>1, <2>3, Zenon
<1>7. Depths(f, f.inputs, f.outputs) = n.output
  <2>1. Depths(f, f.inputs, f.outputs) =
          [k \in 1 .. b |-> IF a + k \in 1 .. a + b THEN w[a + k] ELSE 0]
    <3>1. f.inputs = a /\ f.outputs = b /\ f.clusters = w
      BY <1>4
    <3> QED
      BY <1>3, <3>1, Zenon DEF Depths
  <2>2. \A k \in 1 .. b : a + k \in 1 .. a + b
    BY <1>2
  <2> QED
    BY <1>2, <1>3, <2>1, <2>2
<1>8. Stated(f) = n
  <2>1. n = [size |-> n.size, groupLog2 |-> n.groupLog2, placement |-> n.placement,
             input |-> n.input, output |-> n.output]
    BY DEF Format
  <2> QED
    BY <1>4, <1>6, <1>7, <2>1 DEF Stated
<1>9. /\ f.magic /\ f.size = n.size /\ f.length = m /\ f.ones = {}
       /\ f.clusters = w /\ HeaderLength(f) = HeaderSize + a + b
  BY <1>4 DEF HeaderLength
<1>10. Parsed(f, m, m) = IF Refused(f, m, m) THEN {} ELSE {Layout(n)}
  BY <1>8, ParsedIs
<1>11. Layout(n).end = m <=> ~Refused(f, m, m)
  <2> DEFINE h == HeaderLength(f)  e == Layout(n).end
  <2>1. /\ h = HeaderSize + a + b /\ HeaderSize \in Nat
        /\ e \in Nat /\ h <= e
    BY <1>1, <1>9 DEF HeaderSize
  <2>2. ~Refused(f, m, m) => e = m
    BY <1>8 DEF Refused
  <2> HIDE DEF h, e
  <2>3. ASSUME e = m
        PROVE  /\ h <= m /\ ~(m < h) /\ ~(m < HeaderSize)
               /\ h <= HeaderSize + MaxClusterBytes
    BY <1>2, <1>5, <2>1, <2>3
  <2>4. e = m => ~Refused(f, m, m)
    BY <1>8, <1>9, <2>3 DEF Refused, Supported, h, e
  <2> QED
    BY <2>2, <2>4 DEF e
<1>12. PaddingIsZero(f, Layout(n))
  <2>1. Layout(n).input = HeaderSize + Len(f.clusters)
    BY <1>1, <1>2, <1>3, <1>9 DEF HeaderSize
  <2> QED
    BY <1>1, <1>4, <1>9, <2>1, NoBitsNoPadding
<1>13. Opened(f) = {l \in Parsed(f, m, m) : PaddingIsZero(f, l)}
  BY <1>9 DEF Opened
<1>14. Opened(f) = {l \in {Layout(n)} : l.end = m}
  BY <1>10, <1>11, <1>12, <1>13
<1> QED
  BY <1>14 DEF f

\* Of the bytes there are, the parser needs no more than the header.
LEMMA HeaderSuffices ==
  ASSUME NEW f \in File, f.length >= HeaderSize, Supported(f, f.length)
  PROVE  Parsed(f, HeaderLength(f), f.length) = Parsed(f, f.length, f.length)
<1> DEFINE h == HeaderLength(f)  n == f.length
<1>1. h \in Nat /\ HeaderSize <= h /\ h <= n /\ n \in Nat /\ HeaderSize \in Nat
  BY DEF File, HeaderLength, HeaderSize, Supported
<1> HIDE DEF h, n
<1>2. ~(h < HeaderSize) /\ ~(h < h) /\ ~(n < HeaderSize) /\ ~(n < h)
  BY <1>1
<1>3. Refused(f, h, n) <=> Refused(f, n, n)
  BY <1>2 DEF Refused, h
<1> QED
  BY <1>3, ParsedIs DEF h, n

LEMMA ParsedFacts ==
  ASSUME NEW f \in File, NEW have, NEW actual, NEW l \in Parsed(f, have, actual)
  PROVE  /\ Parsed(f, have, actual) = {l}
         /\ l.end = actual
         /\ \E n \in Format : n.groupLog2 \in 1 .. 5 /\ l = Layout(n)
<1>1. ~Refused(f, have, actual) /\ l = Layout(Normal(Stated(f)))
      /\ Parsed(f, have, actual) = {l}
  BY ParsedIs
<1>2. Accepted(Stated(f)) /\ l.end = actual
  BY <1>1 DEF Refused
<1>3. Normal(Stated(f)) \in Format /\ Normal(Stated(f)).groupLog2 \in 1 .. 5
  BY <1>2, StatedType, NormalFacts DEF Accepted
<1> QED
  BY <1>1, <1>2, <1>3

LEMMA ByteAndBit ==
  \A q \in Nat : \A r \in 0 .. 7 : (q * 8 + r) \div 8 = q /\ (q * 8 + r) % 8 = r
OBVIOUS

\* The bits that may be set in a file of other origin.
Behind(f) ==
  f.ones \subseteq (HeaderSize + Len(f.clusters)) * 8 .. f.length * 8 - 1

LEMMA NoBitOutside ==
  ASSUME NEW f, IsFile(f), Behind(f), NEW l \in Opened(f), Declares(f, l),
         NEW bit \in f.ones
  PROVE  \E s \in Sections(l) : bit \in s.begin * 8 .. s.begin * 8 + s.used - 1
<1>1. f \in File /\ l \in Parsed(f, f.length, f.length) /\ PaddingIsZero(f, l)
  BY DEF IsFile, Opened
<1>2. PICK n \in Format : n.groupLog2 \in 1 .. 5 /\ l = Layout(n)
  BY <1>1, ParsedFacts
<1>3. /\ l.input \in Nat /\ l.end \in Nat /\ l.end = f.length
      /\ \A s \in Sections(l) : s.begin \in Nat /\ s.end \in Nat /\ s.used \in Nat
      /\ \A x \in Nat : l.input <= x /\ x < l.end =>
           \E s \in Sections(l) : s.begin <= x /\ x < s.end
  BY <1>1, <1>2, ParsedFacts, LayoutFacts
<1> DEFINE c == Len(f.clusters)
<1>4. /\ l.input = HeaderSize + c /\ c \in Nat /\ HeaderSize \in Nat
      /\ DOMAIN f.clusters = 1 .. c
  BY <1>1 DEF IsFile, File, Declares, HeaderLength, HeaderSize
<1>5. bit \in (HeaderSize + c) * 8 .. f.length * 8 - 1
  BY DEF Behind
<1> HIDE DEF c
<1> DEFINE x == bit \div 8  r == bit % 8
<1>6. bit \in Nat /\ x \in Nat /\ r \in 0 .. 7 /\ bit = x * 8 + r
  <2>1. (HeaderSize + c) * 8 \in Nat /\ f.length * 8 - 1 \in Int
    BY <1>3, <1>4
  <2>2. bit \in Nat
    BY <1>5, <2>1
  <2> QED
    BY <2>2
<1> HIDE DEF x, r
<1>7. l.input <= x /\ x < l.end
  BY <1>3, <1>4, <1>5, <1>6
<1>8. PICK s \in Sections(l) : s.begin <= x /\ x < s.end
  BY <1>3, <1>6, <1>7
<1> DEFINE b == bit - s.begin * 8
<1>9. /\ s.begin \in Nat /\ s.end \in Nat /\ s.used \in Nat
  BY <1>3
<1>10. b \in 0 .. (s.end - s.begin) * 8 - 1 /\ b = (x - s.begin) * 8 + r
  BY <1>6, <1>8, <1>9
<1>11. b \div 8 = x - s.begin /\ b % 8 = r
  <2>1. x - s.begin \in Nat
    BY <1>6, <1>8, <1>9
  <2> HIDE DEF b
  <2> QED
    BY <1>6, <1>10, <2>1, ByteAndBit
<1>12. b < s.used
  <2> SUFFICES ASSUME s.used <= b PROVE FALSE
    BY <1>9, <1>10
  <2>1. b \in PaddingBits(s)
    BY <1>9, <1>10 DEF PaddingBits
  <2>2. ~IsSet(f, s.begin + b \div 8, b % 8)
    BY <1>1, <2>1 DEF PaddingIsZero
  <2>3. s.begin + b \div 8 = x
    BY <1>6, <1>9, <1>11
  <2> HIDE DEF b
  <2>4. ~IsSet(f, x, r)
    BY <1>11, <2>2, <2>3
  <2>5. x - HeaderSize + 1 \notin DOMAIN f.clusters
    BY <1>4, <1>6, <1>7
  <2> QED
    BY <1>6, <2>4, <2>5 DEF IsSet
<1> QED
  BY <1>6, <1>8, <1>9, <1>10, <1>12

-----------------------------------------------------------------------------
(* What holds throughout. *)

\* The file is the one compress wrote, or a part of it, or of other origin.
Ours(f) ==
  \E o \in Options : \E m \in Nat :
    options = {o} /\ f \in {Stored(Written(Layout(n)), m) : n \in Normalized(o)}
Origin(f) == IsFile(f) /\ (Ours(f) \/ (options = {} /\ Behind(f)))

Opening == {"fixed", "rest", "padding", "open", "rejected", "failed"}
Phases == {"compress", "refused", "write", "view"} \cup Opening

Inv ==
  /\ phase \in Phases
  /\ phase = "compress" => \E o \in Options : options = {o}
  /\ phase \notin {"compress", "refused"} => \E f : file = {f} /\ Origin(f)
  /\ phase = "write" => \A f \in file : Ours(f)
  /\ IF phase \in Opening THEN \A f \in file : view = Opened(f) ELSE view = {}
  /\ phase \notin {"padding", "open"} => layout = {}
  /\ phase \in {"rest", "padding"} =>
       \A f \in file : f.length >= HeaderSize /\ Supported(f, f.length)
  /\ phase = "padding" =>
       layout # {} /\ \A f \in file : layout = Parsed(f, f.length, f.length)
  /\ phase = "open" => layout # {} /\ layout = view
  /\ phase = "rejected" => view = {}

LEMMA InitInv == Init => Inv
<1> SUFFICES ASSUME Init PROVE Inv
  OBVIOUS
<1>1. CASE \E o \in Options : options = {o} /\ file = {} /\ phase = "compress"
  BY <1>1 DEF Init, Inv, Phases, Opening
<1>2. ASSUME NEW f \in Files, NEW ones \in Ones(f, Parsed(f, f.length, f.length)),
             options = {}, file = {[f EXCEPT !.ones = ones]}, phase = "view"
      PROVE  Inv
  <2> DEFINE g == [f EXCEPT !.ones = ones]
  <2>1. /\ ones \subseteq (HeaderSize + Len(f.clusters)) * 8 .. f.length * 8 - 1
        /\ Len(f.clusters) = f.inputs + f.outputs
        /\ f.length \in Nat /\ f.clusters \in Seq(Nat)
    BY HeaderAssumption, OnesAssumption
  <2>2. ones \in SUBSET Nat
    <3>1. (HeaderSize + Len(f.clusters)) * 8 \in Nat
      BY <2>1 DEF HeaderSize
    <3> QED
      BY <2>1, <3>1
  <2>3. /\ g \in File
        /\ g.ones = ones /\ g.clusters = f.clusters /\ g.length = f.length
        /\ g.inputs = f.inputs /\ g.outputs = f.outputs
    BY <2>2, HeaderAssumption DEF File
  <2>4. file = {g} /\ Origin(g)
    BY <1>2, <2>1, <2>3 DEF Origin, IsFile, Behind
  <2> HIDE DEF g
  <2> QED
    BY <1>2, <2>4 DEF Init, Inv, Phases, Opening
<1> QED
  BY <1>1, <1>2 DEF Init

\* A file of ours is one whatever its length.
LEMMA OursFacts ==
  ASSUME NEW o \in Options, options = {o}, NEW n \in Normalized(o), NEW m \in Nat
  PROVE  LET f == Stored(Written(Layout(n)), m)
         IN  /\ IsFile(f) /\ Ours(f) /\ f.length = m
             /\ Written(Layout(n)) = Stored(Written(Layout(n)), Layout(n).end)
             /\ \A k : Stored(f, k) = Stored(Written(Layout(n)), k)
             /\ Layout(n).end \in Nat
<1>1. o \in Format /\ Accepted(o) /\ n = Normal(o)
  BY NormalizedIs, HeaderAssumption DEF Format
<1>2. n \in Format /\ n.groupLog2 \in 1 .. 5
  BY <1>1, NormalFacts DEF Accepted
<1>3. Layout(n).end \in Nat
  BY <1>2, LayoutFacts
<1> QED
  BY <1>2, <1>3, WrittenFacts DEF IsFile, Ours

LEMMA CompressInv == Inv /\ Compress => Inv'
<1> SUFFICES ASSUME Inv, Compress PROVE Inv'
  OBVIOUS
<1>1. PICK o \in Options : options = {o}
  BY DEF Inv, Compress
<1>2. /\ file' = {Written(Layout(n)) : n \in Normalized(o)}
      /\ phase' = IF Normalized(o) = {} THEN "refused" ELSE "write"
      /\ UNCHANGED <<options, view, layout>>
  <2> DEFINE layouts == {Layout(n) : p \in options, n \in UNION {Normalized(p) : p \in options}}
  <2>1. layouts = {Layout(n) : n \in Normalized(o)}
    <3>1. UNION {Normalized(p) : p \in options} = Normalized(o)
      BY <1>1
    <3> QED
      BY <1>1, <3>1
  <2>2. /\ file' = {Written(l) : l \in layouts}
        /\ phase' = IF layouts = {} THEN "refused" ELSE "write"
        /\ UNCHANGED <<options, view, layout>>
    BY DEF Compress
  <2> HIDE DEF layouts
  <2>3. layouts = {} <=> Normalized(o) = {}
    BY <2>1
  <2>4. {Written(l) : l \in layouts} = {Written(Layout(n)) : n \in Normalized(o)}
    BY <2>1
  <2> QED
    BY <2>2, <2>3, <2>4
<1>3. view' = {} /\ layout' = {}
  BY <1>2 DEF Inv, Compress, Opening
<1>4. CASE Normalized(o) = {}
  <2>1. phase' = "refused"
    BY <1>2, <1>4
  <2> QED
    BY <1>3, <2>1 DEF Inv, Phases, Opening
<1>5. CASE Normalized(o) # {}
  <2>1. PICK n : Normalized(o) = {n}
    BY <1>5, NormalizedIs
  <2> DEFINE f == Written(Layout(n))
  <2>2. file' = {f} /\ phase' = "write"
    BY <1>2, <1>5, <2>1
  <2>3. IsFile(f) /\ Ours(f)
    BY <1>1, <2>1, OursFacts
  <2>4. Ours(f)'
    BY <1>2, <2>3 DEF Ours
  <2> HIDE DEF f
  <2>5. Origin(f)'
    BY <2>3, <2>4 DEF Origin
  <2> QED
    BY <1>3, <2>2, <2>4, <2>5 DEF Inv, Phases, Opening
<1> QED
  BY <1>4, <1>5

LEMMA WriteFileInv == Inv /\ WriteFile => Inv'
<1> SUFFICES ASSUME Inv, WriteFile PROVE Inv'
  OBVIOUS
<1>1. PICK f : file = {f} /\ IsFile(f) /\ Ours(f)
  BY DEF Inv, WriteFile, Origin
<1>2. PICK m \in 0 .. f.length : file' = {Stored(f, m)}
  BY <1>1 DEF WriteFile
<1>3. UNCHANGED <<options, view, layout>> /\ phase' = "view"
  BY DEF WriteFile
<1>4. view' = {} /\ layout' = {}
  BY <1>3 DEF Inv, WriteFile, Opening
<1>5. m \in Nat
  BY <1>1, <1>2 DEF IsFile, File
<1>6. IsFile(Stored(f, m)) /\ Ours(Stored(f, m))
  <2>1. PICK o \in Options, k \in Nat :
          options = {o} /\ \E n \in Normalized(o) : f = Stored(Written(Layout(n)), k)
    BY <1>1 DEF Ours
  <2> PICK n \in Normalized(o) : f = Stored(Written(Layout(n)), k)
    BY <2>1
  <2>2. Stored(f, m) = Stored(Written(Layout(n)), m)
    BY <2>1, OursFacts
  <2> QED
    BY <1>5, <2>1, <2>2, OursFacts
<1>7. Origin(Stored(f, m))'
  BY <1>3, <1>6 DEF Origin, Ours
<1> QED
  BY <1>2, <1>3, <1>4, <1>7 DEF Inv, Phases, Opening

LEMMA OpenViewInv == Inv /\ OpenView => Inv'
<1> SUFFICES ASSUME Inv, OpenView PROVE Inv'
  OBVIOUS
<1>1. PICK f : file = {f} /\ Origin(f)
  BY DEF Inv, OpenView
<1>2. view' = Opened(f)
  BY <1>1 DEF OpenView, Opened
<1>3. /\ UNCHANGED <<options, file, layout>> /\ phase' = "fixed" /\ layout = {}
  BY DEF OpenView, Inv
<1>4. Origin(f)'
  BY <1>1, <1>3 DEF Origin, Ours
<1> QED
  BY <1>1, <1>2, <1>3, <1>4 DEF Inv, Phases, Opening

\* Once the view is open, the file and the view stay.
LEMMA FileStays ==
  ASSUME Inv, phase \in Opening, UNCHANGED <<options, file, view>>
  PROVE  /\ \E f : file = {f} /\ file' = {f} /\ IsFile(f) /\ view = Opened(f)
         /\ (\E f : file = {f} /\ Origin(f))'
         /\ (\A f \in file : view = Opened(f))'
<1>1. PICK f : file = {f} /\ Origin(f)
  BY DEF Inv, Opening
<1>2. Origin(f)'
  BY <1>1 DEF Origin, Ours
<1> QED
  BY <1>1, <1>2 DEF Inv, Origin

LEMMA ReadInv ==
  Inv /\ (ReadFails \/ ReadFixed \/ ReadRest \/ ReadPadding) => Inv'
<1> SUFFICES ASSUME Inv, ReadFails \/ ReadFixed \/ ReadRest \/ ReadPadding PROVE Inv'
  OBVIOUS
<1>1. phase \in Opening /\ UNCHANGED <<options, file, view>>
  BY DEF ReadFails, ReadFixed, ReadRest, ReadPadding, Opening
<1>2. PICK f : file = {f} /\ file' = {f} /\ IsFile(f) /\ view = Opened(f)
  BY <1>1, FileStays
<1>3. /\ (\E g : file = {g} /\ Origin(g))' /\ (\A g \in file : view = Opened(g))'
  BY <1>1, FileStays
<1>4. f \in File /\ f.length \in Nat
  BY <1>2 DEF IsFile, File
<1>5. CASE ReadFails
  BY <1>3, <1>5 DEF ReadFails, Inv, Phases, Opening
<1>6. CASE ReadFixed
  <2>1. layout' = {}
    BY <1>6 DEF ReadFixed, Inv
  <2>2. CASE f.length >= HeaderSize /\ Supported(f, f.length)
    BY <1>2, <1>3, <1>6, <2>1, <2>2 DEF ReadFixed, Inv, Phases, Opening
  <2>3. CASE ~(f.length >= HeaderSize /\ Supported(f, f.length))
    <3>1. f.length < HeaderSize \/ ~Supported(f, f.length)
      BY <1>4, <2>3 DEF HeaderSize
    <3>2. Opened(f) = {}
      BY <3>1, ParsedIs DEF Opened, Refused
    <3>3. phase' = "rejected"
      BY <1>2, <1>6, <2>3 DEF ReadFixed
    <3> QED
      BY <1>1, <1>2, <1>3, <2>1, <3>2, <3>3 DEF Inv, Phases, Opening
  <2> QED
    BY <2>2, <2>3
<1>7. CASE ReadRest
  <2>1. f.length >= HeaderSize /\ Supported(f, f.length)
    BY <1>2, <1>7 DEF ReadRest, Inv
  <2>2. layout' = Parsed(f, f.length, f.length)
    BY <1>2, <1>4, <1>7, <2>1, HeaderSuffices DEF ReadRest
  <2>3. phase' = IF layout' = {} THEN "rejected" ELSE "padding"
    BY <1>7 DEF ReadRest
  <2>4. CASE layout' = {}
    <3>1. view' = {}
      BY <1>1, <1>2, <2>2, <2>4 DEF Opened
    <3> QED
      BY <1>3, <2>3, <2>4, <3>1 DEF Inv, Phases, Opening
  <2>5. CASE layout' # {}
    BY <1>2, <1>3, <2>1, <2>2, <2>3, <2>5 DEF Inv, Phases, Opening
  <2> QED
    BY <2>4, <2>5
<1>8. CASE ReadPadding
  <2>1. layout = Parsed(f, f.length, f.length)
    BY <1>2, <1>8 DEF ReadPadding, Inv
  <2>2. PICK l \in layout :
          IF PaddingIsZero(f, l) THEN phase' = "open" /\ UNCHANGED layout
          ELSE phase' = "rejected" /\ layout' = {}
    BY <1>2, <1>8 DEF ReadPadding
  <2>3. layout = {l}
    BY <1>4, <2>1, <2>2, ParsedFacts
  <2>4. view = {k \in {l} : PaddingIsZero(f, k)}
    BY <1>2, <2>1, <2>3 DEF Opened
  <2>5. CASE PaddingIsZero(f, l)
    <3>1. view' = {l} /\ layout' = {l} /\ phase' = "open"
      BY <1>1, <2>2, <2>3, <2>4, <2>5
    <3> QED
      BY <1>3, <3>1 DEF Inv, Phases, Opening
  <2>6. CASE ~PaddingIsZero(f, l)
    <3>1. view' = {} /\ layout' = {} /\ phase' = "rejected"
      BY <1>1, <2>2, <2>4, <2>6
    <3> QED
      BY <1>3, <3>1 DEF Inv, Phases, Opening
  <2> QED
    BY <2>5, <2>6
<1> QED
  BY <1>5, <1>6, <1>7, <1>8

LEMMA AlwaysInv == Spec => []Inv
<1>1. Inv /\ UNCHANGED vars => Inv'
  BY DEF vars, Inv, Origin, Ours
<1>2. Inv /\ [Next]_vars => Inv'
  BY <1>1, CompressInv, WriteFileInv, OpenViewInv, ReadInv DEF Next
<1> QED
  BY InitInv, <1>2, PTL DEF Spec

\* A file that is opened from a stream, which is told the length and reads the
\* header in two parts, opens exactly when it opens in memory, and as the same.
THEOREM ViewsAlwaysAgree == Spec => []ViewsAgree
<1>1. Inv => ViewsAgree
  BY DEF Inv, ViewsAgree
<1> QED
  BY <1>1, AlwaysInv, PTL

\* Whatever compress is asked for, of any size and clusters the header has room
\* for: the whole file opens as it was laid out, no shorter part of it opens.
THEOREM WrittenAlwaysOpens == Spec => []WrittenOpens
<1>1. ASSUME Inv, phase \in {"open", "rejected"}, NEW o \in options, NEW f \in file,
             NEW n \in Normalized(o),
             Len(n.input) + Len(n.output) <= MaxClusterBytes
      PROVE  LET written == {l \in {Layout(n)} : l.end = f.length}
             IN  /\ phase = "open" <=> written # {}
                 /\ view = written
                 /\ layout = written
  <2>1. file = {f} /\ Origin(f) /\ view = Opened(f)
    BY <1>1 DEF Inv, Opening
  <2>0. PICK p \in Options, m \in Nat :
          options = {p} /\ \E k \in Normalized(p) : f = Stored(Written(Layout(k)), m)
    BY <1>1, <2>1 DEF Origin, Ours
  <2>2. PICK k \in Normalized(p) : options = {p} /\ f = Stored(Written(Layout(k)), m)
    BY <2>0
  <2>3. o \in Options /\ p = o
    BY <1>1, <2>2
  <2>4. o \in Format /\ o.size # 0 /\ Accepted(o) /\ n = Normal(o) /\ k = n
    BY <1>1, <2>2, <2>3, NormalizedIs, HeaderAssumption DEF Format
  <2>5. /\ n \in Format /\ Accepted(n) /\ Normal(n) = n /\ n.size # 0
    BY <2>4, NormalFacts
  <2>6. f.length = m
    BY <2>2, <2>3, <2>4, OursFacts
  <2>7. Opened(f) = {l \in {Layout(n)} : l.end = f.length}
    <3>1. Opened(Stored(Written(Layout(n)), m)) = {l \in {Layout(n)} : l.end = m}
      BY <1>1, <2>5, WrittenIsOpened
    <3>2. f = Stored(Written(Layout(n)), m)
      BY <2>2, <2>4
    <3> QED
      BY <2>6, <3>1, <3>2, Zenon
  <2>8. layout = view /\ (phase = "open" <=> view # {})
    BY <1>1 DEF Inv
  <2> QED
    BY <2>1, <2>7, <2>8
<1>2. Inv => WrittenOpens
  BY <1>1 DEF WrittenOpens
<1> QED
  BY <1>2, AlwaysInv, PTL

\* Whatever file opens with its sections behind its header, each bit set behind
\* the header is one of a section's: the padding is checked to the last bit.
THEOREM NothingIsEverHidden == Spec => []NothingIsHidden
<1>1. ASSUME Inv, NEW f \in file, NEW l \in view, Declares(f, l), NEW bit \in f.ones
      PROVE  \E s \in Sections(l) : bit \in s.begin * 8 .. s.begin * 8 + s.used - 1
  <2>1. phase \in Opening /\ file = {f} /\ Origin(f) /\ view = Opened(f)
    BY <1>1 DEF Inv, Opening
  <2>2. CASE Ours(f)
    <3>1. f.ones = {}
      BY <2>2 DEF Ours, Stored, Written
    <3> QED
      BY <1>1, <3>1
  <2>3. CASE Behind(f)
    BY <1>1, <2>1, <2>3, NoBitOutside DEF Origin
  <2> QED
    BY <2>1, <2>2, <2>3 DEF Origin
<1>2. Inv => NothingIsHidden
  BY <1>1 DEF NothingIsHidden
<1> QED
  BY <1>2, AlwaysInv, PTL

-----------------------------------------------------------------------------
(***************************************************************************)
(* A view of a file reads its sections through a cache of pages.  What     *)
(* holds of it for every file, page size, limit and set of threads.        *)
(***************************************************************************)

Asked == [offset : Nat, length : Nat]
Page  == [bytes : {Content(i) : i \in Nat}, valid : Nat, lastUsed : Nat]
Call  == [state : {"none", "reading", "failed", "read"},
          range : Asked, bytes : Seq(Byte)]

Shapes ==
  /\ call \in [Threads -> Call]
  /\ pages \in [DOMAIN pages -> Page]
  /\ DOMAIN pages \subseteq Nat /\ IsFiniteSet(DOMAIN pages)
  /\ tick \in Nat
  /\ mutex \in Threads \cup {None}
  /\ pc \in [Threads -> {"idle", "reject", "lock", "page", "load", "copy"}]
  /\ copied \in [Threads -> Seq(Byte)]

\* A thread is in the part of read_cached that the mutex guards.
Guarded(t) == pc[t] \in {"page", "load", "copy"}

\* Only the holder of the mutex is there.
Exclusive == \A t \in Threads : Guarded(t) => mutex = t

\* A thread that reads has been told so, and has a range inside the file unless
\* it is about to reject it.
RangesChecked ==
  \A t \in Threads :
    /\ pc[t] # "idle" => call[t].state = "reading"
    /\ pc[t] = "lock" \/ Guarded(t) => Source!Inside(call[t].range)

\* A loaded page holds the file's bytes.
PagesMatch ==
  \A i \in DOMAIN pages :
    pages[i].bytes = Content(i) /\ pages[i].valid = Valid(i)

\* What has been copied is the beginning of the answer.
Prefix(t) ==
  /\ Len(copied[t]) <= Length(t)
  /\ \A n \in 1 .. Len(copied[t]) :
       copied[t][n] = Contents[call[t].range.offset + n - 1]

CopiedMatches ==
  \A t \in Threads :
    /\ Guarded(t) => Prefix(t)
    /\ pc[t] \in {"load", "copy"} => More(t)

\* A load finds room.
RoomForLoad ==
  \A t \in Threads : pc[t] = "load" => Cardinality(DOMAIN pages) < PageLimit

CacheInv ==
  /\ Shapes
  /\ Exclusive
  /\ RangesChecked
  /\ PagesMatch
  /\ CopiedMatches
  /\ RoomForLoad
  /\ WithinLimit
  /\ SourcePageStays

USE CacheAssumption DEF CacheAssumption

-----------------------------------------------------------------------------
(* Facts about the data. *)

LEMMA DivMod ==
  ASSUME NEW a \in Nat, NEW b \in Nat \ {0}
  PROVE  /\ a \div b \in Nat
         /\ a % b \in 0 .. b - 1
         /\ a = ((a \div b) * b) + (a % b)
BY SMT

LEMMA ContentType ==
  ASSUME NEW i \in Nat, NEW l \in Nat, i * PageSize < FileSize
  PROVE  /\ Valid(i) \in Nat
         /\ [bytes |-> Content(i), valid |-> Valid(i), lastUsed |-> l] \in Page
<1>1. i * PageSize \in Nat
  OBVIOUS
<1>2. Valid(i) \in Nat
  BY <1>1 DEF Valid, Smaller
<1> QED
  BY <1>2 DEF Page

\* The byte that is copied next: it exists, and so does its page.
LEMMA NextByte ==
  ASSUME Shapes, NEW t \in Threads, Source!Inside(call[t].range), More(t)
  PROVE  /\ Absolute(t) \in Nat /\ Absolute(t) < FileSize
         /\ Wanted(t) \in Nat /\ Within(t) \in 0 .. PageSize - 1
         /\ Absolute(t) = (Wanted(t) * PageSize) + Within(t)
         /\ Wanted(t) * PageSize < FileSize
         /\ Length(t) \in Nat /\ Len(copied[t]) \in Nat
<1>1. /\ call[t].range.offset \in Nat /\ call[t].range.length \in Nat
      /\ Len(copied[t]) \in Nat
  BY DEF Shapes, Call, Asked
<1>2. Absolute(t) \in Nat /\ Absolute(t) < FileSize
  <2> DEFINE o == call[t].range.offset  l == call[t].range.length
             n == Len(copied[t])
  <2>1. o <= FileSize /\ l <= FileSize - o
    BY DEF Source!Inside
  <2>2. n < l
    BY DEF More, Length
  <2>3. o \in Nat /\ l \in Nat /\ n \in Nat
    BY <1>1
  <2> HIDE DEF o, l, n
  <2>4. o + n \in Nat /\ o + n < FileSize
    BY <2>1, <2>2, <2>3
  <2> QED
    BY <2>4 DEF o, n, Absolute
<1>3. /\ Wanted(t) \in Nat /\ Within(t) \in 0 .. PageSize - 1
      /\ Absolute(t) = (Wanted(t) * PageSize) + Within(t)
  BY <1>2, DivMod DEF Wanted, Within
<1>4. Wanted(t) * PageSize < FileSize
  <2> DEFINE b == Wanted(t) * PageSize
  <2>1. b \in Nat
    BY <1>3
  <2>2. Absolute(t) = b + Within(t)
    BY <1>3
  <2> HIDE DEF b
  <2>3. b < FileSize
    BY <1>2, <1>3, <2>1, <2>2
  <2> QED
    BY <2>3 DEF b
<1> QED
  BY <1>1, <1>2, <1>3, <1>4 DEF Length

\* A page is taken out, or one is put in.
LEMMA Domains ==
  /\ \A S, x : IsFiniteSet(S) /\ x \in S =>
       IsFiniteSet(S \ {x}) /\ Cardinality(S \ {x}) = Cardinality(S) - 1
  /\ \A S, x : IsFiniteSet(S) =>
       /\ IsFiniteSet(S \cup {x})
       /\ Cardinality(S \cup {x}) <= Cardinality(S) + 1
  /\ \A S : IsFiniteSet(S) => Cardinality(S) \in Nat
BY FS_RemoveElement, FS_AddElement, FS_CardinalityType

-----------------------------------------------------------------------------
LEMMA InitCacheInv == CacheInit => CacheInv
<1> SUFFICES ASSUME CacheInit PROVE CacheInv
  OBVIOUS
<1>1. DOMAIN pages = {}
  BY DEF CacheInit
<1>2. IsFiniteSet({}) /\ Cardinality({}) = 0
  BY FS_EmptySet
<1>3. Shapes
  BY <1>1, <1>2 DEF CacheInit, Source!Init, Source!NoCall, Shapes, Call, Asked
<1>4. WithinLimit
  BY <1>1, <1>2 DEF WithinLimit
<1> QED
  BY <1>1, <1>3, <1>4
  DEF CacheInit, CacheInv, Exclusive, RangesChecked, PagesMatch, CopiedMatches,
      RoomForLoad, SourcePageStays, Guarded

\* Only the holder of the mutex is in the guarded part, so what it does to the
\* pages disturbs no other thread there.
LEMMA Alone ==
  ASSUME Exclusive, NEW t \in Threads, Guarded(t),
         NEW u \in Threads, u # t
  PROVE  ~Guarded(u)
BY DEF Exclusive

\* What the invariant says of one thread.
ThreadInv(t) ==
  /\ Guarded(t) => Prefix(t)
  /\ pc[t] \in {"load", "copy"} => More(t)
  /\ pc[t] = "load" => Cardinality(DOMAIN pages) < PageLimit
  /\ pc[t] = "copy" => Wanted(t) \in DOMAIN pages

LEMMA ThreadInvs ==
  (\A t \in Threads : ThreadInv(t)) <=>
    CopiedMatches /\ RoomForLoad /\ SourcePageStays
BY DEF ThreadInv, CopiedMatches, RoomForLoad, SourcePageStays

\* A thread that does nothing keeps its part, if the pages stay as they are or
\* it has nothing to do with them.
LEMMA OthersKeep ==
  ASSUME NEW u \in Threads, ThreadInv(u),
         pc'[u] = pc[u], call'[u] = call[u], copied'[u] = copied[u],
         pages' = pages \/ ~Guarded(u)
  PROVE  ThreadInv(u)'
<1>1. CASE ~Guarded(u)
  BY <1>1 DEF ThreadInv, Guarded
<1>2. CASE pages' = pages
  <2>1. Prefix(u)' <=> Prefix(u)
    BY DEF Prefix, Length
  <2>2. (More(u)' <=> More(u)) /\ Wanted(u)' = Wanted(u)
    BY DEF More, Length, Wanted, Absolute
  <2> QED
    BY <1>2, <2>1, <2>2 DEF ThreadInv, Guarded
<1> QED
  BY <1>1, <1>2

LEMMA CallEnds ==
  ASSUME NEW c \in Call, NEW b \in Seq(Byte)
  PROVE  /\ [c EXCEPT !.state = "failed"] \in Call
         /\ [c EXCEPT !.state = "read", !.bytes = b] \in Call
BY DEF Call

LEMMA AskInv == ASSUME CacheInv, NEW t \in Threads, Ask(t) PROVE CacheInv'
<1>1. /\ call' \in [Threads -> Call]
      /\ call'[t].state = "reading"
      /\ \A u \in Threads : u # t => call'[u] = call[u]
  <2>1. PICK r \in Ranges :
          call' = [call EXCEPT ![t] =
                    [state |-> "reading", range |-> r, bytes |-> <<>>]]
    BY DEF Ask, Source!Ask
  <2>2. r \in Asked
    BY DEF Asked
  <2>3. [state |-> "reading", range |-> r, bytes |-> <<>>] \in Call
    BY <2>2 DEF Call
  <2> QED
    BY <2>1, <2>3 DEF CacheInv, Shapes
<1>2. pc' = [pc EXCEPT ![t] =
              IF Source!Inside(call'[t].range) THEN "lock" ELSE "reject"]
  BY DEF Ask
<1>3. UNCHANGED <<pages, tick, mutex, copied>>
  BY DEF Ask, cache
<1>4. pc[t] = "idle"
  BY DEF Ask
<1>5. Shapes'
  BY <1>1, <1>2, <1>3 DEF CacheInv, Shapes
<1>6. \A u \in Threads : Guarded(u)' <=> Guarded(u)
  BY <1>2, <1>4 DEF CacheInv, Shapes, Guarded
<1>7. Exclusive' /\ RangesChecked'
  BY <1>1, <1>2, <1>3, <1>4, <1>6
  DEF CacheInv, Shapes, Exclusive, RangesChecked, Guarded
<1>8. PagesMatch' /\ WithinLimit'
  BY <1>3 DEF CacheInv, PagesMatch, WithinLimit
<1>9. CopiedMatches' /\ RoomForLoad' /\ SourcePageStays'
  <2>1. ThreadInv(t)'
    BY <1>2, <1>4, <1>6 DEF CacheInv, Shapes, Guarded, ThreadInv
  <2>2. ASSUME NEW u \in Threads, u # t PROVE ThreadInv(u)'
    BY <1>1, <1>2, <1>3, <2>2, ThreadInvs, OthersKeep DEF CacheInv, Shapes
  <2> QED
    BY <2>1, <2>2 DEF ThreadInv, CopiedMatches, RoomForLoad, SourcePageStays
<1> QED
  BY <1>5, <1>7, <1>8, <1>9 DEF CacheInv

\* The ways out of read_cached.
LEMMA LeaveInv ==
  ASSUME CacheInv, NEW t \in Threads, Reject(t) \/ LoadFails(t) \/ Return(t)
  PROVE  CacheInv'
<1>1. pc' = [pc EXCEPT ![t] = "idle"]
  BY DEF Reject, LoadFails, Return
<1>2. UNCHANGED <<pages, tick, copied>>
  BY DEF Reject, LoadFails, Return, cache
<1>3. /\ call' \in [Threads -> Call]
      /\ \A u \in Threads : u # t => call'[u] = call[u]
  <2>1. /\ call[t] \in Call /\ copied[t] \in Seq(Byte)
        /\ call \in [Threads -> Call]
    BY DEF CacheInv, Shapes
  <2>2. \/ call' = [call EXCEPT ![t] = [call[t] EXCEPT !.state = "failed"]]
        \/ call' = [call EXCEPT ![t] =
                     [call[t] EXCEPT !.state = "read", !.bytes = copied[t]]]
    BY DEF Reject, LoadFails, Return
  <2> QED
    BY <2>1, <2>2, CallEnds
<1>4. /\ mutex' \in Threads \cup {None}
      /\ \A u \in Threads : u # t /\ mutex = u => mutex' = u
  <2>1. CASE Reject(t)
    BY <2>1 DEF Reject, CacheInv, Shapes
  <2>2. CASE LoadFails(t) \/ Return(t)
    <3>1. mutex = t
      BY <2>2 DEF LoadFails, Return, CacheInv, Exclusive, Guarded
    <3> QED
      BY <2>2, <3>1 DEF LoadFails, Return
  <2> QED
    BY <2>1, <2>2
<1>5. Shapes'
  BY <1>1, <1>2, <1>3, <1>4 DEF CacheInv, Shapes
<1>6. Exclusive' /\ RangesChecked'
  BY <1>1, <1>3, <1>4 DEF CacheInv, Shapes, Exclusive, RangesChecked, Guarded
<1>7. PagesMatch' /\ WithinLimit'
  BY <1>2 DEF CacheInv, PagesMatch, WithinLimit
<1>8. CopiedMatches' /\ RoomForLoad' /\ SourcePageStays'
  <2>1. ThreadInv(t)'
    BY <1>1 DEF CacheInv, Shapes, Guarded, ThreadInv
  <2>2. ASSUME NEW u \in Threads, u # t PROVE ThreadInv(u)'
    BY <1>1, <1>2, <1>3, <2>2, ThreadInvs, OthersKeep DEF CacheInv, Shapes
  <2> QED
    BY <2>1, <2>2 DEF ThreadInv, CopiedMatches, RoomForLoad, SourcePageStays
<1> QED
  BY <1>5, <1>6, <1>7, <1>8 DEF CacheInv

LEMMA LockInv == ASSUME CacheInv, NEW t \in Threads, Lock(t) PROVE CacheInv'
<1>1. /\ mutex = None /\ mutex' = t
      /\ pc[t] = "lock" /\ pc' = [pc EXCEPT ![t] = "page"]
      /\ copied' = [copied EXCEPT ![t] = <<>>]
      /\ UNCHANGED <<call, pages, tick>>
  BY DEF Lock, cache
<1>2. Shapes'
  BY <1>1 DEF CacheInv, Shapes
<1>3. \A u \in Threads : ~Guarded(u)
  BY <1>1 DEF CacheInv, Exclusive
<1>4. \A u \in Threads : Guarded(u)' => u = t
  BY <1>1, <1>3 DEF CacheInv, Shapes, Guarded
<1>5. Exclusive' /\ RangesChecked'
  BY <1>1, <1>4 DEF CacheInv, Shapes, Exclusive, RangesChecked, Guarded
<1>6. PagesMatch' /\ WithinLimit'
  BY <1>1 DEF CacheInv, PagesMatch, WithinLimit
<1>7. Prefix(t)'
  <2>1. copied'[t] = <<>> /\ call' = call
    BY <1>1 DEF CacheInv, Shapes
  <2>2. call[t].range.length \in Nat
    BY DEF CacheInv, Shapes, Call, Asked
  <2> QED
    BY <2>1, <2>2 DEF Prefix, Length
<1>8. \A u \in Threads : pc'[u] \notin {"load", "copy"}
  BY <1>1, <1>3 DEF CacheInv, Shapes, Guarded
<1>9. CopiedMatches' /\ RoomForLoad' /\ SourcePageStays'
  BY <1>4, <1>7, <1>8 DEF CopiedMatches, RoomForLoad, SourcePageStays
<1> QED
  BY <1>2, <1>5, <1>6, <1>9 DEF CacheInv

\* A step inside the guarded part that ends there: what is left to show.
LEMMA GuardedStep ==
  ASSUME CacheInv, NEW t \in Threads, Guarded(t), NEW next \in {"page", "load", "copy"},
         pc' = [pc EXCEPT ![t] = next],
         UNCHANGED <<call, mutex>>,
         \A u \in Threads : u # t => copied'[u] = copied[u],
         Shapes', PagesMatch', WithinLimit', ThreadInv(t)'
  PROVE  CacheInv'
<1>1. \A u \in Threads : Guarded(u)' <=> Guarded(u)
  BY DEF CacheInv, Shapes, Guarded
<1>2. Exclusive'
  BY <1>1 DEF CacheInv, Exclusive
<1>3. RangesChecked'
  BY <1>1 DEF CacheInv, Shapes, RangesChecked, Guarded
<1>4. ASSUME NEW u \in Threads, u # t PROVE ThreadInv(u)'
  BY <1>4, Alone, ThreadInvs, OthersKeep DEF CacheInv, Shapes
<1>5. CopiedMatches' /\ RoomForLoad' /\ SourcePageStays'
  BY <1>4 DEF ThreadInv, CopiedMatches, RoomForLoad, SourcePageStays
<1> QED
  BY <1>2, <1>3, <1>5 DEF CacheInv

LEMMA UsedPage ==
  ASSUME NEW p \in Page, NEW l \in Nat
  PROVE  /\ [p EXCEPT !.lastUsed = l] \in Page
         /\ [p EXCEPT !.lastUsed = l].bytes = p.bytes
         /\ [p EXCEPT !.lastUsed = l].valid = p.valid
BY DEF Page

LEMMA HitInv == ASSUME CacheInv, NEW t \in Threads, Hit(t) PROVE CacheInv'
<1> DEFINE i == Wanted(t)
<1>1. /\ pc[t] = "page" /\ More(t) /\ i \in DOMAIN pages
      /\ tick' = tick + 1
      /\ pages' = [pages EXCEPT ![i].lastUsed = tick']
      /\ pc' = [pc EXCEPT ![t] = "copy"]
      /\ UNCHANGED <<call, mutex, copied>>
  BY DEF Hit, Use
<1>2. Guarded(t)
  BY <1>1 DEF Guarded
<1>3. tick' \in Nat /\ DOMAIN pages' = DOMAIN pages
  BY <1>1 DEF CacheInv, Shapes
<1>4. \A j \in DOMAIN pages :
        /\ pages'[j] \in Page
        /\ pages'[j].bytes = pages[j].bytes /\ pages'[j].valid = pages[j].valid
  <2>1. pages \in [DOMAIN pages -> Page] /\ i \in DOMAIN pages
    BY <1>1 DEF CacheInv, Shapes
  <2>2. pages' = [pages EXCEPT ![i] = [pages[i] EXCEPT !.lastUsed = tick']]
    BY <1>1
  <2> HIDE DEF i
  <2> QED
    BY <1>3, <2>1, <2>2, UsedPage
<1>5. pages' \in [DOMAIN pages' -> Page]
  BY <1>1, <1>3, <1>4
<1>6. Shapes'
  BY <1>1, <1>3, <1>5 DEF CacheInv, Shapes
<1>7. PagesMatch' /\ WithinLimit'
  BY <1>3, <1>4 DEF CacheInv, PagesMatch, WithinLimit
<1>8. ThreadInv(t)'
  <2>1. (Prefix(t)' <=> Prefix(t)) /\ (More(t)' <=> More(t)) /\ Wanted(t)' = i
    BY <1>1 DEF Prefix, More, Length, Wanted, Absolute
  <2>2. Prefix(t) /\ pc'[t] = "copy"
    BY <1>1, <1>2 DEF CacheInv, Shapes, CopiedMatches
  <2> QED
    BY <1>1, <1>3, <2>1, <2>2 DEF ThreadInv
<1> QED
  BY <1>1, <1>2, <1>6, <1>7, <1>8, GuardedStep DEF CacheInv

LEMMA MissInv == ASSUME CacheInv, NEW t \in Threads, Miss(t) PROVE CacheInv'
<1>1. /\ pc[t] = "page" /\ More(t)
      /\ pc' = [pc EXCEPT ![t] = "load"]
      /\ UNCHANGED <<call, tick, mutex, copied>>
  BY DEF Miss
<1>2. Guarded(t)
  BY <1>1 DEF Guarded
<1>3. /\ DOMAIN pages' \subseteq DOMAIN pages
      /\ \A j \in DOMAIN pages' : pages'[j] = pages[j]
      /\ pages' \in [DOMAIN pages' -> Page]
      /\ IsFiniteSet(DOMAIN pages') /\ Cardinality(DOMAIN pages') < PageLimit
  <2>1. IsFiniteSet(DOMAIN pages) /\ Cardinality(DOMAIN pages) <= PageLimit
    BY DEF CacheInv, Shapes, WithinLimit
  <2>2. Cardinality(DOMAIN pages) \in Nat
    BY <2>1, Domains
  <2>3. CASE Full
    <3>1. PICK i \in DOMAIN pages :
            pages' = [j \in DOMAIN pages \ {i} |-> pages[j]]
      BY <2>3 DEF Miss
    <3>2. DOMAIN pages' = DOMAIN pages \ {i}
      BY <3>1
    <3>3. Cardinality(DOMAIN pages') = Cardinality(DOMAIN pages) - 1
          /\ IsFiniteSet(DOMAIN pages')
      BY <2>1, <3>2, Domains
    <3> QED
      BY <2>1, <2>2, <3>1, <3>2, <3>3 DEF CacheInv, Shapes
  <2>4. CASE ~Full
    <3>1. pages' = pages
      BY <2>4 DEF Miss
    <3> QED
      BY <2>1, <2>2, <2>4, <3>1 DEF Full, CacheInv, Shapes
  <2> QED
    BY <2>3, <2>4
<1>4. Shapes'
  BY <1>1, <1>3 DEF CacheInv, Shapes
<1>5. PagesMatch' /\ WithinLimit'
  <2>1. Cardinality(DOMAIN pages') \in Nat
    BY <1>3, Domains
  <2> QED
    BY <1>3, <2>1 DEF CacheInv, PagesMatch, WithinLimit
<1>6. ThreadInv(t)'
  <2>1. (Prefix(t)' <=> Prefix(t)) /\ (More(t)' <=> More(t))
    BY <1>1 DEF Prefix, More, Length
  <2>2. Prefix(t) /\ pc'[t] = "load"
    BY <1>1, <1>2 DEF CacheInv, Shapes, CopiedMatches
  <2> QED
    BY <1>1, <1>3, <2>1, <2>2 DEF ThreadInv
<1> QED
  BY <1>1, <1>2, <1>4, <1>5, <1>6, GuardedStep DEF CacheInv

LEMMA LoadInv == ASSUME CacheInv, NEW t \in Threads, Load(t) PROVE CacheInv'
<1> DEFINE i == Wanted(t)
           loaded == [bytes |-> Content(i), valid |-> Valid(i), lastUsed |-> tick']
<1>1. /\ pc[t] = "load"
      /\ tick' = tick + 1
      /\ pages' = [j \in DOMAIN pages \cup {i} |->
                    IF j \in DOMAIN pages THEN pages[j] ELSE loaded]
      /\ pc' = [pc EXCEPT ![t] = "copy"]
      /\ UNCHANGED <<call, mutex, copied>>
  BY DEF Load, Use
<1>2. Guarded(t) /\ More(t)
  BY <1>1 DEF Guarded, CacheInv, CopiedMatches
<1>3. i \in Nat /\ i * PageSize < FileSize
  BY <1>2, NextByte DEF CacheInv, RangesChecked
<1>4. tick' \in Nat
  BY <1>1 DEF CacheInv, Shapes
<1>5. loaded \in Page
  BY <1>3, <1>4, ContentType
<1>6. /\ DOMAIN pages' = DOMAIN pages \cup {i}
      /\ pages' \in [DOMAIN pages' -> Page]
  BY <1>1, <1>5 DEF CacheInv, Shapes
<1>7. /\ IsFiniteSet(DOMAIN pages')
      /\ Cardinality(DOMAIN pages') <= PageLimit
  <2>1. IsFiniteSet(DOMAIN pages) /\ Cardinality(DOMAIN pages) < PageLimit
    BY <1>1 DEF CacheInv, Shapes, RoomForLoad
  <2>2. /\ IsFiniteSet(DOMAIN pages')
        /\ Cardinality(DOMAIN pages') <= Cardinality(DOMAIN pages) + 1
    <3>1. \A x : /\ IsFiniteSet(DOMAIN pages \cup {x})
                 /\ Cardinality(DOMAIN pages \cup {x})
                      <= Cardinality(DOMAIN pages) + 1
      BY <2>1, Domains
    <3> HIDE DEF i
    <3> QED
      BY <1>6, <3>1
  <2>3. Cardinality(DOMAIN pages) \in Nat /\ Cardinality(DOMAIN pages') \in Nat
    BY <2>1, <2>2, Domains
  <2> QED
    BY <2>1, <2>2, <2>3
<1>8. Shapes'
  BY <1>1, <1>3, <1>4, <1>6, <1>7 DEF CacheInv, Shapes
<1>9. PagesMatch' /\ WithinLimit'
  BY <1>1, <1>6, <1>7 DEF CacheInv, PagesMatch, WithinLimit, Content, Valid
<1>10. ThreadInv(t)'
  <2>1. (Prefix(t)' <=> Prefix(t)) /\ (More(t)' <=> More(t)) /\ Wanted(t)' = i
    BY <1>1 DEF Prefix, More, Length, Wanted, Absolute
  <2>2. Prefix(t) /\ pc'[t] = "copy"
    BY <1>1, <1>2 DEF CacheInv, Shapes, CopiedMatches
  <2> QED
    BY <1>2, <1>6, <2>1, <2>2 DEF ThreadInv
<1> QED
  BY <1>1, <1>2, <1>8, <1>9, <1>10, GuardedStep DEF CacheInv

\* The bytes that Copy appends are the file's next ones.
LEMMA CopiedBytes ==
  ASSUME CacheInv, NEW t \in Threads, pc[t] = "copy"
  PROVE  LET page  == pages[Wanted(t)]
             count == Smaller(Length(t) - Len(copied[t]), page.valid - Within(t))
         IN  /\ count \in Nat /\ Len(copied[t]) + count <= Length(t)
             /\ \A n \in 1 .. count :
                  /\ page.bytes[Within(t) + n - 1] = Contents[Absolute(t) + n - 1]
                  /\ Absolute(t) + n - 1 \in DOMAIN Contents
<1> DEFINE page  == pages[Wanted(t)]
           from  == Within(t)
           base  == Wanted(t) * PageSize
           done  == Len(copied[t])
           count == Smaller(Length(t) - done, page.valid - from)
<1>1. Guarded(t) /\ More(t) /\ Wanted(t) \in DOMAIN pages
  BY DEF Guarded, CacheInv, CopiedMatches, SourcePageStays
<1>2. /\ Absolute(t) \in Nat /\ Absolute(t) < FileSize
      /\ Wanted(t) \in Nat /\ from \in 0 .. PageSize - 1
      /\ Absolute(t) = base + from
      /\ Length(t) \in Nat /\ done \in Nat
  BY <1>1, NextByte DEF CacheInv, RangesChecked
<1>3. base \in Nat
  BY <1>2
<1>4. page.valid = Smaller(PageSize, FileSize - base)
  BY <1>1 DEF CacheInv, PagesMatch, Valid
<1>5. page.bytes = [k \in 0 .. page.valid - 1 |-> Contents[base + k]]
  BY <1>1 DEF CacheInv, PagesMatch, Content
<1>6. done < Length(t)
  BY <1>1 DEF More
<1> HIDE DEF page, from, base, done
<1>7. page.valid \in Nat /\ from < page.valid /\ base + page.valid <= FileSize
  BY <1>2, <1>3, <1>4 DEF Smaller
<1>8. /\ count \in Nat /\ done + count <= Length(t)
      /\ from + count <= page.valid
  BY <1>2, <1>6, <1>7 DEF Smaller
<1>9. ASSUME NEW n \in 1 .. count
      PROVE  /\ page.bytes[from + n - 1] = Contents[Absolute(t) + n - 1]
             /\ Absolute(t) + n - 1 \in DOMAIN Contents
  <2> HIDE DEF count
  <2>1. from + n - 1 \in 0 .. page.valid - 1
    BY <1>2, <1>7, <1>8
  <2>2. base + (from + n - 1) = Absolute(t) + n - 1
    BY <1>2, <1>3, <1>8
  <2>3. Absolute(t) + n - 1 \in DOMAIN Contents
    BY <1>2, <1>3, <1>7, <2>1, <2>2
  <2> QED
    BY <1>5, <2>1, <2>2, <2>3
<1> QED
  BY <1>8, <1>9 DEF page, from, done

LEMMA Concatenation ==
  ASSUME NEW S, NEW a \in Seq(S), NEW b \in Seq(S)
  PROVE  /\ a \o b \in Seq(S)
         /\ Len(a \o b) = Len(a) + Len(b)
         /\ \A n \in 1 .. Len(a) : (a \o b)[n] = a[n]
         /\ \A n \in 1 .. Len(b) : (a \o b)[Len(a) + n] = b[n]
OBVIOUS

LEMMA CopyInv == ASSUME CacheInv, NEW t \in Threads, Copy(t) PROVE CacheInv'
<1> DEFINE page  == pages[Wanted(t)]
           count == Smaller(Length(t) - Len(copied[t]), page.valid - Within(t))
           part  == [n \in 1 .. count |-> page.bytes[Within(t) + n - 1]]
<1>1. /\ pc[t] = "copy"
      /\ copied' = [copied EXCEPT ![t] = @ \o part]
      /\ pc' = [pc EXCEPT ![t] = "page"]
      /\ UNCHANGED <<call, pages, tick, mutex>>
  BY DEF Copy, cache
<1>2. Guarded(t)
  BY <1>1 DEF Guarded
<1>3. /\ count \in Nat /\ Len(copied[t]) + count <= Length(t)
      /\ \A n \in 1 .. count :
           /\ page.bytes[Within(t) + n - 1] = Contents[Absolute(t) + n - 1]
           /\ Absolute(t) + n - 1 \in DOMAIN Contents
  BY <1>1, CopiedBytes
<1> HIDE DEF count, page
<1>4. /\ part \in Seq(Byte) /\ Len(part) = count
      /\ \A n \in 1 .. count : part[n] = Contents[Absolute(t) + n - 1]
  BY <1>3 DEF Byte
<1> HIDE DEF part
<1>5. /\ copied[t] \in Seq(Byte) /\ Length(t)' = Length(t)
      /\ copied \in [Threads -> Seq(Byte)]
      /\ copied[t] \o part \in Seq(Byte)
  BY <1>1, <1>4 DEF CacheInv, Shapes, Length
<1>6. /\ copied'[t] = copied[t] \o part
      /\ \A u \in Threads : u # t => copied'[u] = copied[u]
      /\ copied' \in [Threads -> Seq(Byte)]
  BY <1>1, <1>5
<1>7. Shapes'
  BY <1>1, <1>6 DEF CacheInv, Shapes
<1>8. PagesMatch' /\ WithinLimit'
  BY <1>1 DEF CacheInv, PagesMatch, WithinLimit
<1>9. Prefix(t)
  BY <1>2 DEF CacheInv, CopiedMatches
<1>10. Prefix(t)'
  <2> DEFINE o == call[t].range.offset  done == Len(copied[t])
  <2>1. /\ Len(copied'[t]) = done + count
        /\ done \in Nat /\ o \in Nat /\ call'[t].range.offset = o
        /\ Absolute(t) = o + done
    <3>1. Len(copied[t] \o part) = Len(copied[t]) + Len(part)
      <4>1. copied[t] \in Seq(Byte) /\ part \in Seq(Byte)
        BY <1>4, <1>5
      <4> QED
        BY <4>1, Concatenation, Zenon
    <3>2. done \in Nat /\ o \in Nat
      BY <1>5 DEF CacheInv, Shapes, Call, Asked
    <3> QED
      BY <1>1, <1>4, <1>6, <3>1, <3>2 DEF Absolute
  <2>2. ASSUME NEW n \in 1 .. done + count
        PROVE  copied'[t][n] = Contents[o + n - 1]
    <3>1. CASE n <= done
      <4>1. copied'[t][n] = copied[t][n]
        BY <1>4, <1>5, <1>6, <2>1, <2>2, <3>1, Concatenation
      <4> QED
        BY <1>9, <2>1, <2>2, <3>1, <4>1 DEF Prefix
    <3>2. CASE n > done
      <4>1. n - done \in 1 .. count
        BY <1>3, <2>1, <2>2, <3>2
      <4>2. copied'[t][n] = part[n - done]
        BY <1>4, <1>5, <1>6, <2>1, <2>2, <3>2, <4>1, Concatenation
      <4>3. part[n - done] = Contents[Absolute(t) + (n - done) - 1]
        BY <1>4, <4>1
      <4>4. Absolute(t) + (n - done) - 1 = o + n - 1
        BY <2>1, <2>2
      <4> QED
        BY <4>2, <4>3, <4>4
    <3> QED
      BY <2>1, <2>2, <3>1, <3>2
  <2> QED
    BY <1>3, <1>5, <2>1, <2>2 DEF Prefix
<1>11. ThreadInv(t)'
  BY <1>1, <1>10 DEF ThreadInv, CacheInv, Shapes
<1> QED
  BY <1>1, <1>2, <1>6, <1>7, <1>8, <1>11, GuardedStep DEF CacheInv

LEMMA StepCacheInv == CacheInv /\ [CacheNext]_cacheVars => CacheInv'
<1> SUFFICES ASSUME CacheInv, [CacheNext]_cacheVars PROVE CacheInv'
  OBVIOUS
<1>1. ASSUME NEW t \in Threads, Ask(t) \/ Step(t) PROVE CacheInv'
  BY <1>1, AskInv, LeaveInv, LockInv, HitInv, MissInv, LoadInv, CopyInv DEF Step
<1>2. CASE UNCHANGED cacheVars
  BY <1>2
  DEF cacheVars, cache, CacheInv, Shapes, Exclusive, RangesChecked, PagesMatch,
      CopiedMatches, RoomForLoad, WithinLimit, SourcePageStays, Guarded,
      Prefix, More, Length, Wanted, Absolute
<1> QED
  BY <1>1, <1>2 DEF CacheNext

LEMMA AlwaysCacheInv == CacheSpec => []CacheInv
BY InitCacheInv, StepCacheInv, PTL DEF CacheSpec

\* Whatever is read, however threads take turns and loads fail, the cache never
\* holds more pages than its limit.
THEOREM LimitKept == CacheSpec => []WithinLimit
BY AlwaysCacheInv, PTL DEF CacheInv

\* The page that a thread copies from stays in the table until it has copied.
THEOREM PageStays == CacheSpec => []SourcePageStays
BY AlwaysCacheInv, PTL DEF CacheInv

-----------------------------------------------------------------------------
(* The cache answers reads as a file does. *)

LEMMA StepReads == CacheInv /\ [CacheNext]_cacheVars => [Source!Next]_call
<1> SUFFICES ASSUME CacheInv, [CacheNext]_cacheVars PROVE Source!Next \/ UNCHANGED call
  OBVIOUS
<1>1. ASSUME NEW t \in Threads, Ask(t) PROVE Source!Next
  BY <1>1 DEF Ask, Source!Next
<1>2. ASSUME NEW t \in Threads, Reject(t) \/ LoadFails(t) PROVE Source!Next
  BY <1>2 DEF Reject, LoadFails, CacheInv, RangesChecked, Source!Next, Source!Fail
<1>3. ASSUME NEW t \in Threads, Return(t) PROVE Source!Next
  <2>1. /\ call[t].state = "reading" /\ Source!Inside(call[t].range)
        /\ Prefix(t) /\ ~More(t)
    BY <1>3 DEF Return, CacheInv, RangesChecked, CopiedMatches, Guarded
  <2>2. /\ copied[t] \in Seq(Byte)
        /\ call[t].range.length \in Nat /\ call[t].range.offset \in Nat
    BY DEF CacheInv, Shapes, Call, Asked
  <2>3. Len(copied[t]) = call[t].range.length
    BY <2>1, <2>2 DEF Prefix, More, Length
  <2>4. copied[t] = Source!Bytes(call[t].range)
    <3>1. copied[t] = [n \in 1 .. Len(copied[t]) |-> copied[t][n]]
      BY <2>2
    <3> QED
      BY <2>1, <2>3, <3>1 DEF Prefix, Source!Bytes
  <2> QED
    BY <1>3, <2>1, <2>4 DEF Return, Source!Next, Source!Answer
<1>4. ASSUME NEW t \in Threads,
             Lock(t) \/ Hit(t) \/ Miss(t) \/ Load(t) \/ Copy(t)
      PROVE  UNCHANGED call
  BY <1>4 DEF Lock, Hit, Miss, Load, Copy
<1> QED
  BY <1>1, <1>2, <1>3, <1>4 DEF CacheNext, Step, cacheVars

\* Every read of every thread answers with the file's bytes or fails, whatever
\* was loaded, evicted or lost to a failure before.
THEOREM ReadsAreRight == CacheSpec => ImplementsByteSource
<1>1. CacheInit => Source!Init
  BY DEF CacheInit
<1> QED
  BY <1>1, AlwaysCacheInv, StepReads, PTL DEF CacheSpec, ImplementsByteSource, Source!Spec

-----------------------------------------------------------------------------
(* The page that makes room is the least recently used one. *)

\* The time a page is stamped with is that of its last use.
Stamped(i) ==
  /\ pages[i].lastUsed \in 1 .. tick
  /\ uses[pages[i].lastUsed] = i
  /\ \A m \in pages[i].lastUsed + 1 .. tick : uses[m] # i

\* A page is loaded when it is not there: emplace always puts it in.
Recency ==
  /\ uses \in Seq(Nat) /\ Len(uses) = tick
  /\ \A i \in DOMAIN pages : Stamped(i)
  /\ \A t \in Threads : pc[t] = "load" => Wanted(t) \notin DOMAIN pages

LEMMA InitRecency == CacheInit => Recency
BY DEF CacheInit, Recency

\* A use of one page leaves the stamps of the others right, and those of the
\* page when it is stamped.
LEMMA UseStamps ==
  ASSUME CacheInv, Recency, NEW i \in Nat, Use(i)
  PROVE  /\ uses' \in Seq(Nat) /\ Len(uses') = tick'
         /\ \A j \in DOMAIN pages :
              j # i /\ j \in DOMAIN pages' /\ pages'[j] = pages[j] => Stamped(j)'
         /\ i \in DOMAIN pages' /\ pages'[i].lastUsed = tick' => Stamped(i)'
<1>1. /\ tick \in Nat /\ uses \in Seq(Nat) /\ Len(uses) = tick
      /\ tick' = tick + 1 /\ uses' = Append(uses, i)
  BY DEF CacheInv, Shapes, Recency, Use
<1>2. /\ uses' \in Seq(Nat) /\ Len(uses') = tick + 1 /\ uses'[tick + 1] = i
      /\ \A m \in 1 .. tick : uses'[m] = uses[m]
  BY <1>1
<1>3. ASSUME NEW j \in DOMAIN pages, j # i, pages'[j] = pages[j]
      PROVE  Stamped(j)'
  <2> DEFINE l == pages[j].lastUsed
  <2>1. l \in 1 .. tick /\ uses[l] = j /\ \A m \in l + 1 .. tick : uses[m] # j
    BY DEF Recency, Stamped
  <2>2. pages'[j].lastUsed = l
    BY <1>3
  <2> HIDE DEF l
  <2>3. l \in 1 .. tick' /\ uses'[l] = j
    BY <1>1, <1>2, <2>1
  <2>4. ASSUME NEW m \in l + 1 .. tick' PROVE uses'[m] # j
    <3>1. m \in l + 1 .. tick \/ m = tick + 1
      BY <1>1, <2>1
    <3>2. m \in l + 1 .. tick => m \in 1 .. tick
      BY <1>1, <2>1
    <3> QED
      BY <1>2, <1>3, <2>1, <3>1, <3>2
  <2> QED
    BY <2>2, <2>3, <2>4 DEF Stamped
<1>4. ASSUME pages'[i].lastUsed = tick' PROVE Stamped(i)'
  BY <1>1, <1>2, <1>4 DEF Stamped
<1> QED
  BY <1>1, <1>2, <1>3, <1>4

\* Pages that stay as they are keep their stamps when nothing is used.
LEMMA SameStamps ==
  ASSUME Recency, UNCHANGED <<uses, tick>>,
         \A j \in DOMAIN pages' : j \in DOMAIN pages /\ pages'[j] = pages[j]
  PROVE  /\ uses' \in Seq(Nat) /\ Len(uses') = tick'
         /\ \A j \in DOMAIN pages' : Stamped(j)'
BY DEF Recency, Stamped

LEMMA StepRecency == CacheInv /\ Recency /\ [CacheNext]_cacheVars => Recency'
<1> SUFFICES ASSUME CacheInv, Recency, [CacheNext]_cacheVars PROVE Recency'
  OBVIOUS
<1>1. ASSUME NEW t \in Threads, Ask(t) \/ Reject(t) \/ Lock(t) \/ LoadFails(t)
                                  \/ Copy(t) \/ Return(t)
      PROVE  Recency'
  <2>1. UNCHANGED <<pages, tick, uses>>
    BY <1>1 DEF Ask, Reject, Lock, LoadFails, Copy, Return, cache
  <2>2. ASSUME NEW u \in Threads, pc'[u] = "load"
        PROVE  pc[u] = "load" /\ Wanted(u)' = Wanted(u)
    <3>1. u # t
      BY <1>1, <2>2
      DEF Ask, Reject, Lock, LoadFails, Copy, Return, CacheInv, Shapes
    <3>2. /\ pc'[u] = pc[u]
          /\ call'[u] = call[u] /\ copied'[u] = copied[u]
      BY <1>1, <3>1
      DEF Ask, Reject, Lock, LoadFails, Copy, Return, CacheInv, Shapes, Source!Ask
    <3> QED
      BY <2>2, <3>2 DEF Wanted, Absolute
  <2> QED
    BY <2>1, <2>2, SameStamps DEF Recency
<1>2. ASSUME NEW t \in Threads, Hit(t) PROVE Recency'
  <2> DEFINE i == Wanted(t)
  <2>1. /\ i \in DOMAIN pages /\ i \in Nat /\ Use(i)
        /\ pages' = [pages EXCEPT ![i].lastUsed = tick']
        /\ UNCHANGED <<call, copied>>
    BY <1>2 DEF Hit, CacheInv, Shapes
  <2>2. /\ DOMAIN pages' = DOMAIN pages
        /\ pages'[i].lastUsed = tick'
        /\ \A j \in DOMAIN pages : j # i => pages'[j] = pages[j]
    BY <2>1 DEF CacheInv, Shapes, Page
  <2>3. ASSUME NEW u \in Threads PROVE Wanted(u)' = Wanted(u)
    BY <2>1 DEF Wanted, Absolute
  <2>4. \A u \in Threads : pc'[u] = "load" => pc[u] = "load"
    BY <1>2 DEF Hit, CacheInv, Shapes
  <2> HIDE DEF i
  <2>5. uses' \in Seq(Nat) /\ Len(uses') = tick' /\ \A j \in DOMAIN pages' : Stamped(j)'
    BY <2>1, <2>2, UseStamps
  <2> QED
    BY <2>2, <2>3, <2>4, <2>5 DEF Recency
<1>3. ASSUME NEW t \in Threads, Miss(t) PROVE Recency'
  <2>1. UNCHANGED <<uses, tick, call, copied>>
    BY <1>3 DEF Miss
  <2>2. \A j \in DOMAIN pages' : j \in DOMAIN pages /\ pages'[j] = pages[j]
    BY <1>3 DEF Miss
  <2>3. ASSUME NEW u \in Threads PROVE Wanted(u)' = Wanted(u)
    BY <2>1 DEF Wanted, Absolute
  <2>4. \A u \in Threads : pc'[u] = "load" => u = t \/ pc[u] = "load"
    BY <1>3 DEF Miss, CacheInv, Shapes
  <2>5. Wanted(t) \notin DOMAIN pages
    BY <1>3 DEF Miss
  <2> QED
    BY <2>1, <2>2, <2>3, <2>4, <2>5, SameStamps DEF Recency
<1>4. ASSUME NEW t \in Threads, Load(t) PROVE Recency'
  <2> DEFINE i == Wanted(t)
  <2>1. /\ pc[t] = "load" /\ Use(i) /\ i \notin DOMAIN pages
        /\ DOMAIN pages' = DOMAIN pages \cup {i}
        /\ \A j \in DOMAIN pages : pages'[j] = pages[j]
        /\ pages'[i].lastUsed = tick'
        /\ UNCHANGED <<call, copied>>
    BY <1>4 DEF Load, Recency
  <2>2. i \in Nat
    BY <2>1, NextByte DEF CacheInv, CopiedMatches, RangesChecked, Guarded
  <2>3. ASSUME NEW u \in Threads PROVE pc'[u] # "load"
    <3>1. CASE u = t
      BY <1>4, <3>1 DEF Load, CacheInv, Shapes
    <3>2. CASE u # t
      BY <1>4, <2>1, <3>2, Alone DEF Load, CacheInv, Shapes, Guarded
    <3> QED
      BY <3>1, <3>2
  <2> HIDE DEF i
  <2>4. uses' \in Seq(Nat) /\ Len(uses') = tick'
    BY <2>1, <2>2, UseStamps
  <2>5. ASSUME NEW j \in DOMAIN pages' PROVE Stamped(j)'
    <3>1. CASE j = i
      BY <2>1, <2>2, <3>1, UseStamps
    <3>2. CASE j # i
      BY <2>1, <2>2, <2>5, <3>2, UseStamps
    <3> QED
      BY <3>1, <3>2
  <2> QED
    BY <2>3, <2>4, <2>5 DEF Recency
<1>5. CASE UNCHANGED cacheVars
  <2>1. UNCHANGED <<pages, tick, uses, pc, call, copied>>
    BY <1>5 DEF cacheVars, cache
  <2>2. ASSUME NEW u \in Threads PROVE Wanted(u)' = Wanted(u)
    BY <2>1 DEF Wanted, Absolute
  <2> QED
    BY <2>1, <2>2, SameStamps DEF Recency
<1> QED
  BY <1>1, <1>2, <1>3, <1>4, <1>5 DEF CacheNext, Step

\* Of two pages, the one with the smaller stamp was used before the other.
LEMMA StampsOrder ==
  ASSUME CacheInv, Recency, NEW i \in DOMAIN pages, NEW j \in DOMAIN pages \ {i},
         pages[i].lastUsed <= pages[j].lastUsed
  PROVE  UsedBefore(i, j)
<1> DEFINE l == pages[i].lastUsed  n == pages[j].lastUsed
<1>1. /\ l \in 1 .. tick /\ uses[l] = i /\ \A m \in l + 1 .. tick : uses[m] # i
      /\ n \in 1 .. tick /\ uses[n] = j
  BY DEF Recency, Stamped
<1>2. tick \in Nat /\ DOMAIN uses = 1 .. tick /\ Len(uses) = tick /\ l <= n /\ i # j
  BY DEF CacheInv, Shapes, Recency
<1> HIDE DEF l, n
<1>3. l < n
  BY <1>1, <1>2
<1>4. \A m \in n .. tick : m \in l + 1 .. tick
  BY <1>1, <1>2, <1>3
<1> QED
  BY <1>1, <1>2, <1>4 DEF UsedBefore

\* A page leaves the cache only to make room, and then every other page has been
\* used since its last use.
THEOREM OldestGoes == CacheSpec => EvictsLeastRecent
<1> DEFINE Right == \A i \in DOMAIN pages \ DOMAIN pages' :
                      \A j \in DOMAIN pages \ {i} : UsedBefore(i, j)
<1>1. ASSUME CacheInv, Recency, [CacheNext]_cacheVars PROVE Right \/ UNCHANGED cacheVars
  <2>1. ASSUME NEW i \in DOMAIN pages, i \notin DOMAIN pages',
               NEW j \in DOMAIN pages \ {i}
        PROVE  UsedBefore(i, j)
    <3>1. PICK t \in Threads : Ask(t) \/ Step(t)
      BY <1>1, <2>1 DEF CacheNext, cacheVars, cache
    <3>2. Miss(t)
      BY <2>1, <3>1
      DEF Ask, Step, Reject, Lock, Hit, Load, LoadFails, Copy, Return, cache, CacheInv, Shapes
    <3>3. Oldest(i)
      BY <2>1, <3>2 DEF Miss
    <3> QED
      BY <1>1, <2>1, <3>3, StampsOrder DEF Oldest
  <2> QED
    BY <2>1
<1>2. CacheInv /\ Recency /\ [CacheNext]_cacheVars => [Right]_cacheVars
  BY <1>1
<1>3. CacheSpec => [](CacheInv /\ Recency)
  BY InitRecency, StepRecency, AlwaysCacheInv, PTL DEF CacheSpec
<1> QED
  BY <1>2, <1>3, PTL DEF CacheSpec, EvictsLeastRecent
=============================================================================
