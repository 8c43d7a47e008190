------------------------ MODULE SerialColoringProofs ------------------------
(***************************************************************************)
(* What holds of the portable encoder's colouring for every node size and  *)
(* every set of permutations.                                              *)
(***************************************************************************)
EXTENDS SerialColoring, BenesNodeProofs, SequenceTheorems, TLAPS

USE CountAssumption, InputsAssumption

Colored(x) == color[x] # -1
IsNeighbor(x, y) == \E n \in DOMAIN Neighbors(x) : Neighbors(x)[n] = y

TypeOK ==
  /\ permutation \in Inputs
  /\ inverse = InverseOf(permutation)
  /\ color \in [Index -> {-1, 0, 1}]
  /\ pending \in Seq(Index)
  /\ edge \in 0 .. Count
  /\ phase \in {"odd_input", "odd_output", "values", "done"}

\* The colours given so far are those of a proper colouring.
Extends(c) ==
  /\ c \in ProperColorings(inverse)
  /\ \A x \in Index : Colored(x) => c[x] = color[x]

\* What a component began with: a value of colour 0 that the others are tied to,
\* an odd end or the smallest of them.
Anchors(s, x) ==
  /\ s \in Index
  /\ color[s] = 0
  /\ Tied(ProperColorings(inverse), x, s)
  /\ s \in OddEnds(inverse) \/ (s < edge /\ s <= x)

\* What each phase has done.
Progress ==
  /\ phase = "odd_input" => pending = <<>> /\ \A x \in Index : ~Colored(x)
  /\ phase \in {"odd_input", "odd_output"} => edge = 0
  /\ phase = "odd_output" => Odd
  /\ phase # "odd_input" /\ Odd => color[Unpaired] = 0
  /\ phase \in {"values", "done"} /\ Odd => color[inverse[Unpaired]] = 0
  /\ \A x \in Index : x < edge => Colored(x)
  /\ phase = "done" => edge = Count /\ pending = <<>>

\* The invariant of the search.
Inv ==
  /\ TypeOK
  /\ FrontierSeparates
  /\ \E c \in Colorings : Extends(c)
  /\ \A x \in Index : Colored(x) => \E s \in Index : Anchors(s, x)
  /\ Progress

-----------------------------------------------------------------------------
(* The neighbours of a value. *)

\* The other value of a pair is the pair's other end.
LEMMA PartnerFacts ==
  ASSUME NEW x \in Index, ~(Odd /\ x = Unpaired)
  PROVE  /\ Partner(x) \in Index
         /\ x \div 2 \in Pair
         /\ {x, Partner(x)} = {2 * (x \div 2), 2 * (x \div 2) + 1}
<1> DEFINE q == x \div 2
<1>1. /\ x \in Nat /\ q \in Nat /\ (x = 2 * q \/ x = 2 * q + 1)
      /\ q \in Pair
  BY SlotFacts DEF Index
<1>2. 2 * q \in Index /\ 2 * q + 1 \in Index
  BY <1>1, IndexFacts
<1>3. x = 2 * q => x % 2 = 0
  BY <1>1
<1>4. x = 2 * q + 1 => x % 2 = 1
  BY <1>1
<1> HIDE DEF q
<1>5. /\ x = 2 * q => Partner(x) = 2 * q + 1
      /\ x = 2 * q + 1 => Partner(x) = 2 * q
  BY <1>1, <1>3, <1>4 DEF Partner
<1>6. Partner(x) \in Index /\ {x, Partner(x)} = {2 * q, 2 * q + 1}
  BY <1>1, <1>2, <1>5
<1> QED
  BY <1>1, <1>6 DEF q

\* The two sequences neighbors[x] is put together from hold at most one value.
LEMMA PartnerSeqs ==
  ASSUME permutation \in Permutations, inverse = InverseOf(permutation), NEW x \in Index
  PROVE  /\ \/ InputPartner(x) = <<>> /\ Odd /\ x = Unpaired
            \/ /\ ~(Odd /\ x = Unpaired)
               /\ Partner(x) \in Index
               /\ InputPartner(x) = <<Partner(x)>>
         /\ \/ OutputPartner(x) = <<>> /\ Odd /\ permutation[x] = Unpaired
            \/ /\ ~(Odd /\ permutation[x] = Unpaired)
               /\ inverse[Partner(permutation[x])] \in Index
               /\ OutputPartner(x) = <<inverse[Partner(permutation[x])]>>
<1>1. permutation[x] \in Index /\ inverse \in [Index -> Index]
  BY InverseType DEF Permutations
<1> QED
  BY <1>1, PartnerFacts DEF InputPartner, OutputPartner

LEMMA OneValue ==
  ASSUME NEW a \in Index
  PROVE  /\ <<a>> \in Seq(Index)
         /\ DOMAIN <<a>> = {1}
         /\ <<a>>[1] = a
         /\ <<a>> \o <<>> = <<a>> /\ <<>> \o <<a>> = <<a>>
<1>1. <<a>> \in Seq(Index) /\ DOMAIN <<a>> = {1} /\ <<a>>[1] = a
  OBVIOUS
<1> QED
  BY <1>1, ConcatEmptySeq

LEMMA TwoValues ==
  ASSUME NEW a \in Index, NEW b \in Index
  PROVE  /\ <<a>> \o <<b>> = <<a, b>>
         /\ <<a, b>> \in Seq(Index)
         /\ DOMAIN <<a, b>> = {1, 2}
         /\ Len(<<a, b>>) = 2
         /\ <<a, b>>[1] = a /\ <<a, b>>[2] = b
<1>1. <<a, b>> \in Seq(Index) /\ Len(<<a, b>>) = 2
  OBVIOUS
<1>2. <<a>> \in Seq(Index) /\ <<b>> \in Seq(Index) /\ Len(<<a>>) = 1 /\ Len(<<b>>) = 1
  OBVIOUS
<1>3. /\ <<a>> \o <<b>> \in Seq(Index)
      /\ Len(<<a>> \o <<b>>) = 2
      /\ (<<a>> \o <<b>>)[1] = a /\ (<<a>> \o <<b>>)[2] = b
  BY <1>2
<1>4. <<a>> \o <<b>> = <<a, b>>
  <2> DEFINE s == <<a>> \o <<b>>
             t == <<a, b>>
  <2>1. /\ s \in Seq(Index) /\ t \in Seq(Index)
        /\ Len(s) = 2 /\ Len(t) = 2 /\ s[1] = t[1] /\ s[2] = t[2]
    BY <1>1, <1>3
  <2> HIDE DEF s, t
  <2>2. \A n \in 1 .. Len(s) : s[n] = t[n]
    BY <2>1
  <2>3. s = t
    BY <2>1, <2>2, SeqEqual
  <2> QED
    BY <2>3 DEF s, t
<1> QED
  BY <1>1, <1>4

LEMMA NeighborSeq ==
  ASSUME permutation \in Permutations, inverse = InverseOf(permutation), NEW x \in Index
  PROVE  /\ Neighbors(x) \in Seq(Index)
         /\ Len(Neighbors(x)) <= 2
         /\ \A y : IsNeighbor(x, y) <=>
              \/ ~(Odd /\ x = Unpaired) /\ y = Partner(x)
              \/ ~(Odd /\ permutation[x] = Unpaired) /\ y = inverse[Partner(permutation[x])]
<1> DEFINE p == InputPartner(x)
           q == OutputPartner(x)
           a == Partner(x)
           b == inverse[Partner(permutation[x])]
<1>1. Neighbors(x) = p \o q \/ Neighbors(x) = q \o p
  BY DEF Neighbors
<1>2. CASE p = <<>> /\ q = <<>>
  <2>1. Neighbors(x) = <<>>
    BY <1>1, <1>2
  <2> QED
    BY <1>2, <2>1, PartnerSeqs DEF IsNeighbor
<1>3. CASE p = <<a>> /\ q = <<>>
  <2>1. Neighbors(x) = <<a>> /\ a \in Index /\ ~(Odd /\ x = Unpaired)
        /\ Odd /\ permutation[x] = Unpaired
    BY <1>1, <1>3, PartnerSeqs
  <2> HIDE DEF a
  <2>2. /\ Neighbors(x) \in Seq(Index) /\ Len(Neighbors(x)) <= 2
        /\ \A y : IsNeighbor(x, y) <=> y = a
    BY <2>1 DEF IsNeighbor
  <2> QED
    BY <2>1, <2>2 DEF a
<1>4. CASE p = <<>> /\ q = <<b>>
  <2>1. Neighbors(x) = <<b>> /\ b \in Index /\ Odd /\ x = Unpaired
        /\ ~(Odd /\ permutation[x] = Unpaired)
    BY <1>1, <1>4, PartnerSeqs
  <2> HIDE DEF b
  <2>2. /\ Neighbors(x) \in Seq(Index) /\ Len(Neighbors(x)) <= 2
        /\ \A y : IsNeighbor(x, y) <=> y = b
    BY <2>1 DEF IsNeighbor
  <2> QED
    BY <2>1, <2>2 DEF b
<1>5. CASE p = <<a>> /\ q = <<b>>
  <2>1. /\ Neighbors(x) = <<a, b>> \/ Neighbors(x) = <<b, a>>
        /\ a \in Index /\ b \in Index
        /\ ~(Odd /\ x = Unpaired) /\ ~(Odd /\ permutation[x] = Unpaired)
    BY <1>1, <1>5, PartnerSeqs, TwoValues
  <2> HIDE DEF a, b
  <2>2. /\ Neighbors(x) \in Seq(Index) /\ Len(Neighbors(x)) <= 2
        /\ \A y : IsNeighbor(x, y) <=> y = a \/ y = b
    <3>1. PICK u \in Index, v \in Index : /\ Neighbors(x) = <<u, v>>
                                          /\ \A y : y = u \/ y = v <=> y = a \/ y = b
      BY <2>1
    <3>2. /\ Neighbors(x) \in Seq(Index) /\ Len(Neighbors(x)) = 2
          /\ DOMAIN Neighbors(x) = {1, 2}
          /\ Neighbors(x)[1] = u /\ Neighbors(x)[2] = v
      BY <3>1, TwoValues
    <3> QED
      BY <3>1, <3>2 DEF IsNeighbor
  <2> QED
    BY <2>1, <2>2 DEF a, b
<1> QED
  BY <1>2, <1>3, <1>4, <1>5, PartnerSeqs

LEMMA PartnersOfPair ==
  ASSUME NEW t \in Pair
  PROVE  /\ Partner(2 * t) = 2 * t + 1 /\ Partner(2 * t + 1) = 2 * t
         /\ ~(Odd /\ 2 * t = Unpaired) /\ ~(Odd /\ 2 * t + 1 = Unpaired)
<1>1. t \in Nat /\ Count \in Nat /\ 2 * t + 1 \in 0 .. Count - 1
  BY IndexFacts DEF Index
<1>2. (2 * t) % 2 = 0 /\ (2 * t + 1) % 2 = 1
  BY <1>1
<1>3. (2 * t + 2) % 2 = 0
  BY <1>1
<1> QED
  BY <1>1, <1>2, <1>3 DEF Partner, Odd, Unpaired

\* Neighbours are the two ends of a constraint, and those of every constraint are.
LEMMA NeighborFacts ==
  ASSUME permutation \in Permutations, inverse = InverseOf(permutation)
  PROVE  /\ \A x \in Index : \A y : IsNeighbor(x, y) =>
              /\ y \in Index
              /\ \E t \in Pair, n \in {1, 2} :
                   {x, y} = {LeftEnd(inverse, t, n), RightEnd(inverse, t, n)}
         /\ \A t \in Pair, n \in {1, 2} :
              /\ IsNeighbor(LeftEnd(inverse, t, n), RightEnd(inverse, t, n))
              /\ IsNeighbor(RightEnd(inverse, t, n), LeftEnd(inverse, t, n))
<1>1. /\ permutation \in [Index -> Index] /\ inverse \in [Index -> Index]
      /\ \A o \in Index : permutation[inverse[o]] = o
      /\ \A i \in Index : inverse[permutation[i]] = i
  BY InverseType DEF Permutations
<1>2. ASSUME NEW x \in Index, NEW y, IsNeighbor(x, y)
      PROVE  /\ y \in Index
             /\ \E t \in Pair, n \in {1, 2} :
                  {x, y} = {LeftEnd(inverse, t, n), RightEnd(inverse, t, n)}
  <2>1. CASE ~(Odd /\ x = Unpaired) /\ y = Partner(x)
    <3>1. PICK t \in Pair : {x, y} = {2 * t, 2 * t + 1} /\ y \in Index
      BY <2>1, PartnerFacts
    <3> QED
      BY <3>1 DEF LeftEnd, RightEnd
  <2>2. CASE ~(Odd /\ permutation[x] = Unpaired) /\ y = inverse[Partner(permutation[x])]
    <3> DEFINE o == permutation[x]
    <3>1. o \in Index
      BY <1>1
    <3>2. PICK t \in Pair : {o, Partner(o)} = {2 * t, 2 * t + 1} /\ Partner(o) \in Index
      BY <2>2, <3>1, PartnerFacts
    <3>3. inverse[o] = x /\ inverse[Partner(o)] = y /\ y \in Index
      BY <1>1, <2>2, <3>2
    <3> HIDE DEF o
    <3>4. \/ o = 2 * t /\ Partner(o) = 2 * t + 1
          \/ o = 2 * t + 1 /\ Partner(o) = 2 * t
      BY <3>1, <3>2, IndexFacts DEF Index
    <3>5. {x, y} = {inverse[2 * t], inverse[2 * t + 1]}
      BY <3>3, <3>4
    <3> QED
      BY <3>3, <3>5 DEF LeftEnd, RightEnd
  <2> QED
    BY <1>2, <2>1, <2>2, NeighborSeq
<1>3. ASSUME NEW t \in Pair
      PROVE  /\ IsNeighbor(2 * t, 2 * t + 1) /\ IsNeighbor(2 * t + 1, 2 * t)
             /\ IsNeighbor(inverse[2 * t], inverse[2 * t + 1])
             /\ IsNeighbor(inverse[2 * t + 1], inverse[2 * t])
  <2>1. 2 * t \in Index /\ 2 * t + 1 \in Index
    BY IndexFacts
  <2>2. IsNeighbor(2 * t, 2 * t + 1) /\ IsNeighbor(2 * t + 1, 2 * t)
    BY <2>1, PartnersOfPair, NeighborSeq
  <2>3. ASSUME NEW o \in Index, NEW q \in Index, ~(Odd /\ o = Unpaired), Partner(o) = q
        PROVE  IsNeighbor(inverse[o], inverse[q])
    <3>1. inverse[o] \in Index /\ permutation[inverse[o]] = o
      BY <1>1
    <3> QED
      BY <2>3, <3>1, NeighborSeq
  <2> QED
    BY <2>1, <2>2, <2>3, PartnersOfPair
<1>4. ASSUME NEW t \in Pair, NEW n \in {1, 2}
      PROVE  /\ IsNeighbor(LeftEnd(inverse, t, n), RightEnd(inverse, t, n))
             /\ IsNeighbor(RightEnd(inverse, t, n), LeftEnd(inverse, t, n))
  BY <1>3 DEF LeftEnd, RightEnd
<1> QED
  BY <1>2, <1>4

\* What a visit pushes: the neighbours without a colour, each once.
LEMMA UncoloredFacts ==
  ASSUME permutation \in Permutations, inverse = InverseOf(permutation), NEW x \in Index
  PROVE  /\ Uncolored(x) \in Seq(Index)
         /\ \A m, n \in DOMAIN Uncolored(x) : Uncolored(x)[m] = Uncolored(x)[n] => m = n
         /\ \A y : (\E n \in DOMAIN Uncolored(x) : Uncolored(x)[n] = y)
                   <=> IsNeighbor(x, y) /\ ~Colored(y)
<1> DEFINE s == Neighbors(x)
           p == IF Len(s) > 0 /\ color[s[1]] = -1 THEN <<s[1]>> ELSE <<>>
           q == IF Len(s) = 2 /\ color[s[2]] = -1 /\ s[1] # s[2] THEN <<s[2]>> ELSE <<>>
<1>1. s \in Seq(Index) /\ Len(s) \in {0, 1, 2}
  <2>1. s \in Seq(Index) /\ Len(s) <= 2
    BY NeighborSeq
  <2>2. Len(s) \in Nat
    BY <2>1, LenProperties
  <2>3. \A m \in Nat : m <= 2 => m \in {0, 1, 2}
    OBVIOUS
  <2> QED
    BY <2>1, <2>2, <2>3
<1>2. Uncolored(x) = p \o q /\ \A y : IsNeighbor(x, y) <=> \E n \in 1 .. Len(s) : s[n] = y
  BY <1>1 DEF Uncolored, IsNeighbor
<1> HIDE DEF s
<1>3. /\ Len(s) > 0 => s[1] \in Index
      /\ Len(s) = 2 => s[2] \in Index
  BY <1>1
<1> DEFINE u == Uncolored(x)
           First == Len(s) > 0 /\ color[s[1]] = -1
           Second == Len(s) = 2 /\ color[s[2]] = -1 /\ s[1] # s[2]
<1>4. \A y : IsNeighbor(x, y) /\ ~Colored(y) <=> (First /\ y = s[1]) \/ (Second /\ y = s[2])
  BY <1>1, <1>2 DEF Colored
<1>5. /\ ~First /\ ~Second => u = <<>>
      /\ First /\ ~Second => u = <<s[1]>>
      /\ ~First /\ Second => u = <<s[2]>>
      /\ First /\ Second => u = <<s[1], s[2]>>
  <2>1. <<>> \o <<>> = <<>>
    BY ConcatEmptySeq, EmptySeq
  <2> QED
    BY <1>2, <1>3, <2>1, OneValue, TwoValues
<1>6. First => Len(s) > 0
  OBVIOUS
<1>7. Second => Len(s) = 2 /\ s[1] # s[2]
  OBVIOUS
<1> HIDE DEF u, First, Second
<1>8. CASE ~First /\ ~Second
  BY <1>4, <1>5, <1>8 DEF u
<1>9. CASE First /\ ~Second
  <2>1. s[1] \in Index /\ u = <<s[1]>>
    BY <1>3, <1>5, <1>6, <1>9
  <2>2. u \in Seq(Index) /\ DOMAIN u = {1} /\ u[1] = s[1]
    BY <2>1, OneValue
  <2> QED
    BY <1>4, <1>9, <2>2 DEF u
<1>10. CASE ~First /\ Second
  <2>1. s[2] \in Index /\ u = <<s[2]>>
    BY <1>3, <1>5, <1>7, <1>10
  <2>2. u \in Seq(Index) /\ DOMAIN u = {1} /\ u[1] = s[2]
    BY <2>1, OneValue
  <2> QED
    BY <1>4, <1>10, <2>2 DEF u
<1>11. CASE First /\ Second
  <2>1. u \in Seq(Index) /\ DOMAIN u = {1, 2} /\ u[1] = s[1] /\ u[2] = s[2]
    BY <1>3, <1>5, <1>6, <1>7, <1>11, TwoValues
  <2> QED
    BY <1>4, <1>7, <1>11, <2>1 DEF u
<1> QED
  BY <1>8, <1>9, <1>10, <1>11

-----------------------------------------------------------------------------
(* The invariant is inductive. *)

LEMMA Setting ==
  ASSUME TypeOK
  PROVE  /\ permutation \in Permutations /\ permutation \in [Index -> Index]
         /\ inverse = InverseOf(permutation) /\ inverse \in [Index -> Index]
         /\ OddEnds(inverse) \subseteq Index
         /\ ProperColorings(inverse) \in SUBSET Colorings
BY InverseType, OddEndFacts DEF TypeOK, Permutations, ProperColorings

LEMMA SameNeighbors ==
  ASSUME permutation' = permutation, inverse' = inverse
  PROVE  \A x : Neighbors(x)' = Neighbors(x)
BY DEF Neighbors, InputPartner, OutputPartner

LEMMA InitInv == Init => Inv
<1> SUFFICES ASSUME Init PROVE Inv
  OBVIOUS
<1>1. permutation \in Permutations /\ inverse = InverseOf(permutation)
  BY DEF Init
<1>2. TypeOK
  BY DEF Init, TypeOK
<1>3. FrontierSeparates
  BY DEF Init, FrontierSeparates
<1>4. \E c \in Colorings : Extends(c)
  BY <1>1, ProperExists DEF Init, Extends, ProperColorings, Colored
<1>5. \A x \in Index : Colored(x) => \E s \in Index : Anchors(s, x)
  BY DEF Init, Colored
<1>6. Progress
  BY DEF Init, Progress, Colored, Index
<1> QED
  BY <1>2, <1>3, <1>4, <1>5, <1>6 DEF Inv

\* Between two components no constraint joins a coloured value to an uncoloured
\* one, and the colours of the coloured ones differ.
LEMMA ComponentsClose ==
  ASSUME Inv, pending = <<>>, NEW t \in Pair, NEW n \in {1, 2}
  PROVE  LET l == LeftEnd(inverse, t, n)
             r == RightEnd(inverse, t, n)
         IN  /\ Colored(l) <=> Colored(r)
             /\ Colored(l) => color[l] # color[r]
<1> DEFINE l == LeftEnd(inverse, t, n)
           r == RightEnd(inverse, t, n)
<1>1. l \in Index /\ r \in Index
  BY Setting, EndType DEF Inv
<1>2. IsNeighbor(l, r) /\ IsNeighbor(r, l)
  BY Setting, NeighborFacts DEF Inv
<1>3. color[l] \in {-1, 0, 1} /\ color[r] \in {-1, 0, 1}
  BY <1>1 DEF Inv, TypeOK
<1> HIDE DEF l, r
<1>4. /\ Colored(l) => color[r] = Xor(color[l], 1)
      /\ Colored(r) => color[l] = Xor(color[r], 1)
  BY <1>1, <1>2 DEF Inv, FrontierSeparates, IsNeighbor, Colored
<1>5. /\ Colored(l) <=> Colored(r)
      /\ Colored(l) => color[l] # color[r]
  BY <1>3, <1>4 DEF Colored, Xor
<1> QED
  BY <1>5 DEF l, r

\* A component may begin with any uncoloured value: where a proper colouring
\* gives it 1, all uncoloured values can be turned over together.
LEMMA StartInv ==
  ASSUME Inv, pending = <<>>, NEW s \in Index, ~Colored(s), Start(s),
         permutation' = permutation, inverse' = inverse,
         edge' \in 0 .. Count, edge <= edge', s \in OddEnds(inverse) \/ s < edge'
  PROVE  /\ color' \in [Index -> {-1, 0, 1}]
         /\ pending' \in Seq(Index)
         /\ FrontierSeparates'
         /\ (\E c \in Colorings : Extends(c))'
         /\ (\A x \in Index : Colored(x) => \E a \in Index : Anchors(a, x))'
         /\ \A x \in Index : Colored(x)' <=> Colored(x) \/ x = s
         /\ \A x \in Index : Colored(x) => color'[x] = color[x]
         /\ color'[s] = 0
<1>1. color \in [Index -> {-1, 0, 1}] /\ edge \in 0 .. Count
  BY DEF Inv, TypeOK
<1>2. /\ color' \in [Index -> {-1, 0, 1}]
      /\ \A x \in Index : color'[x] = IF x = s THEN 0 ELSE color[x]
      /\ pending' = <<s>>
  BY <1>1 DEF Start
<1>3. pending' \in Seq(Index) /\ DOMAIN pending' = {1} /\ pending'[1] = s
  BY <1>2, OneValue
<1>4. \A x \in Index : /\ Colored(x)' <=> Colored(x) \/ x = s
                       /\ Colored(x) => color'[x] = color[x]
  BY <1>2 DEF Colored
<1>5. FrontierSeparates'
  <2>1. ASSUME NEW x \in Index, color[x] # -1, NEW n \in DOMAIN Neighbors(x)
        PROVE  color'[Neighbors(x)[n]] = Xor(color'[x], 1)
    <3>1. color[Neighbors(x)[n]] = Xor(color[x], 1)
      BY <2>1 DEF Inv, FrontierSeparates
    <3>2. Neighbors(x)[n] \in Index
      BY Setting, NeighborFacts DEF Inv, IsNeighbor
    <3>3. Xor(color[x], 1) # -1
      BY DEF Xor
    <3> QED
      BY <1>4, <2>1, <3>1, <3>2, <3>3 DEF Colored
  <2> QED
    BY <1>2, <1>3, <2>1, SameNeighbors DEF FrontierSeparates
<1>6. (\E c \in Colorings : Extends(c))'
  <2>1. PICK c \in Colorings : Extends(c)
    BY DEF Inv
  <2> DEFINE d == [x \in Index |-> IF Colored(x) THEN c[x] ELSE 1 - c[x]]
  <2>2. \A x \in Index : c[x] \in {0, 1}
    BY DEF Colorings, Bit
  <2>3. /\ d \in Colorings
        /\ \A x \in Index : d[x] = IF Colored(x) THEN c[x] ELSE 1 - c[x]
    BY <2>2 DEF Colorings, Bit
  <2> HIDE DEF d
  <2>4. ASSUME NEW t \in Pair, NEW n \in {1, 2}
        PROVE  d[LeftEnd(inverse, t, n)] # d[RightEnd(inverse, t, n)]
    <3> DEFINE l == LeftEnd(inverse, t, n)
               r == RightEnd(inverse, t, n)
    <3>1. l \in Index /\ r \in Index /\ c[l] # c[r] /\ (Colored(l) <=> Colored(r))
      BY <2>1, Setting, EndType, ComponentsClose DEF Inv, Extends, ProperColorings, Proper
    <3> HIDE DEF l, r
    <3>2. d[l] # d[r]
      BY <2>2, <2>3, <3>1
    <3> QED
      BY <3>2 DEF l, r
  <2>5. c \in ProperColorings(inverse) /\ d \in ProperColorings(inverse)
    BY <2>1, <2>3, <2>4 DEF Extends, ProperColorings, Proper
  <2>6. c[s] = 0 \/ d[s] = 0
    BY <2>2, <2>3
  <2>7. \A x \in Index : Colored(x) => c[x] = color[x] /\ d[x] = color[x]
    BY <2>1, <2>3 DEF Extends
  <2>8. ASSUME NEW e \in Colorings, e \in ProperColorings(inverse), e[s] = 0,
               \A x \in Index : Colored(x) => e[x] = color[x]
        PROVE  Extends(e)'
    BY <1>2, <2>8 DEF Extends, Colored
  <2> QED
    BY <2>3, <2>5, <2>6, <2>7, <2>8
<1>7. (\A x \in Index : Colored(x) => \E a \in Index : Anchors(a, x))'
  <2> SUFFICES ASSUME NEW x \in Index, Colored(x)' PROVE \E a \in Index : Anchors(a, x)'
    OBVIOUS
  <2>1. CASE x = s
    <3>1. Tied(ProperColorings(inverse), s, s)
      BY Setting, TiedEquivalence DEF Inv
    <3>2. Anchors(s, s)'
      BY <1>2, <3>1 DEF Anchors, Index
    <3> QED
      BY <2>1, <3>2
  <2>2. CASE Colored(x)
    <3>1. PICK a \in Index : Anchors(a, x)
      BY <2>2 DEF Inv
    <3>2. color'[a] = 0
      BY <1>4, <3>1 DEF Anchors, Colored
    <3>3. a < edge => a < edge'
      BY <1>1 DEF Index
    <3>4. Anchors(a, x)'
      BY <3>1, <3>2, <3>3 DEF Anchors
    <3> QED
      BY <3>4
  <2> QED
    BY <1>4, <2>1, <2>2
<1> QED
  BY <1>2, <1>3, <1>4, <1>5, <1>6, <1>7

\* A queue that holds nothing twice, after its first value has left and others
\* have been appended.
LEMMA QueueFacts ==
  ASSUME NEW s \in Seq(Index), s # <<>>, NEW u \in Seq(Index),
         \A m, n \in DOMAIN s : s[m] = s[n] => m = n,
         \A m, n \in DOMAIN u : u[m] = u[n] => m = n,
         \A m \in DOMAIN s, n \in DOMAIN u : s[m] # u[n]
  PROVE  /\ Tail(s) \o u \in Seq(Index)
         /\ \A m, n \in DOMAIN (Tail(s) \o u) :
              (Tail(s) \o u)[m] = (Tail(s) \o u)[n] => m = n
         /\ \A y : (\E n \in DOMAIN (Tail(s) \o u) : (Tail(s) \o u)[n] = y) <=>
              \/ y # Head(s) /\ \E n \in DOMAIN s : s[n] = y
              \/ \E n \in DOMAIN u : u[n] = y
<1> DEFINE q == Tail(s) \o u
           k == Len(s) - 1
           l == Len(u)
<1>1. /\ Len(s) \in Nat /\ Len(s) > 0 /\ DOMAIN s = 1 .. Len(s)
      /\ l \in Nat /\ DOMAIN u = 1 .. l
      /\ Head(s) = s[1]
  OBVIOUS
<1>2. /\ Tail(s) \in Seq(Index) /\ Len(Tail(s)) = k
      /\ \A n \in 1 .. k : Tail(s)[n] = s[n + 1]
  OBVIOUS
<1>3. /\ q \in Seq(Index) /\ Len(q) = k + l /\ DOMAIN q = 1 .. k + l
      /\ \A n \in 1 .. k : q[n] = s[n + 1]
      /\ \A n \in k + 1 .. k + l : q[n] = u[n - k]
  BY <1>1, <1>2, ConcatProperties
<1>4. k \in Nat /\ Len(s) = k + 1
  BY <1>1
<1> HIDE DEF q, k, l
<1>5. \A m, n \in DOMAIN q : q[m] = q[n] => m = n
  <2> SUFFICES ASSUME NEW m \in 1 .. k + l, NEW n \in 1 .. k + l, q[m] = q[n] PROVE m = n
    BY <1>3
  <2>1. /\ m \in 1 .. k \/ m \in k + 1 .. k + l
        /\ n \in 1 .. k \/ n \in k + 1 .. k + l
    BY <1>1, <1>4
  <2>2. CASE m \in 1 .. k /\ n \in 1 .. k
    <3>1. s[m + 1] = s[n + 1] /\ m + 1 \in DOMAIN s /\ n + 1 \in DOMAIN s
      BY <1>1, <1>3, <1>4, <2>2
    <3> QED
      BY <2>2, <3>1
  <2>3. CASE m \in k + 1 .. k + l /\ n \in k + 1 .. k + l
    <3>1. u[m - k] = u[n - k] /\ m - k \in DOMAIN u /\ n - k \in DOMAIN u
      BY <1>1, <1>3, <1>4, <2>3
    <3>2. m - k = n - k
      BY <3>1
    <3> QED
      BY <1>1, <1>4, <2>3, <3>2
  <2>4. CASE m \in 1 .. k /\ n \in k + 1 .. k + l
    <3>1. m + 1 \in DOMAIN s /\ n - k \in DOMAIN u /\ s[m + 1] = u[n - k]
      BY <1>1, <1>3, <1>4, <2>4
    <3> QED
      BY <3>1
  <2>5. CASE m \in k + 1 .. k + l /\ n \in 1 .. k
    <3>1. n + 1 \in DOMAIN s /\ m - k \in DOMAIN u /\ s[n + 1] = u[m - k]
      BY <1>1, <1>3, <1>4, <2>5
    <3> QED
      BY <3>1
  <2> QED
    BY <2>1, <2>2, <2>3, <2>4, <2>5
<1>6. ASSUME NEW y
      PROVE  (\E n \in DOMAIN q : q[n] = y) <=>
               \/ y # Head(s) /\ \E n \in DOMAIN s : s[n] = y
               \/ \E n \in DOMAIN u : u[n] = y
  <2>1. ASSUME NEW n \in 1 .. k + l, q[n] = y
        PROVE  \/ y # Head(s) /\ \E m \in DOMAIN s : s[m] = y
               \/ \E m \in DOMAIN u : u[m] = y
    <3>1. CASE n \in 1 .. k
      <4>1. n + 1 \in DOMAIN s /\ s[n + 1] = y /\ 1 \in DOMAIN s /\ n + 1 # 1
        BY <1>1, <1>3, <1>4, <2>1, <3>1
      <4> QED
        BY <1>1, <4>1
    <3>2. CASE n \in k + 1 .. k + l
      <4>1. n - k \in DOMAIN u /\ u[n - k] = y
        BY <1>1, <1>3, <1>4, <2>1, <3>2
      <4> QED
        BY <4>1
    <3> QED
      BY <1>1, <1>4, <3>1, <3>2
  <2>2. ASSUME NEW n \in DOMAIN s, s[n] = y, y # Head(s) PROVE \E m \in DOMAIN q : q[m] = y
    <3>1. n - 1 \in 1 .. k /\ n - 1 \in DOMAIN q /\ (n - 1) + 1 = n
      BY <1>1, <1>3, <1>4, <2>2
    <3> QED
      BY <1>3, <2>2, <3>1
  <2>3. ASSUME NEW n \in DOMAIN u, u[n] = y PROVE \E m \in DOMAIN q : q[m] = y
    <3>1. n + k \in k + 1 .. k + l /\ n + k \in DOMAIN q /\ (n + k) - k = n
      BY <1>1, <1>3, <1>4, <2>3
    <3> QED
      BY <1>3, <2>3, <3>1
  <2> QED
    BY <1>3, <2>1, <2>2, <2>3
<1> QED
  BY <1>3, <1>5, <1>6 DEF q

\* The search never meets a neighbour of the same colour: both agree with one
\* proper colouring.
LEMMA NoClash == ASSUME Inv, NEW x \in Index, Colored(x) PROVE ~Fails(x)
<1>1. PICK c \in Colorings : Extends(c)
  BY DEF Inv
<1> SUFFICES ASSUME NEW n \in DOMAIN Neighbors(x), color[Neighbors(x)[n]] = color[x]
             PROVE  FALSE
  BY DEF Fails
<1> DEFINE y == Neighbors(x)[n]
<1>2. IsNeighbor(x, y)
  BY DEF IsNeighbor
<1> HIDE DEF y
<1>3. PICK t \in Pair, m \in {1, 2} :
        {x, y} = {LeftEnd(inverse, t, m), RightEnd(inverse, t, m)}
  BY <1>2, Setting, NeighborFacts DEF Inv
<1>4. c[x] # c[y]
  BY <1>1, <1>3 DEF Extends, ProperColorings, Proper
<1>5. y \in Index
  BY <1>2, Setting, NeighborFacts DEF Inv
<1>6. c[x] = color[x] /\ c[y] = color[y] /\ color[y] = color[x]
  BY <1>1, <1>5 DEF Extends, Colored, y
<1> QED
  BY <1>4, <1>6

LEMMA VisitInv == ASSUME Inv, Visit PROVE Inv'
<1> DEFINE x == Head(pending)
           u == Uncolored(x)
           Fresh(y) == IsNeighbor(x, y) /\ ~Colored(y)
           S == ProperColorings(inverse)
<1>1. x \in Index /\ Colored(x) /\ pending \in Seq(Index) /\ pending # <<>>
      /\ \E n \in DOMAIN pending : pending[n] = x
  <2>1. 1 \in DOMAIN pending /\ x = pending[1] /\ pending[1] \in Index
    BY DEF Inv, TypeOK, Visit
  <2> QED
    BY <2>1 DEF Inv, TypeOK, Visit, FrontierSeparates, Colored
<1>2. /\ ~Fails(x)
      /\ color' = [y \in Index |-> IF \E n \in DOMAIN u : u[n] = y
                                   THEN Xor(color[x], 1) ELSE color[y]]
      /\ pending' = Tail(pending) \o u
      /\ permutation' = permutation /\ inverse' = inverse /\ edge' = edge /\ phase' = phase
  BY <1>1, NoClash DEF Visit
<1>3. /\ u \in Seq(Index)
      /\ \A m, n \in DOMAIN u : u[m] = u[n] => m = n
      /\ \A y : (\E n \in DOMAIN u : u[n] = y) <=> Fresh(y)
  BY <1>1, Setting, UncoloredFacts DEF Inv
<1>4. color[x] \in {0, 1} /\ Xor(color[x], 1) \in {0, 1} /\ Xor(color[x], 1) # color[x]
  BY <1>1 DEF Inv, TypeOK, Colored, Xor
<1>5. /\ color' \in [Index -> {-1, 0, 1}]
      /\ \A y \in Index : color'[y] = IF Fresh(y) THEN Xor(color[x], 1) ELSE color[y]
  BY <1>2, <1>3, <1>4 DEF Inv, TypeOK
<1>6. /\ pending' \in Seq(Index)
      /\ \A m, n \in DOMAIN pending' : pending'[m] = pending'[n] => m = n
      /\ \A y : (\E n \in DOMAIN pending' : pending'[n] = y) <=>
           \/ y # x /\ \E n \in DOMAIN pending : pending[n] = y
           \/ Fresh(y)
  <2>1. \A m \in DOMAIN pending, n \in DOMAIN u : pending[m] # u[n]
    BY <1>3 DEF Inv, FrontierSeparates, Colored
  <2>2. \A m, n \in DOMAIN pending : pending[m] = pending[n] => m = n
    BY DEF Inv, FrontierSeparates
  <2> DEFINE q == Tail(pending) \o u
  <2>3. /\ q \in Seq(Index)
        /\ \A m, n \in DOMAIN q : q[m] = q[n] => m = n
        /\ \A y : (\E n \in DOMAIN q : q[n] = y) <=>
             \/ y # x /\ \E n \in DOMAIN pending : pending[n] = y
             \/ \E n \in DOMAIN u : u[n] = y
    <3> HIDE DEF u
    <3> QED
      BY <1>1, <1>3, <2>1, <2>2, QueueFacts
  <2>4. pending' = q
    BY <1>2
  <2> HIDE DEF q, u, x, Fresh
  <2> QED
    BY <1>3, <2>3, <2>4
<1>7. \A y \in Index : /\ Colored(y)' <=> Colored(y) \/ Fresh(y)
                       /\ Colored(y) => color'[y] = color[y]
  BY <1>4, <1>5 DEF Colored
<1>8. \A y : Fresh(y) => y \in Index
  BY <1>1, Setting, NeighborFacts DEF Inv
<1> HIDE DEF x, u
<1>9. FrontierSeparates'
  <2>1. ASSUME NEW n \in DOMAIN pending' PROVE color'[pending'[n]] # -1
    <3>1. /\ pending'[n] \in Index
          /\ \/ \E m \in DOMAIN pending : pending[m] = pending'[n]
             \/ Fresh(pending'[n])
      BY <1>6
    <3>2. Colored(pending'[n]) \/ Fresh(pending'[n])
      BY <3>1 DEF Inv, FrontierSeparates, Colored
    <3> QED
      BY <1>7, <3>1, <3>2 DEF Colored
  <2>2. ASSUME NEW y \in Index, color'[y] # -1, ~ \E n \in DOMAIN pending' : pending'[n] = y,
               NEW n \in DOMAIN Neighbors(y)
        PROVE  color'[Neighbors(y)[n]] = Xor(color'[y], 1)
    <3> DEFINE z == Neighbors(y)[n]
    <3>1. z \in Index /\ IsNeighbor(y, z)
      BY Setting, NeighborFacts DEF Inv, IsNeighbor
    <3>2. Colored(y) /\ ~Fresh(y)
      BY <1>6, <1>7, <2>2 DEF Colored
    <3>3. CASE y = x
      <4>1. color[z] # color[x]
        BY <1>2, <3>3 DEF Fails
      <4> HIDE DEF z
      <4>2. CASE Colored(z)
        <5>1. color[z] \in {-1, 0, 1}
          BY <3>1 DEF Inv, TypeOK
        <5>2. color[z] = Xor(color[x], 1)
          BY <1>4, <4>1, <4>2, <5>1 DEF Colored, Xor
        <5> QED
          BY <1>7, <3>1, <3>2, <3>3, <4>2, <5>2 DEF z
      <4>3. CASE ~Colored(z)
        <5>1. color'[z] = Xor(color[x], 1)
          BY <1>5, <3>1, <3>3, <4>3
        <5> QED
          BY <1>7, <3>2, <3>3, <5>1 DEF z
      <4> QED
        BY <4>2, <4>3
    <3>4. CASE y # x
      <4>1. ~ \E m \in DOMAIN pending : pending[m] = y
        BY <1>6, <2>2, <3>4
      <4>2. color[z] = Xor(color[y], 1)
        BY <3>2, <4>1 DEF Inv, FrontierSeparates, Colored
      <4>3. Colored(z)
        BY <4>2 DEF Colored, Xor
      <4> QED
        BY <1>7, <3>1, <3>2, <4>2, <4>3
    <3> QED
      BY <3>3, <3>4
  <2>3. \A y : Neighbors(y)' = Neighbors(y)
    BY <1>2, SameNeighbors
  <2> QED
    BY <1>6, <2>1, <2>2, <2>3 DEF FrontierSeparates
<1>10. (\E c \in Colorings : Extends(c))'
  <2>1. PICK c \in Colorings : Extends(c)
    BY DEF Inv
  <2>2. ASSUME NEW y \in Index, Fresh(y) PROVE c[y] = Xor(color[x], 1)
    <3>1. PICK t \in Pair, m \in {1, 2} :
            {x, y} = {LeftEnd(inverse, t, m), RightEnd(inverse, t, m)}
      BY <1>1, <2>2, Setting, NeighborFacts DEF Inv
    <3>2. c[x] # c[y]
      BY <2>1, <3>1 DEF Extends, ProperColorings, Proper
    <3>3. c[x] = color[x] /\ c[y] \in {0, 1}
      BY <1>1, <2>1 DEF Extends, Colorings, Bit
    <3> QED
      BY <1>4, <3>2, <3>3 DEF Xor
  <2>3. \A y \in Index : Colored(y)' => c[y] = color'[y]
    BY <1>5, <1>7, <2>1, <2>2 DEF Extends
  <2>4. Extends(c)'
    BY <1>2, <2>1, <2>3 DEF Extends
  <2> QED
    BY <2>4
<1>11. (\A y \in Index : Colored(y) => \E a \in Index : Anchors(a, y))'
  <2> SUFFICES ASSUME NEW y \in Index, Colored(y)' PROVE \E a \in Index : Anchors(a, y)'
    OBVIOUS
  <2>1. ASSUME NEW a \in Index, Anchors(a, y) PROVE Anchors(a, y)'
    BY <1>2, <1>7, <2>1 DEF Anchors, Colored
  <2>2. CASE Colored(y)
    BY <2>1, <2>2 DEF Inv
  <2>3. CASE Fresh(y)
    <3>1. PICK a \in Index : Anchors(a, x)
      BY <1>1 DEF Inv
    <3>2. PICK t \in Pair, m \in {1, 2} :
            {x, y} = {LeftEnd(inverse, t, m), RightEnd(inverse, t, m)}
      BY <1>1, <2>3, Setting, NeighborFacts DEF Inv
    <3>3. Tied(S, LeftEnd(inverse, t, m), RightEnd(inverse, t, m))
      BY Setting, ConstraintTies DEF Inv
    <3>4. S \in SUBSET Colorings /\ LeftEnd(inverse, t, m) \in Index /\ RightEnd(inverse, t, m) \in Index
      BY Setting, EndType DEF Inv
    <3>5. Tied(S, y, x)
      BY <3>2, <3>3, <3>4, TiedEquivalence, <1>1
    <3>6. Tied(S, y, a)
      BY <1>1, <3>1, <3>4, <3>5, TiedEquivalence DEF Anchors
    <3>7. a < edge => a <= y
      <4>1. ~(y < edge)
        BY <2>3 DEF Inv, Progress
      <4> QED
        BY <4>1 DEF Index, Inv, TypeOK
    <3>8. Anchors(a, y)
      BY <3>1, <3>6, <3>7 DEF Anchors
    <3> QED
      BY <2>1, <3>8
  <2> QED
    BY <1>7, <2>2, <2>3
<1>12. TypeOK'
  BY <1>2, <1>5, <1>6 DEF Inv, TypeOK
<1>13. Progress'
  <2>1. phase # "odd_input" /\ phase # "done"
    BY <1>1 DEF Inv, Progress
  <2>2. color[Unpaired] = 0 => color'[Unpaired] = 0
    BY <1>7, IndexFacts DEF Colored
  <2>3. color[inverse[Unpaired]] = 0 => color'[inverse[Unpaired]] = 0
    BY <1>7, IndexFacts, Setting DEF Colored, Inv
  <2>4. \A y \in Index : y < edge => Colored(y)'
    BY <1>7 DEF Inv, Progress
  <2> QED
    BY <1>2, <2>1, <2>2, <2>3, <2>4 DEF Inv, Progress
<1> QED
  BY <1>9, <1>10, <1>11, <1>12, <1>13 DEF Inv

LEMMA ColorOddInputInv == ASSUME Inv, ColorOddInput PROVE Inv'
<1>1. /\ pending = <<>> /\ \A x \in Index : ~Colored(x)
      /\ edge = 0 /\ phase = "odd_input"
      /\ permutation' = permutation /\ inverse' = inverse /\ edge' = edge
  BY DEF ColorOddInput, Inv, Progress
<1>2. CASE Odd
  <2>1. /\ Start(Unpaired) /\ phase' = "odd_output"
        /\ Unpaired \in Index /\ Unpaired \in OddEnds(inverse)
        /\ edge' \in 0 .. Count /\ edge <= edge'
    BY <1>1, <1>2, IndexFacts DEF ColorOddInput, OddEnds
  <2>2. /\ color' \in [Index -> {-1, 0, 1}]
        /\ pending' \in Seq(Index)
        /\ FrontierSeparates'
        /\ (\E c \in Colorings : Extends(c))'
        /\ (\A x \in Index : Colored(x) => \E a \in Index : Anchors(a, x))'
        /\ color'[Unpaired] = 0
    BY <1>1, <2>1, StartInv
  <2>3. TypeOK'
    BY <1>1, <2>1, <2>2 DEF Inv, TypeOK
  <2>4. Progress'
    BY <1>1, <1>2, <2>1, <2>2 DEF Progress, Index
  <2> QED
    BY <2>2, <2>3, <2>4 DEF Inv
<1>3. CASE ~Odd
  <2>1. phase' = "values" /\ color' = color /\ pending' = pending
    BY <1>3 DEF ColorOddInput
  <2> QED
    BY <1>1, <1>3, <2>1
       DEF Inv, TypeOK, Progress, FrontierSeparates, Extends, Anchors, Colored, Index,
           Neighbors, InputPartner, OutputPartner
<1> QED
  BY <1>2, <1>3

LEMMA ColorOddOutputInv == ASSUME Inv, ColorOddOutput PROVE Inv'
<1> DEFINE x == inverse[Unpaired]
<1>1. /\ pending = <<>> /\ phase = "odd_output" /\ edge = 0 /\ Odd
      /\ color[Unpaired] = 0
      /\ permutation' = permutation /\ inverse' = inverse /\ edge' = edge
  BY DEF ColorOddOutput, Inv, Progress
<1>2. Unpaired \in Index /\ x \in Index /\ x \in OddEnds(inverse)
  BY <1>1, IndexFacts, Setting DEF Inv, OddEnds
<1>3. CASE color[x] = -1
  <2>1. /\ Start(x) /\ phase' = "values" /\ ~Colored(x)
        /\ edge' \in 0 .. Count /\ edge <= edge'
    BY <1>1, <1>3 DEF ColorOddOutput, Colored
  <2>2. /\ color' \in [Index -> {-1, 0, 1}]
        /\ pending' \in Seq(Index)
        /\ FrontierSeparates'
        /\ (\E c \in Colorings : Extends(c))'
        /\ (\A y \in Index : Colored(y) => \E a \in Index : Anchors(a, y))'
        /\ \A y \in Index : Colored(y) => color'[y] = color[y]
        /\ color'[x] = 0
    BY <1>1, <1>2, <2>1, StartInv
  <2>3. TypeOK'
    BY <1>1, <2>1, <2>2 DEF Inv, TypeOK
  <2>4. color'[Unpaired] = 0
    BY <1>1, <1>2, <2>2 DEF Colored
  <2>5. Progress'
    BY <1>1, <2>1, <2>2, <2>4 DEF Progress, Index
  <2> QED
    BY <2>2, <2>3, <2>5 DEF Inv
<1>4. CASE color[x] = 0
  <2>1. phase' = "values" /\ color' = color /\ pending' = pending
    BY <1>4 DEF ColorOddOutput
  <2>2. Progress'
    BY <1>1, <1>4, <2>1 DEF Progress, Index
  <2> QED
    BY <1>1, <2>1, <2>2
       DEF Inv, TypeOK, FrontierSeparates, Extends, Anchors, Colored,
           Neighbors, InputPartner, OutputPartner
<1>5. CASE color[x] = 1
  <2>1. PICK c \in Colorings : Extends(c)
    BY DEF Inv
  <2>2. c[Unpaired] = c[x]
    BY <1>1, <2>1, Setting, OddEndsAgree DEF Inv, Extends, ProperColorings
  <2> QED
    BY <1>1, <1>2, <1>5, <2>1, <2>2 DEF Extends, Colored
<1> QED
  BY <1>3, <1>4, <1>5 DEF ColorOddOutput

LEMMA ColorValueInv == ASSUME Inv, ColorValue PROVE Inv'
<1>1. /\ pending = <<>> /\ phase = "values" /\ edge \in Index
      /\ phase' = phase /\ permutation' = permutation /\ inverse' = inverse
      /\ edge' = edge + 1 /\ edge' \in 0 .. Count /\ edge <= edge' /\ edge < edge'
  BY DEF ColorValue, Inv, TypeOK, Index
<1>2. \A x \in Index : x < edge' => x < edge \/ x = edge
  BY <1>1 DEF Index
<1>3. CASE ~Colored(edge)
  <2>1. Start(edge)
    BY <1>3 DEF ColorValue, Colored
  <2>2. /\ color' \in [Index -> {-1, 0, 1}]
        /\ pending' \in Seq(Index)
        /\ FrontierSeparates'
        /\ (\E c \in Colorings : Extends(c))'
        /\ (\A y \in Index : Colored(y) => \E a \in Index : Anchors(a, y))'
        /\ \A y \in Index : Colored(y)' <=> Colored(y) \/ y = edge
        /\ \A y \in Index : Colored(y) => color'[y] = color[y]
    BY <1>1, <1>3, <2>1, StartInv
  <2>3. TypeOK'
    BY <1>1, <2>2 DEF Inv, TypeOK
  <2>4. Progress'
    <3>1. Odd => color'[Unpaired] = 0 /\ color'[inverse[Unpaired]] = 0
      BY <1>1, <2>2, IndexFacts, Setting DEF Inv, Progress, Colored
    <3>2. (\A x \in Index : x < edge => Colored(x))'
      BY <1>1, <1>2, <2>2 DEF Inv, Progress
    <3> QED
      BY <1>1, <3>1, <3>2 DEF Progress
  <2> QED
    BY <2>2, <2>3, <2>4 DEF Inv
<1>4. CASE Colored(edge)
  <2>1. color' = color /\ pending' = pending
    BY <1>4 DEF ColorValue, Colored
  <2>2. TypeOK'
    BY <1>1, <2>1 DEF Inv, TypeOK
  <2>3. FrontierSeparates'
    BY <1>1, <2>1, SameNeighbors DEF Inv, FrontierSeparates
  <2>4. (\E c \in Colorings : Extends(c))'
    BY <1>1, <2>1 DEF Inv, Extends, Colored
  <2>5. (\A y \in Index : Colored(y) => \E a \in Index : Anchors(a, y))'
    <3> SUFFICES ASSUME NEW y \in Index, Colored(y)' PROVE \E a \in Index : Anchors(a, y)'
      OBVIOUS
    <3>1. PICK a \in Index : Anchors(a, y)
      BY <2>1 DEF Inv, Colored
    <3>2. a < edge => a < edge'
      BY <1>1 DEF Index
    <3>3. Anchors(a, y)'
      BY <1>1, <2>1, <3>1, <3>2 DEF Anchors
    <3> QED
      BY <3>3
  <2>6. Progress'
    <3>1. (\A x \in Index : x < edge => Colored(x))'
      BY <1>2, <1>4, <2>1 DEF Inv, Progress, Colored
    <3> QED
      BY <1>1, <2>1, <3>1 DEF Inv, Progress
  <2> QED
    BY <2>2, <2>3, <2>4, <2>5, <2>6 DEF Inv
<1> QED
  BY <1>3, <1>4

LEMMA StepInv == Inv /\ [Next]_vars => Inv'
<1> SUFFICES ASSUME Inv, [Next]_vars PROVE Inv'
  OBVIOUS
<1>1. CASE Emit \/ UNCHANGED vars
  <2>1. /\ permutation' = permutation /\ inverse' = inverse /\ color' = color
        /\ pending' = pending /\ edge' = edge
    BY <1>1 DEF Emit, vars
  <2>2. TypeOK' /\ Progress'
    BY <1>1, <2>1 DEF Inv, TypeOK, Progress, Emit, vars, Colored
  <2>3. FrontierSeparates'
    BY <2>1, SameNeighbors DEF Inv, FrontierSeparates
  <2>4. /\ (\E c \in Colorings : Extends(c))'
        /\ (\A y \in Index : Colored(y) => \E a \in Index : Anchors(a, y))'
    BY <2>1 DEF Inv, Extends, Anchors, Colored
  <2> QED
    BY <2>2, <2>3, <2>4 DEF Inv
<1> QED
  BY <1>1, VisitInv, ColorOddInputInv, ColorOddOutputInv, ColorValueInv DEF Next

LEMMA AlwaysInv == Spec => []Inv
  BY InitInv, StepInv, PTL DEF Spec

-----------------------------------------------------------------------------
(* The search is right. *)

\* Neither throw statement is ever reached, whatever the permutation.
THEOREM SearchNeverThrows == Spec => []NeverThrows
<1>1. Inv => NeverThrows
  BY DEF Inv, TypeOK, NeverThrows
<1> QED
  BY <1>1, AlwaysInv, PTL

\* The deque holds coloured values once each, and everything coloured that has left
\* it is separated from its neighbours.
THEOREM FrontierAlwaysSeparates == Spec => []FrontierSeparates
<1>1. Inv => FrontierSeparates
  BY DEF Inv
<1> QED
  BY <1>1, AlwaysInv, PTL

\* The search ends with every value coloured, each group from its leader: what a
\* component began with is a leader if it is no odd end, for all smaller values
\* were coloured before.
LEMMA ColorIsCanonical ==
  ASSUME Inv, phase = "done"
  PROVE  IsCanonical(inverse, color)
<1> DEFINE S == ProperColorings(inverse)
<1>1. edge = Count /\ pending = <<>> /\ \A x \in Index : Colored(x)
  BY DEF Inv, Progress, Index
<1>2. color \in Colorings
  BY <1>1 DEF Inv, TypeOK, Colored, Colorings, Bit
<1>3. Proper(inverse, color)
  <2> SUFFICES ASSUME NEW t \in Pair, NEW n \in {1, 2}
               PROVE  color[LeftEnd(inverse, t, n)] # color[RightEnd(inverse, t, n)]
    BY DEF Proper
  <2>1. LeftEnd(inverse, t, n) \in Index
    BY Setting, EndType DEF Inv
  <2> QED
    BY <1>1, <2>1, ComponentsClose
<1>4. \A e \in OddEnds(inverse) : color[e] = 0
  BY DEF Inv, Progress, OddEnds
<1>5. ASSUME NEW i \in Leaders(inverse, S), i \notin OddEnds(inverse) PROVE color[i] = 0
  <2>1. /\ i \in Index
        /\ \A e \in OddEnds(inverse) : ~Tied(S, i, e)
        /\ \A j \in Index : j < i => ~Tied(S, i, j)
    BY <1>5 DEF Leaders
  <2>2. PICK s \in Index : Anchors(s, i)
    BY <1>1, <2>1 DEF Inv
  <2>3. s <= i /\ ~(s < i)
    BY <2>1, <2>2 DEF Anchors
  <2>4. s = i
    BY <2>1, <2>3 DEF Index
  <2> QED
    BY <2>2, <2>4 DEF Anchors
<1> QED
  BY <1>2, <1>3, <1>4, <1>5 DEF IsCanonical

\* The end of the search: one answer, the canonical one.
Answered ==
  phase = "done" => /\ Answers = {color}
                    /\ IsCanonical(InverseOf(permutation), color)

\* The two ends that write one switch ask for the same setting, so that the bits
\* of either side describe the colouring.
LEMMA AlwaysAnswered == Spec => []Answered
<1>1. Inv => Answered
  <2> SUFFICES ASSUME Inv, phase = "done"
               PROVE  Answers = {color} /\ IsCanonical(InverseOf(permutation), color)
    BY DEF Answered
  <2> DEFINE id == [i \in Index |-> i]
  <2>1. /\ permutation \in Permutations /\ permutation \in [Index -> Index]
        /\ inverse = InverseOf(permutation) /\ inverse \in [Index -> Index]
        /\ \A i \in Index : inverse[permutation[i]] = i
    BY Setting, InverseType DEF Inv
  <2>2. IsCanonical(inverse, color)
    BY ColorIsCanonical
  <2>3. /\ color \in Colorings
        /\ \A k \in Pair : /\ color[2 * k] # color[2 * k + 1]
                           /\ color[inverse[2 * k]] # color[inverse[2 * k + 1]]
        /\ Odd => color[Unpaired] = 0 /\ color[inverse[Unpaired]] = 0
    BY <2>2 DEF IsCanonical, Proper, LeftEnd, RightEnd, Inv, Progress
  <2>4. ASSUME NEW x \in Index, NEW y \in Index, color[x] # color[y], NEW k \in Pair
        PROVE  Either(Crossed(x, 2 * k), Crossed(y, 2 * k + 1)) = color[x]
    <3>1. (2 * k) % 2 = 0 /\ (2 * k + 1) % 2 = 1
      BY IndexFacts
    <3>2. color[x] \in {0, 1} /\ color[y] \in {0, 1}
      BY <2>3 DEF Colorings, Bit
    <3> QED
      BY <2>4, <3>1, <3>2 DEF Either, Crossed
  <2>5. Decoded(InputBits, id) = color
    <3>1. id \in [Index -> Index] /\ \A i \in Index : id[i] = i
      OBVIOUS
    <3>2. \A k \in Pair : InputBits[k] = color[2 * k]
      BY <2>3, <2>4, IndexFacts DEF InputBits
    <3> HIDE DEF id
    <3>3. /\ \A k \in Pair : color[id[2 * k]] # color[id[2 * k + 1]]
          /\ Odd => color[id[Unpaired]] = 0
          /\ \A k \in Pair : InputBits[k] = color[id[2 * k]]
          /\ \A i \in Index : id[id[i]] = i
      BY <2>3, <3>1, <3>2, IndexFacts
    <3> QED
      BY <2>3, <3>1, <3>3, DecodedIsColoring
  <2>6. Decoded(OutputBits, permutation) = color
    <3>1. \A k \in Pair : OutputBits[k] = color[inverse[2 * k]]
      BY <2>1, <2>3, <2>4, IndexFacts DEF OutputBits
    <3> QED
      BY <2>1, <2>3, <3>1, DecodedIsColoring
  <2> QED
    BY <2>1, <2>2, <2>5, <2>6 DEF Answers
<1> QED
  BY <1>1, AlwaysInv, PTL

\* The abstract specification speaks of the same colourings.
LEMMA SameCanonical ==
  /\ Coloring!Colorings = Colorings
  /\ \A p, c : Coloring!IsCanonical(Coloring!InverseOf(p), c) <=> IsCanonical(InverseOf(p), c)
<1>1. Coloring!Colorings = Colorings
  BY DEF Coloring!Colorings, Coloring!Index, Coloring!Bit, Colorings, Index, Bit
<1>2. ASSUME NEW p PROVE Coloring!InverseOf(p) = InverseOf(p)
  BY DEF Coloring!InverseOf, Coloring!Index, InverseOf, Index
<1>3. ASSUME NEW v, NEW c PROVE Coloring!Proper(v, c) <=> Proper(v, c)
  BY DEF Coloring!Proper, Coloring!LeftEnd, Coloring!RightEnd, Coloring!Pair,
         Proper, LeftEnd, RightEnd, Pair
<1>4. ASSUME NEW v PROVE Coloring!ProperColorings(v) = ProperColorings(v)
  BY <1>1, <1>3 DEF Coloring!ProperColorings, ProperColorings
<1>5. ASSUME NEW v, NEW S PROVE Coloring!Leaders(v, S) = Leaders(v, S)
  BY DEF Coloring!Leaders, Coloring!OddEnds, Coloring!Tied, Coloring!Odd, Coloring!Unpaired,
         Coloring!Index, Coloring!Bit, Coloring!Xor,
         Leaders, OddEnds, Tied, Odd, Unpaired, Index, Bit, Xor
<1>6. ASSUME NEW p, NEW c
      PROVE  Coloring!IsCanonical(Coloring!InverseOf(p), c) <=> IsCanonical(InverseOf(p), c)
  BY <1>1, <1>2, <1>3, <1>4, <1>5 DEF Coloring!IsCanonical, IsCanonical
<1> QED
  BY <1>1, <1>6

\* The portable encoder implements NodeColoring: it ends with the canonical
\* colouring, the one the kernels choose.
THEOREM SearchIsCanonical == Spec => ImplementsNodeColoring
<1>1. Init => Coloring!Init
  BY DEF Init, Coloring!Init
<1>2. Inv /\ Answered /\ Answered' /\ [Next]_vars =>
        [Coloring!Next]_<<permutation, IF phase = "done" THEN Answers ELSE {}>>
  <2> SUFFICES ASSUME Inv, Answered, Answered', [Next]_vars
               PROVE  [Coloring!Next]_<<permutation, IF phase = "done" THEN Answers ELSE {}>>
    OBVIOUS
  <2>1. permutation' = permutation
    BY DEF Next, vars, Visit, ColorOddInput, ColorOddOutput, ColorValue, Emit
  <2>2. CASE Emit
    <3>1. phase # "done" /\ phase' = "done" /\ Answers' = {color'}
          /\ IsCanonical(InverseOf(permutation), color')
      BY <2>1, <2>2 DEF Emit, Answered
    <3>2. color' \in Coloring!Colorings
          /\ Coloring!IsCanonical(Coloring!InverseOf(permutation), color')
      BY <3>1, SameCanonical DEF IsCanonical
    <3> QED
      BY <2>1, <3>1, <3>2 DEF Coloring!Next, Coloring!Choose
  <2>3. CASE UNCHANGED vars
    <3>1. color' = color /\ phase' = phase
      BY <2>3 DEF vars
    <3> QED
      BY <2>1, <3>1 DEF Answered
  <2>4. CASE Visit \/ ColorOddInput \/ ColorOddOutput \/ ColorValue
    <3>1. phase # "done"
      BY <2>4 DEF Visit, ColorOddInput, ColorOddOutput, ColorValue, Inv, Progress
    <3>2. phase' # "done"
      BY <2>4, <3>1 DEF Visit, ColorOddInput, ColorOddOutput, ColorValue
    <3> QED
      BY <2>1, <3>1, <3>2
  <2> QED
    BY <2>2, <2>3, <2>4 DEF Next
<1> QED
  BY <1>1, <1>2, AlwaysInv, AlwaysAnswered, PTL DEF Spec, ImplementsNodeColoring, Coloring!Spec
=============================================================================
