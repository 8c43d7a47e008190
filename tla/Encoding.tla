------------------------------ MODULE Encoding ------------------------------
(***************************************************************************)
(* What compress writes: the three sections of a permutation's file, each  *)
(* as the set of its bits that are set.  Every node gets its canonical     *)
(* colouring, the one the encoders implement; addresses and sizes are      *)
(* those of SectionAddress, ranks those of Lehmer.                         *)
(***************************************************************************)
EXTENDS SectionAddress

Node(n) == INSTANCE BenesNode WITH Count <- n

Blank == [input |-> {}, output |-> {}, middle |-> {}]

\* The section a leaf's rank is stored in, and its first bit there.
RankSection(format) ==
  CASE format.placement = "separate" -> "middle"
    [] format.placement = "input"    -> "input"
    [] format.placement = "output"   -> "output"

RankStart(format, in, out, middle) ==
  CASE format.placement = "separate" -> middle
    [] format.placement = "input"    -> MiddleBit(in)
    [] format.placement = "output"   -> MiddleBit(out)

\* The leaf: the bits of its rank.
LeafBits(p, count, format, in, out, middle) ==
  LET start == RankStart(format, in, out, middle)
      rank  == Rank(p, count)
  IN  [Blank EXCEPT ![RankSection(format)] =
         {start + b : b \in {d \in 0 .. FactoradicBitCount(count) - 1 :
                               (rank \div PowerOfTwo[d]) % 2 = 1}}]

\* The node's own bits: the even end of each pair asks for them (the other end
\* asks for the same).  Mutant: the output switches are set as their numbers'
\* values are routed, not the values that arrive there.
UncrossedBits(p, count, c, in, out) ==
  LET pairs == 0 .. count \div 2 - 1
  IN  [Blank EXCEPT
         !.input  = {SwitchBit(in, k) : k \in {j \in pairs : c[2 * j] = 1}},
         !.output = {SwitchBit(out, k) : k \in {j \in pairs : c[2 * j] = 1}}]

NodeBits(p, count, c, in, out) ==
  LET pairs   == 0 .. count \div 2 - 1
      inverse == Node(count)!InverseOf(p)
  IN  [Blank EXCEPT
         !.input  = {SwitchBit(in, k) : k \in {j \in pairs : c[2 * j] = 1}},
         !.output = {SwitchBit(out, k) :
                       k \in {j \in pairs : c[inverse[2 * j]] = 1}}]

\* The permutation of a child, from what the node writes for it.
ChildOrder(p, count, c, right) ==
  LET writes == {w \in Node(count)!Writes(p, c) : w[1] = IF right THEN 1 ELSE 0}
  IN  [s \in 0 .. ChildCount(right, count) - 1 |->
         (CHOOSE w \in writes : w[2] = s)[3]]

\* The proper colourings, built up value by value.
ProperColorings(inverse, count) ==
  LET Tied(x, y) ==
        \E pair \in Node(count)!Pair, number \in {1, 2} :
          {x, y} = {Node(count)!LeftEnd(inverse, pair, number),
                    Node(count)!RightEnd(inverse, pair, number)}
      Below[x \in 0 .. count] ==
        IF x = 0 THEN [{} -> {0, 1}]
        ELSE LET tied == {y \in 0 .. x - 2 : Tied(x - 1, y)}
             IN  {[y \in 0 .. x - 1 |-> IF y = x - 1 THEN w[2] ELSE w[1][y]] :
                    w \in {v \in Below[x - 1] \X {0, 1} :
                            \A y \in tied : v[1][y] # v[2]}}
  IN  Below[count]

CanonicalColoring(inverse, count) ==
  LET proper == ProperColorings(inverse, count)
  IN  CHOOSE c \in proper :
        \A i \in Node(count)!Leaders(inverse, proper) : c[i] = 0

Coloring(p, count) == CanonicalColoring(Node(count)!InverseOf(p), count)

\* A call of encode_compact_node: its arguments, and the colours it finds.
CallFor(p, count, in, out, middle) ==
  [order |-> p, count |-> count, in |-> in, out |-> out, middle |-> middle,
   colors |-> IF count <= LeafSize THEN <<>> ELSE Coloring(p, count)]

RootCall(p, format) ==
  CallFor(p, format.count, RootOf(format, format.input, "input"),
          RootOf(format, format.output, "output"), 0)

ChildCall(call, right) ==
  CallFor(ChildOrder(call.order, call.count, call.colors, right),
          ChildCount(right, call.count),
          Child(call.in, right, call.count), Child(call.out, right, call.count),
          call.middle + IF right THEN MiddleBits(LeftCount(call.count)) ELSE 0)

CallBits(call, format) ==
  IF call.count <= LeafSize
  THEN LeafBits(call.order, call.count, format, call.in, call.out, call.middle)
  ELSE NodeBits(call.order, call.count, call.colors, call.in, call.out)

\* The calls by their numbers, 2k and 2k + 1 being those for the children of k,
\* and the ones that those make that have made none.
WithChildren(calls) ==
  LET calling == {k \in DOMAIN calls : /\ calls[k].count > LeafSize
                                       /\ 2 * k \notin DOMAIN calls}
      made    == {2 * k : k \in calling} \cup {2 * k + 1 : k \in calling}
  IN  [k \in DOMAIN calls \cup made |->
         IF k \in made THEN ChildCall(calls[k \div 2], k % 2 = 1) ELSE calls[k]]

\* All calls of an encoding, level by level.
Calls(p, format) ==
  LET Made[level \in 0 .. RoutingDepth(format.count)] ==
        IF level = 0 THEN [k \in {1} |-> RootCall(p, format)]
        ELSE WithChildren(Made[level - 1])
  IN  Made[RoutingDepth(format.count)]

\* The values each call has, and the bits it sets.
AllCalls(p, format) ==
  LET calls == Calls(p, format)
  IN  [k \in DOMAIN calls |->
         [count |-> calls[k].count, bits |-> CallBits(calls[k], format)]]

Encoded(p, format) ==
  LET calls == AllCalls(p, format)
  IN  [s \in DOMAIN Blank |-> UNION {calls[k].bits[s] : k \in DOMAIN calls}]
=============================================================================
