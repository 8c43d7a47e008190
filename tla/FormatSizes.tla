----------------------------- MODULE FormatSizes -----------------------------
(***************************************************************************)
(* The sizes the compact format is built from: how many switch bits and    *)
(* rank bits a subnetwork of n values takes, and how deep it is.           *)
(* FormatSizeCache computes them recursively and keeps what it computed in *)
(* two arrays of fixed length.  The values are functions of the arguments, *)
(* so the model of the arrays is the set of arguments they hold.           *)
(***************************************************************************)
EXTENDS Lehmer, Integers, Sequences

CONSTANT MiddleGroupLog2        \* 1 .. 5, leaves hold at most 2^this values

ASSUME MiddleGroupAssumption == MiddleGroupLog2 \in 1 .. 5

LeafSize == <<2, 4, 8, 16, 32>>[MiddleGroupLog2]

\* The sizes of the two children.
LeftCount(n)  == n \div 2 + (n % 2)
RightCount(n) == n \div 2

\* Bits of the largest rank of c values: as many as there are powers of two below
\* c!.  A leaf's c! is below LeafSize ^ c.
FactoradicBitCount(c) ==
  Cardinality({b \in 0 .. MiddleGroupLog2 * c : PowerOfTwo[b] < Factorial[c]})

\* The recursive methods, as functions of the sizes there are below n.
SwitchBits(n) ==
  LET Bits[k \in 0 .. n] ==
        IF k <= LeafSize THEN 0
        ELSE k \div 2 + Bits[LeftCount(k)] + Bits[RightCount(k)]
  IN  Bits[n]

MiddleBits(n) ==
  LET Bits[k \in 0 .. n] ==
        IF k <= LeafSize THEN FactoradicBitCount(k)
        ELSE Bits[LeftCount(k)] + Bits[RightCount(k)]
  IN  Bits[n]

\* The switches of the first depth levels only.
PacketSwitchBits(n, depth) ==
  LET Bits[d \in 0 .. depth] ==
        [k \in 0 .. n |->
           IF k <= LeafSize \/ d = 0 THEN 0
           ELSE k \div 2 + Bits[d - 1][LeftCount(k)] + Bits[d - 1][RightCount(k)]]
  IN  Bits[depth][n]

RoutingDepth(n) ==
  LET Depth[k \in 0 .. n] ==
        IF k <= LeafSize THEN 0 ELSE 1 + Depth[LeftCount(k)]
  IN  Depth[n]

\* What the arrays hold after metrics(n) or packet_switch_bits(n, depth).
MetricsAfter(held, n) ==
  LET After[k \in 0 .. n] ==
        [h \in SUBSET Nat |->
           IF k <= LeafSize \/ k \in h THEN h
           ELSE After[RightCount(k)][After[LeftCount(k)][h]] \cup {k}]
  IN  After[n][held]

PacketsAfter(held, n, depth) ==
  LET After[d \in 0 .. depth] ==
        [k \in 0 .. n |-> [h \in SUBSET (Nat \X Nat) |->
           IF k <= LeafSize \/ d = 0 \/ <<k, d>> \in h THEN h
           ELSE After[d - 1][RightCount(k)][After[d - 1][LeftCount(k)][h]]
                  \cup {<<k, d>>}]]
  IN  After[depth][n][held]

\* The lengths of the arrays, and the deepest network a 64-bit count has.
MetricCapacity == 128
PacketCapacity == 256
MaxDepth       == 64 - MiddleGroupLog2

SumOf(s) ==
  LET Add[n \in 0 .. Len(s)] == IF n = 0 THEN 0 ELSE s[n] + Add[n - 1]
  IN  Add[Len(s)]

\* The cluster lists that are valid for a depth.
ClusterLists(depth) ==
  {s \in UNION {[1 .. k -> 1 .. depth] : k \in 0 .. depth} : SumOf(s) = depth}
=============================================================================
