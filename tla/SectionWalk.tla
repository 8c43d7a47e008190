----------------------------- MODULE SectionWalk -----------------------------
(***************************************************************************)
(* The portable encoder going through the network: encode_compact_node     *)
(* handles a node, then its left child, then its right child, and gives    *)
(* every switch one bit of the input section and one of the output         *)
(* section, every leaf a run of bits for its rank.  A step is one call of  *)
(* encode_compact_node up to the recursion; the colouring is left out.     *)
(***************************************************************************)
EXTENDS DeviceAddress

CONSTANTS Counts,       \* the sizes encoded
          Placements    \* of the middle: subset of the three below

ASSUME WalkAssumption ==
  /\ Counts \subseteq Nat \ {0}
  /\ Placements \subseteq {"separate", "input", "output"}

VARIABLES
  format,       \* the count and the format options, never changed
  pending,      \* the calls still to be made, the next one first
  placed,       \* the switches of the input section that have their bits
  outputs,      \* bits of the output section handed out
  ranks,        \* bits handed out for ranks, in the section that holds them
  metrics, packets      \* what the encoder's cache holds

vars == <<format, pending, placed, outputs, ranks, metrics, packets>>

\* trail: the turns taken from the root; group: those up to the cluster root.
Init ==
  /\ format \in Formats(Counts, Placements)
  /\ LET in  == RootOf(format, format.input, "input")
         out == RootOf(format, format.output, "output")
     IN  /\ pending = <<[count |-> format.count, in |-> in, out |-> out,
                         middle |-> 0, trail |-> <<>>, group |-> <<>>]>>
         /\ packets = PacketsAfter(PacketsAfter({}, in.root, in.groupDepth),
                                   out.root, out.groupDepth)
  /\ placed = {}
  /\ outputs = {}
  /\ ranks = {}
  /\ metrics = {}

\* A leaf: the bits of its rank.
EncodeLeaf ==
  /\ pending # <<>>
  /\ pending[1].count <= LeafSize
  /\ LET call  == pending[1]
         first == CASE format.placement = "separate" -> call.middle
                    [] format.placement = "input"    -> MiddleBit(call.in)
                    [] format.placement = "output"   -> MiddleBit(call.out)
     IN  ranks' = ranks \cup {first + b : b \in 0 .. FactoradicBitCount(call.count) - 1}
  /\ pending' = Tail(pending)
  /\ UNCHANGED <<format, placed, outputs, metrics, packets>>

\* The call for a child.
CallOf(call, right) ==
  LET in == Child(call.in, right, call.count)
      trail == Append(call.trail, right)
  IN  [count |-> ChildCount(right, call.count), in |-> in,
       out |-> Child(call.out, right, call.count),
       middle |-> call.middle + IF right THEN MiddleBits(LeftCount(call.count)) ELSE 0,
       trail |-> trail, group |-> IF in.level = 0 THEN trail ELSE call.group]

\* An inner node: a bit in both sections for every pair, then the children.
EncodeNode ==
  /\ pending # <<>>
  /\ pending[1].count > LeafSize
  /\ LET call  == pending[1]
         pairs == 0 .. call.count \div 2 - 1
         n     == call.count
     IN  /\ placed' = placed \cup
              {[group |-> call.group, packet |-> k \div PairSpan(call.in),
                level |-> call.in.level, bit |-> SwitchBit(call.in, k)] : k \in pairs}
         /\ outputs' = outputs \cup {SwitchBit(call.out, k) : k \in pairs}
         /\ pending' = <<CallOf(call, FALSE), CallOf(call, TRUE)>> \o Tail(pending)
         /\ metrics' = MetricsAfter(metrics, LeftCount(n))
         /\ packets' =
              LET step(held, right) ==
                    PacketsOfChild(PacketsOfChild(held, call.in, right, n),
                                   call.out, right, n)
              IN  step(step(packets, FALSE), TRUE)
  /\ UNCHANGED <<format, ranks>>

Next == EncodeLeaf \/ EncodeNode

Spec == Init /\ [][Next]_vars
-----------------------------------------------------------------------------
Inputs == {p.bit : p \in placed}

\* How the sections have to be filled in the end.
Ended == pending = <<>>
Span(bits) == 0 .. bits - 1

\* Every bit of both switch sections and of the middle is used exactly once:
\* no two switches share a bit, no rank overlaps another or a switch, nothing
\* is left open, whatever the clusters and the placement.
SectionsAreFilled ==
  LET switches == SwitchBits(format.count)
      middle   == MiddleBits(format.count)
  IN  Ended =>
        CASE format.placement = "separate" ->
               /\ Inputs = Span(switches) /\ outputs = Span(switches)
               /\ ranks = Span(middle)
          [] format.placement = "input" ->
               /\ Inputs \cap ranks = {} /\ outputs = Span(switches)
               /\ Inputs \cup ranks = Span(switches + middle)
          [] format.placement = "output" ->
               /\ outputs \cap ranks = {} /\ Inputs = Span(switches)
               /\ outputs \cup ranks = Span(switches + middle)

\* A lookup reads one packet per cluster: the switches of a packet stand next
\* to each other, those of nearer levels first.
PacketsAreContiguous ==
  Ended =>
    \A p, q \in placed :
      p.group = q.group /\ p.packet = q.packet =>
        /\ p.level < q.level => p.bit < q.bit
        /\ \A b \in p.bit .. q.bit :
             \E r \in placed :
               r.bit = b /\ r.group = p.group /\ r.packet = p.packet

\* The kernels give every switch the bit the encoder gives it: the loop by which
\* they count the large nodes comes to the same prefixes, whatever the clusters and
\* the tail, and in the 32-bit kernels no number on the way is too large for its
\* type, up to the count they are refused for (benes_cuda.cu:1159).
DeviceAgrees ==
  \A wide \in {w \in BOOLEAN : w \/ format.count <= UintMax \div 2} :
    \A n \in DOMAIN pending :
      pending[n].count > LeafSize =>
        \A k \in 0 .. pending[n].count \div 2 - 1 :
          /\ DeviceSwitchBit(pending[n].in, k, wide) = SwitchBit(pending[n].in, k)
          /\ DeviceSwitchBit(pending[n].out, k, wide) = SwitchBit(pending[n].out, k)

\* The cache is never exhausted.  A level has at most two sizes, the root's
\* only one, and each section asks for the packets of a size at one depth, so
\* that the arrays suffice for the deepest network a 64-bit count has.
MostSizes(depth) == 2 * depth - 1

CacheSuffices ==
  LET depth == RoutingDepth(format.count)
  IN  /\ depth > 0 => /\ Cardinality(metrics) <= MostSizes(depth)
                      /\ Cardinality(packets) <= 2 * MostSizes(depth)
      /\ MostSizes(MaxDepth) <= MetricCapacity
      /\ 2 * MostSizes(MaxDepth) <= PacketCapacity
=============================================================================
