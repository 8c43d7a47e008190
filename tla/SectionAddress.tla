--------------------------- MODULE SectionAddress ---------------------------
(***************************************************************************)
(* Where the bits of a node stand in a switch section.  The levels of the  *)
(* network are grouped into clusters; the subnetwork below a cluster root  *)
(* stores its first levels packet by packet, the switches that one lookup  *)
(* can need standing together, and then everything deeper, child subnet by *)
(* child subnet.  With an embedded middle the ranks stand there as well.   *)
(*                                                                         *)
(* An address is the record of the fields of class SectionAddress that say *)
(* which node it is; what the class caches of them is computed here.       *)
(***************************************************************************)
EXTENDS FormatSizes

\* The constructor: the address of the root.
RootAddress(count, clusters, embeds) ==
  [clusters |-> clusters, embeds |-> embeds, index |-> 1,
   groupDepth |-> IF count > LeafSize THEN clusters[1] ELSE 0,
   level |-> 0, path |-> 0, root |-> count, node |-> count,
   base |-> 0, residual |-> 0]

\* The valid formats for some counts.
Formats(counts, placements) ==
  UNION {LET lists == ClusterLists(RoutingDepth(n))
         IN  [count : {n}, input : lists, output : lists,
              placement : IF RoutingDepth(n) = 0 THEN {"separate"} ELSE placements]
         : n \in counts}

\* The root's address in the section of a side.
RootOf(format, list, side) ==
  RootAddress(format.count, list, format.placement = side)

\* How many of the first paths nodes on a level lie on the larger side, when
\* large nodes are spread over the level as repeated halving spreads them.
IncludedLarge(level, paths, large) ==
  LET Included[bits \in 0 .. level] ==
        [n \in Nat |-> [m \in Nat |->
           IF bits = 0 THEN IF n # 0 /\ m # 0 THEN 1 ELSE 0
           ELSE LET half == PowerOfTwo[bits - 1]
                IN  IF m <= half
                    THEN Included[bits - 1][(n + 1) \div 2][m]
                    ELSE (n + 1) \div 2 + Included[bits - 1][n \div 2][m - half]]]
  IN  Included[level][paths][large]

\* The switches a node of n values has in a packet.
Contribution(n, packet, span) ==
  IF n <= LeafSize \/ packet * span >= n \div 2 THEN 0
  ELSE IF span < n \div 2 - packet * span THEN span
  ELSE n \div 2 - packet * span

\* packet_path_prefix_bits: the bits of the packet that the first paths nodes
\* of a level take.
PathPrefixBits(a, packet, level, paths) ==
  LET nodes == PowerOfTwo[level]
      span  == PowerOfTwo[a.groupDepth - level - 1]
      large == IncludedLarge(level, paths, a.root % nodes)
      small == a.root \div nodes
  IN  large * Contribution(small + 1, packet, span)
        + (paths - large) * Contribution(small, packet, span)

LevelBits(a, packet, level) == PathPrefixBits(a, packet, level, PowerOfTwo[level])

LevelsBits(a, packet, levels) ==
  LET Add[l \in 0 .. levels] ==
        IF l = 0 THEN 0 ELSE Add[l - 1] + LevelBits(a, packet, l - 1)
  IN  Add[levels]

FullPacketBits(a) == LevelsBits(a, 0, a.groupDepth)

PacketPrefix(a, packet) ==
  LevelsBits(a, packet, a.level) + PathPrefixBits(a, packet, a.level, a.path)

PairSpan(a) == PowerOfTwo[a.groupDepth - a.level - 1]

TailPacket(a) ==
  IF a.node \div 2 = 0 THEN 0 ELSE (a.node \div 2 - 1) \div PairSpan(a)

\* Mutant of SwitchBit: every packet has the lengths of a full one.
FullSwitchBit(a, pair) ==
  a.base + (pair \div PairSpan(a)) * FullPacketBits(a) + PacketPrefix(a, 0)
    + (pair % PairSpan(a))

\* SwitchBitAddress::bit: only the tail packet is shorter than the others.
SwitchBit(a, pair) ==
  LET packet == pair \div PairSpan(a)
  IN  a.base + packet * FullPacketBits(a)
        + PacketPrefix(a, IF packet = TailPacket(a) THEN packet ELSE 0)
        + (pair % PairSpan(a))

GroupSwitchBits(a) == PacketSwitchBits(a.root, a.groupDepth)

SectionBits(a, n) == SwitchBits(n) + IF a.embeds THEN MiddleBits(n) ELSE 0

\* Mutant of ResidualBits: the ranks are left out.
SwitchResidualBits(a, n, consumed) == SwitchBits(n) - PacketSwitchBits(n, consumed)
ResidualBits(a, n, consumed) ==
  SectionBits(a, n) - PacketSwitchBits(n, consumed)

\* Where the rank of a leaf stands in a section that embeds the middle.
MiddleBit(a) ==
  IF a.root <= LeafSize THEN a.base ELSE a.base + GroupSwitchBits(a) + a.residual

ChildCount(right, count) == IF right THEN RightCount(count) ELSE LeftCount(count)

\* The child on the next level of the same cluster.
InnerChild(a, right, count) ==
  [a EXCEPT !.level = @ + 1,
            !.path = 2 * @ + IF right THEN 1 ELSE 0,
            !.node = ChildCount(right, count),
            !.residual = @ + IF right
              THEN ResidualBits(a, LeftCount(count), a.groupDepth - a.level - 1)
              ELSE 0]

\* The child is the root of the next cluster, or a leaf.
OuterChild(a, right, count) ==
  LET n == ChildCount(right, count)
      more == n > LeafSize
  IN  [a EXCEPT !.base = @ + GroupSwitchBits(a) + a.residual
                  + IF right THEN SectionBits(a, LeftCount(count)) ELSE 0,
                !.residual = 0, !.root = n, !.node = n, !.level = 0, !.path = 0,
                !.index = IF more THEN @ + 1 ELSE @,
                !.groupDepth = IF more THEN a.clusters[a.index + 1] ELSE 0]

Child(a, right, count) ==
  IF a.groupDepth - a.level > 1
  THEN InnerChild(a, right, count)
  ELSE OuterChild(a, right, count)

\* Mutant of PacketsOfChild: the level of the child is not counted.
PacketsOfWholeChild(held, a, right, count) ==
  IF a.groupDepth - a.level > 1
  THEN IF right
       THEN PacketsAfter(held, LeftCount(count), a.groupDepth - a.level)
       ELSE held
  ELSE LET b == OuterChild(a, right, count)
       IN  IF b.root > LeafSize
           THEN PacketsAfter(held, b.root, b.groupDepth) ELSE held

\* The packet sizes that child asks the cache for.
PacketsOfChild(held, a, right, count) ==
  IF a.groupDepth - a.level > 1
  THEN IF right
       THEN PacketsAfter(held, LeftCount(count), a.groupDepth - a.level - 1)
       ELSE held
  ELSE LET b == OuterChild(a, right, count)
       IN  IF b.root > LeafSize
           THEN PacketsAfter(held, b.root, b.groupDepth) ELSE held
=============================================================================
