---------------------------- MODULE DeviceAddress ----------------------------
(***************************************************************************)
(* Where the kernels put the bit of a switch.  They get the fields of a    *)
(* node, and the length and the prefix of a full packet, from the host;    *)
(* the prefix of the tail packet they sum up themselves, by a loop over    *)
(* the bits of a level that counts how many of its first nodes are large.  *)
(*                                                                         *)
(* The 32-bit kernels count nodes, paths and packets in 32 bits and only   *)
(* bits of a section in 64; the 64-bit kernels have the same code with     *)
(* 64-bit numbers, which no size here outgrows.                            *)
(***************************************************************************)
EXTENDS SectionAddress

CONSTANT UintMax        \* largest number of 32 bits

ASSUME DeviceAssumption == UintMax \in Nat \ {0}

\* What becomes of a whole number in a variable of the kernel's counting type.
Counted(n, wide) == IF wide THEN n ELSE n % (UintMax + 1)

\* Mutant of LoopTurn: the nodes taken in on the larger side are rounded down.
LoopTurnRoundedDown(s, midpoint, wide) ==
  IF s.large <= midpoint
  THEN [s EXCEPT !.paths = Counted(@ + 1, wide) \div 2]
  ELSE [paths |-> s.paths \div 2, large |-> s.large - midpoint,
        included |-> Counted(s.included + s.paths \div 2, wide)]

\* One turn: the paths and large nodes that remain, and the large ones included.
LoopTurn(s, midpoint, wide) ==
  IF s.large <= midpoint
  THEN [s EXCEPT !.paths = Counted(@ + 1, wide) \div 2]
  ELSE [paths |-> s.paths \div 2, large |-> s.large - midpoint,
        included |-> Counted(s.included + Counted(s.paths + 1, wide) \div 2, wide)]

\* The loop, from the highest bit of the level to the lowest.
DeviceIncluded(level, paths, large, wide) ==
  LET After[turns \in 0 .. level] ==
        IF turns = 0 THEN [paths |-> paths, large |-> large, included |-> 0]
        ELSE LoopTurn(After[turns - 1], Counted(PowerOfTwo[level - turns], wide), wide)
      last == After[level]
  IN  IF last.paths # 0 /\ last.large # 0
      THEN Counted(last.included + 1, wide) ELSE last.included

\* compact_packet_contribution, in 64 bits.
DeviceContribution(count, first, span) ==
  IF count <= LeafSize \/ first >= count \div 2 THEN 0
  ELSE LET available == count \div 2 - first
       IN  IF span < available THEN span ELSE available

\* compact_packet_prefix.
DevicePrefix(a, level, packet, paths, wide) ==
  LET nodes    == Counted(PowerOfTwo[level], wide)
      root     == Counted(a.root, wide)
      included == DeviceIncluded(level, paths, root % nodes, wide)
      small    == root \div nodes
      span     == PowerOfTwo[a.groupDepth - level - 1]
      first    == packet * span
  IN  included * DeviceContribution(Counted(small + 1, wide), first, span)
        + Counted(paths - included, wide) * DeviceContribution(small, first, span)

\* The sum over the levels before the node's.
DeviceLevels(a, packet, wide) ==
  LET Sum[l \in 0 .. a.level] ==
        IF l = 0 THEN 0
        ELSE Sum[l - 1]
               + DevicePrefix(a, l - 1, packet, Counted(PowerOfTwo[l - 1], wide), wide)
  IN  Sum[a.level]

\* compact_switch_bit.
DeviceSwitchBit(a, pair, wide) ==
  LET span   == Counted(PowerOfTwo[a.groupDepth - a.level - 1], wide)
      packet == pair \div span
      tail   == Counted(Counted(a.node, wide) \div 2 - 1, wide) \div span
      prefix == IF packet = tail
                THEN DeviceLevels(a, packet, wide)
                       + DevicePrefix(a, a.level, packet, Counted(a.path, wide), wide)
                ELSE PacketPrefix(a, 0)
  IN  a.base + packet * FullPacketBits(a) + prefix + (pair % span)
=============================================================================
