---------------------------- MODULE LevelPipeline ----------------------------
(***************************************************************************)
(* The host side of the CUDA and Metal encoders: make_compact_tree lists   *)
(* the nodes and leaves level by level, every level's kernels are launched *)
(* one after another on two permutation buffers that change places, and    *)
(* the section buffers are copied into the file.                           *)
(*                                                                         *)
(* Inside a kernel the threads share nothing but the union-find, whose     *)
(* races are in UnionFind: what it leaves is the canonical colouring.  The *)
(* levels count from 1.  An entry of a buffer carries the level it was     *)
(* written for, 0 being what was in the memory before.                     *)
(***************************************************************************)
EXTENDS Encoding, DeviceAddress

CONSTANTS
  Counts, Placements, Inputs(_),        \* what is compressed, as in Lookup
  Hosts,        \* "cuda" and "metal" for 32-bit values, "cuda64", "metal64"
  Lanes,        \* threads that share a leaf, 32
  BlockSize,    \* threads_per_block, 256
  MaxBlocks,    \* of a 64-bit CUDA launch, 65535
  BatchMax      \* threads of a 64-bit Metal dispatch, 2^32 - 1

ASSUME PipelineAssumption ==
  /\ Counts \subseteq Nat \ {0}
  /\ Placements \subseteq {"separate", "input", "output"}
  /\ Hosts \subseteq {"cuda", "metal", "cuda64", "metal64"}
  /\ \A n \in Counts : Inputs(n) \subseteq Orders(n)   \* validate_permutation
  /\ {Lanes, BlockSize, MaxBlocks, BatchMax} \subseteq Nat \ {0}
  /\ LeafSize <= Lanes /\ Lanes <= BatchMax /\ BlockSize % Lanes = 0

VARIABLES
  host, format, source,         \* the call, never changed
  phase,        \* the next thing the host does
  pending,      \* the calls of build_nodes still to be made, the next one first
  lists,        \* the nodes and leaves they have listed, by level
  tree,         \* the nodes and leaves of all levels, and the levels
  depth,        \* the level the host is at
  current, next,        \* the permutation buffers
  inverse, chosen, colors,      \* by element: inverse, union-find's colour, colors
  bits,         \* the section buffers: the bits that are set
  file          \* the sections of the file: the bits that are set

lastingVars == <<host, format, source>>
treeVars    == <<pending, lists, tree>>
pipelineVars == <<lastingVars, phase, treeVars, depth, current, next, inverse,
                  chosen, colors, bits, file>>

\* The kernels are those for 64-bit values.
Wide == host \in {"cuda64", "metal64"}

SectionNames == {"input", "output", "middle"}
Positions == 0 .. format.count - 1
-----------------------------------------------------------------------------
\* Mutant of BookedFor: the right child's entries begin one too early.
BookedOverlapping(node, from) ==
  [left |-> from, right |-> from + RightCount(node), end |-> from + node]

\* The entries of the next level's buffer for the children of a node.
BookedFor(node, from) ==
  [left |-> from, right |-> from + LeftCount(node), end |-> from + node]

\* The levels there can be.
Levels == 1 .. RoutingDepth(format.count) + 1

\* The arguments of build_nodes for the child of a node.
ChildEntry(call, right, booked) ==
  LET n == call.count
  IN  [depth |-> call.depth + 1, count |-> ChildCount(right, n),
       offset |-> IF right THEN booked.right ELSE booked.left,
       in |-> Child(call.in, right, n), out |-> Child(call.out, right, n),
       middle |-> call.middle + IF right THEN MiddleBits(LeftCount(n)) ELSE 0]

\* The largest count of a list's nodes.
Largest(list) ==
  CHOOSE m \in {0} \cup {list[k].count : k \in DOMAIN list} :
    \A k \in DOMAIN list : list[k].count <= m

Level == tree.levels[depth]
Node1(k) == tree.nodes[Level.nodeBase + k + 1]
Leaf(k)  == tree.leaves[Level.leafBase + k + 1]
LevelNodes  == {Node1(k) : k \in 0 .. Level.nodeCount - 1}
LevelLeaves == {Leaf(k) : k \in 0 .. Level.leafCount - 1}
-----------------------------------------------------------------------------
Smaller(a, b) == IF a < b THEN a ELSE b

\* The turns of the strided loop of a 64-bit CUDA kernel.
Turns(work) ==
  LET blocks == Smaller(work \div BlockSize + (IF work % BlockSize # 0 THEN 1 ELSE 0),
                        MaxBlocks)
      stride == blocks * BlockSize
  IN  {{i \in 0 .. work - 1 : i \div stride = turn} : turn \in 0 .. (work - 1) \div stride}

\* Mutant of Batches: the limit is not rounded down to whole leaves.
UnalignedBatches(work, alignment) ==
  {base .. Smaller(base + BatchMax, work) - 1 :
     base \in {b \in 0 .. work - 1 : b % BatchMax = 0}}

\* dispatch_batched of 64-bit Metal.
Batches(work, alignment) ==
  LET most == (BatchMax \div alignment) * alignment
  IN  {base .. Smaller(base + most, work) - 1 :
         base \in {b \in 0 .. work - 1 : b % most = 0}}

\* The numbers of work items done together, for a launch of so many.
Launched(work, alignment) ==
  CASE host \in {"cuda", "metal"} -> {0 .. work - 1}
    [] host = "cuda64"            -> Turns(work)
    [] host = "metal64"           -> Batches(work, alignment)

LeafWork ==
  IF host = "metal" THEN (Level.leafCount * Lanes) % (UintMax + 1)
  ELSE Level.leafCount * Lanes

\* A leaf is encoded by lanes that run together, the first one first.
Encodes(together, k) ==
  /\ k * Lanes .. (k + 1) * Lanes - 1 \subseteq together
  /\ \A first \in together :
       (\A i \in together : first <= i) => (k * Lanes - first) % Lanes = 0

EncodedLeaves ==
  {Leaf(k) : k \in {j \in 0 .. Level.leafCount - 1 :
     \E together \in Launched(LeafWork, Lanes) : Encodes(together, j)}}

\* The elements of the level's nodes that a launch of some width handles.
Handled(width) ==
  LET items == UNION Launched(width * Level.nodeCount, 1)
  IN  {e \in {[node |-> Node1(i \div width), index |-> i % width] : i \in items} :
         e.index < e.node.count}

\* A buffer after some writes, pairs of a position and a value.
After(buffer, writes, level) ==
  [x \in Positions |->
     IF \E w \in writes : w[1] = x
     THEN [value |-> (CHOOSE w \in writes : w[1] = x)[2], level |-> level]
     ELSE buffer[x]]

Read(buffer, part) ==
  [i \in 0 .. part.count - 1 |-> buffer[part.offset + i].value]
-----------------------------------------------------------------------------
Unwritten == [value |-> 0, level |-> 0]

PipelineInit ==
  /\ host \in Hosts
  /\ format \in Formats(Counts, Placements)
  /\ host \in {"cuda", "metal"} => format.count <= UintMax \div 2
  /\ source \in Inputs(format.count)
  /\ phase = "tree"
  /\ pending = <<[depth |-> 1, count |-> format.count, offset |-> 0, middle |-> 0,
                   in |-> RootOf(format, format.input, "input"),
                   out |-> RootOf(format, format.output, "output")]>>
  /\ lists = [free |-> [d \in Levels \cup {RoutingDepth(format.count) + 2} |-> 0],
              nodes |-> [d \in Levels |-> <<>>], leaves |-> [d \in Levels |-> <<>>]]
  /\ tree = [nodes |-> <<>>, leaves |-> <<>>, levels |-> <<>>]
  /\ depth = 1
  /\ current = [x \in Positions |-> [value |-> source[x], level |-> 1]]
  /\ next = [x \in Positions |-> Unwritten]
  /\ inverse = next /\ chosen = next /\ colors = next
  /\ bits = Blank /\ file = Blank

\* build_nodes for a leaf, and for a node: free is next_offsets.
ListLeaf ==
  /\ phase = "tree" /\ pending # <<>>
  /\ pending[1].count <= LeafSize
  /\ LET call == pending[1]
     IN  lists' = [lists EXCEPT !.leaves[call.depth] = Append(@,
           [count |-> call.count, offset |-> call.offset,
            rank |-> RankStart(format, call.in, call.out, call.middle)])]
  /\ pending' = Tail(pending)
  /\ UNCHANGED <<lastingVars, phase, tree, depth, current, next, inverse, chosen,
                 colors, bits, file>>

ListNode ==
  /\ phase = "tree" /\ pending # <<>>
  /\ pending[1].count > LeafSize
  /\ LET call == pending[1]
         booked == BookedFor(call.count, lists.free[call.depth + 1])
     IN  /\ lists' = [lists EXCEPT
              !.free[call.depth + 1] = booked.end,
              !.nodes[call.depth] = Append(@,
                [count |-> call.count, offset |-> call.offset,
                 left |-> booked.left, right |-> booked.right,
                 in |-> call.in, out |-> call.out, middle |-> call.middle])]
         /\ pending' = <<ChildEntry(call, FALSE, booked),
                         ChildEntry(call, TRUE, booked)>> \o Tail(pending)
  /\ UNCHANGED <<lastingVars, phase, tree, depth, current, next, inverse, chosen,
                 colors, bits, file>>

\* The lists are strung together; a level knows where its own begin.
LinkLevel ==
  /\ phase = "tree" /\ pending = <<>>
  /\ LET d == Len(tree.levels) + 1
     IN  /\ tree' =
              [nodes  |-> tree.nodes \o lists.nodes[d],
               leaves |-> tree.leaves \o lists.leaves[d],
               levels |-> Append(tree.levels,
                 [nodeBase |-> Len(tree.nodes), nodeCount |-> Len(lists.nodes[d]),
                  leafBase |-> Len(tree.leaves), leafCount |-> Len(lists.leaves[d]),
                  maximumCount |-> Largest(lists.nodes[d]),
                  maximumPairs |-> Largest(lists.nodes[d]) \div 2])]
         /\ phase' = IF d + 1 \in Levels THEN "tree" ELSE "leaves"
  /\ UNCHANGED <<lastingVars, pending, lists, depth, current, next, inverse,
                 chosen, colors, bits, file>>

\* compact_encode_leaves; a leaf of one value has no bits.
EncodeLeaves ==
  /\ phase = "leaves"
  /\ bits' = [bits EXCEPT ![RankSection(format)] = @ \cup
       UNION {{leaf.rank + b : b \in
                 {d \in 0 .. FactoradicBitCount(leaf.count) - 1 :
                    (Rank(Read(current, leaf), leaf.count) \div PowerOfTwo[d]) % 2 = 1}} :
              leaf \in EncodedLeaves}]
  /\ phase' = CASE Level.nodeCount # 0 -> "invert"
                [] Level.nodeCount = 0 /\ depth < Len(tree.levels) -> "leaves"
                [] OTHER -> "copy"
  /\ depth' = IF phase' = "leaves" THEN depth + 1 ELSE depth
  /\ UNCHANGED <<lastingVars, treeVars, current, next, inverse,
                 chosen, colors, file>>

\* compact_inverse.
Invert ==
  /\ phase = "invert"
  /\ inverse' = After(inverse,
       {<<e.node.offset + current[e.node.offset + e.index].value, e.index>> :
          e \in Handled(Level.maximumCount)}, depth)
  /\ phase' = "unite"
  /\ UNCHANGED <<lastingVars, treeVars, depth, current, next, chosen,
                 colors, bits, file>>

\* compact_initialize, compact_join_pairs and compact_orient_odd.  A node whose
\* elements and pairs are all handled gets its colours.
Unite ==
  /\ phase = "unite"
  /\ LET whole == {n \in LevelNodes :
             /\ \A i \in 0 .. n.count - 1 :
                  [node |-> n, index |-> i] \in Handled(Level.maximumCount)
             /\ \A i \in 0 .. n.count \div 2 - 1 :
                  [node |-> n, index |-> i] \in Handled(Level.maximumPairs)}
     IN  chosen' = After(chosen,
           UNION {LET c == CanonicalColoring(Read(inverse, n), n.count)
                  IN  {<<n.offset + i, c[i]>> : i \in 0 .. n.count - 1} :
                  n \in whole}, depth)
  /\ phase' = "route"
  /\ UNCHANGED <<lastingVars, treeVars, depth, current, next, inverse,
                 colors, bits, file>>

\* compact_route.
Route ==
  /\ phase = "route"
  /\ LET handled == Handled(Level.maximumCount)
         At(e) == e.node.offset + e.index
         To(e) == (IF chosen[At(e)].value # 0 THEN e.node.right ELSE e.node.left)
                    + e.index \div 2
     IN  /\ colors' = After(colors, {<<At(e), chosen[At(e)].value>> : e \in handled}, depth)
         /\ next' = After(next,
              {<<To(e), current[At(e)].value \div 2>> : e \in handled}, depth + 1)
  /\ phase' = "pack"
  /\ UNCHANGED <<lastingVars, treeVars, depth, current, inverse, chosen,
                 bits, file>>

\* Mutant of SwapBuffers: the buffers stay where they are.
KeepBuffers == UNCHANGED <<current, next>>
SwapBuffers == current' = next /\ next' = current

\* compact_pack_switches; then the buffers change places.
Pack ==
  /\ phase = "pack"
  /\ LET handled == {e \in Handled(Level.maximumPairs) : e.index < e.node.count \div 2}
         Even(e) == e.node.offset + 2 * e.index
         From(e) == e.node.offset + inverse[Even(e)].value
     IN  bits' = [bits EXCEPT
           !.input = @ \cup {DeviceSwitchBit(e.node.in, e.index, Wide) :
                               e \in {h \in handled : colors[Even(h)].value # 0}},
           !.output = @ \cup {DeviceSwitchBit(e.node.out, e.index, Wide) :
                               e \in {h \in handled : colors[From(h)].value # 0}}]
  /\ SwapBuffers
  /\ phase' = "leaves" /\ depth' = depth + 1
  /\ UNCHANGED <<lastingVars, treeVars, inverse, chosen, colors, file>>

\* What a section uses, what its buffer holds, and what is copied to the file.
UsedBits(section) ==
  CASE section = "middle" ->
         IF RankSection(format) = "middle" THEN MiddleBits(format.count) ELSE 0
    [] OTHER -> SwitchBits(format.count)
                  + IF RankSection(format) = section THEN MiddleBits(format.count) ELSE 0

BufferBits(section) == ((UsedBits(section) + 31) \div 32) * 32

Rounded(n) == ((n + 7) \div 8) * 8
CopiedBits(section) ==
  (IF section = "middle" THEN 0 ELSE Rounded(SwitchBits(format.count)))
    + IF RankSection(format) = section THEN Rounded(MiddleBits(format.count)) ELSE 0

\* The copy into the file.  What lies behind a buffer may be anything; one bit
\* there is set or none.
Copy ==
  /\ phase = "copy"
  /\ \E beyond \in {<<>>} \cup
         {<<s, b>> : s \in SectionNames, b \in 0 .. 7} :
       /\ beyond # <<>> =>
            BufferBits(beyond[1]) + beyond[2] < CopiedBits(beyond[1])
       /\ file' = [s \in SectionNames |->
            {b \in bits[s] : b < CopiedBits(s)} \cup
            IF beyond # <<>> /\ beyond[1] = s
            THEN {BufferBits(s) + beyond[2]} ELSE {}]
  /\ phase' = "done"
  /\ UNCHANGED <<lastingVars, treeVars, depth, current, next, inverse,
                 chosen, colors, bits>>

PipelineNext ==
  \/ ListLeaf \/ ListNode \/ LinkLevel
  \/ EncodeLeaves \/ Invert \/ Unite \/ Route \/ Pack \/ Copy

PipelineSpec == PipelineInit /\ [][PipelineNext]_pipelineVars
-----------------------------------------------------------------------------
\* The device's file has the bits the portable encoder writes, at every place
\* that a section uses: no element, pair or leaf is left out by the way a host
\* cuts the work, none is done on the values of another level, and the buffers'
\* entries are the children's.
UsedBitsAreCanonical ==
  phase = "done" =>
    \A s \in SectionNames :
      file[s] \cap (0 .. UsedBits(s) - 1) = Encoded(source, format)[s]

\* "The single-threaded portable encoder defines the canonical bytes.  Every
\* backend and both input widths must match it byte for byte." (README.md:53-54):
\* the device's file has just the bits that encoder writes.
FileIsCanonical == phase = "done" => file = Encoded(source, format)

\* Kernels read what the kernels before them have written for this level, never
\* what was in the memory or what an earlier level has left there.
IsFresh(buffer, part) ==
  \A i \in 0 .. part.count - 1 : buffer[part.offset + i].level = depth

ReadsAreFresh ==
  /\ phase \in {"leaves", "invert", "unite", "route"} =>
       \A part \in LevelNodes \cup LevelLeaves : IsFresh(current, part)
  /\ phase \in {"unite", "route", "pack"} => \A n \in LevelNodes : IsFresh(inverse, n)
  /\ phase = "route" => \A n \in LevelNodes : IsFresh(chosen, n)
  /\ phase = "pack" => \A n \in LevelNodes : IsFresh(colors, n)

\* The nodes and leaves of a level share no entry of the buffers, so that their
\* threads do not meet, and each of them is the child that one node of the level
\* before writes.
Entries(part) == part.offset .. part.offset + part.count - 1

PartsAreApart ==
  phase = "leaves" =>
    /\ \A p, q \in LevelNodes \cup LevelLeaves :
         p # q => Entries(p) \cap Entries(q) = {}
    /\ UNION {Entries(p) : p \in LevelNodes \cup LevelLeaves} =
         IF depth = 1 THEN Positions
         ELSE {x \in Positions : current[x].level = depth}
=============================================================================
