------------------------- MODULE SectionWalkProofs -------------------------
(***************************************************************************)
(* SectionWalk, proved for every set of sizes, cluster lists and places of *)
(* the middle.                                                             *)
(*   - SectionsAlwaysFilled: in the end each section is full               *)
(*   - DeviceAlwaysAgrees: the kernels compute the same bits               *)
(*   - PacketsAlwaysContiguous: a packet's switches stand together         *)
(*   - CacheAlwaysSuffices: the cache's arrays are never too short         *)
(*                                                                         *)
(* The argument.  A call that is still to be made owns a Region of each    *)
(* switch section, and of a middle section of its own an interval.  The    *)
(* bits handed out and the Regions of all pending calls cut the section up *)
(* (Fills): at first the root's Region is the section; a call hands out    *)
(* its own bits and leaves the rest of its Region to its two children; in  *)
(* the end nothing is pending.                                             *)
(*                                                                         *)
(* For the packets (PacketInv) each group is a cluster, a block of cells   *)
(* that belong to a packet and a level: a placed switch stands in the cell *)
(* of its packet and level, and every cell of a cluster is filled or is    *)
(* under a pending call of that group.  The turns of the pending calls     *)
(* part, so that no call ever opens a group that is there already.         *)
(*                                                                         *)
(* For the cache (CacheInv) each pending call has a level of the network   *)
(* that its two addresses agree on.  A level has two sizes and the root's  *)
(* only one, and a section gives each level one depth; what a call asks    *)
(* for, with all that the recursive methods compute on the way, are sizes  *)
(* of deeper levels with those depths.                                     *)
(***************************************************************************)
EXTENDS SectionWalk, AddressProofs, SequenceTheorems

-----------------------------------------------------------------------------
(* Things done and things to do that make up a whole.                        *)

\* What is done and the parts of the n things to do make up all, each bit once.
Fills(done, n, part, all) ==
  /\ done \subseteq all
  /\ \A m \in 1 .. n : part[m] \subseteq all /\ part[m] \cap done = {}
  /\ \A m, l \in 1 .. n : m # l => part[m] \cap part[l] = {}
  /\ \A b \in all : b \in done \/ \E m \in 1 .. n : b \in part[m]

LEMMA FillsFirst ==
  ASSUME NEW done, NEW n \in Nat, NEW part, NEW all, Fills(done, n + 1, part, all),
         NEW rest, \A m \in 1 .. n : rest[m] = part[m + 1]
  PROVE  Fills(done \cup part[1], n, rest, all)
<1>1. \A m \in 1 .. n : m + 1 \in 1 .. n + 1 /\ m + 1 # 1
  OBVIOUS
<1>2. 1 \in 1 .. n + 1 /\ \A m, l \in 1 .. n : m # l => m + 1 # l + 1
  OBVIOUS
<1>3. \A m \in 1 .. n + 1 : m = 1 \/ \E l \in 1 .. n : m = l + 1
  <2> SUFFICES ASSUME NEW m \in 1 .. n + 1, m # 1 PROVE \E l \in 1 .. n : m = l + 1
    OBVIOUS
  <2>1. m - 1 \in 1 .. n /\ m = (m - 1) + 1
    OBVIOUS
  <2> QED
    BY <2>1
<1>4. done \cup part[1] \subseteq all
  BY <1>2 DEF Fills
<1>5. \A m \in 1 .. n : rest[m] \subseteq all /\ rest[m] \cap (done \cup part[1]) = {}
  BY <1>1, <1>2 DEF Fills
<1>6. \A m, l \in 1 .. n : m # l => rest[m] \cap rest[l] = {}
  BY <1>1, <1>2 DEF Fills
<1>7. \A b \in all : b \in done \cup part[1] \/ \E m \in 1 .. n : b \in rest[m]
  BY <1>3 DEF Fills
<1> QED
  BY <1>4, <1>5, <1>6, <1>7 DEF Fills

LEMMA FillsSplit ==
  ASSUME NEW done, NEW n \in Nat, NEW part, NEW all, Fills(done, n + 1, part, all),
         NEW own, NEW rest, InThree(part[1], own, rest[1], rest[2]),
         \A m \in 1 .. n : rest[m + 2] = part[m + 1]
  PROVE  Fills(done \cup own, n + 2, rest, all)
<1>1. \A m \in 1 .. n : m + 1 \in 1 .. n + 1 /\ m + 1 # 1
  OBVIOUS
<1>2. 1 \in 1 .. n + 1 /\ \A m, l \in 1 .. n : m + 2 # l + 2 => m + 1 # l + 1
  OBVIOUS
<1>3. \A m \in 1 .. n + 1 : m = 1 \/ \E l \in 1 .. n : m = l + 1
  <2> SUFFICES ASSUME NEW m \in 1 .. n + 1, m # 1 PROVE \E l \in 1 .. n : m = l + 1
    OBVIOUS
  <2>1. m - 1 \in 1 .. n /\ m = (m - 1) + 1
    OBVIOUS
  <2> QED
    BY <2>1
<1>4. \A m \in 1 .. n + 2 : m = 1 \/ m = 2 \/ \E l \in 1 .. n : m = l + 2
  <2> SUFFICES ASSUME NEW m \in 1 .. n + 2, m # 1, m # 2 PROVE \E l \in 1 .. n : m = l + 2
    OBVIOUS
  <2>1. m - 2 \in 1 .. n /\ m = (m - 2) + 2
    OBVIOUS
  <2> QED
    BY <2>1
<1>5. 1 \in 1 .. n + 2 /\ 2 \in 1 .. n + 2 /\ \A m \in 1 .. n : m + 2 \in 1 .. n + 2
  OBVIOUS
<1>6. /\ own \subseteq part[1] /\ rest[1] \subseteq part[1] /\ rest[2] \subseteq part[1]
      /\ own \cap rest[1] = {} /\ own \cap rest[2] = {} /\ rest[1] \cap rest[2] = {}
      /\ \A b \in part[1] : b \in own \/ b \in rest[1] \/ b \in rest[2]
  BY DEF InThree
<1>7. /\ done \subseteq all /\ part[1] \subseteq all /\ part[1] \cap done = {}
      /\ \A m \in 1 .. n : /\ rest[m + 2] \subseteq all /\ rest[m + 2] \cap done = {}
                           /\ rest[m + 2] \cap part[1] = {}
  BY <1>1, <1>2 DEF Fills
<1>8. \A m, l \in 1 .. n : m + 2 # l + 2 => rest[m + 2] \cap rest[l + 2] = {}
  BY <1>1, <1>2 DEF Fills
<1>9. \A b \in all : b \in done \/ b \in part[1] \/ \E m \in 1 .. n : b \in rest[m + 2]
  <2> SUFFICES ASSUME NEW b \in all, b \notin done, b \notin part[1]
      PROVE  \E m \in 1 .. n : b \in rest[m + 2]
    OBVIOUS
  <2>1. PICK l \in 1 .. n + 1 : b \in part[l]
    BY DEF Fills
  <2>2. PICK m \in 1 .. n : l = m + 1
    BY <1>3, <2>1
  <2>3. rest[m + 2] = part[m + 1]
    OBVIOUS
  <2> QED
    BY <2>1, <2>2, <2>3
<1>10. \A m \in 1 .. n + 2 : rest[m] \subseteq all /\ rest[m] \cap (done \cup own) = {}
  <2> SUFFICES ASSUME NEW m \in 1 .. n + 2
      PROVE  rest[m] \subseteq all /\ rest[m] \cap (done \cup own) = {}
    OBVIOUS
  <2>1. CASE m = 1 \/ m = 2
    BY <1>6, <1>7, <2>1
  <2>2. CASE \E l \in 1 .. n : m = l + 2
    BY <1>6, <1>7, <2>2
  <2> QED
    BY <1>4, <2>1, <2>2
<1>11. \A m, l \in 1 .. n + 2 : m # l => rest[m] \cap rest[l] = {}
  <2> SUFFICES ASSUME NEW m \in 1 .. n + 2, NEW l \in 1 .. n + 2, m # l
      PROVE  rest[m] \cap rest[l] = {}
    OBVIOUS
  <2>1. CASE (m = 1 \/ m = 2) /\ (l = 1 \/ l = 2)
    BY <1>6, <2>1
  <2>2. CASE (m = 1 \/ m = 2) /\ \E k \in 1 .. n : l = k + 2
    BY <1>6, <1>7, <2>2
  <2>3. CASE (l = 1 \/ l = 2) /\ \E k \in 1 .. n : m = k + 2
    BY <1>6, <1>7, <2>3
  <2>4. CASE (\E k \in 1 .. n : m = k + 2) /\ \E k \in 1 .. n : l = k + 2
    BY <1>8, <2>4
  <2> QED
    BY <1>4, <2>1, <2>2, <2>3, <2>4
<1>12. \A b \in all : b \in done \cup own \/ \E m \in 1 .. n + 2 : b \in rest[m]
  BY <1>5, <1>6, <1>9
<1>13. done \cup own \subseteq all
  BY <1>6, <1>7
<1> QED
  BY <1>10, <1>11, <1>12, <1>13 DEF Fills

-----------------------------------------------------------------------------
(* The sections during a walk.                                               *)

IsCall(c) ==
  /\ Fits(c.in, format.input) /\ Fits(c.out, format.output)
  /\ c.count = c.in.node /\ c.count = c.out.node
  /\ c.in.embeds = (format.placement = "input")
  /\ c.out.embeds = (format.placement = "output")
  /\ c.middle \in Nat

MidPart(c) == IF format.placement = "separate"
              THEN c.middle .. c.middle + MiddleBits(c.count) - 1 ELSE {}

\* The bits that the pending calls, and those they make, use in each section.
InParts  == [m \in DOMAIN pending |-> Region(pending[m].in)]
OutParts == [m \in DOMAIN pending |-> Region(pending[m].out)]
MidParts == [m \in DOMAIN pending |-> MidPart(pending[m])]

DoneIn  == Inputs \cup IF format.placement = "input" THEN ranks ELSE {}
DoneOut == outputs \cup IF format.placement = "output" THEN ranks ELSE {}
DoneMid == IF format.placement = "separate" THEN ranks ELSE {}

AllOf(side) ==
  Span(SwitchBits(format.count)
         + IF format.placement = side THEN MiddleBits(format.count) ELSE 0)

FormatIsValid ==
  /\ format \in Formats(Counts, Placements)
  /\ format.count \in Nat /\ format.placement \in {"separate", "input", "output"}
  /\ ValidList(format.input) /\ ValidList(format.output)

CallRecords == [count : Nat, in : Addresses, out : Addresses, middle : Nat,
          trail : Seq(BOOLEAN), group : Seq(BOOLEAN)]

CallsFit ==
  /\ pending \in Seq(CallRecords)
  /\ \A m \in 1 .. Len(pending) : IsCall(pending[m])

RanksApart ==
  /\ format.placement = "input" => Inputs \cap ranks = {}
  /\ format.placement = "output" => outputs \cap ranks = {}

WalkInv ==
  /\ FormatIsValid
  /\ CallsFit
  /\ RanksApart
  /\ Fills(DoneIn, Len(pending), InParts, AllOf("input"))
  /\ Fills(DoneOut, Len(pending), OutParts, AllOf("output"))
  /\ Fills(DoneMid, Len(pending), MidParts,
           IF format.placement = "separate" THEN Span(MiddleBits(format.count)) ELSE {})

-----------------------------------------------------------------------------
(* One call, and the calls it leaves behind.                                 *)

LEMMA HeadAndTail ==
  ASSUME NEW S, NEW s \in Seq(S), s # <<>>
  PROVE  LET n == Len(s) - 1
         IN  /\ n \in Nat /\ Len(s) = n + 1 /\ DOMAIN s = 1 .. n + 1 /\ s[1] \in S
             /\ Tail(s) \in Seq(S) /\ Len(Tail(s)) = n /\ DOMAIN Tail(s) = 1 .. n
             /\ \A m \in 1 .. n : m + 1 \in 1 .. n + 1 /\ Tail(s)[m] = s[m + 1]
OBVIOUS

LEMMA PairBeforeTail ==
  ASSUME NEW S, NEW s \in Seq(S), s # <<>>, NEW x \in S, NEW y \in S
  PROVE  LET n == Len(s) - 1
             t == <<x, y>> \o Tail(s)
         IN  /\ t \in Seq(S) /\ Len(t) = n + 2 /\ DOMAIN t = 1 .. n + 2
             /\ t[1] = x /\ t[2] = y
             /\ \A m \in 1 .. n : m + 2 \in 1 .. n + 2 /\ t[m + 2] = s[m + 1]
             /\ \A m \in 1 .. n + 2 : m = 1 \/ m = 2 \/ \E l \in 1 .. n : m = l + 2
<1> DEFINE n == Len(s) - 1  t == <<x, y>> \o Tail(s)  u == Tail(s)
<1>1. n \in Nat /\ u \in Seq(S) /\ Len(u) = n /\ \A m \in 1 .. n : u[m] = s[m + 1]
  BY HeadAndTail
<1> HIDE DEF n, u
<1> DEFINE v == <<x, y>>
<1>2. v \in Seq(S) /\ Len(v) = 2 /\ v[1] = x /\ v[2] = y
  OBVIOUS
<1>3. t = v \o u
  BY DEF u, v
<1> HIDE DEF v, t
<1>4. /\ t \in Seq(S) /\ Len(t) = 2 + n
      /\ \A m \in 1 .. 2 + n : t[m] = IF m <= 2 THEN v[m] ELSE u[m - 2]
  <2>1. /\ v \o u \in Seq(S) /\ Len(v \o u) = Len(v) + Len(u)
        /\ \A m \in 1 .. Len(v) + Len(u) :
             (v \o u)[m] = IF m <= Len(v) THEN v[m] ELSE u[m - Len(v)]
    BY <1>1, <1>2, ConcatProperties, Zenon
  <2> QED
    BY <1>1, <1>2, <1>3, <2>1, Zenon
<1>6. Len(t) = n + 2 /\ DOMAIN t = 1 .. n + 2 /\ 1 \in 1 .. 2 + n /\ 2 \in 1 .. 2 + n
  BY <1>1, <1>4
<1>7. t[1] = x /\ t[2] = y
  BY <1>2, <1>4, <1>6
<1>8. \A m \in 1 .. n : m + 2 \in 1 .. n + 2 /\ t[m + 2] = u[m]
  <2> SUFFICES ASSUME NEW m \in 1 .. n PROVE m + 2 \in 1 .. n + 2 /\ t[m + 2] = u[m]
    OBVIOUS
  <2>1. m + 2 \in 1 .. 2 + n /\ m + 2 \in 1 .. n + 2 /\ ~(m + 2 <= 2) /\ (m + 2) - 2 = m
    BY <1>1
  <2> QED
    BY <1>4, <2>1
<1>5. \A m \in 1 .. n + 2 : m = 1 \/ m = 2 \/ \E l \in 1 .. n : m = l + 2
  <2> SUFFICES ASSUME NEW m \in 1 .. n + 2, m # 1, m # 2 PROVE \E l \in 1 .. n : m = l + 2
    OBVIOUS
  <2>1. m - 2 \in 1 .. n /\ m = (m - 2) + 2
    BY <1>1
  <2> QED
    BY <2>1
<1> QED
  BY <1>1, <1>4, <1>5, <1>6, <1>7, <1>8 DEF n, u, t

\* The three parts of a leaf's call, and the bits it takes for its rank.
LEMMA LeafParts ==
  ASSUME FormatIsValid, NEW c \in CallRecords, IsCall(c), c.count <= LeafSize,
         NEW first, first = CASE format.placement = "separate" -> c.middle
                              [] format.placement = "input"    -> MiddleBit(c.in)
                              [] format.placement = "output"   -> MiddleBit(c.out),
         NEW bits, bits = {first + b : b \in 0 .. FactoradicBitCount(c.count) - 1}
  PROVE  /\ Region(c.in)  = IF format.placement = "input" THEN bits ELSE {}
         /\ Region(c.out) = IF format.placement = "output" THEN bits ELSE {}
         /\ MidPart(c)    = IF format.placement = "separate" THEN bits ELSE {}
<1>1. /\ IsAddress(c.in) /\ IsAddress(c.out) /\ c.count = c.in.node /\ c.count = c.out.node
      /\ c.in.embeds = (format.placement = "input")
      /\ c.out.embeds = (format.placement = "output") /\ c.middle \in Nat /\ c.count \in Nat
  BY DEF IsCall, Fits, CallRecords
<1>2. Region(c.in) = IF format.placement = "input" THEN bits ELSE {}
  <2>1. Region(c.in) = IF c.in.embeds
          THEN {MiddleBit(c.in) + b : b \in 0 .. FactoradicBitCount(c.in.node) - 1}
          ELSE {}
    BY <1>1, RegionOfLeaf
  <2>2. format.placement = "input" => first = MiddleBit(c.in)
    OBVIOUS
  <2> QED
    BY <1>1, <2>1, <2>2
<1>3. Region(c.out) = IF format.placement = "output" THEN bits ELSE {}
  <2>1. Region(c.out) = IF c.out.embeds
          THEN {MiddleBit(c.out) + b : b \in 0 .. FactoradicBitCount(c.out.node) - 1}
          ELSE {}
    BY <1>1, RegionOfLeaf
  <2>2. format.placement = "output" => first = MiddleBit(c.out)
    OBVIOUS
  <2> QED
    BY <1>1, <2>1, <2>2
<1>4. MidPart(c) = IF format.placement = "separate" THEN bits ELSE {}
  <2> SUFFICES ASSUME format.placement = "separate"
      PROVE  c.middle .. c.middle + MiddleBits(c.count) - 1 = bits
    BY DEF MidPart
  <2>1. first = c.middle
    OBVIOUS
  <2>2. MiddleBits(c.count) = FactoradicBitCount(c.count) /\ FactoradicBitCount(c.count) \in Nat
    BY <1>1, MiddleBitsFacts, BitCountType
  <2> DEFINE f == FactoradicBitCount(c.count)
  <2> HIDE DEF f
  <2>3. Shift(c.middle, 0 .. f - 1) = c.middle .. c.middle + f - 1
    BY <1>1, <2>2, ShiftInterval DEF f
  <2> QED
    BY <2>1, <2>2, <2>3 DEF Shift, f
<1> QED
  BY <1>2, <1>3, <1>4

LEMMA Appended ==
  ASSUME NEW S, NEW s \in Seq(S), NEW e \in S
  PROVE  Append(s, e) \in Seq(S)
OBVIOUS

\* The call for a child.
LEMMA WalkCallIs ==
  ASSUME FormatIsValid, NEW c \in CallRecords, IsCall(c), c.count > LeafSize, NEW t \in BOOLEAN,
         NEW d, d = CallOf(c, t)
  PROVE  /\ d \in CallRecords /\ IsCall(d)
         /\ d.count = ChildCount(t, c.count)
         /\ d.in = Child(c.in, t, c.count) /\ d.out = Child(c.out, t, c.count)
         /\ d.middle = c.middle + (IF t THEN MiddleBits(LeftCount(c.count)) ELSE 0)
<1> DEFINE n == c.count  m == ChildCount(t, n)  trail == Append(c.trail, t)
           i == Child(c.in, t, n)  o == Child(c.out, t, n)
           group == IF i.level = 0 THEN trail ELSE c.group
           b == c.middle + (IF t THEN MiddleBits(LeftCount(n)) ELSE 0)
<1>1. /\ Fits(c.in, format.input) /\ Fits(c.out, format.output)
      /\ c.count = c.in.node /\ c.count = c.out.node
      /\ c.in.embeds = (format.placement = "input")
      /\ c.out.embeds = (format.placement = "output")
      /\ c.middle \in Nat /\ c.count \in Nat
      /\ ValidList(format.input) /\ ValidList(format.output)
  BY DEF IsCall, CallRecords, FormatIsValid
<1>2. Fits(i, format.input) /\ i.embeds = c.in.embeds /\ i.node = m
  <2> DEFINE a == c.in  s == format.input
  <2>1. Fits(a, s) /\ ValidList(s) /\ a.node > LeafSize /\ n = a.node
    BY <1>1
  <2> HIDE DEF a, s, n
  <2>2. /\ Fits(Child(a, t, a.node), s) /\ Child(a, t, a.node).embeds = a.embeds
        /\ Child(a, t, a.node).node = ChildCount(t, a.node)
    BY <2>1, ChildFits
  <2> QED
    BY <2>1, <2>2 DEF a, s
<1>3. Fits(o, format.output) /\ o.embeds = c.out.embeds /\ o.node = m
  <2> DEFINE a == c.out  s == format.output
  <2>1. Fits(a, s) /\ ValidList(s) /\ a.node > LeafSize /\ n = a.node
    BY <1>1
  <2> HIDE DEF a, s, n
  <2>2. /\ Fits(Child(a, t, a.node), s) /\ Child(a, t, a.node).embeds = a.embeds
        /\ Child(a, t, a.node).node = ChildCount(t, a.node)
    BY <2>1, ChildFits
  <2> QED
    BY <2>1, <2>2 DEF a, s
<1>4. i \in Addresses /\ o \in Addresses
  BY <1>2, <1>3 DEF Fits, IsAddress
<1>5. m \in Nat /\ LeftCount(n) \in Nat
  <2>1. ~(n <= LeafSize)
    BY <1>1, LeafSizes
  <2>2. LeftCount(n) \in Nat
    BY <1>1, <2>1, Children
  <2>3. m \in Nat
    BY <1>1, ChildDepth
  <2> QED
    BY <2>2, <2>3
<1>6. b \in Nat
  <2>1. MiddleBits(LeftCount(n)) \in Nat
    BY <1>5, MiddleBitsFacts
  <2> QED
    BY <1>1, <2>1
<1>7. trail \in Seq(BOOLEAN) /\ group \in Seq(BOOLEAN)
  <2>1. c.trail \in Seq(BOOLEAN) /\ c.group \in Seq(BOOLEAN)
    BY DEF CallRecords
  <2>2. Append(c.trail, t) \in Seq(BOOLEAN)
    BY <2>1, Appended
  <2> QED
    BY <2>1, <2>2
<1>8. d = [count |-> m, in |-> i, out |-> o, middle |-> b, trail |-> trail, group |-> group]
  BY Zenon DEF CallOf
<1> HIDE DEF m, trail, group, i, o, b
<1>9. d \in CallRecords
  BY <1>4, <1>5, <1>6, <1>7, <1>8 DEF CallRecords
<1>10. d.count = m /\ d.in = i /\ d.out = o /\ d.middle = b
  BY <1>8
<1>11. IsCall(d)
  BY <1>1, <1>2, <1>3, <1>6, <1>10 DEF IsCall
<1> QED
  BY <1>9, <1>10, <1>11 DEF m, i, o, b

\* The three parts of a node's call.
LEMMA NodeParts ==
  ASSUME FormatIsValid, NEW c \in CallRecords, IsCall(c), c.count > LeafSize,
         NEW l, l = CallOf(c, FALSE), NEW r, r = CallOf(c, TRUE)
  PROVE  /\ l \in CallRecords /\ r \in CallRecords /\ IsCall(l) /\ IsCall(r)
         /\ InThree(Region(c.in), OwnBits(c.in), Region(l.in), Region(r.in))
         /\ InThree(Region(c.out), OwnBits(c.out), Region(l.out), Region(r.out))
         /\ InThree(MidPart(c), {}, MidPart(l), MidPart(r))
<1> DEFINE n == c.count  L == LeftCount(n)  R == RightCount(n)
<1>1. /\ Fits(c.in, format.input) /\ Fits(c.out, format.output)
      /\ c.count = c.in.node /\ c.count = c.out.node
      /\ c.middle \in Nat /\ c.count \in Nat
      /\ ValidList(format.input) /\ ValidList(format.output)
  BY DEF IsCall, CallRecords, FormatIsValid
<1>2. TRUE \in BOOLEAN /\ FALSE \in BOOLEAN
  OBVIOUS
<1>3. /\ l \in CallRecords /\ IsCall(l) /\ l.count = ChildCount(FALSE, n)
      /\ l.in = Child(c.in, FALSE, n) /\ l.out = Child(c.out, FALSE, n)
      /\ l.middle = c.middle + 0
  BY <1>2, WalkCallIs
<1>4. /\ r \in CallRecords /\ IsCall(r) /\ r.count = ChildCount(TRUE, n)
      /\ r.in = Child(c.in, TRUE, n) /\ r.out = Child(c.out, TRUE, n)
      /\ r.middle = c.middle + MiddleBits(L)
  BY <1>2, WalkCallIs
<1>5. L \in Nat /\ R \in Nat /\ MiddleBits(n) = MiddleBits(L) + MiddleBits(R)
      /\ MiddleBits(L) \in Nat /\ MiddleBits(R) \in Nat
  <2>1. ~(n <= LeafSize)
    BY <1>1, LeafSizes
  <2>2. L \in Nat /\ R \in Nat
    BY <1>1, <2>1, Children
  <2>3. MiddleBits(n) = MiddleBits(L) + MiddleBits(R)
    BY <1>1, <2>1, MiddleBitsFacts
  <2> HIDE DEF L, R
  <2>4. MiddleBits(L) \in Nat /\ MiddleBits(R) \in Nat
    BY <2>2, MiddleBitsFacts
  <2> QED
    BY <2>2, <2>3, <2>4
<1>6. InThree(Region(c.in), OwnBits(c.in), Region(l.in), Region(r.in))
  BY <1>1, <1>3, <1>4, FitsSplits
<1>7. InThree(Region(c.out), OwnBits(c.out), Region(l.out), Region(r.out))
  BY <1>1, <1>3, <1>4, FitsSplits
<1>8. InThree(MidPart(c), {}, MidPart(l), MidPart(r))
  <2> DEFINE x == MiddleBits(L)  y == MiddleBits(R)
  <2>1. MiddleBits(l.count) = x /\ MiddleBits(r.count) = y
        /\ l.middle = c.middle + 0 /\ r.middle = c.middle + x
    BY <1>3, <1>4 DEF ChildCount
  <2>2. MiddleBits(c.count) = x + y /\ x \in Nat /\ y \in Nat
    BY <1>5
  <2> HIDE DEF x, y, n
  <2>3. c.middle + 0 = c.middle
    BY <1>1
  <2>4. /\ c.middle .. c.middle + (x + y) - 1
             = (c.middle .. c.middle + x - 1) \cup (c.middle + x .. (c.middle + x) + y - 1)
        /\ (c.middle .. c.middle + x - 1) \cap (c.middle + x .. (c.middle + x) + y - 1) = {}
    BY <1>1, <2>2, CutInterval
  <2> QED
    BY <2>1, <2>2, <2>3, <2>4 DEF MidPart, InThree
<1> QED
  BY <1>3, <1>4, <1>6, <1>7, <1>8

LEMMA FormatFacts ==
  ASSUME format \in Formats(Counts, Placements)
  PROVE  /\ FormatIsValid
         /\ format.input \in ClusterLists(RoutingDepth(format.count))
         /\ format.output \in ClusterLists(RoutingDepth(format.count))
<1>1. PICK n \in Counts :
        format \in [count : {n}, input : ClusterLists(RoutingDepth(n)),
                    output : ClusterLists(RoutingDepth(n)),
                    placement : IF RoutingDepth(n) = 0 THEN {"separate"} ELSE Placements]
  BY DEF Formats
<1>2. n \in Nat /\ format.count = n
      /\ format.input \in ClusterLists(RoutingDepth(n))
      /\ format.output \in ClusterLists(RoutingDepth(n))
      /\ format.placement \in IF RoutingDepth(n) = 0 THEN {"separate"} ELSE Placements
  BY <1>1, WalkAssumption
<1>3. format.placement \in {"separate", "input", "output"}
  BY <1>2, WalkAssumption
<1>4. ValidList(format.input) /\ ValidList(format.output)
  <2>1. FALSE \in BOOLEAN
    OBVIOUS
  <2> QED
    BY <1>2, <2>1, RootFits
<1> QED
  BY <1>2, <1>3, <1>4 DEF FormatIsValid

LEMMA InitWalk == Init => WalkInv
<1> SUFFICES ASSUME Init PROVE WalkInv
  OBVIOUS
<1> DEFINE n == format.count
           in == RootOf(format, format.input, "input")
           out == RootOf(format, format.output, "output")
           c == [count |-> n, in |-> in, out |-> out,
                 middle |-> 0, trail |-> <<>>, group |-> <<>>]
           ei == (format.placement = "input")  eo == (format.placement = "output")
<1>1. /\ pending = <<c>> /\ placed = {} /\ outputs = {} /\ ranks = {}
      /\ format \in Formats(Counts, Placements)
  BY DEF Init
<1>2. /\ FormatIsValid
      /\ format.input \in ClusterLists(RoutingDepth(n))
      /\ format.output \in ClusterLists(RoutingDepth(n))
  BY <1>1, FormatFacts
<1>3. n \in Nat
  BY <1>2 DEF FormatIsValid
<1>4. ei \in BOOLEAN /\ eo \in BOOLEAN
  OBVIOUS
<1>5. Fits(in, format.input) /\ in.node = n /\ in.embeds = ei
      /\ Region(in) = 0 .. SectionBits(in, n) - 1
  <2> HIDE DEF n, ei
  <2>1. in = RootAddress(n, format.input, ei)
    BY DEF RootOf, n, ei
  <2> HIDE DEF in
  <2> QED
    BY <1>2, <1>3, <1>4, <2>1, RootFits
<1>6. Fits(out, format.output) /\ out.node = n /\ out.embeds = eo
      /\ Region(out) = 0 .. SectionBits(out, n) - 1
  <2> HIDE DEF n, eo
  <2>1. out = RootAddress(n, format.output, eo)
    BY DEF RootOf, n, eo
  <2> HIDE DEF out
  <2> QED
    BY <1>2, <1>3, <1>4, <2>1, RootFits
<1>7. in \in Addresses /\ out \in Addresses
  BY <1>5, <1>6 DEF Fits, IsAddress
<1>8. Region(in) = AllOf("input") /\ Region(out) = AllOf("output")
  <2>1. SectionBits(in, n) = SwitchBits(n) + IF ei THEN MiddleBits(n) ELSE 0
    BY <1>5 DEF SectionBits
  <2>2. SectionBits(out, n) = SwitchBits(n) + IF eo THEN MiddleBits(n) ELSE 0
    BY <1>6 DEF SectionBits
  <2> HIDE DEF in, out
  <2> QED
    BY <1>5, <1>6, <2>1, <2>2 DEF AllOf, Span
<1> HIDE DEF in, out
<1>9. c \in CallRecords /\ IsCall(c)
  <2>1. <<>> \in Seq(BOOLEAN)
    OBVIOUS
  <2>2. c \in CallRecords
    BY <1>3, <1>7, <2>1 DEF CallRecords
  <2>3. IsCall(c)
    BY <1>5, <1>6 DEF IsCall
  <2> QED
    BY <2>2, <2>3
<1>10. MidPart(c) = IF format.placement = "separate" THEN Span(MiddleBits(n)) ELSE {}
  <2>1. MiddleBits(n) \in Nat
    BY <1>3, MiddleBitsFacts
  <2> DEFINE b == MiddleBits(n)
  <2> HIDE DEF b
  <2>2. 0 + b - 1 = b - 1
    BY <2>1 DEF b
  <2> QED
    BY <2>2 DEF MidPart, Span, b
<1>11. c.in = in /\ c.out = out
  OBVIOUS
<1> HIDE DEF c
<1>12. CallsFit /\ Len(pending) = 1 /\ DOMAIN pending = 1 .. 1 /\ pending[1] = c
  BY <1>1, <1>9 DEF CallsFit
<1>13. DoneIn = {} /\ DoneOut = {} /\ DoneMid = {} /\ RanksApart
  BY <1>1 DEF DoneIn, DoneOut, DoneMid, Inputs, RanksApart
<1>14. ASSUME NEW part, NEW all, part[1] = all PROVE Fills({}, 1, part, all)
  <2>1. \A m \in 1 .. 1 : m = 1
    OBVIOUS
  <2> QED
    BY <1>14, <2>1 DEF Fills
<1>15. 1 \in DOMAIN pending
  BY <1>12
<1>16. InParts[1] = Region(in) /\ OutParts[1] = Region(out) /\ MidParts[1] = MidPart(c)
  BY <1>11, <1>12, <1>15 DEF InParts, OutParts, MidParts
<1> DEFINE m == IF format.placement = "separate" THEN Span(MiddleBits(format.count)) ELSE {}
<1>17. MidParts[1] = m
  BY <1>10, <1>16
<1> HIDE DEF m
<1>18. /\ Fills({}, 1, InParts, AllOf("input")) /\ Fills({}, 1, OutParts, AllOf("output"))
       /\ Fills({}, 1, MidParts, m)
  BY <1>8, <1>14, <1>16, <1>17
<1> QED
  BY <1>2, <1>12, <1>13, <1>18 DEF WalkInv, m

LEMMA LeafWalk == WalkInv /\ EncodeLeaf => WalkInv'
<1> SUFFICES ASSUME WalkInv, EncodeLeaf PROVE WalkInv'
  OBVIOUS
<1> DEFINE c == pending[1]  n == Len(pending) - 1
           first == CASE format.placement = "separate" -> c.middle
                      [] format.placement = "input"    -> MiddleBit(c.in)
                      [] format.placement = "output"   -> MiddleBit(c.out)
           bits == {first + b : b \in 0 .. FactoradicBitCount(c.count) - 1}
           mid == IF format.placement = "separate" THEN Span(MiddleBits(format.count)) ELSE {}
<1>1. /\ pending # <<>> /\ c.count <= LeafSize /\ ranks' = ranks \cup bits
      /\ pending' = Tail(pending)
      /\ format' = format /\ placed' = placed /\ outputs' = outputs
  BY DEF EncodeLeaf
<1>2. FormatIsValid /\ CallsFit /\ RanksApart /\ pending \in Seq(CallRecords)
      /\ \A m \in 1 .. Len(pending) : IsCall(pending[m])
  BY DEF WalkInv, CallsFit
<1>3. /\ n \in Nat /\ Len(pending) = n + 1 /\ DOMAIN pending = 1 .. n + 1 /\ c \in CallRecords
      /\ pending' \in Seq(CallRecords) /\ Len(pending') = n /\ DOMAIN pending' = 1 .. n
      /\ \A m \in 1 .. n : m + 1 \in 1 .. n + 1 /\ pending'[m] = pending[m + 1]
  BY <1>1, <1>2, HeadAndTail
<1>4. 1 \in 1 .. n + 1 /\ IsCall(c)
  BY <1>2, <1>3
<1>5. /\ Region(c.in)  = IF format.placement = "input" THEN bits ELSE {}
      /\ Region(c.out) = IF format.placement = "output" THEN bits ELSE {}
      /\ MidPart(c)    = IF format.placement = "separate" THEN bits ELSE {}
  <2> HIDE DEF c, first, bits
  <2> QED
    BY <1>1, <1>2, <1>3, <1>4, LeafParts DEF first, bits
<1> HIDE DEF n, c, first, bits, mid
<1>6. InParts[1] = Region(c.in) /\ OutParts[1] = Region(c.out) /\ MidParts[1] = MidPart(c)
  BY <1>3, <1>4 DEF InParts, OutParts, MidParts, c
<1>7. \A m \in 1 .. n : /\ InParts'[m] = InParts[m + 1] /\ OutParts'[m] = OutParts[m + 1]
                        /\ MidParts'[m] = MidParts[m + 1]
  BY <1>1, <1>3 DEF InParts, OutParts, MidParts, MidPart
<1>8. /\ DoneIn' = DoneIn \cup InParts[1] /\ DoneOut' = DoneOut \cup OutParts[1]
      /\ DoneMid' = DoneMid \cup MidParts[1]
  <2>1. Inputs' = Inputs
    BY <1>1 DEF Inputs
  <2> QED
    BY <1>1, <1>2, <1>5, <1>6, <2>1 DEF DoneIn, DoneOut, DoneMid
<1>9. AllOf("input")' = AllOf("input") /\ AllOf("output")' = AllOf("output") /\ mid' = mid
  BY <1>1 DEF AllOf, mid
<1>10. /\ Fills(DoneIn, n + 1, InParts, AllOf("input"))
       /\ Fills(DoneOut, n + 1, OutParts, AllOf("output"))
       /\ Fills(DoneMid, n + 1, MidParts, mid)
  BY <1>3 DEF WalkInv, mid
<1>11. /\ Fills(DoneIn \cup InParts[1], n, InParts', AllOf("input"))
       /\ Fills(DoneOut \cup OutParts[1], n, OutParts', AllOf("output"))
       /\ Fills(DoneMid \cup MidParts[1], n, MidParts', mid)
  BY <1>3, <1>7, <1>10, FillsFirst
<1>12. FormatIsValid'
  BY <1>1, <1>2 DEF FormatIsValid
<1>13. CallsFit'
  <2>1. \A m \in 1 .. n : m + 1 \in 1 .. Len(pending)
    BY <1>3
  <2>2. \A m \in 1 .. n : IsCall(pending'[m])
    BY <1>2, <1>3, <2>1
  <2>3. \A m \in 1 .. n : IsCall(pending[m])'
    BY <1>1, <2>2 DEF IsCall
  <2> QED
    BY <1>3, <2>3 DEF CallsFit
<1>14. RanksApart'
  <2>1. InParts[1] \cap DoneIn = {} /\ OutParts[1] \cap DoneOut = {}
    BY <1>4, <1>10 DEF Fills
  <2>2. Inputs' = Inputs
    BY <1>1 DEF Inputs
  <2> QED
    BY <1>1, <1>2, <1>5, <1>6, <2>1, <2>2 DEF RanksApart, DoneIn, DoneOut
<1> QED
  BY <1>3, <1>8, <1>9, <1>11, <1>12, <1>13, <1>14 DEF WalkInv, mid

LEMMA NodeWalk == WalkInv /\ EncodeNode => WalkInv'
<1> SUFFICES ASSUME WalkInv, EncodeNode PROVE WalkInv'
  OBVIOUS
<1> DEFINE c == pending[1]  n == Len(pending) - 1
           l == CallOf(c, FALSE)  r == CallOf(c, TRUE)
           mid == IF format.placement = "separate" THEN Span(MiddleBits(format.count)) ELSE {}
<1>1. /\ pending # <<>> /\ c.count > LeafSize
      /\ placed' = placed \cup
           {[group |-> c.group, packet |-> k \div PairSpan(c.in),
             level |-> c.in.level, bit |-> SwitchBit(c.in, k)] : k \in 0 .. c.count \div 2 - 1}
      /\ outputs' = outputs \cup {SwitchBit(c.out, k) : k \in 0 .. c.count \div 2 - 1}
      /\ pending' = <<l, r>> \o Tail(pending)
      /\ format' = format /\ ranks' = ranks
  BY DEF EncodeNode
<1>2. FormatIsValid /\ CallsFit /\ RanksApart /\ pending \in Seq(CallRecords)
      /\ \A m \in 1 .. Len(pending) : IsCall(pending[m])
  BY DEF WalkInv, CallsFit
<1>3. /\ n \in Nat /\ Len(pending) = n + 1 /\ DOMAIN pending = 1 .. n + 1 /\ c \in CallRecords
      /\ \A m \in 1 .. n : m + 1 \in 1 .. n + 1
  BY <1>1, <1>2, HeadAndTail
<1>4. 1 \in 1 .. n + 1 /\ IsCall(c)
  BY <1>2, <1>3
<1>5. /\ l \in CallRecords /\ r \in CallRecords /\ IsCall(l) /\ IsCall(r)
      /\ InThree(Region(c.in), OwnBits(c.in), Region(l.in), Region(r.in))
      /\ InThree(Region(c.out), OwnBits(c.out), Region(l.out), Region(r.out))
      /\ InThree(MidPart(c), {}, MidPart(l), MidPart(r))
  <2> HIDE DEF c, l, r
  <2> QED
    BY <1>1, <1>2, <1>3, <1>4, NodeParts DEF l, r
<1>6. /\ pending' \in Seq(CallRecords) /\ Len(pending') = n + 2 /\ DOMAIN pending' = 1 .. n + 2
      /\ pending'[1] = l /\ pending'[2] = r
      /\ \A m \in 1 .. n : m + 2 \in 1 .. n + 2 /\ pending'[m + 2] = pending[m + 1]
      /\ \A m \in 1 .. n + 2 : m = 1 \/ m = 2 \/ \E k \in 1 .. n : m = k + 2
  <2> HIDE DEF c, l, r
  <2> QED
    BY <1>1, <1>2, <1>5, PairBeforeTail
<1>7. Inputs' = Inputs \cup OwnBits(c.in) /\ outputs' = outputs \cup OwnBits(c.out)
  <2>1. c.count = c.in.node /\ c.count = c.out.node
    BY <1>4 DEF IsCall
  <2>2. outputs' = outputs \cup OwnBits(c.out)
    BY <1>1, <2>1 DEF OwnBits
  <2> DEFINE K == 0 .. c.count \div 2 - 1
             P(k) == [group |-> c.group, packet |-> k \div PairSpan(c.in),
                      level |-> c.in.level, bit |-> SwitchBit(c.in, k)]
  <2>3. \A k : P(k).bit = SwitchBit(c.in, k)
    OBVIOUS
  <2>4. placed' = placed \cup {P(k) : k \in K}
    BY <1>1
  <2>5. OwnBits(c.in) = {SwitchBit(c.in, k) : k \in K}
    BY <2>1 DEF OwnBits
  <2> HIDE DEF K, P
  <2>6. Inputs' = Inputs \cup OwnBits(c.in)
    BY <2>3, <2>4, <2>5 DEF Inputs
  <2> QED
    BY <2>2, <2>6
<1> HIDE DEF n, c, l, r, mid
<1>8. InParts[1] = Region(c.in) /\ OutParts[1] = Region(c.out) /\ MidParts[1] = MidPart(c)
  BY <1>3, <1>4 DEF InParts, OutParts, MidParts, c
<1>9. 1 \in 1 .. n + 2 /\ 2 \in 1 .. n + 2
  BY <1>3
<1>10. /\ InParts'[1] = Region(l.in) /\ OutParts'[1] = Region(l.out) /\ MidParts'[1] = MidPart(l)
       /\ InParts'[2] = Region(r.in) /\ OutParts'[2] = Region(r.out) /\ MidParts'[2] = MidPart(r)
  BY <1>1, <1>6, <1>9 DEF InParts, OutParts, MidParts, MidPart
<1>11. \A m \in 1 .. n : /\ InParts'[m + 2] = InParts[m + 1]
                         /\ OutParts'[m + 2] = OutParts[m + 1]
                         /\ MidParts'[m + 2] = MidParts[m + 1]
  BY <1>1, <1>3, <1>6 DEF InParts, OutParts, MidParts, MidPart
<1>12. /\ DoneIn' = DoneIn \cup OwnBits(c.in) /\ DoneOut' = DoneOut \cup OwnBits(c.out)
       /\ DoneMid' = DoneMid \cup {}
  BY <1>1, <1>7 DEF DoneIn, DoneOut, DoneMid
<1>13. AllOf("input")' = AllOf("input") /\ AllOf("output")' = AllOf("output") /\ mid' = mid
  BY <1>1 DEF AllOf, mid
<1>14. /\ Fills(DoneIn, n + 1, InParts, AllOf("input"))
       /\ Fills(DoneOut, n + 1, OutParts, AllOf("output"))
       /\ Fills(DoneMid, n + 1, MidParts, mid)
  BY <1>3 DEF WalkInv, mid
<1>15. Fills(DoneIn \cup OwnBits(c.in), n + 2, InParts', AllOf("input"))
  <2>1. InThree(InParts[1], OwnBits(c.in), InParts'[1], InParts'[2])
    BY <1>5, <1>8, <1>10
  <2> QED
    BY <1>3, <1>11, <1>14, <2>1, FillsSplit
<1>16. Fills(DoneOut \cup OwnBits(c.out), n + 2, OutParts', AllOf("output"))
  <2>1. InThree(OutParts[1], OwnBits(c.out), OutParts'[1], OutParts'[2])
    BY <1>5, <1>8, <1>10
  <2> QED
    BY <1>3, <1>11, <1>14, <2>1, FillsSplit
<1>17. Fills(DoneMid \cup {}, n + 2, MidParts', mid)
  <2>1. InThree(MidParts[1], {}, MidParts'[1], MidParts'[2])
    BY <1>5, <1>8, <1>10
  <2> QED
    BY <1>3, <1>11, <1>14, <2>1, FillsSplit
<1>18. FormatIsValid'
  BY <1>1, <1>2 DEF FormatIsValid
<1>19. CallsFit'
  <2>1. \A m \in 1 .. n : m + 1 \in 1 .. Len(pending)
    BY <1>3
  <2>2. \A m \in 1 .. n + 2 : IsCall(pending'[m])
    BY <1>2, <1>5, <1>6, <2>1
  <2>3. \A m \in 1 .. n + 2 : IsCall(pending[m])'
    BY <1>1, <2>2 DEF IsCall
  <2> QED
    BY <1>6, <2>3 DEF CallsFit
<1>20. RanksApart'
  <2>1. InParts[1] \cap DoneIn = {} /\ OutParts[1] \cap DoneOut = {}
    BY <1>4, <1>14 DEF Fills
  <2>2. OwnBits(c.in) \subseteq InParts[1] /\ OwnBits(c.out) \subseteq OutParts[1]
    BY <1>5, <1>8 DEF InThree
  <2> QED
    BY <1>1, <1>2, <1>7, <2>1, <2>2 DEF RanksApart, DoneIn, DoneOut
<1> QED
  BY <1>6, <1>12, <1>13, <1>15, <1>16, <1>17, <1>18, <1>19, <1>20 DEF WalkInv, mid

\* At any time, what is pending fits the format, and no bit is handed out twice.
LEMMA AlwaysWalkInv == Spec => []WalkInv
<1>1. ASSUME WalkInv, [Next]_vars PROVE WalkInv'
  <2>1. CASE UNCHANGED vars
    <3>1. format' = format /\ pending' = pending /\ placed' = placed
          /\ outputs' = outputs /\ ranks' = ranks
      BY <2>1 DEF vars
    <3>2. InParts' = InParts /\ OutParts' = OutParts /\ MidParts' = MidParts
      BY <3>1 DEF InParts, OutParts, MidParts, MidPart
    <3>3. Inputs' = Inputs /\ DoneIn' = DoneIn /\ DoneOut' = DoneOut /\ DoneMid' = DoneMid
      BY <3>1 DEF Inputs, DoneIn, DoneOut, DoneMid
    <3>4. AllOf("input")' = AllOf("input") /\ AllOf("output")' = AllOf("output")
      BY <3>1 DEF AllOf
    <3>5. FormatIsValid' /\ RanksApart'
      BY <1>1, <3>1, <3>3 DEF WalkInv, FormatIsValid, RanksApart
    <3>6. CallsFit'
      BY <1>1, <3>1 DEF WalkInv, CallsFit, IsCall
    <3> QED
      BY <1>1, <3>1, <3>2, <3>3, <3>4, <3>5, <3>6 DEF WalkInv
  <2> QED
    BY <1>1, <2>1, LeafWalk, NodeWalk DEF Next
<1> QED
  BY <1>1, InitWalk, PTL DEF Spec

LEMMA WalkFills == WalkInv => SectionsAreFilled
<1> SUFFICES ASSUME WalkInv, Ended PROVE SectionsAreFilled
  BY DEF SectionsAreFilled
<1>1. pending = <<>> /\ Len(pending) = 0
  BY DEF Ended
<1>2. ASSUME NEW done, NEW part, NEW all, Fills(done, 0, part, all) PROVE done = all
  <2>1. \A m \in 1 .. 0 : FALSE
    OBVIOUS
  <2> QED
    BY <1>2, <2>1 DEF Fills
<1>3. /\ DoneIn = AllOf("input") /\ DoneOut = AllOf("output")
      /\ DoneMid = IF format.placement = "separate" THEN Span(MiddleBits(format.count)) ELSE {}
  BY <1>1, <1>2 DEF WalkInv
<1>4. SwitchBits(format.count) \in Nat /\ MiddleBits(format.count) \in Nat
      /\ format.placement \in {"separate", "input", "output"} /\ RanksApart
  BY SwitchBitsFacts, MiddleBitsFacts DEF WalkInv, FormatIsValid
<1> DEFINE s == SwitchBits(format.count)  m == MiddleBits(format.count)
<1>5. /\ AllOf("input") = Span(s + IF format.placement = "input" THEN m ELSE 0)
      /\ AllOf("output") = Span(s + IF format.placement = "output" THEN m ELSE 0)
      /\ s + 0 = s
  BY <1>4 DEF AllOf
<1> HIDE DEF s, m
<1>6. CASE format.placement = "separate"
  BY <1>3, <1>5, <1>6 DEF DoneIn, DoneOut, DoneMid, SectionsAreFilled, s, m
<1>7. CASE format.placement = "input"
  BY <1>3, <1>4, <1>5, <1>7 DEF DoneIn, DoneOut, RanksApart, SectionsAreFilled, s, m
<1>8. CASE format.placement = "output"
  BY <1>3, <1>4, <1>5, <1>8 DEF DoneIn, DoneOut, RanksApart, SectionsAreFilled, s, m
<1> QED
  BY <1>4, <1>6, <1>7, <1>8

\* For every size, all cluster lists and each place of the middle: when the
\* encoder is through, every bit of the input section, the output section and
\* the middle has been given to a switch or to a rank, and never to both.
THEOREM SectionsAlwaysFilled == Spec => []SectionsAreFilled
BY AlwaysWalkInv, WalkFills, PTL

\* No pending call is for more than the network has.
CallsWithin ==
  \A m \in DOMAIN pending :
    Within(pending[m].in, format.count) /\ Within(pending[m].out, format.count)

LEMMA InitWithin == Init => CallsWithin
<1> SUFFICES ASSUME Init, NEW m \in DOMAIN pending
             PROVE  Within(pending[m].in, format.count) /\ Within(pending[m].out, format.count)
  BY DEF CallsWithin
<1>1. format \in Formats(Counts, Placements)
  BY DEF Init
<1>2. format.count \in Nat
  BY <1>1, FormatFacts DEF FormatIsValid
<1>3. /\ pending[m].in = RootOf(format, format.input, "input")
      /\ pending[m].out = RootOf(format, format.output, "output")
  BY DEF Init
<1>4. ASSUME NEW list, NEW side
      PROVE  /\ RootOf(format, list, side).root = format.count
             /\ RootOf(format, list, side).node = format.count
  BY DEF RootOf, RootAddress
<1> QED
  BY <1>2, <1>3, <1>4 DEF Within

LEMMA NextWithin == WalkInv /\ CallsWithin /\ [Next]_vars => CallsWithin'
<1> SUFFICES ASSUME WalkInv, CallsWithin, [Next]_vars PROVE CallsWithin'
  OBVIOUS
<1> DEFINE c == pending[1]  n == Len(pending) - 1
<1>1. CallsFit /\ FormatIsValid /\ pending \in Seq(CallRecords) /\ format.count \in Nat
  BY DEF WalkInv, CallsFit, FormatIsValid
<1>2. CASE UNCHANGED vars
  BY <1>2 DEF vars, CallsWithin
<1>3. CASE EncodeLeaf
  <2>1. pending # <<>> /\ pending' = Tail(pending) /\ format' = format
    BY <1>3 DEF EncodeLeaf
  <2>2. /\ DOMAIN pending = 1 .. n + 1 /\ DOMAIN pending' = 1 .. n
        /\ \A m \in 1 .. n : m + 1 \in 1 .. n + 1 /\ pending'[m] = pending[m + 1]
    BY <1>1, <2>1, HeadAndTail
  <2> HIDE DEF n
  <2> QED
    BY <2>1, <2>2 DEF CallsWithin
<1>4. CASE EncodeNode
  <2> DEFINE l == CallOf(c, FALSE)  r == CallOf(c, TRUE)
  <2>1. /\ pending # <<>> /\ c.count > LeafSize /\ format' = format
        /\ pending' = <<l, r>> \o Tail(pending)
    BY <1>4 DEF EncodeNode
  <2>2. n \in Nat /\ Len(pending) = n + 1 /\ DOMAIN pending = 1 .. n + 1 /\ c \in CallRecords
    BY <1>1, <2>1, HeadAndTail
  <2>3. 1 \in 1 .. Len(pending) /\ 1 \in DOMAIN pending
    BY <2>2
  <2>4. /\ IsCall(c) /\ Within(c.in, format.count) /\ Within(c.out, format.count)
    BY <1>1, <2>3 DEF CallsFit, CallsWithin
  <2>5. l \in CallRecords /\ r \in CallRecords
    <3> HIDE DEF c
    <3> QED
      BY <1>1, <2>1, <2>2, <2>4, NodeParts
  <2>6. ASSUME NEW right \in BOOLEAN
        PROVE  /\ Within(CallOf(c, right).in, format.count)
               /\ Within(CallOf(c, right).out, format.count)
    <3>1. /\ c.count = c.in.node /\ c.count = c.out.node
          /\ IsAddress(c.in) /\ IsAddress(c.out)
      BY <2>4 DEF IsCall, Fits
    <3>2. /\ CallOf(c, right).in = Child(c.in, right, c.in.node)
          /\ CallOf(c, right).out = Child(c.out, right, c.out.node)
      BY <3>1 DEF CallOf
    <3> HIDE DEF c
    <3> QED
      BY <1>1, <2>1, <2>4, <3>1, <3>2, ChildWithin
  <2>8. /\ DOMAIN pending' = 1 .. n + 2 /\ pending'[1] = l /\ pending'[2] = r
        /\ \A m \in 1 .. n : m + 1 \in 1 .. n + 1 /\ pending'[m + 2] = pending[m + 1]
        /\ \A m \in 1 .. n + 2 : m = 1 \/ m = 2 \/ \E k \in 1 .. n : m = k + 2
    <3>1. \A m \in 1 .. n : m + 1 \in 1 .. n + 1
      BY <2>2
    <3> HIDE DEF c, l, r
    <3> QED
      BY <1>1, <2>1, <2>5, <3>1, PairBeforeTail
  <2> HIDE DEF n, c
  <2>9. /\ Within(l.in, format.count) /\ Within(l.out, format.count)
        /\ Within(r.in, format.count) /\ Within(r.out, format.count)
    BY <2>6
  <2> HIDE DEF l, r
  <2> QED
    BY <2>1, <2>2, <2>8, <2>9 DEF CallsWithin
<1> QED
  BY <1>2, <1>3, <1>4 DEF Next

LEMMA AlwaysWithin == Spec => []CallsWithin
BY InitWithin, NextWithin, AlwaysWalkInv, PTL DEF Spec

\* For every size and cluster list, each switch of each node the encoder reaches
\* gets the same bit from the kernels as from the encoder: their loop counts the
\* large nodes right, and up to the count that the 32-bit kernels are refused for,
\* none of its numbers outgrows 32 bits.
THEOREM DeviceAlwaysAgrees == Spec => []DeviceAgrees
<1>1. WalkInv /\ CallsWithin => DeviceAgrees
  <2> SUFFICES ASSUME WalkInv, CallsWithin,
                      NEW wide \in BOOLEAN, wide \/ format.count <= UintMax \div 2,
                      NEW n \in DOMAIN pending, pending[n].count > LeafSize,
                      NEW k \in 0 .. pending[n].count \div 2 - 1
      PROVE  /\ DeviceSwitchBit(pending[n].in, k, wide) = SwitchBit(pending[n].in, k)
             /\ DeviceSwitchBit(pending[n].out, k, wide) = SwitchBit(pending[n].out, k)
    BY DEF DeviceAgrees
  <2>1. pending \in Seq(CallRecords) /\ n \in 1 .. Len(pending) /\ FormatIsValid
    BY DEF WalkInv, CallsFit
  <2>2. IsCall(pending[n]) /\ pending[n] \in CallRecords
    BY <2>1 DEF WalkInv, CallsFit
  <2>3. /\ pending[n].in.node > LeafSize /\ pending[n].out.node > LeafSize
        /\ Fits(pending[n].in, format.input) /\ Fits(pending[n].out, format.output)
        /\ IsAddress(pending[n].in) /\ IsAddress(pending[n].out)
    BY <2>2 DEF IsCall, Fits
  <2>4. Within(pending[n].in, format.count) /\ Within(pending[n].out, format.count)
    BY DEF CallsWithin
  <2>5. /\ format.count \in Nat \ {0}
        /\ ValidList(format.input) /\ SumOf(format.input) = RoutingDepth(format.count)
        /\ ValidList(format.output) /\ SumOf(format.output) = RoutingDepth(format.count)
    <3>1. format.count \in Counts
      BY <2>1 DEF FormatIsValid, Formats
    <3>2. format.count \in Nat \ {0}
      BY <3>1, WalkAssumption
    <3>3. /\ format.input \in ClusterLists(RoutingDepth(format.count))
          /\ format.output \in ClusterLists(RoutingDepth(format.count))
      BY <2>1, FormatFacts DEF FormatIsValid
    <3> QED
      BY <2>1, <3>2, <3>3 DEF FormatIsValid, ClusterLists
  <2>6. HasRoom(pending[n].in, wide) /\ HasRoom(pending[n].out, wide)
    BY <2>3, <2>4, <2>5, RoomForAll
  <2>7. k \in Nat
    OBVIOUS
  <2> QED
    BY <2>3, <2>6, <2>7, DeviceBit
<1> QED
  BY <1>1, AlwaysWalkInv, AlwaysWithin, PTL

-----------------------------------------------------------------------------
(* Packets.                                                                  *)

\* The switch s is the one at y in the cluster of the address a.
Stands(s, a, y) ==
  /\ s.bit = a.base + y
  /\ s.packet \in Nat
  /\ s.level \in 0 .. a.groupDepth - 1
  /\ \E q \in 0 .. PowerOfTwo[s.level] - 1 : InCell(a, s.packet, s.level, q, y)

ClusterSpan(a) == 0 .. PacketSwitchBits(a.root, a.groupDepth) - 1

\* The addresses a and b belong to the same cluster.
Together(a, b) == a.root = b.root /\ a.groupDepth = b.groupDepth /\ a.base = b.base

LEMMA StandsTogether ==
  ASSUME NEW a, IsCluster(a), NEW b, Together(b, a), NEW s, NEW y
  PROVE  Stands(s, b, y) <=> Stands(s, a, y)
<1>1. ASSUME s.packet \in Nat, s.level \in 0 .. a.groupDepth - 1, NEW q
      PROVE  InCell(b, s.packet, s.level, q, y) <=> InCell(a, s.packet, s.level, q, y)
  BY <1>1, SameCells DEF Together
<1> QED
  BY <1>1 DEF Stands, Together

\* In a cluster that is full, the switches of a packet are neighbours, and the
\* nearer levels come first.
LEMMA FullCluster ==
  ASSUME NEW a, IsCluster(a), a.base \in Nat, NEW placing,
         \A s \in placing : \E y \in Nat : Stands(s, a, y),
         \A y \in ClusterSpan(a) : \E s \in placing : Stands(s, a, y),
         NEW p \in placing, NEW q \in placing, p.packet = q.packet
  PROVE  /\ p.level < q.level => p.bit < q.bit
         /\ \A b \in p.bit .. q.bit : \E r \in placing : r.bit = b /\ r.packet = p.packet
<1>1. PICK x \in Nat : Stands(p, a, x)
  OBVIOUS
<1>2. PICK z \in Nat : Stands(q, a, z)
  OBVIOUS
<1> DEFINE n == p.packet  F == FullPacketBits(a)  T(k) == LevelsBits(a, n, k)
<1>3. PICK i \in 0 .. PowerOfTwo[p.level] - 1 : InCell(a, n, p.level, i, x)
  BY <1>1 DEF Stands
<1>4. PICK j \in 0 .. PowerOfTwo[q.level] - 1 : InCell(a, n, q.level, j, z)
  BY <1>2 DEF Stands
<1>5. /\ n \in Nat /\ p.level \in 0 .. a.groupDepth - 1 /\ q.level \in 0 .. a.groupDepth - 1
      /\ p.bit = a.base + x /\ q.bit = a.base + z /\ a.groupDepth \in Nat
  BY <1>1, <1>2 DEF Stands, IsCluster
<1>6. F \in Nat /\ n * F <= x /\ n * F + T(p.level) <= x /\ x < n * F + T(p.level + 1)
  BY <1>3, <1>5, CellBounds
<1>7. /\ n * F + T(q.level) <= z /\ z < n * F + F
      /\ z < PacketSwitchBits(a.root, a.groupDepth)
  BY <1>4, <1>5, CellBounds, CellWithin
<1>8. p.level < q.level => T(p.level + 1) <= T(q.level)
  <2> SUFFICES ASSUME p.level < q.level PROVE T(p.level + 1) <= T(q.level)
    OBVIOUS
  <2>1. q.level \in 0 .. a.groupDepth /\ p.level + 1 \in 0 .. q.level
    BY <1>5
  <2> QED
    BY <1>5, <2>1, LevelsAscend
<1>9. /\ \A k \in 0 .. a.groupDepth : T(k) \in Nat
      /\ PacketSwitchBits(a.root, a.groupDepth) \in Nat
  BY <1>5, LevelsFacts, PacketSwitchBitsFacts DEF IsCluster
<1>10. p.level + 1 \in 0 .. a.groupDepth /\ q.level \in 0 .. a.groupDepth
  BY <1>5
<1> DEFINE nF == n * F  t == T(p.level + 1)  u == T(q.level)
           w == PacketSwitchBits(a.root, a.groupDepth)
<1>11. nF \in Nat /\ t \in Nat /\ u \in Nat /\ w \in Nat
  <2>1. t \in Nat /\ u \in Nat /\ w \in Nat
    BY <1>9, <1>10
  <2> HIDE DEF F
  <2> QED
    BY <1>5, <1>6, <2>1
<1> HIDE DEF F, T, n
<1>12. p.level < q.level => x < z
  <2> SUFFICES ASSUME p.level < q.level PROVE x < z
    OBVIOUS
  <2>1. x < nF + t /\ t <= u /\ nF + u <= z
    BY <1>6, <1>7, <1>8
  <2> HIDE DEF nF, t, u
  <2> QED
    BY <1>11, <2>1
<1>13. ASSUME NEW b \in p.bit .. q.bit
       PROVE  \E r \in placing : r.bit = b /\ r.packet = p.packet
  <2>1. b - a.base \in Nat /\ x <= b - a.base /\ b - a.base <= z /\ b = a.base + (b - a.base)
    BY <1>5
  <2> DEFINE y == b - a.base
  <2>2. y \in Nat /\ x <= y /\ y <= z /\ b = a.base + y
    BY <2>1
  <2> HIDE DEF y
  <2>3. y \in 0 .. w - 1
    <3>1. z < w
      BY <1>7
    <3> HIDE DEF w
    <3> QED
      BY <1>11, <2>2, <3>1
  <2>4. PICK r \in placing : Stands(r, a, y)
    BY <2>3 DEF ClusterSpan
  <2>5. PICK k \in 0 .. PowerOfTwo[r.level] - 1 : InCell(a, r.packet, r.level, k, y)
    BY <2>4 DEF Stands
  <2>6. /\ r.packet \in Nat /\ r.level \in 0 .. a.groupDepth - 1 /\ r.bit = b
    BY <2>2, <2>4 DEF Stands
  <2> DEFINE m == r.packet
  <2>7. m * F <= y /\ y < m * F + F
    BY <2>2, <2>5, <2>6, CellBounds DEF F
  <2>8. n * F <= y /\ y < n * F + F
    <3>1. nF <= x /\ z < nF + F /\ F \in Nat
      BY <1>6, <1>7
    <3>2. nF <= y /\ y < nF + F
      <4> HIDE DEF nF
      <4> QED
        BY <1>2, <1>11, <2>2, <3>1
    <3> QED
      BY <3>2
  <2>9. F \in Nat /\ m \in Nat /\ n \in Nat
    BY <1>5, <1>6, <2>6
  <2> HIDE DEF m
  <2>10. m = n
    <3>1. CASE m < n
      <4>1. m * F + F <= n * F
        BY <2>9, <3>1, Monotone
      <4>2. m * F \in Nat /\ n * F \in Nat
        BY <2>9
      <4> QED
        BY <2>2, <2>7, <2>8, <2>9, <4>1, <4>2
    <3>2. CASE n < m
      <4>1. n * F + F <= m * F
        BY <2>9, <3>2, Monotone
      <4>2. m * F \in Nat /\ n * F \in Nat
        BY <2>9
      <4> QED
        BY <2>2, <2>7, <2>8, <2>9, <4>1, <4>2
    <3> QED
      BY <2>9, <3>1, <3>2
  <2> QED
    BY <2>6, <2>10 DEF m, n
<1> QED
  BY <1>5, <1>12, <1>13

\* The switches of a node stand in its own cells and fill them.
SwitchOf(g, a, k) ==
  [group |-> g, packet |-> k \div PairSpan(a), level |-> a.level, bit |-> SwitchBit(a, k)]

LEMMA NodeStands ==
  ASSUME NEW a, IsAddress(a), a.node > LeafSize, NEW g
  PROVE  /\ \A k \in 0 .. a.node \div 2 - 1 : \E y \in Nat : Stands(SwitchOf(g, a, k), a, y)
         /\ \A y \in Own(a) :
              \E k \in 0 .. a.node \div 2 - 1 : Stands(SwitchOf(g, a, k), a, y)
<1>1. IsPlace(a)
  BY LeafSizes, AddressFacts DEF IsAddress, IsLeafRoot
<1>2. a.level \in 0 .. a.groupDepth - 1 /\ a.path \in 0 .. PowerOfTwo[a.level] - 1
  BY <1>1 DEF IsPlace
<1>3. ASSUME NEW k \in 0 .. a.node \div 2 - 1
      PROVE  \E y \in Nat : Stands(SwitchOf(g, a, k), a, y)
  <2> DEFINE p == k \div PairSpan(a)
             y == CellStart(a, p, a.level, a.path) + (k % PairSpan(a))
  <2>1. /\ p \in Nat /\ y \in Nat /\ SwitchBit(a, k) = a.base + y
        /\ InCell(a, p, a.level, a.path, y)
    BY <1>1, SwitchBitIs
  <2> HIDE DEF p, y
  <2>2. SwitchOf(g, a, k) = [group |-> g, packet |-> p, level |-> a.level, bit |-> a.base + y]
    BY <2>1 DEF SwitchOf, p
  <2> QED
    BY <1>2, <2>1, <2>2 DEF Stands
<1>4. ASSUME NEW y \in Own(a)
      PROVE  \E k \in 0 .. a.node \div 2 - 1 : Stands(SwitchOf(g, a, k), a, y)
  <2>1. PICK p \in Nat : InCell(a, p, a.level, a.path, y)
    BY DEF Own
  <2>2. y \in Nat
    BY DEF Own
  <2>3. PICK k \in 0 .. a.node \div 2 - 1 :
          k \div PairSpan(a) = p /\ SwitchBit(a, k) = a.base + y
    BY <1>1, <2>1, <2>2, CellHasSwitches
  <2>4. SwitchOf(g, a, k) = [group |-> g, packet |-> p, level |-> a.level, bit |-> a.base + y]
    BY <2>3 DEF SwitchOf
  <2>5. Stands(SwitchOf(g, a, k), a, y)
    BY <1>2, <2>1, <2>4 DEF Stands
  <2> QED
    BY <2>5
<1> QED
  BY <1>3, <1>4

\* The children of a node divide its cells, or are the roots of new clusters.
LEMMA ChildCells ==
  ASSUME NEW s, ValidList(s), NEW a, Fits(a, s), a.node > LeafSize,
         NEW c, c = Child(a, FALSE, a.node), NEW d, d = Child(a, TRUE, a.node)
  PROVE  \/ /\ Together(c, a) /\ Together(d, a) /\ c.level # 0 /\ d.level # 0
            /\ Sub(a) = Own(a) \cup Sub(c) \cup Sub(d)
         \/ /\ c.level = 0 /\ d.level = 0 /\ Sub(a) = Own(a)
            /\ Sub(c) = ClusterSpan(c) /\ Sub(d) = ClusterSpan(d)
<1>1. IsAddress(a)
  BY DEF Fits
<1>2. IsPlace(a) /\ a \in Addresses /\ a.groupDepth \in Nat /\ a.level \in Nat
  BY <1>1, LeafSizes, AddressFacts DEF IsAddress, IsLeafRoot
<1>3. a.level \in 0 .. a.groupDepth - 1
  BY <1>2 DEF IsPlace
<1>4. TRUE \in BOOLEAN /\ FALSE \in BOOLEAN
  OBVIOUS
<1>5. CASE a.groupDepth - a.level > 1
  <2>1. a.level + 1 < a.groupDepth
    BY <1>2, <1>5
  <2>2. c = InnerChild(a, FALSE, a.node) /\ d = InnerChild(a, TRUE, a.node)
    BY <1>5 DEF Child
  <2>3. IsChildPlace(c, a, 0) /\ c.base = a.base
    BY <1>1, <1>2, <1>4, <2>1, <2>2, InnerAddress
  <2>4. IsChildPlace(d, a, 1) /\ d.base = a.base
    BY <1>1, <1>2, <1>4, <2>1, <2>2, InnerAddress
  <2>5. Sub(a) = Own(a) \cup Sub(c) \cup Sub(d)
    <3>1. InThree(Sub(a), Own(a), Sub(c), Sub(d))
      BY <1>2, <2>3, <2>4, SubOfInner
    <3> QED
      BY <3>1 DEF InThree
  <2>6. Together(c, a) /\ Together(d, a) /\ c.level = a.level + 1 /\ d.level = a.level + 1
    BY <2>3, <2>4 DEF IsChildPlace, Together
  <2>7. c.level # 0 /\ d.level # 0
    <3>1. a.level + 1 # 0
      BY <1>2
    <3> QED
      BY <2>6, <3>1
  <2> QED
    BY <2>5, <2>6, <2>7
<1>6. CASE ~(a.groupDepth - a.level > 1)
  <2>1. a.level = a.groupDepth - 1
    BY <1>2, <1>3, <1>6
  <2>2. Sub(a) = Own(a)
    BY <1>2, <2>1, SubOfLast
  <2>3. c = OuterChild(a, FALSE, a.node) /\ d = OuterChild(a, TRUE, a.node)
    BY <1>6 DEF Child
  <2>4. c.level = 0 /\ c.path = 0 /\ d.level = 0 /\ d.path = 0
    <3>1. \A t \in BOOLEAN : /\ OuterChild(a, t, a.node).level = 0
                            /\ OuterChild(a, t, a.node).path = 0
      BY <1>2, OuterChildIs
    <3> QED
      BY <1>4, <2>3, <3>1
  <2>5. Fits(c, s) /\ Fits(d, s)
    BY <1>4, ChildFits
  <2>6. IsCluster(c) /\ IsCluster(d)
    BY <2>5, AddressFacts DEF Fits
  <2> QED
    BY <2>2, <2>4, <2>6, SubOfRoot DEF ClusterSpan
<1> QED
  BY <1>5, <1>6

-----------------------------------------------------------------------------
(* Trails.                                                                   *)

\* Trails that part: neither goes on where the other one ends.
Apart(u, v) == \E i \in 1 .. Len(u) : i <= Len(v) /\ u[i] # v[i]

LEMMA AppendIs ==
  ASSUME NEW u \in Seq(BOOLEAN), NEW x \in BOOLEAN
  PROVE  LET w == Append(u, x)
         IN  /\ w \in Seq(BOOLEAN) /\ Len(u) \in Nat /\ Len(w) = Len(u) + 1
             /\ w[Len(u) + 1] = x /\ \A i \in 1 .. Len(u) : w[i] = u[i]
OBVIOUS

LEMMA ApartFacts ==
  \A u, v \in Seq(BOOLEAN) : \A x, y \in BOOLEAN :
    /\ Apart(u, v) => Apart(v, u) /\ u # v
    /\ Apart(u, v) => Apart(Append(u, x), v) /\ Apart(u, Append(v, x))
    /\ x # y => Apart(Append(u, x), Append(u, y))
    /\ ~Apart(Append(u, x), u)
<1> TAKE u, v \in Seq(BOOLEAN)
<1> TAKE x, y \in BOOLEAN
<1> DEFINE w == Append(u, x)  z == Append(u, y)  k == Append(v, x)
<1>1. Len(u) \in Nat /\ Len(v) \in Nat
  OBVIOUS
<1>2. Len(w) = Len(u) + 1 /\ w[Len(u) + 1] = x /\ \A i \in 1 .. Len(u) : w[i] = u[i]
  BY AppendIs
<1>3. Len(z) = Len(u) + 1 /\ z[Len(u) + 1] = y /\ \A i \in 1 .. Len(u) : z[i] = u[i]
  BY AppendIs
<1>4. Len(k) = Len(v) + 1 /\ \A i \in 1 .. Len(v) : k[i] = v[i]
  BY AppendIs
<1> HIDE DEF w, z, k
<1>5. ASSUME Apart(u, v) PROVE Apart(v, u) /\ u # v /\ Apart(w, v) /\ Apart(u, k)
  <2>1. PICK i \in 1 .. Len(u) : i <= Len(v) /\ u[i] # v[i]
    BY <1>5 DEF Apart
  <2>2. /\ i \in 1 .. Len(v) /\ i <= Len(u) /\ i \in 1 .. Len(w) /\ i <= Len(k)
        /\ w[i] = u[i] /\ k[i] = v[i]
    BY <1>1, <1>2, <1>4, <2>1
  <2>3. Apart(v, u) /\ Apart(w, v) /\ Apart(u, k)
    BY <2>1, <2>2 DEF Apart
  <2> QED
    BY <2>1, <2>3
<1>6. ASSUME x # y PROVE Apart(w, z)
  <2>1. Len(u) + 1 \in 1 .. Len(w) /\ Len(u) + 1 <= Len(z) /\ w[Len(u) + 1] # z[Len(u) + 1]
    BY <1>1, <1>2, <1>3, <1>6
  <2> QED
    BY <2>1 DEF Apart
<1>7. ~Apart(w, u)
  <2> SUFFICES ASSUME NEW i \in 1 .. Len(w), i <= Len(u) PROVE w[i] = u[i]
    BY DEF Apart
  <2>1. i \in 1 .. Len(u)
    BY <1>1, <1>2
  <2> QED
    BY <1>2, <2>1
<1> QED
  BY <1>5, <1>6, <1>7 DEF w, z, k

LEMMA ApartTurns ==
  ASSUME NEW u \in Seq(BOOLEAN), NEW l, l = Append(u, FALSE), NEW r, r = Append(u, TRUE)
  PROVE  /\ Apart(l, r) /\ Apart(r, l) /\ l # r
         /\ \A v \in Seq(BOOLEAN) :
              /\ Apart(u, v) => /\ Apart(l, v) /\ Apart(r, v)
                               /\ Apart(v, l) /\ Apart(v, r)
              /\ Apart(v, u) => /\ Apart(v, l) /\ Apart(v, r)
                               /\ v # l /\ v # r
<1>1. TRUE \in BOOLEAN /\ FALSE \in BOOLEAN /\ TRUE # FALSE
  OBVIOUS
<1>2. l \in Seq(BOOLEAN) /\ r \in Seq(BOOLEAN)
  BY <1>1, AppendIs
<1>3. Apart(l, r)
  <2>1. \A x, y \in BOOLEAN : x # y => Apart(Append(u, x), Append(u, y))
    BY ApartFacts, Zenon
  <2>2. Apart(Append(u, FALSE), Append(u, TRUE))
    BY <1>1, <2>1, Zenon
  <2> QED
    BY <2>2
<1>4. Apart(r, l) /\ l # r
  BY <1>1, <1>2, <1>3, ApartFacts, Zenon
<1>5. ASSUME NEW v \in Seq(BOOLEAN), Apart(u, v) \/ Apart(v, u)
      PROVE  Apart(l, v) /\ Apart(r, v) /\ Apart(v, l) /\ Apart(v, r) /\ v # l /\ v # r
  <2>1. Apart(u, v)
    BY <1>1, <1>5, ApartFacts, Zenon
  <2>2. \A x \in BOOLEAN : Apart(Append(u, x), v)
    BY <1>1, <2>1, ApartFacts, Zenon
  <2>3. Apart(Append(u, FALSE), v) /\ Apart(Append(u, TRUE), v)
    BY <1>1, <2>2, Zenon
  <2>4. Apart(l, v) /\ Apart(r, v)
    BY <2>3
  <2>5. Apart(v, l) /\ Apart(v, r) /\ l # v /\ r # v
    BY <1>1, <1>2, <2>4, ApartFacts, Zenon
  <2> QED
    BY <2>4, <2>5
<1> QED
  BY <1>3, <1>4, <1>5

-----------------------------------------------------------------------------
(* The packets during a walk.  Clusters gives for each group met so far an   *)
(* address in its cluster.                                                   *)

GroupsAreKnown(clusters) ==
  /\ \A g \in DOMAIN clusters :
       IsCluster(clusters[g]) /\ clusters[g].base \in Nat /\ g \in Seq(BOOLEAN)
  /\ \A m \in 1 .. Len(pending) :
       /\ pending[m].group \in DOMAIN clusters
       /\ Together(pending[m].in, clusters[pending[m].group])

SwitchesStand(clusters) ==
  \A s \in placed :
    /\ s.group \in DOMAIN clusters
    /\ \E y \in Nat : Stands(s, clusters[s.group], y)

\* A bit of a cluster has its switch or will get it from a pending call.
ClustersFill(clusters) ==
  \A g \in DOMAIN clusters : \A y \in ClusterSpan(clusters[g]) :
    \/ \E s \in placed : s.group = g /\ Stands(s, clusters[g], y)
    \/ \E m \in 1 .. Len(pending) :
         pending[m].group = g /\ y \in Sub(pending[m].in)

\* No pending call can come to a group that is taken.
TrailsPart(clusters) ==
  /\ \A m, l \in 1 .. Len(pending) : m # l => Apart(pending[m].trail, pending[l].trail)
  /\ \A g \in DOMAIN clusters : \A m \in 1 .. Len(pending) :
       Apart(g, pending[m].trail) \/ Len(g) <= Len(pending[m].trail)

PacketInv ==
  \E clusters :
    /\ GroupsAreKnown(clusters)
    /\ SwitchesStand(clusters)
    /\ ClustersFill(clusters)
    /\ TrailsPart(clusters)

LEMMA InitPackets == Init => PacketInv
<1> SUFFICES ASSUME Init PROVE PacketInv
  OBVIOUS
<1>1. WalkInv
  BY InitWalk
<1> DEFINE c == pending[1]
<1>2. /\ Len(pending) = 1 /\ placed = {} /\ c.trail = <<>> /\ c.group = <<>>
      /\ c.in = RootOf(format, format.input, "input")
  BY DEF Init
<1>3. c \in CallRecords /\ IsCall(c) /\ \A m \in 1 .. Len(pending) : m = 1
  <2>1. /\ pending \in Seq(CallRecords) /\ 1 \in 1 .. Len(pending)
        /\ \A m \in 1 .. Len(pending) : IsCall(pending[m])
    BY <1>1, <1>2 DEF WalkInv, CallsFit
  <2>2. pending[1] \in CallRecords /\ IsCall(pending[1])
    BY <2>1
  <2> QED
    BY <1>2, <2>2
<1>4. IsCluster(c.in) /\ c.in.base \in Nat
  BY <1>3, AddressFacts DEF IsCall, Fits
<1>5. c.in.level = 0 /\ c.in.path = 0
  BY <1>2 DEF RootOf, RootAddress
<1>6. Sub(c.in) = ClusterSpan(c.in)
  BY <1>4, <1>5, SubOfRoot DEF ClusterSpan
<1> DEFINE clusters == [g \in {<<>>} |-> c.in]
<1>7. DOMAIN clusters = {<<>>} /\ clusters[<<>>] = c.in
  OBVIOUS
<1> HIDE DEF clusters
<1>8. <<>> \in Seq(BOOLEAN) /\ Len(<<>>) = 0
  OBVIOUS
<1>9. GroupsAreKnown(clusters)
  BY <1>2, <1>3, <1>4, <1>7, <1>8 DEF GroupsAreKnown, Together
<1>10. SwitchesStand(clusters)
  BY <1>2 DEF SwitchesStand
<1>11. 1 \in 1 .. Len(pending)
  BY <1>2
<1>12. ClustersFill(clusters)
  BY <1>2, <1>6, <1>7, <1>11 DEF ClustersFill
<1>13. TrailsPart(clusters)
  BY <1>2, <1>3, <1>7, <1>8 DEF TrailsPart
<1> QED
  BY <1>9, <1>10, <1>12, <1>13 DEF PacketInv

LEMMA LeafPackets == WalkInv /\ PacketInv /\ EncodeLeaf => PacketInv'
<1> SUFFICES ASSUME WalkInv, PacketInv, EncodeLeaf PROVE PacketInv'
  OBVIOUS
<1> DEFINE c == pending[1]  n == Len(pending) - 1
<1>1. PICK clusters : /\ GroupsAreKnown(clusters) /\ SwitchesStand(clusters)
                      /\ ClustersFill(clusters) /\ TrailsPart(clusters)
  BY DEF PacketInv
<1>2. /\ pending # <<>> /\ c.count <= LeafSize /\ pending' = Tail(pending)
      /\ placed' = placed
  BY DEF EncodeLeaf
<1>3. pending \in Seq(CallRecords) /\ \A m \in 1 .. Len(pending) : IsCall(pending[m])
  BY DEF WalkInv, CallsFit
<1>4. /\ n \in Nat /\ Len(pending) = n + 1 /\ c \in CallRecords /\ Len(pending') = n
      /\ \A m \in 1 .. n : m + 1 \in 1 .. n + 1 /\ pending'[m] = pending[m + 1]
  BY <1>2, <1>3, HeadAndTail
<1>5. Sub(c.in) = {}
  <2>1. 1 \in 1 .. Len(pending)
    BY <1>4
  <2>2. IsAddress(c.in) /\ c.in.node <= LeafSize
    BY <1>2, <1>3, <2>1 DEF IsCall, Fits
  <2> QED
    BY <2>2, SubOfLeaf
<1>6. \A m, l \in 1 .. n : m # l => m + 1 # l + 1
  OBVIOUS
<1>7. \A m \in 1 .. n + 1 : m = 1 \/ \E l \in 1 .. n : m = l + 1
  <2> SUFFICES ASSUME NEW m \in 1 .. n + 1, m # 1 PROVE \E l \in 1 .. n : m = l + 1
    OBVIOUS
  <2>1. m - 1 \in 1 .. n /\ m = (m - 1) + 1
    BY <1>4
  <2> QED
    BY <2>1
<1>8. GroupsAreKnown(clusters)'
  BY <1>1, <1>4 DEF GroupsAreKnown
<1>9. SwitchesStand(clusters)'
  BY <1>1, <1>2 DEF SwitchesStand
<1>10. ClustersFill(clusters)'
  <2> SUFFICES ASSUME NEW g \in DOMAIN clusters, NEW y \in ClusterSpan(clusters[g]),
                      ~\E s \in placed : s.group = g /\ Stands(s, clusters[g], y)
      PROVE  \E m \in 1 .. n : pending'[m].group = g /\ y \in Sub(pending'[m].in)
    BY <1>2, <1>4 DEF ClustersFill
  <2>1. PICK m \in 1 .. n + 1 : pending[m].group = g /\ y \in Sub(pending[m].in)
    BY <1>1, <1>4 DEF ClustersFill
  <2>2. m # 1
    BY <1>5, <2>1
  <2>3. PICK l \in 1 .. n : m = l + 1
    BY <1>7, <2>2
  <2> QED
    BY <1>4, <2>1, <2>3
<1>11. TrailsPart(clusters)'
  <2> HIDE DEF n
  <2> QED
    BY <1>1, <1>4, <1>6 DEF TrailsPart
<1> QED
  BY <1>8, <1>9, <1>10, <1>11 DEF PacketInv

LEMMA ChildGroup ==
  ASSUME NEW c, NEW t \in BOOLEAN, NEW d, d = CallOf(c, t)
  PROVE  /\ d.trail = Append(c.trail, t)
         /\ d.group = IF d.in.level = 0 THEN d.trail ELSE c.group
<1> DEFINE i == Child(c.in, t, c.count)
           b == c.middle + IF t THEN MiddleBits(LeftCount(c.count)) ELSE 0
           m == ChildCount(t, c.count)  o == Child(c.out, t, c.count)
           trail == Append(c.trail, t)
           group == IF i.level = 0 THEN trail ELSE c.group
<1>1. d = [count |-> m, in |-> i, out |-> o, middle |-> b, trail |-> trail, group |-> group]
  BY Zenon DEF CallOf
<1> HIDE DEF m, trail, group, i, o, b
<1>2. d.in = i /\ d.trail = trail /\ d.group = group
  BY <1>1
<1> QED
  BY <1>2 DEF group, trail

LEMMA NodePackets == WalkInv /\ PacketInv /\ EncodeNode => PacketInv'
<1> SUFFICES ASSUME WalkInv, PacketInv, EncodeNode PROVE PacketInv'
  OBVIOUS
<1> DEFINE c == pending[1]  n == Len(pending) - 1
           l == CallOf(c, FALSE)  r == CallOf(c, TRUE)
           K == 0 .. c.in.node \div 2 - 1
<1>1. PICK clusters : /\ GroupsAreKnown(clusters) /\ SwitchesStand(clusters)
                      /\ ClustersFill(clusters) /\ TrailsPart(clusters)
  BY DEF PacketInv
<1>2. /\ pending # <<>> /\ c.count > LeafSize /\ pending' = <<l, r>> \o Tail(pending)
      /\ placed' = placed \cup
           {[group |-> c.group, packet |-> k \div PairSpan(c.in),
             level |-> c.in.level, bit |-> SwitchBit(c.in, k)] : k \in 0 .. c.count \div 2 - 1}
  BY DEF EncodeNode
<1>3. /\ FormatIsValid /\ pending \in Seq(CallRecords)
      /\ \A m \in 1 .. Len(pending) : IsCall(pending[m])
  BY DEF WalkInv, CallsFit
<1>4. /\ n \in Nat /\ Len(pending) = n + 1 /\ c \in CallRecords
      /\ \A m \in 1 .. n : m + 1 \in 1 .. n + 1
  BY <1>2, <1>3, HeadAndTail
<1>5. 1 \in 1 .. n + 1 /\ 1 \in 1 .. Len(pending) /\ IsCall(c)
  BY <1>3, <1>4
<1>6. TRUE \in BOOLEAN /\ FALSE \in BOOLEAN
  OBVIOUS
<1>7. l \in CallRecords /\ r \in CallRecords /\ IsCall(l) /\ IsCall(r)
      /\ l.in = Child(c.in, FALSE, c.count) /\ r.in = Child(c.in, TRUE, c.count)
  <2> HIDE DEF c, l, r
  <2> QED
    BY <1>2, <1>3, <1>4, <1>5, <1>6, WalkCallIs DEF l, r
<1>8. /\ Len(pending') = n + 2 /\ pending'[1] = l /\ pending'[2] = r
      /\ \A m \in 1 .. n : m + 2 \in 1 .. n + 2 /\ pending'[m + 2] = pending[m + 1]
      /\ \A m \in 1 .. n + 2 : m = 1 \/ m = 2 \/ \E k \in 1 .. n : m = k + 2
  <2> HIDE DEF c, l, r
  <2> QED
    BY <1>2, <1>3, <1>7, PairBeforeTail
<1>9. /\ Fits(c.in, format.input) /\ ValidList(format.input) /\ c.count = c.in.node
      /\ c.in.node > LeafSize
  BY <1>2, <1>3, <1>5 DEF IsCall, FormatIsValid
<1>10. placed' = placed \cup {SwitchOf(c.group, c.in, k) : k \in K}
  BY <1>2, <1>9 DEF SwitchOf
<1>11. /\ l.trail = Append(c.trail, FALSE) /\ r.trail = Append(c.trail, TRUE)
       /\ l.group = IF l.in.level = 0 THEN l.trail ELSE c.group
       /\ r.group = IF r.in.level = 0 THEN r.trail ELSE c.group
  BY <1>6, ChildGroup
<1>12. \/ /\ Together(l.in, c.in) /\ Together(r.in, c.in) /\ l.in.level # 0 /\ r.in.level # 0
          /\ Sub(c.in) = Own(c.in) \cup Sub(l.in) \cup Sub(r.in)
       \/ /\ l.in.level = 0 /\ r.in.level = 0 /\ Sub(c.in) = Own(c.in)
          /\ Sub(l.in) = ClusterSpan(l.in) /\ Sub(r.in) = ClusterSpan(r.in)
  <2>1. l.in = Child(c.in, FALSE, c.in.node) /\ r.in = Child(c.in, TRUE, c.in.node)
    BY <1>7, <1>9
  <2> HIDE DEF c, l, r
  <2> QED
    BY <1>9, <2>1, ChildCells
<1>13. /\ \A k \in K : \E y \in Nat : Stands(SwitchOf(c.group, c.in, k), c.in, y)
       /\ \A y \in Own(c.in) : \E k \in K : Stands(SwitchOf(c.group, c.in, k), c.in, y)
  BY <1>9, NodeStands DEF Fits
<1>14. /\ IsCluster(l.in) /\ l.in.base \in Nat /\ IsCluster(r.in) /\ r.in.base \in Nat
       /\ IsCluster(c.in)
  BY <1>5, <1>7, AddressFacts DEF IsCall, Fits
<1>15. /\ c.trail \in Seq(BOOLEAN) /\ l.trail \in Seq(BOOLEAN) /\ r.trail \in Seq(BOOLEAN)
       /\ \A m \in 1 .. n + 1 : pending[m].trail \in Seq(BOOLEAN)
       /\ Len(c.trail) \in Nat
       /\ Len(l.trail) = Len(c.trail) + 1 /\ Len(r.trail) = Len(c.trail) + 1
  <2>1. \A m \in 1 .. n + 1 : pending[m] \in CallRecords
    BY <1>3, <1>4
  <2>2. \A d \in CallRecords : d.trail \in Seq(BOOLEAN)
    BY DEF CallRecords
  <2>3. c.trail \in Seq(BOOLEAN) /\ l.trail \in Seq(BOOLEAN) /\ r.trail \in Seq(BOOLEAN)
    BY <1>4, <1>7, <2>2
  <2> QED
    BY <1>6, <1>11, <2>1, <2>2, <2>3, AppendIs
<1>16. /\ c.group \in DOMAIN clusters /\ Together(c.in, clusters[c.group])
       /\ IsCluster(clusters[c.group]) /\ clusters[c.group].base \in Nat
  BY <1>1, <1>4, <1>5 DEF GroupsAreKnown
<1>17. \A m, k \in 1 .. n : m + 1 = k + 1 => m + 2 = k + 2
  OBVIOUS
<1>18. 1 \in 1 .. n + 2 /\ 2 \in 1 .. n + 2
  BY <1>4
<1>19. \A m \in 1 .. n + 1 : m = 1 \/ \E k \in 1 .. n : m = k + 1
  <2> SUFFICES ASSUME NEW m \in 1 .. n + 1, m # 1 PROVE \E k \in 1 .. n : m = k + 1
    OBVIOUS
  <2>1. m - 1 \in 1 .. n /\ m = (m - 1) + 1
    BY <1>4
  <2> QED
    BY <2>1
<1>20. \A m \in 1 .. n : m + 1 # 1
  OBVIOUS
<1>21. PICK more : more = [g \in DOMAIN clusters \cup {l.group, r.group} |->
                             IF g \in DOMAIN clusters THEN clusters[g]
                             ELSE IF g = l.group THEN l.in ELSE r.in]
  OBVIOUS
<1> HIDE DEF n, c, l, r, K
\* The trails.
<1>22. /\ Apart(l.trail, r.trail) /\ Apart(r.trail, l.trail) /\ l.trail # r.trail
       /\ \A v \in Seq(BOOLEAN) :
            /\ Apart(c.trail, v) => /\ Apart(l.trail, v) /\ Apart(r.trail, v)
                                   /\ Apart(v, l.trail) /\ Apart(v, r.trail)
            /\ Apart(v, c.trail) => /\ Apart(v, l.trail) /\ Apart(v, r.trail)
                                   /\ v # l.trail /\ v # r.trail
  <2> DEFINE u == c.trail  x == l.trail  y == r.trail
  <2>1. u \in Seq(BOOLEAN) /\ x = Append(u, FALSE) /\ y = Append(u, TRUE)
    BY <1>11, <1>15
  <2> HIDE DEF u, x, y
  <2>2. /\ Apart(x, y) /\ Apart(y, x) /\ x # y
        /\ \A v \in Seq(BOOLEAN) :
             /\ Apart(u, v) => Apart(x, v) /\ Apart(y, v) /\ Apart(v, x) /\ Apart(v, y)
             /\ Apart(v, u) => Apart(v, x) /\ Apart(v, y) /\ v # x /\ v # y
    BY <2>1, ApartTurns
  <2> QED
    BY <2>2 DEF u, x, y
<1>23. \A m \in 1 .. n : /\ Apart(c.trail, pending[m + 1].trail)
                         /\ Apart(l.trail, pending[m + 1].trail)
                         /\ Apart(r.trail, pending[m + 1].trail)
                         /\ Apart(pending[m + 1].trail, l.trail)
                         /\ Apart(pending[m + 1].trail, r.trail)
  <2> SUFFICES ASSUME NEW m \in 1 .. n, NEW u, u = pending[m + 1].trail
      PROVE  /\ Apart(c.trail, u) /\ Apart(l.trail, u) /\ Apart(r.trail, u)
             /\ Apart(u, l.trail) /\ Apart(u, r.trail)
    OBVIOUS
  <2>1. u \in Seq(BOOLEAN) /\ Apart(c.trail, u)
    BY <1>1, <1>4, <1>5, <1>15, <1>20 DEF TrailsPart, c
  <2>2. Apart(l.trail, u) /\ Apart(r.trail, u)
    BY <1>15, <2>1, <1>22
  <2> QED
    BY <2>1, <2>2, <1>22
<1>24. Apart(l.trail, r.trail) /\ Apart(r.trail, l.trail) /\ l.trail # r.trail
  BY <1>22
<1>25. ASSUME NEW g \in DOMAIN clusters
       PROVE  /\ Apart(g, l.trail) \/ Len(g) <= Len(l.trail)
              /\ Apart(g, r.trail) \/ Len(g) <= Len(r.trail)
              /\ g # l.trail /\ g # r.trail
  <2>1. g \in Seq(BOOLEAN)
    BY <1>1 DEF GroupsAreKnown
  <2>2. Apart(g, c.trail) \/ Len(g) <= Len(c.trail)
    BY <1>1, <1>5 DEF TrailsPart, c
  <2>3. CASE Apart(g, c.trail)
    <3>1. Apart(g, l.trail) /\ Apart(g, r.trail)
      BY <1>22, <2>1, <2>3
    <3> QED
      BY <1>22, <2>1, <2>3, <3>1
  <2>4. CASE Len(g) <= Len(c.trail)
    <3>1. Len(g) \in Nat
      BY <2>1
    <3> QED
      BY <1>15, <2>4, <3>1
  <2> QED
    BY <2>2, <2>3, <2>4
<1>26. \A m, k \in 1 .. Len(pending') :
         m # k => Apart(pending'[m].trail, pending'[k].trail)
  <2> SUFFICES ASSUME NEW m \in 1 .. n + 2, NEW k \in 1 .. n + 2, m # k
      PROVE  Apart(pending'[m].trail, pending'[k].trail)
    BY <1>8
  <2>1. CASE (m = 1 \/ m = 2) /\ (k = 1 \/ k = 2)
    BY <1>8, <1>24, <2>1
  <2>2. CASE (m = 1 \/ m = 2) /\ \E i \in 1 .. n : k = i + 2
    BY <1>8, <1>23, <2>2
  <2>3. CASE (k = 1 \/ k = 2) /\ \E i \in 1 .. n : m = i + 2
    BY <1>8, <1>23, <2>3
  <2>4. CASE (\E i \in 1 .. n : m = i + 2) /\ \E i \in 1 .. n : k = i + 2
    <3>1. PICK i \in 1 .. n, j \in 1 .. n : m = i + 2 /\ k = j + 2
      BY <2>4
    <3>2. i + 1 # j + 1 /\ i + 1 \in 1 .. Len(pending) /\ j + 1 \in 1 .. Len(pending)
      BY <1>4, <1>17, <3>1
    <3>3. Apart(pending[i + 1].trail, pending[j + 1].trail)
      BY <1>1, <3>2 DEF TrailsPart
    <3>4. pending'[m] = pending[i + 1] /\ pending'[k] = pending[j + 1]
      BY <1>8, <3>1
    <3> QED
      BY <3>3, <3>4
  <2> QED
    BY <1>8, <2>1, <2>2, <2>3, <2>4
<1>27. \A g \in DOMAIN clusters : \A m \in 1 .. Len(pending') :
         Apart(g, pending'[m].trail) \/ Len(g) <= Len(pending'[m].trail)
  <2> SUFFICES ASSUME NEW g \in DOMAIN clusters, NEW m \in 1 .. n + 2
      PROVE  Apart(g, pending'[m].trail) \/ Len(g) <= Len(pending'[m].trail)
    BY <1>8
  <2>1. CASE m = 1 \/ m = 2
    BY <1>8, <1>25, <2>1
  <2>2. CASE \E i \in 1 .. n : m = i + 2
    BY <1>1, <1>4, <1>8, <2>2 DEF TrailsPart
  <2> QED
    BY <1>8, <2>1, <2>2
\* The groups.
<1>28. CASE l.in.level # 0
  <2>1. /\ Together(l.in, c.in) /\ Together(r.in, c.in) /\ l.group = c.group /\ r.group = c.group
        /\ Sub(c.in) = Own(c.in) \cup Sub(l.in) \cup Sub(r.in)
    BY <1>11, <1>12, <1>28
  <2>2. Together(l.in, clusters[c.group]) /\ Together(r.in, clusters[c.group])
    BY <1>16, <2>1 DEF Together
  <2>3. GroupsAreKnown(clusters)'
    <3>1. \A m \in 1 .. n + 2 : /\ pending'[m].group \in DOMAIN clusters
                                /\ Together(pending'[m].in, clusters[pending'[m].group])
      <4> SUFFICES ASSUME NEW m \in 1 .. n + 2
          PROVE  /\ pending'[m].group \in DOMAIN clusters
                 /\ Together(pending'[m].in, clusters[pending'[m].group])
        OBVIOUS
      <4>1. CASE m = 1 \/ m = 2
        BY <1>8, <1>16, <2>1, <2>2, <4>1
      <4>2. CASE \E k \in 1 .. n : m = k + 2
        BY <1>1, <1>4, <1>8, <4>2 DEF GroupsAreKnown
      <4> QED
        BY <1>8, <4>1, <4>2
    <3> QED
      BY <1>1, <1>8, <3>1 DEF GroupsAreKnown
  <2>4. SwitchesStand(clusters)'
    <3> SUFFICES ASSUME NEW s \in placed'
        PROVE  s.group \in DOMAIN clusters /\ \E y \in Nat : Stands(s, clusters[s.group], y)
      BY DEF SwitchesStand
    <3>1. CASE s \in placed
      BY <1>1, <3>1 DEF SwitchesStand
    <3>2. CASE \E k \in K : s = SwitchOf(c.group, c.in, k)
      <4>1. PICK k \in K : s = SwitchOf(c.group, c.in, k)
        BY <3>2
      <4>2. s.group = c.group
        BY <4>1 DEF SwitchOf
      <4>3. PICK y \in Nat : Stands(s, c.in, y)
        BY <1>13, <4>1
      <4>4. Stands(s, clusters[c.group], y)
        BY <1>16, <4>3, StandsTogether
      <4> QED
        BY <1>16, <4>2, <4>4
    <3> QED
      BY <1>10, <3>1, <3>2
  <2>5. ClustersFill(clusters)'
    <3> SUFFICES ASSUME NEW g \in DOMAIN clusters, NEW y \in ClusterSpan(clusters[g])
        PROVE  \/ \E s \in placed' : s.group = g /\ Stands(s, clusters[g], y)
               \/ \E m \in 1 .. n + 2 : pending'[m].group = g /\ y \in Sub(pending'[m].in)
      BY <1>8 DEF ClustersFill
    <3>1. CASE \E s \in placed : s.group = g /\ Stands(s, clusters[g], y)
      BY <1>10, <3>1
    <3>2. CASE \E m \in 1 .. n + 1 : pending[m].group = g /\ y \in Sub(pending[m].in)
      <4>1. PICK m \in 1 .. n + 1 : pending[m].group = g /\ y \in Sub(pending[m].in)
        BY <3>2
      <4>2. CASE \E k \in 1 .. n : m = k + 1
        BY <1>8, <4>1, <4>2
      <4>3. CASE m = 1
        <5>1. g = c.group /\ y \in Sub(c.in)
          BY <4>1, <4>3 DEF c
        <5>2. CASE y \in Own(c.in)
          <6>1. PICK k \in K : Stands(SwitchOf(c.group, c.in, k), c.in, y)
            BY <1>13, <5>2
          <6>2. Stands(SwitchOf(c.group, c.in, k), clusters[g], y)
            BY <1>16, <5>1, <6>1, StandsTogether
          <6>3. SwitchOf(c.group, c.in, k).group = g
            BY <5>1 DEF SwitchOf
          <6> QED
            BY <1>10, <6>2, <6>3
        <5>3. CASE y \in Sub(l.in)
          BY <1>8, <1>18, <2>1, <5>1, <5>3
        <5>4. CASE y \in Sub(r.in)
          BY <1>8, <1>18, <2>1, <5>1, <5>4
        <5> QED
          BY <2>1, <5>1, <5>2, <5>3, <5>4
      <4> QED
        BY <1>19, <4>2, <4>3
    <3> QED
      BY <1>1, <1>4, <3>1, <3>2 DEF ClustersFill
  <2>6. TrailsPart(clusters)'
    BY <1>1, <1>26, <1>27 DEF TrailsPart
  <2> QED
    BY <2>3, <2>4, <2>5, <2>6 DEF PacketInv
<1>29. CASE l.in.level = 0
  <2>1. /\ r.in.level = 0 /\ Sub(c.in) = Own(c.in)
        /\ Sub(l.in) = ClusterSpan(l.in) /\ Sub(r.in) = ClusterSpan(r.in)
        /\ l.group = l.trail /\ r.group = r.trail
    BY <1>11, <1>12, <1>29
  <2>2. l.group \notin DOMAIN clusters /\ r.group \notin DOMAIN clusters /\ l.group # r.group
    BY <1>24, <1>25, <2>1
  <2>3. /\ DOMAIN more = DOMAIN clusters \cup {l.group, r.group}
        /\ \A g \in DOMAIN clusters : more[g] = clusters[g]
        /\ more[l.group] = l.in /\ more[r.group] = r.in
    BY <1>21, <2>2
  <2>4. GroupsAreKnown(more)'
    <3>1. \A m \in 1 .. n + 2 : /\ pending'[m].group \in DOMAIN more
                                /\ Together(pending'[m].in, more[pending'[m].group])
      <4> SUFFICES ASSUME NEW m \in 1 .. n + 2
          PROVE  /\ pending'[m].group \in DOMAIN more
                 /\ Together(pending'[m].in, more[pending'[m].group])
        OBVIOUS
      <4>1. CASE m = 1 \/ m = 2
        BY <1>8, <2>3, <4>1 DEF Together
      <4>2. CASE \E k \in 1 .. n : m = k + 2
        BY <1>1, <1>4, <1>8, <2>3, <4>2 DEF GroupsAreKnown
      <4> QED
        BY <1>8, <4>1, <4>2
    <3>2. \A g \in DOMAIN more :
            IsCluster(more[g]) /\ more[g].base \in Nat /\ g \in Seq(BOOLEAN)
      BY <1>1, <1>14, <1>15, <2>1, <2>3 DEF GroupsAreKnown
    <3> QED
      BY <1>8, <3>1, <3>2 DEF GroupsAreKnown
  <2>5. SwitchesStand(more)'
    <3> SUFFICES ASSUME NEW s \in placed'
        PROVE  s.group \in DOMAIN more /\ \E y \in Nat : Stands(s, more[s.group], y)
      BY DEF SwitchesStand
    <3>1. CASE s \in placed
      BY <1>1, <2>3, <3>1 DEF SwitchesStand
    <3>2. CASE \E k \in K : s = SwitchOf(c.group, c.in, k)
      <4>1. PICK k \in K : s = SwitchOf(c.group, c.in, k)
        BY <3>2
      <4>2. s.group = c.group
        BY <4>1 DEF SwitchOf
      <4>3. PICK y \in Nat : Stands(s, c.in, y)
        BY <1>13, <4>1
      <4>4. Stands(s, clusters[c.group], y)
        BY <1>16, <4>3, StandsTogether
      <4> QED
        BY <1>16, <2>3, <4>2, <4>4
    <3> QED
      BY <1>10, <3>1, <3>2
  <2>6. ClustersFill(more)'
    <3> SUFFICES ASSUME NEW g \in DOMAIN more, NEW y \in ClusterSpan(more[g])
        PROVE  \/ \E s \in placed' : s.group = g /\ Stands(s, more[g], y)
               \/ \E m \in 1 .. n + 2 : pending'[m].group = g /\ y \in Sub(pending'[m].in)
      BY <1>8 DEF ClustersFill
    <3>1. CASE g \in DOMAIN clusters
      <4>1. y \in ClusterSpan(clusters[g]) /\ more[g] = clusters[g]
        BY <2>3, <3>1
      <4>2. CASE \E s \in placed : s.group = g /\ Stands(s, clusters[g], y)
        BY <1>10, <4>1, <4>2
      <4>3. CASE \E m \in 1 .. n + 1 : pending[m].group = g /\ y \in Sub(pending[m].in)
        <5>1. PICK m \in 1 .. n + 1 : pending[m].group = g /\ y \in Sub(pending[m].in)
          BY <4>3
        <5>2. CASE \E k \in 1 .. n : m = k + 1
          BY <1>8, <5>1, <5>2
        <5>3. CASE m = 1
          <6>1. g = c.group /\ y \in Own(c.in)
            BY <2>1, <5>1, <5>3 DEF c
          <6>2. PICK k \in K : Stands(SwitchOf(c.group, c.in, k), c.in, y)
            BY <1>13, <6>1
          <6>3. Stands(SwitchOf(c.group, c.in, k), clusters[g], y)
            BY <1>16, <6>1, <6>2, StandsTogether
          <6>4. SwitchOf(c.group, c.in, k).group = g
            BY <6>1 DEF SwitchOf
          <6> QED
            BY <1>10, <4>1, <6>3, <6>4
        <5> QED
          BY <1>19, <5>2, <5>3
      <4> QED
        BY <1>1, <1>4, <3>1, <4>1, <4>2, <4>3 DEF ClustersFill
    <3>2. CASE g = l.group
      BY <1>8, <1>18, <2>1, <2>3, <3>2
    <3>3. CASE g = r.group
      BY <1>8, <1>18, <2>1, <2>3, <3>3
    <3> QED
      BY <2>3, <3>1, <3>2, <3>3
  <2>7. TrailsPart(more)'
    <3>1. \A g \in DOMAIN more : \A m \in 1 .. Len(pending') :
            Apart(g, pending'[m].trail) \/ Len(g) <= Len(pending'[m].trail)
      <4> SUFFICES ASSUME NEW m \in 1 .. n + 2, NEW g \in {l.trail, r.trail}
          PROVE  Apart(g, pending'[m].trail) \/ Len(g) <= Len(pending'[m].trail)
        BY <1>8, <1>27, <2>1, <2>3
      <4>1. CASE m = 1 \/ m = 2
        BY <1>8, <1>15, <4>1
      <4>2. CASE \E i \in 1 .. n : m = i + 2
        BY <1>8, <1>23, <4>2
      <4> QED
        BY <1>8, <4>1, <4>2
    <3> QED
      BY <1>26, <3>1 DEF TrailsPart
  <2> QED
    BY <2>4, <2>5, <2>6, <2>7 DEF PacketInv
<1> QED
  BY <1>28, <1>29

LEMMA AlwaysPacketInv == Spec => []PacketInv
<1>1. ASSUME PacketInv, UNCHANGED vars PROVE PacketInv'
  <2>1. placed' = placed /\ pending' = pending
    BY <1>1 DEF vars
  <2>2. PICK clusters : /\ GroupsAreKnown(clusters) /\ SwitchesStand(clusters)
                        /\ ClustersFill(clusters) /\ TrailsPart(clusters)
    BY <1>1 DEF PacketInv
  <2>3. /\ GroupsAreKnown(clusters)' /\ SwitchesStand(clusters)'
        /\ ClustersFill(clusters)' /\ TrailsPart(clusters)'
    BY <2>1, <2>2 DEF GroupsAreKnown, SwitchesStand, ClustersFill, TrailsPart
  <2> QED
    BY <2>3 DEF PacketInv
<1>2. WalkInv /\ PacketInv /\ [Next]_vars => PacketInv'
  BY <1>1, LeafPackets, NodePackets DEF Next
<1> QED
  BY <1>2, InitPackets, AlwaysWalkInv, PTL DEF Spec

LEMMA PacketsFill == PacketInv => PacketsAreContiguous
<1> SUFFICES ASSUME PacketInv, Ended,
                    NEW p \in placed, NEW q \in placed, p.group = q.group, p.packet = q.packet
    PROVE  /\ p.level < q.level => p.bit < q.bit
           /\ \A b \in p.bit .. q.bit :
                \E r \in placed : r.bit = b /\ r.group = p.group /\ r.packet = p.packet
  BY DEF PacketsAreContiguous
<1>1. PICK clusters : /\ GroupsAreKnown(clusters) /\ SwitchesStand(clusters)
                      /\ ClustersFill(clusters)
  BY DEF PacketInv
<1>2. \A m \in 1 .. Len(pending) : FALSE
  BY DEF Ended
<1> DEFINE a == clusters[p.group]  placing == {s \in placed : s.group = p.group}
<1>3. p.group \in DOMAIN clusters /\ IsCluster(a) /\ a.base \in Nat
  BY <1>1 DEF SwitchesStand, GroupsAreKnown
<1>4. \A s \in placing : \E y \in Nat : Stands(s, a, y)
  BY <1>1 DEF SwitchesStand
<1>5. \A y \in ClusterSpan(a) : \E s \in placing : Stands(s, a, y)
  BY <1>1, <1>2, <1>3 DEF ClustersFill
<1>6. p \in placing /\ q \in placing
  OBVIOUS
<1>7. /\ p.level < q.level => p.bit < q.bit
      /\ \A b \in p.bit .. q.bit : \E r \in placing : r.bit = b /\ r.packet = p.packet
  <2> HIDE DEF a, placing
  <2> QED
    BY <1>3, <1>4, <1>5, <1>6, FullCluster
<1> QED
  BY <1>7

\* For every size and all cluster lists: when the encoder is through, the
\* switches of a packet stand next to each other in the input section, those of
\* nearer levels first, so that a lookup finds them with one read.
THEOREM PacketsAlwaysContiguous == Spec => []PacketsAreContiguous
BY AlwaysPacketInv, PacketsFill, PTL

-----------------------------------------------------------------------------
(* What the cache holds.                                                     *)

\* Asked for the metrics of n, the cache gets sizes of the subnetworks of n only.
LEMMA MetricsWithin ==
  ASSUME NEW n \in Nat, NEW sizes \in SUBSET Nat, n > LeafSize => n \in sizes,
         \A k \in sizes : LeftCount(k) > LeafSize => LeftCount(k) \in sizes,
         \A k \in sizes : RightCount(k) > LeafSize => RightCount(k) \in sizes,
         NEW held \in SUBSET sizes
  PROVE  MetricsAfter(held, n) \subseteq sizes
<1> DEFINE V == [SUBSET Nat -> SUBSET Nat]
           Turn(k, x, y, h) == IF k \in h THEN h ELSE y[x[h]] \cup {k}
           leaf == [k \in Nat |-> [h \in SUBSET Nat |-> h]]
           step == [k \in Nat |-> [x \in V |-> [y \in V |->
                      [h \in SUBSET Nat |-> Turn(k, x, y, h)]]]]
<1>1. IsHalving(leaf, step, V)
  <2>1. leaf \in [Nat -> V]
    OBVIOUS
  <2>2. ASSUME NEW k \in Nat, NEW x \in V, NEW y \in V
        PROVE  [h \in SUBSET Nat |-> Turn(k, x, y, h)] \in V
    <3>1. ASSUME NEW h \in SUBSET Nat PROVE Turn(k, x, y, h) \in SUBSET Nat
      <4>1. x[h] \in SUBSET Nat
        OBVIOUS
      <4>2. y[x[h]] \in SUBSET Nat
        BY <4>1
      <4>3. y[x[h]] \cup {k} \in SUBSET Nat
        BY <4>2
      <4> QED
        BY <4>3
    <3> HIDE DEF Turn
    <3> QED
      BY <3>1
  <2> HIDE DEF V, Turn
  <2>3. step \in [Nat -> [V -> [V -> V]]]
    BY <2>2
  <2> QED
    BY <2>1, <2>3 DEF IsHalving
<1>2. PICK f : Halved(f, leaf, step, V)
  <2> HIDE DEF leaf, step, V
  <2> QED
    BY <1>1, HalvedExists
<1> DEFINE Body(A, k, h) == IF k <= LeafSize \/ k \in h THEN h
                            ELSE A[RightCount(k)][A[LeftCount(k)][h]] \cup {k}
           IsIt(A) == A = [k \in 0 .. n |-> [h \in SUBSET Nat |-> Body(A, k, h)]]
           After == CHOOSE A : IsIt(A)
           g == [k \in 0 .. n |-> f[k]]
<1>3. MetricsAfter(held, n) = After[n][held]
  BY DEF MetricsAfter
<1>4. IsIt(g)
  <2>1. ASSUME NEW h \in SUBSET Nat, NEW k \in 0 .. n
        PROVE  f[k][h] = IF k <= LeafSize \/ k \in h THEN h
                         ELSE g[RightCount(k)][g[LeftCount(k)][h]] \cup {k}
    <3>0. k \in Nat
      OBVIOUS
    <3>1. CASE k <= LeafSize
      <4>1. f[k] = leaf[k]
        BY <1>2, <3>0, <3>1 DEF Halved
      <4> QED
        BY <3>0, <3>1, <4>1
    <3>2. CASE ~(k <= LeafSize)
      <4> DEFINE x == f[LeftCount(k)]  y == f[RightCount(k)]
      <4>1. LeftCount(k) \in 1 .. k - 1 /\ RightCount(k) \in 1 .. k - 1
            /\ LeftCount(k) \in Nat /\ RightCount(k) \in Nat
        BY <3>0, <3>2, Children
      <4>2. x \in V /\ y \in V
        <5> HIDE DEF V
        <5> QED
          BY <1>2, <4>1 DEF Halved
      <4>3. f[k] = step[k][x][y]
        BY <1>2, <3>0, <3>2 DEF Halved
      <4>4. LeftCount(k) \in 0 .. n /\ RightCount(k) \in 0 .. n
        BY <3>0, <4>1
      <4>5. x[h] \in SUBSET Nat
        BY <4>2
      <4>6. g[LeftCount(k)] = x
        BY <4>4
      <4>7. g[RightCount(k)] = y
        BY <4>4, <4>5
      <4>8. f[k][h] = Turn(k, x, y, h)
        <5> HIDE DEF V, Turn, x, y
        <5> QED
          BY <3>0, <4>2, <4>3
      <4> HIDE DEF g, x, y
      <4> QED
        BY <3>2, <4>6, <4>7, <4>8
    <3> QED
      BY <3>1, <3>2
  <2>2. \A h \in SUBSET Nat : \A k \in 0 .. n : f[k][h] = Body(g, k, h)
    <3> HIDE DEF leaf, step, V, g
    <3> QED
      BY <2>1
  <2> HIDE DEF Body, leaf, step
  <2>3. \A k \in 0 .. n : f[k] = [h \in SUBSET Nat |-> Body(g, k, h)]
    <3>1. \A k \in 0 .. n : f[k] \in V
      <4> HIDE DEF V
      <4> QED
        BY <1>2 DEF Halved
    <3> HIDE DEF g
    <3>2. ASSUME NEW k \in 0 .. n PROVE f[k] = [h \in SUBSET Nat |-> Body(g, k, h)]
      <4>1. f[k] = [h \in SUBSET Nat |-> f[k][h]]
        BY <3>1
      <4> QED
        BY <2>2, <4>1
    <3> QED
      BY <3>2
  <2> QED
    BY <2>3
<1>5. IsIt(After)
  <2> HIDE DEF IsIt
  <2> QED
    BY <1>4
<1>6. \A h \in SUBSET Nat : \A k \in 0 .. n :
        After[k][h] = IF k <= LeafSize \/ k \in h THEN h
                      ELSE After[RightCount(k)][After[LeftCount(k)][h]] \cup {k}
  <2> HIDE DEF After
  <2>1. \A h \in SUBSET Nat : \A k \in 0 .. n : After[k][h] = Body(After, k, h)
    <3> HIDE DEF Body
    <3>1. \A k \in 0 .. n : After[k] = [h \in SUBSET Nat |-> Body(After, k, h)]
      BY <1>5
    <3> QED
      BY <3>1
  <2> QED
    BY <2>1
<1> HIDE DEF After, g, IsIt, Body, V, leaf, step
<1>7. LeafSize \in Nat /\ \A k \in Nat : ~(k <= LeafSize) => k > LeafSize
  BY LeafSizes
<1> DEFINE S == {k \in Nat : k <= n /\ (k > LeafSize => k \in sizes) =>
                    \A h \in SUBSET sizes : After[k][h] \in SUBSET sizes}
<1>8. ASSUME NEW k \in Nat, \A j \in 0 .. k - 1 : j \in S PROVE k \in S
  <2> SUFFICES ASSUME k <= n, k > LeafSize => k \in sizes, NEW h \in SUBSET sizes
      PROVE  After[k][h] \in SUBSET sizes
    OBVIOUS
  <2>1. k \in 0 .. n /\ h \in SUBSET Nat
    OBVIOUS
  <2>2. CASE k <= LeafSize \/ k \in h
    BY <1>6, <2>1, <2>2
  <2>3. CASE ~(k <= LeafSize) /\ k \notin h
    <3>1. /\ LeftCount(k) \in 0 .. k - 1 /\ RightCount(k) \in 0 .. k - 1
          /\ LeftCount(k) <= n /\ RightCount(k) <= n
      BY <2>3, Children
    <3>0. k > LeafSize
      BY <1>7, <2>3
    <3>2. /\ k \in sizes
          /\ LeftCount(k) > LeafSize => LeftCount(k) \in sizes
          /\ RightCount(k) > LeafSize => RightCount(k) \in sizes
      BY <3>0
    <3>3. LeftCount(k) \in S /\ RightCount(k) \in S
      BY <1>8, <3>1
    <3>4. After[LeftCount(k)][h] \in SUBSET sizes
      BY <3>1, <3>2, <3>3
    <3>5. After[RightCount(k)][After[LeftCount(k)][h]] \in SUBSET sizes
      BY <3>1, <3>2, <3>3, <3>4
    <3>6. After[k][h] = After[RightCount(k)][After[LeftCount(k)][h]] \cup {k}
      BY <1>6, <2>1, <2>3
    <3> QED
      BY <3>2, <3>5, <3>6
  <2> QED
    BY <2>2, <2>3
<1>9. Nat \subseteq S
  <2> HIDE DEF S
  <2> QED
    BY <1>8, FromAllBefore
<1>10. After[n][held] \in SUBSET sizes
  <2>1. \A h \in SUBSET sizes : After[n][h] \in SUBSET sizes
    BY <1>9
  <2> QED
    BY <2>1
<1> QED
  BY <1>3, <1>10

\* Asked for the packets of n on depth levels, it gets pairs of the subnetworks
\* of n only.
LEMMA PairsWithin ==
  ASSUME NEW n \in Nat, NEW depth \in Nat, NEW pairs \in SUBSET (Nat \X Nat),
         n > LeafSize /\ depth # 0 => <<n, depth>> \in pairs,
         \A k \in Nat : \A d \in Nat \ {0} : <<k, d + 1>> \in pairs =>
           (LeftCount(k) > LeafSize => <<LeftCount(k), d>> \in pairs),
         \A k \in Nat : \A d \in Nat \ {0} : <<k, d + 1>> \in pairs =>
           (RightCount(k) > LeafSize => <<RightCount(k), d>> \in pairs),
         NEW held \in SUBSET pairs
  PROVE  PacketsAfter(held, n, depth) \subseteq pairs
<1> DEFINE P == Nat \X Nat
           V == [SUBSET P -> SUBSET P]
           X == [Nat -> V]
           Turn(x, k, d, h) == IF k <= LeafSize \/ <<k, d + 1>> \in h THEN h
                               ELSE x[RightCount(k)][x[LeftCount(k)][h]] \cup {<<k, d + 1>>}
           start == [k \in Nat |-> [h \in SUBSET P |-> h]]
           step == [d \in Nat |-> [x \in X |->
                      [k \in Nat |-> [h \in SUBSET P |-> Turn(x, k, d, h)]]]]
<1>1. IsStep(start, step, X)
  <2>1. start \in X
    OBVIOUS
  <2>2. ASSUME NEW x \in X, NEW k \in Nat, NEW d \in Nat, NEW h \in SUBSET P
        PROVE  Turn(x, k, d, h) \in SUBSET P
    <3>1. CASE k <= LeafSize \/ <<k, d + 1>> \in h
      BY <3>1
    <3>2. CASE ~(k <= LeafSize \/ <<k, d + 1>> \in h)
      <4>1. LeftCount(k) \in Nat /\ RightCount(k) \in Nat /\ <<k, d + 1>> \in P
        BY <3>2, Children
      <4>2. x[LeftCount(k)] \in V /\ x[RightCount(k)] \in V
        BY <4>1
      <4>3. x[LeftCount(k)][h] \in SUBSET P
        BY <4>2
      <4>4. x[RightCount(k)][x[LeftCount(k)][h]] \in SUBSET P
        BY <4>2, <4>3
      <4> HIDE DEF P
      <4> QED
        BY <3>2, <4>1, <4>4
    <3> QED
      BY <3>1, <3>2
  <2> HIDE DEF Turn, P
  <2>3. step \in [Nat -> [X -> X]]
    BY <2>2
  <2> QED
    BY <2>1, <2>3 DEF IsStep
<1>2. PICK f : Follows(f, start, step, X)
  <2> HIDE DEF start, step, X
  <2> QED
    BY <1>1, FunctionExists
<1>3. \A d \in Nat : f[d] \in X
  <2> HIDE DEF X
  <2> QED
    BY <1>2 DEF Follows
<1>4. \A k \in Nat : \A h \in SUBSET P : f[0][k][h] = h
  BY <1>2 DEF Follows
<1>5. \A d \in Nat : \A k \in Nat : \A h \in SUBSET P : f[d + 1][k][h] = Turn(f[d], k, d, h)
  <2>1. \A d \in Nat : \A x \in X : step[d][x] =
          [k \in Nat |-> [h \in SUBSET P |-> Turn(x, k, d, h)]]
    <3> HIDE DEF X, Turn, P
    <3> QED
      OBVIOUS
  <2> HIDE DEF step, X, Turn, P
  <2>2. ASSUME NEW d \in Nat
        PROVE  f[d + 1] = [k \in Nat |-> [h \in SUBSET P |-> Turn(f[d], k, d, h)]]
    <3>1. f[d + 1] = step[d][f[d]]
      BY <1>2 DEF Follows
    <3>2. f[d] \in X
      BY <1>3
    <3> DEFINE x == f[d]
    <3>3. x \in X
      BY <3>2
    <3> HIDE DEF x
    <3>4. step[d][x] = [k \in Nat |-> [h \in SUBSET P |-> Turn(x, k, d, h)]]
      BY <2>1, <3>3
    <3> QED
      BY <3>1, <3>4 DEF x
  <2>3. ASSUME NEW d \in Nat, NEW k \in Nat, NEW h \in SUBSET P
        PROVE  f[d + 1][k][h] = Turn(f[d], k, d, h)
    <3>1. f[d + 1][k] = [i \in SUBSET P |-> Turn(f[d], k, d, i)]
      BY <2>2
    <3> QED
      BY <3>1
  <2> QED
    BY <2>3
<1> DEFINE Body(A, d, k, h) == IF k <= LeafSize \/ d = 0 \/ <<k, d>> \in h THEN h
                               ELSE A[d - 1][RightCount(k)][A[d - 1][LeftCount(k)][h]]
                                      \cup {<<k, d>>}
           IsIt(A) == A = [d \in 0 .. depth |-> [k \in 0 .. n |->
                             [h \in SUBSET P |-> Body(A, d, k, h)]]]
           After == CHOOSE A : IsIt(A)
           g == [d \in 0 .. depth |-> [k \in 0 .. n |-> f[d][k]]]
<1>6. PacketsAfter(held, n, depth) = After[depth][n][held]
  BY DEF PacketsAfter
<1>7. ASSUME NEW d \in 0 .. depth, NEW k \in 0 .. n, NEW h \in SUBSET P
      PROVE  f[d][k][h] = Body(g, d, k, h)
  <2>0. k \in Nat /\ d \in Nat
    OBVIOUS
  <2>1. CASE d = 0
    BY <1>4, <2>0, <2>1
  <2>2. CASE d # 0
    <3> DEFINE e == d - 1
    <3>1. e \in Nat /\ e + 1 = d /\ e \in 0 .. depth
      BY <2>2
    <3> HIDE DEF e
    <3>2. f[d][k][h] = Turn(f[e], k, e, h)
      <4> HIDE DEF Turn
      <4> QED
        BY <1>5, <2>0, <3>1
    <3>3. CASE k <= LeafSize
      BY <3>2, <3>3
    <3>4. CASE ~(k <= LeafSize)
      <4>1. LeftCount(k) \in 1 .. k - 1 /\ RightCount(k) \in 1 .. k - 1
        BY <2>0, <3>4, Children
      <4>2. LeftCount(k) \in 0 .. n /\ RightCount(k) \in 0 .. n
        BY <2>0, <4>1
      <4>3. g[e] = [j \in 0 .. n |-> f[e][j]]
        BY <3>1
      <4>4. g[e][LeftCount(k)] = f[e][LeftCount(k)] /\ g[e][RightCount(k)] = f[e][RightCount(k)]
        BY <4>2, <4>3
      <4>5. d - 1 = e
        BY DEF e
      <4> HIDE DEF g, P
      <4> QED
        BY <2>2, <3>1, <3>2, <3>4, <4>4, <4>5
    <3> QED
      BY <3>3, <3>4
  <2> QED
    BY <2>1, <2>2
<1>8. IsIt(g)
  <2> HIDE DEF Body, Turn, start, step
  <2>1. ASSUME NEW d \in 0 .. depth, NEW k \in 0 .. n PROVE f[d][k] \in V
    <3>1. d \in Nat /\ k \in Nat
      OBVIOUS
    <3> HIDE DEF V, P
    <3>2. f[d] \in [Nat -> V]
      BY <1>3, <3>1
    <3> QED
      BY <3>1, <3>2
  <2> HIDE DEF P
  <2>2. ASSUME NEW d \in 0 .. depth, NEW k \in 0 .. n
        PROVE  f[d][k] = [h \in SUBSET P |-> Body(g, d, k, h)]
    <3>1. f[d][k] = [h \in SUBSET P |-> f[d][k][h]]
      BY <2>1
    <3> HIDE DEF g
    <3> QED
      BY <1>7, <3>1
  <2> QED
    BY <2>2
<1>9. IsIt(After)
  <2> HIDE DEF IsIt
  <2> QED
    BY <1>8
<1> HIDE DEF After
<1>10. \A d \in 0 .. depth : \A k \in 0 .. n : \A h \in SUBSET P :
         After[d][k][h] = Body(After, d, k, h)
  <2> HIDE DEF Body, P
  <2>1. \A d \in 0 .. depth :
          After[d] = [k \in 0 .. n |-> [h \in SUBSET P |-> Body(After, d, k, h)]]
    BY <1>9
  <2>2. \A d \in 0 .. depth : \A k \in 0 .. n :
          After[d][k] = [h \in SUBSET P |-> Body(After, d, k, h)]
    BY <2>1
  <2>3. ASSUME NEW d \in 0 .. depth, NEW k \in 0 .. n, NEW h \in SUBSET P
        PROVE  After[d][k][h] = Body(After, d, k, h)
    <3>1. After[d][k] = [i \in SUBSET P |-> Body(After, d, k, i)]
      BY <2>2
    <3> QED
      BY <3>1
  <2> QED
    BY <2>3
<1> HIDE DEF g, IsIt, start, step, V, X
<1>11. LeafSize \in Nat /\ \A k \in Nat : ~(k <= LeafSize) => k > LeafSize
  BY LeafSizes
<1> DEFINE S == {d \in Nat : d <= depth => \A k \in 0 .. n :
                   (k > LeafSize /\ d # 0 => <<k, d>> \in pairs) =>
                     \A h \in SUBSET pairs : After[d][k][h] \in SUBSET pairs}
<1>12. 0 \in S
  <2>1. ASSUME 0 <= depth, NEW k \in 0 .. n, NEW h \in SUBSET pairs
        PROVE  After[0][k][h] \in SUBSET pairs
    <3>1. 0 \in 0 .. depth /\ h \in SUBSET P
      OBVIOUS
    <3>2. After[0][k][h] = Body(After, 0, k, h)
      <4> HIDE DEF Body
      <4> QED
        BY <1>10, <3>1
    <3>3. Body(After, 0, k, h) = h
      OBVIOUS
    <3> QED
      BY <3>2, <3>3
  <2> QED
    BY <2>1
<1>13. ASSUME NEW d \in Nat, d \in S PROVE d + 1 \in S
  <2> SUFFICES ASSUME d + 1 <= depth, NEW k \in 0 .. n,
                      k > LeafSize /\ d + 1 # 0 => <<k, d + 1>> \in pairs,
                      NEW h \in SUBSET pairs
      PROVE  After[d + 1][k][h] \in SUBSET pairs
    OBVIOUS
  <2>1. d + 1 \in 0 .. depth /\ h \in SUBSET P /\ d + 1 # 0 /\ (d + 1) - 1 = d /\ k \in Nat
    OBVIOUS
  <2>2. After[d + 1][k][h] = Body(After, d + 1, k, h)
    <3> HIDE DEF Body
    <3> QED
      BY <1>10, <2>1
  <2>3. CASE k <= LeafSize \/ <<k, d + 1>> \in h
    <3>1. Body(After, d + 1, k, h) = h
      BY <2>3
    <3> QED
      BY <2>2, <3>1
  <2>4. CASE ~(k <= LeafSize) /\ <<k, d + 1>> \notin h
    <3>1. /\ LeftCount(k) \in 0 .. n /\ RightCount(k) \in 0 .. n
      <4>1. LeftCount(k) \in 1 .. k - 1 /\ RightCount(k) \in 1 .. k - 1
        BY <2>1, <2>4, Children
      <4> QED
        BY <2>1, <4>1
    <3>2. <<k, d + 1>> \in pairs
      BY <1>11, <2>1, <2>4
    <3>3. /\ LeftCount(k) > LeafSize /\ d # 0 => <<LeftCount(k), d>> \in pairs
          /\ RightCount(k) > LeafSize /\ d # 0 => <<RightCount(k), d>> \in pairs
      BY <2>1, <3>2
    <3>4. \A j \in 0 .. n : (j > LeafSize /\ d # 0 => <<j, d>> \in pairs) =>
             \A i \in SUBSET pairs : After[d][j][i] \in SUBSET pairs
      BY <1>13
    <3>5. After[d][LeftCount(k)][h] \in SUBSET pairs
      BY <3>1, <3>3, <3>4
    <3>6. After[d][RightCount(k)][After[d][LeftCount(k)][h]] \in SUBSET pairs
      BY <3>1, <3>3, <3>4, <3>5
    <3>7. After[d + 1][k][h]
            = After[d][RightCount(k)][After[d][LeftCount(k)][h]] \cup {<<k, d + 1>>}
      <4>1. ~(k <= LeafSize \/ d + 1 = 0 \/ <<k, d + 1>> \in h)
        BY <2>1, <2>4
      <4> QED
        BY <2>1, <2>2, <4>1
    <3> QED
      BY <3>2, <3>6, <3>7
  <2> QED
    BY <2>3, <2>4
<1>14. Nat \subseteq S
  <2> HIDE DEF S
  <2> QED
    BY <1>12, <1>13, Induction
<1>15. After[depth][n][held] \in SUBSET pairs
  <2>1. \A k \in 0 .. n : (k > LeafSize /\ depth # 0 => <<k, depth>> \in pairs) =>
          \A h \in SUBSET pairs : After[depth][k][h] \in SUBSET pairs
    BY <1>14
  <2>2. n \in 0 .. n
    OBVIOUS
  <2> QED
    BY <2>1, <2>2
<1> QED
  BY <1>6, <1>15

-----------------------------------------------------------------------------
(* The sizes on a level.                                                     *)

\* The sizes of the inner nodes that level l of the network for n values has.
LevelSizes(n, l) ==
  {m \in Nat : /\ m > LeafSize
               /\ m = n \div PowerOfTwo[l] \/ (l # 0 /\ m = n \div PowerOfTwo[l] + 1)
               /\ RoutingDepth(m) + l <= RoutingDepth(n)}

InnerSizes(n) == {m \in Nat : \E l \in Nat : m \in LevelSizes(n, l)}

\* The cluster that level l belongs to has d levels from there on.
Remain(s, l, d) ==
  \E i \in 1 .. Len(s) : Sums(s)[i - 1] <= l /\ l < Sums(s)[i] /\ d = Sums(s)[i] - l

PacketPairs(n, s) ==
  {p \in Nat \X Nat : \E l \in Nat : p[1] \in LevelSizes(n, l) /\ Remain(s, l, p[2])}

LEMMA Halves ==
  ASSUME NEW x \in Nat, NEW m \in {x, x + 1}, NEW right \in BOOLEAN
  PROVE  ChildCount(right, m) = x \div 2 \/ ChildCount(right, m) = x \div 2 + 1
<1>1. x % 2 = 0 \/ x % 2 = 1
  OBVIOUS
<1>2. x % 2 = 0 => (x + 1) % 2 = 1 /\ (x + 1) \div 2 = x \div 2
  OBVIOUS
<1>3. x % 2 = 1 => (x + 1) % 2 = 0 /\ (x + 1) \div 2 = x \div 2 + 1
  OBVIOUS
<1>4. x \div 2 \in Nat /\ x \div 2 + 0 = x \div 2 /\ (x \div 2 + 1) + 0 = x \div 2 + 1
  OBVIOUS
<1>5. CASE m = x
  BY <1>1, <1>4, <1>5 DEF ChildCount, LeftCount, RightCount
<1>6. CASE m = x + 1
  BY <1>1, <1>2, <1>3, <1>4, <1>6 DEF ChildCount, LeftCount, RightCount
<1> QED
  BY <1>5, <1>6

LEMMA NextSizes ==
  ASSUME NEW n \in Nat, NEW l \in Nat, NEW m \in LevelSizes(n, l), NEW right \in BOOLEAN,
         ChildCount(right, m) > LeafSize
  PROVE  ChildCount(right, m) \in LevelSizes(n, l + 1)
<1> DEFINE w == PowerOfTwo[l]  x == n \div w  c == ChildCount(right, m)
<1>1. m \in Nat /\ m > LeafSize /\ (m = x \/ m = x + 1)
      /\ RoutingDepth(m) + l <= RoutingDepth(n)
  BY DEF LevelSizes
<1>2. w \in Nat \ {0}
  BY PowerFacts
<1>3. x \in Nat
  <2> HIDE DEF w
  <2> QED
    BY <1>2, DivisionFacts
<1>4. n \div PowerOfTwo[l + 1] = x \div 2
  BY NextPower
<1> HIDE DEF w, x
<1>5. c = x \div 2 \/ c = x \div 2 + 1
  BY <1>1, <1>3, Halves
<1>6. /\ c \in Nat /\ RoutingDepth(m) \in Nat /\ RoutingDepth(c) \in Nat
      /\ RoutingDepth(c) + 1 <= RoutingDepth(m)
  BY <1>1, ChildDepth
<1>7. RoutingDepth(n) \in Nat
  BY RoutingDepthFacts
<1> DEFINE a == RoutingDepth(m)  b == RoutingDepth(c)  d == RoutingDepth(n)
<1>8. a \in Nat /\ b \in Nat /\ d \in Nat /\ b + 1 <= a /\ a + l <= d
  BY <1>1, <1>6, <1>7
<1> HIDE DEF a, b, d
<1>9. b + (l + 1) <= d
  BY <1>8
<1>10. l + 1 # 0 /\ c > LeafSize
  OBVIOUS
<1> HIDE DEF c
<1> QED
  BY <1>4, <1>5, <1>6, <1>9, <1>10 DEF LevelSizes, b, d, c

\* Only the levels above the leaves have inner nodes.
LEMMA LevelsOfSizes ==
  ASSUME NEW n \in Nat, NEW l \in Nat, NEW m \in LevelSizes(n, l)
  PROVE  l \in 0 .. RoutingDepth(n) - 1
<1>1. m \in Nat /\ m > LeafSize /\ RoutingDepth(m) + l <= RoutingDepth(n)
  BY DEF LevelSizes
<1>2. FALSE \in BOOLEAN
  OBVIOUS
<1> DEFINE a == RoutingDepth(m)  b == RoutingDepth(ChildCount(FALSE, m))  d == RoutingDepth(n)
<1>3. a \in Nat /\ b \in Nat /\ b + 1 <= a
  BY <1>1, <1>2, ChildDepth
<1>4. d \in Nat /\ a + l <= d
  BY <1>1, RoutingDepthFacts
<1> HIDE DEF a, b, d
<1>5. l \in 0 .. d - 1
  BY <1>3, <1>4
<1> QED
  BY <1>5 DEF d

\* One thing for each level and another for each but the first.
LEMMA TwoForALevel ==
  ASSUME NEW D \in Nat, D > 0, NEW f, NEW g, NEW T,
         \A t \in T : \/ \E l \in 0 .. D - 1 : t = f[l]
                      \/ \E l \in 1 .. D - 1 : t = g[l]
  PROVE  IsFiniteSet(T) /\ Cardinality(T) \in Nat /\ Cardinality(T) <= 2 * D - 1
<1> DEFINE A == 0 .. D - 1  B == 1 .. D - 1
           x == [l \in A |-> f[l]]  X == {f[l] : l \in A}
           y == [l \in B |-> g[l]]  Y == {g[l] : l \in B}
<1>1. IsFiniteSet(A) /\ Cardinality(A) = D
  <2>1. 0 \in Int /\ D - 1 \in Int /\ ~(0 > D - 1) /\ (D - 1) - 0 + 1 = D
    OBVIOUS
  <2> QED
    BY <2>1, FS_Interval
<1>2. IsFiniteSet(B) /\ Cardinality(B) = D - 1
  <2>1. 1 \in Int /\ D - 1 \in Int
    OBVIOUS
  <2>2. IsFiniteSet(B) /\ Cardinality(B) = IF 1 > D - 1 THEN 0 ELSE (D - 1) - 1 + 1
    BY <2>1, FS_Interval
  <2>3. (IF 1 > D - 1 THEN 0 ELSE (D - 1) - 1 + 1) = D - 1
    OBVIOUS
  <2> QED
    BY <2>2, <2>3
<1>3. IsFiniteSet(X) /\ Cardinality(X) <= D /\ Cardinality(X) \in Nat
  <2>1. x \in Surjection(A, X)
    BY DEF Surjection
  <2> HIDE DEF A, X, x
  <2> QED
    BY <1>1, <2>1, FS_Surjection, FS_CardinalityType
<1>4. IsFiniteSet(Y) /\ Cardinality(Y) <= D - 1 /\ Cardinality(Y) \in Nat
  <2>1. y \in Surjection(B, Y)
    BY DEF Surjection
  <2> HIDE DEF B, Y, y
  <2> QED
    BY <1>2, <2>1, FS_Surjection, FS_CardinalityType
<1>5. T \subseteq X \cup Y
  OBVIOUS
<1> HIDE DEF A, B, X, Y, x, y
<1>6. /\ IsFiniteSet(X \cup Y)
      /\ Cardinality(X \cup Y) = Cardinality(X) + Cardinality(Y) - Cardinality(X \cap Y)
  BY <1>3, <1>4, FS_Union
<1>7. Cardinality(X \cap Y) \in Nat
  <2>1. IsFiniteSet(X \cap Y)
    BY <1>3, FS_Subset
  <2> QED
    BY <2>1, FS_CardinalityType
<1>8. Cardinality(X \cup Y) <= 2 * D - 1
  BY <1>3, <1>4, <1>6, <1>7
<1>9. IsFiniteSet(T) /\ Cardinality(T) <= Cardinality(X \cup Y)
  BY <1>5, <1>6, FS_Subset
<1>10. Cardinality(T) \in Nat /\ Cardinality(X \cup Y) \in Nat
  BY <1>6, <1>9, FS_CardinalityType
<1> QED
  BY <1>8, <1>9, <1>10

LEMMA FewSizes ==
  ASSUME NEW n \in Nat, RoutingDepth(n) > 0
  PROVE  /\ IsFiniteSet(InnerSizes(n)) /\ Cardinality(InnerSizes(n)) \in Nat
         /\ Cardinality(InnerSizes(n)) <= MostSizes(RoutingDepth(n))
<1> DEFINE D == RoutingDepth(n)
           f == [l \in Nat |-> n \div PowerOfTwo[l]]
           g == [l \in Nat |-> n \div PowerOfTwo[l] + 1]
<1>1. D \in Nat /\ D > 0
  BY RoutingDepthFacts
<1>2. ASSUME NEW m \in InnerSizes(n)
      PROVE  (\E l \in 0 .. D - 1 : m = f[l]) \/ (\E l \in 1 .. D - 1 : m = g[l])
  <2>1. PICK l \in Nat : m \in LevelSizes(n, l)
    BY DEF InnerSizes
  <2>2. l \in 0 .. D - 1
    BY <2>1, LevelsOfSizes
  <2>3. m = f[l] \/ (l # 0 /\ m = g[l])
    BY <2>1 DEF LevelSizes
  <2> HIDE DEF f, g, D
  <2>4. l # 0 => l \in 1 .. D - 1
    BY <1>1, <2>2
  <2> QED
    BY <2>2, <2>3, <2>4
<1> HIDE DEF D, f, g
<1> DEFINE T == InnerSizes(n)
<1>3. \A t \in T : (\E l \in 0 .. D - 1 : t = f[l]) \/ (\E l \in 1 .. D - 1 : t = g[l])
  BY <1>2
<1> HIDE DEF T
<1>4. IsFiniteSet(T) /\ Cardinality(T) \in Nat /\ Cardinality(T) <= 2 * D - 1
  BY <1>1, <1>3, TwoForALevel
<1> QED
  BY <1>4 DEF T, D, MostSizes

\* A level is in one cluster only.
LEMMA OneRemain ==
  ASSUME NEW s, ValidList(s), NEW l \in Nat, NEW d, Remain(s, l, d), NEW e, Remain(s, l, e)
  PROVE  d = e
<1> DEFINE f == Sums(s)  k == Len(s)
<1>1. k \in Nat /\ \A m \in Nat : f[m] \in Nat
  BY SumsFacts
<1>2. \A m \in 1 .. k : f[m] = s[m] + f[m - 1] /\ s[m] \in Nat \ {0}
  BY SumsFacts
<1>3. PICK i \in 1 .. k : f[i - 1] <= l /\ l < f[i] /\ d = f[i] - l
  BY DEF Remain
<1>4. PICK j \in 1 .. k : f[j - 1] <= l /\ l < f[j] /\ e = f[j] - l
  BY DEF Remain
<1> HIDE DEF f, k
<1>5. ASSUME NEW m \in 0 .. k - 1 PROVE f[m] <= f[m + 1]
  <2>1. m \in Nat /\ m + 1 \in Nat /\ m + 1 \in 1 .. k /\ (m + 1) - 1 = m
    BY <1>1
  <2>2. f[m + 1] = s[m + 1] + f[m] /\ s[m + 1] \in Nat /\ f[m] \in Nat
    BY <1>1, <1>2, <2>1
  <2> QED
    BY <2>2
<1>6. \A a \in 0 .. k : \A b \in 0 .. a : f[b] <= f[a]
  <2>1. \A m \in 0 .. k : f[m] \in Nat
    BY <1>1
  <2> QED
    BY <1>1, <1>5, <2>1, Ascending
<1>7. ASSUME NEW a \in 1 .. k, NEW b \in 1 .. k, f[a - 1] <= l, l < f[b] PROVE a <= b
  <2> SUFFICES ASSUME b <= a - 1 PROVE FALSE
    BY <1>1
  <2>1. a - 1 \in 0 .. k /\ b \in 0 .. a - 1 /\ a - 1 \in Nat /\ b \in Nat
    BY <1>1
  <2>2. f[b] <= f[a - 1]
    BY <1>6, <2>1
  <2>3. f[b] \in Nat /\ f[a - 1] \in Nat
    BY <1>1, <2>1
  <2> QED
    BY <1>7, <2>2, <2>3
<1>8. i <= j /\ j <= i
  BY <1>3, <1>4, <1>7
<1>9. i = j
  BY <1>1, <1>8
<1> QED
  BY <1>3, <1>4, <1>9

LEMMA FewPairs ==
  ASSUME NEW n \in Nat, RoutingDepth(n) > 0, NEW s, ValidList(s)
  PROVE  /\ IsFiniteSet(PacketPairs(n, s)) /\ Cardinality(PacketPairs(n, s)) \in Nat
         /\ Cardinality(PacketPairs(n, s)) <= MostSizes(RoutingDepth(n))
<1> DEFINE D == RoutingDepth(n)
           e == [l \in Nat |-> CHOOSE d : Remain(s, l, d)]
           f == [l \in Nat |-> <<n \div PowerOfTwo[l], e[l]>>]
           g == [l \in Nat |-> <<n \div PowerOfTwo[l] + 1, e[l]>>]
<1>1. D \in Nat /\ D > 0
  BY RoutingDepthFacts
<1>2. ASSUME NEW p \in PacketPairs(n, s)
      PROVE  (\E l \in 0 .. D - 1 : p = f[l]) \/ (\E l \in 1 .. D - 1 : p = g[l])
  <2>1. PICK l \in Nat : p[1] \in LevelSizes(n, l) /\ Remain(s, l, p[2])
    BY DEF PacketPairs
  <2>2. l \in 0 .. D - 1
    BY <2>1, LevelsOfSizes
  <2>3. p = <<p[1], p[2]>>
    BY DEF PacketPairs
  <2>4. p[2] = e[l]
    <3> DEFINE c == CHOOSE d : Remain(s, l, d)
    <3>1. Remain(s, l, c)
      BY <2>1
    <3>2. e[l] = c
      OBVIOUS
    <3> HIDE DEF c, e
    <3> QED
      BY <2>1, <3>1, <3>2, OneRemain
  <2>5. p[1] = n \div PowerOfTwo[l] \/ (l # 0 /\ p[1] = n \div PowerOfTwo[l] + 1)
    BY <2>1 DEF LevelSizes
  <2> HIDE DEF e
  <2>6. p = f[l] \/ (l # 0 /\ p = g[l])
    BY <2>3, <2>4, <2>5
  <2> HIDE DEF f, g, D
  <2>7. l # 0 => l \in 1 .. D - 1
    BY <1>1, <2>2
  <2> QED
    BY <2>2, <2>6, <2>7
<1> HIDE DEF D, e, f, g
<1> DEFINE T == PacketPairs(n, s)
<1>3. \A t \in T : (\E l \in 0 .. D - 1 : t = f[l]) \/ (\E l \in 1 .. D - 1 : t = g[l])
  BY <1>2
<1> HIDE DEF T
<1>4. PICK u, v, all, depth : u = f /\ v = g /\ all = T /\ depth = D
  OBVIOUS
<1>5. depth \in Nat /\ depth > 0
      /\ \A t \in all : (\E l \in 0 .. depth - 1 : t = u[l]) \/ (\E l \in 1 .. depth - 1 : t = v[l])
  BY <1>1, <1>3, <1>4
<1>6. IsFiniteSet(all) /\ Cardinality(all) \in Nat /\ Cardinality(all) <= 2 * depth - 1
  BY <1>5, TwoForALevel, ZenonT(60)
<1> QED
  BY <1>4, <1>6 DEF T, D, MostSizes

-----------------------------------------------------------------------------
(* What a call asks the cache for.                                           *)

\* The address belongs to level l of the network.
OnLevel(a, s, l) == a.node > LeafSize => l = Sums(s)[a.index - 1] + a.level

LEMMA ChildOnLevel ==
  ASSUME NEW s, ValidList(s), NEW a, Fits(a, s), a.node > LeafSize,
         NEW l, OnLevel(a, s, l), NEW right \in BOOLEAN
  PROVE  OnLevel(Child(a, right, a.node), s, l + 1)
<1> DEFINE n == a.node  m == ChildCount(right, n)  i == a.index  c == Child(a, right, n)
           f == Sums(s)
<1>1. /\ a \in Addresses /\ IsAddress(a) /\ a.clusters = s /\ i \in 1 .. Len(s)
      /\ a.groupDepth = s[i] /\ l = f[i - 1] + a.level
  BY AddressFacts DEF Fits, OnLevel
<1>2. /\ n \in Nat /\ a.level \in Nat /\ a.groupDepth \in Nat /\ i \in Nat
      /\ a.level \in 0 .. a.groupDepth - 1
  <2>1. n \in Nat /\ a.level \in Nat /\ a.groupDepth \in Nat /\ i \in Nat
    BY <1>1 DEF Addresses
  <2>2. ~(n <= LeafSize)
    BY <2>1, LeafSizes
  <2> QED
    BY <1>1, <2>1, <2>2 DEF IsAddress, IsLeafRoot, IsPlace
<1>3. Len(s) \in Nat /\ f[i] = s[i] + f[i - 1] /\ f[i - 1] \in Nat
  <2>1. Len(s) \in Nat
    BY SumsFacts
  <2>2. i - 1 \in Nat
    BY <1>1, <2>1
  <2> HIDE DEF i
  <2> QED
    BY <1>1, <2>1, <2>2, SumsFacts
<1>4. CASE a.groupDepth - a.level > 1
  <2>1. c = InnerChild(a, right, n)
    BY <1>4 DEF Child
  <2>2. c.index = i /\ c.level = a.level + 1
    BY <1>1, <2>1, InnerChildIs
  <2> HIDE DEF c, f, i
  <2>3. l + 1 = f[c.index - 1] + c.level
    BY <1>1, <1>2, <1>3, <2>2
  <2> QED
    BY <2>3 DEF OnLevel, c, f
<1>5. CASE ~(a.groupDepth - a.level > 1)
  <2>1. c = OuterChild(a, right, n)
    BY <1>5 DEF Child
  <2>2. c.level = 0 /\ c.node = m /\ (m > LeafSize => c.index = i + 1)
    BY <1>1, <2>1, OuterChildIs
  <2>3. a.level + 1 = s[i]
    BY <1>1, <1>2, <1>5
  <2> HIDE DEF c, f, i, m
  <2>4. l + 1 = f[i] + 0 /\ (i + 1) - 1 = i
    BY <1>1, <1>2, <1>3, <2>3
  <2>5. m > LeafSize => l + 1 = f[c.index - 1] + c.level
    BY <2>2, <2>4
  <2> QED
    BY <2>2, <2>5 DEF OnLevel, c, f
<1> QED
  BY <1>4, <1>5

\* Closed under the children of a pair.
ClosedPairs(pairs) ==
  \A k \in Nat : \A d \in Nat \ {0} : \A right \in BOOLEAN :
    <<k, d + 1>> \in pairs /\ ChildCount(right, k) > LeafSize
      => <<ChildCount(right, k), d>> \in pairs

LEMMA PairsAreClosed ==
  ASSUME NEW n \in Nat, NEW s, ValidList(s)
  PROVE  ClosedPairs(PacketPairs(n, s))
<1> SUFFICES ASSUME NEW k \in Nat, NEW d \in Nat \ {0}, NEW right \in BOOLEAN,
                    <<k, d + 1>> \in PacketPairs(n, s), ChildCount(right, k) > LeafSize
    PROVE  <<ChildCount(right, k), d>> \in PacketPairs(n, s)
  BY DEF ClosedPairs
<1> DEFINE c == ChildCount(right, k)  f == Sums(s)
<1>1. PICK l \in Nat : k \in LevelSizes(n, l) /\ Remain(s, l, d + 1)
  BY DEF PacketPairs
<1>2. PICK i \in 1 .. Len(s) : f[i - 1] <= l /\ l < f[i] /\ d + 1 = f[i] - l
  BY <1>1 DEF Remain
<1>3. c \in LevelSizes(n, l + 1) /\ c \in Nat
  <2>1. c \in LevelSizes(n, l + 1)
    BY <1>1, NextSizes
  <2> QED
    BY <2>1 DEF LevelSizes
<1>4. f[i - 1] \in Nat /\ f[i] \in Nat
  <2>1. Len(s) \in Nat
    BY SumsFacts
  <2>2. i \in Nat /\ i - 1 \in Nat
    BY <2>1
  <2> QED
    BY <2>2, SumsFacts
<1> HIDE DEF c, f
<1>5. f[i - 1] <= l + 1 /\ l + 1 < f[i] /\ d = f[i] - (l + 1)
  BY <1>2, <1>4
<1>6. Remain(s, l + 1, d)
  BY <1>5 DEF Remain, f
<1>7. l + 1 \in Nat /\ d \in Nat
  OBVIOUS
<1> QED
  BY <1>3, <1>6, <1>7 DEF PacketPairs, c

LEMMA PairsWithinClosed ==
  ASSUME NEW n \in Nat, NEW depth \in Nat, NEW pairs \in SUBSET (Nat \X Nat),
         ClosedPairs(pairs), n > LeafSize /\ depth # 0 => <<n, depth>> \in pairs,
         NEW held \in SUBSET pairs
  PROVE  PacketsAfter(held, n, depth) \in SUBSET pairs
<1>1. /\ \A k : ChildCount(FALSE, k) = LeftCount(k) /\ ChildCount(TRUE, k) = RightCount(k)
      /\ TRUE \in BOOLEAN /\ FALSE \in BOOLEAN
  BY DEF ChildCount
<1>2. \A k \in Nat : \A d \in Nat \ {0} : <<k, d + 1>> \in pairs =>
        (LeftCount(k) > LeafSize => <<LeftCount(k), d>> \in pairs)
  BY <1>1 DEF ClosedPairs
<1>3. \A k \in Nat : \A d \in Nat \ {0} : <<k, d + 1>> \in pairs =>
        (RightCount(k) > LeafSize => <<RightCount(k), d>> \in pairs)
  BY <1>1 DEF ClosedPairs
<1> QED
  BY <1>2, <1>3, PairsWithin

\* Enough pairs for the packets of the network for n values in the section s.
HasPairs(pairs, n, s) ==
  pairs \in SUBSET (Nat \X Nat) /\ ClosedPairs(pairs) /\ PacketPairs(n, s) \subseteq pairs

\* The address of an inner node on level l of the network for n values.
IsInner(a, s, n, l) == Fits(a, s) /\ a.node \in LevelSizes(n, l) /\ OnLevel(a, s, l)

\* The packets that a child asks for are those of an inner node's level.
LEMMA AskedPackets ==
  ASSUME NEW N \in Nat, NEW s, ValidList(s), NEW l \in Nat, NEW a, IsInner(a, s, N, l),
         NEW pairs, HasPairs(pairs, N, s), NEW held \in SUBSET pairs, NEW right \in BOOLEAN
  PROVE  PacketsOfChild(held, a, right, a.node) \in SUBSET pairs
<1>0. /\ Fits(a, s) /\ a.node \in LevelSizes(N, l) /\ OnLevel(a, s, l)
      /\ pairs \in SUBSET (Nat \X Nat) /\ ClosedPairs(pairs) /\ PacketPairs(N, s) \subseteq pairs
  BY DEF IsInner, HasPairs
<1> DEFINE n == a.node  i == a.index  f == Sums(s)
<1>1. n \in Nat /\ n > LeafSize
  BY <1>0 DEF LevelSizes
<1>2. /\ a \in Addresses /\ IsAddress(a) /\ a.clusters = s /\ i \in 1 .. Len(s)
      /\ a.groupDepth = s[i] /\ l = f[i - 1] + a.level
  BY <1>0, <1>1, AddressFacts DEF Fits, OnLevel
<1>3. /\ a.level \in Nat /\ a.groupDepth \in Nat /\ i \in Nat
      /\ a.level \in 0 .. a.groupDepth - 1
  <2>1. a.level \in Nat /\ a.groupDepth \in Nat /\ i \in Nat
    BY <1>2 DEF Addresses
  <2>2. ~(n <= LeafSize)
    BY <1>1, LeafSizes
  <2> QED
    BY <1>2, <2>1, <2>2 DEF IsAddress, IsLeafRoot, IsPlace
<1>4. /\ Len(s) \in Nat /\ f[i] = s[i] + f[i - 1] /\ f[i - 1] \in Nat /\ f[i] \in Nat
  <2>1. Len(s) \in Nat
    BY SumsFacts
  <2>2. i - 1 \in Nat
    BY <1>2, <2>1
  <2> HIDE DEF i
  <2> QED
    BY <1>2, <1>3, <2>1, <2>2, SumsFacts
<1>5. ASSUME NEW t \in BOOLEAN, ChildCount(t, n) > LeafSize, NEW d \in Nat, Remain(s, l + 1, d)
      PROVE  <<ChildCount(t, n), d>> \in pairs
  <2>1. ChildCount(t, n) \in LevelSizes(N, l + 1)
    BY <1>0, <1>5, NextSizes
  <2>2. ChildCount(t, n) \in Nat /\ l + 1 \in Nat
    BY <2>1 DEF LevelSizes
  <2>3. <<ChildCount(t, n), d>> \in PacketPairs(N, s)
    BY <1>5, <2>1, <2>2 DEF PacketPairs
  <2> QED
    BY <1>0, <2>3
<1>6. CASE a.groupDepth - a.level > 1
  <2> DEFINE d == a.groupDepth - a.level - 1  m == LeftCount(n)
  <2>1. d \in Nat
    BY <1>3, <1>6
  <2>2. Remain(s, l + 1, d)
    <3> DEFINE x == f[i - 1]  y == f[i]  v == a.level  g == a.groupDepth
    <3>1. x \in Nat /\ y \in Nat /\ v \in Nat /\ g \in Nat /\ y = g + x /\ l = x + v
          /\ g - v > 1 /\ d = g - v - 1
      BY <1>2, <1>3, <1>4, <1>6
    <3> HIDE DEF x, y, v, g, d, f, i
    <3>2. x <= l + 1 /\ l + 1 < y /\ d = y - (l + 1)
      BY <3>1
    <3> QED
      BY <1>2, <3>2 DEF Remain, f, x, y
  <2>3. m = ChildCount(FALSE, n) /\ FALSE \in BOOLEAN
    BY DEF ChildCount
  <2>4. m \in Nat
    BY <1>1, <2>3, ChildDepth
  <2>5. PacketsOfChild(held, a, right, n) = IF right THEN PacketsAfter(held, m, d) ELSE held
    BY <1>6 DEF PacketsOfChild
  <2> HIDE DEF m, d, n
  <2>6. m > LeafSize => <<m, d>> \in pairs
    BY <1>5, <2>1, <2>2, <2>3
  <2>7. PacketsAfter(held, m, d) \in SUBSET pairs
    BY <1>0, <2>1, <2>4, <2>6, PairsWithinClosed
  <2> QED
    BY <2>5, <2>7 DEF n
<1>7. CASE ~(a.groupDepth - a.level > 1)
  <2> DEFINE b == OuterChild(a, right, n)  m == ChildCount(right, n)
  <2>1. PacketsOfChild(held, a, right, n)
          = IF b.root > LeafSize THEN PacketsAfter(held, b.root, b.groupDepth) ELSE held
    BY <1>7 DEF PacketsOfChild
  <2>2. b.root = m /\ (m > LeafSize => b.groupDepth = s[i + 1])
    BY <1>2, OuterChildIs
  <2>3. CASE m > LeafSize
    <3>1. a.level + 1 = a.groupDepth
      BY <1>3, <1>7
    <3>2. i + 1 \in 1 .. Len(s) /\ s[i + 1] \in Nat \ {0}
      BY <1>0, <1>1, <2>3, <3>1, NextCluster
    <3> DEFINE d == s[i + 1]
    <3>3. f[i + 1] = d + f[i]
      <4>1. (i + 1) - 1 = i
        BY <1>3
      <4>2. f[i + 1] = s[i + 1] + f[(i + 1) - 1]
        BY <3>2, SumsFacts
      <4> QED
        BY <4>1, <4>2
    <3>4. m \in Nat
      BY <1>1, ChildDepth
    <3>5. Remain(s, l + 1, d)
      <4> HIDE DEF f, i
      <4>1. (i + 1) - 1 = i /\ l + 1 = f[i]
        BY <1>2, <1>3, <1>4, <3>1
      <4> HIDE DEF d
      <4>2. d \in Nat \ {0}
        BY <3>2 DEF d
      <4>3. f[(i + 1) - 1] <= l + 1 /\ l + 1 < f[i + 1] /\ d = f[i + 1] - (l + 1)
        BY <1>4, <3>3, <4>1, <4>2
      <4> QED
        BY <3>2, <4>3 DEF Remain, f
    <3> HIDE DEF d, m, b, n, f, i
    <3>6. <<m, d>> \in pairs
      BY <1>5, <2>3, <3>2, <3>5 DEF m, d
    <3>7. PacketsAfter(held, m, d) \in SUBSET pairs
      BY <1>0, <3>2, <3>4, <3>6, PairsWithinClosed DEF d
    <3> QED
      BY <2>1, <2>2, <2>3, <3>7 DEF d, n
  <2>4. CASE ~(m > LeafSize)
    BY <2>1, <2>2, <2>4
  <2> QED
    BY <2>3, <2>4
<1> QED
  BY <1>6, <1>7

-----------------------------------------------------------------------------
(* The cache during a walk.                                                  *)

AllPairs == PacketPairs(format.count, format.input) \cup PacketPairs(format.count, format.output)

CallOnLevel(c) ==
  c.count > LeafSize =>
    \E l \in Nat : /\ c.count \in LevelSizes(format.count, l)
                   /\ OnLevel(c.in, format.input, l) /\ OnLevel(c.out, format.output, l)

CacheInv ==
  /\ \A m \in 1 .. Len(pending) : CallOnLevel(pending[m])
  /\ metrics \subseteq InnerSizes(format.count)
  /\ packets \subseteq AllPairs

LEMMA PairsFacts ==
  ASSUME FormatIsValid
  PROVE  /\ HasPairs(AllPairs, format.count, format.input)
         /\ HasPairs(AllPairs, format.count, format.output)
<1> DEFINE n == format.count  P == PacketPairs(n, format.input)  Q == PacketPairs(n, format.output)
<1>1. n \in Nat /\ ValidList(format.input) /\ ValidList(format.output)
  BY DEF FormatIsValid
<1>2. ClosedPairs(P) /\ ClosedPairs(Q)
  BY <1>1, PairsAreClosed
<1>3. P \subseteq Nat \X Nat /\ Q \subseteq Nat \X Nat
  BY DEF PacketPairs
<1>4. AllPairs = P \cup Q
  BY DEF AllPairs
<1>5. /\ HasPairs(P \cup Q, n, format.input) <=> ClosedPairs(P \cup Q)
      /\ HasPairs(P \cup Q, n, format.output) <=> ClosedPairs(P \cup Q)
  BY <1>3 DEF HasPairs
<1> HIDE DEF P, Q
<1>6. ClosedPairs(P \cup Q)
  BY <1>2 DEF ClosedPairs
<1> QED
  BY <1>4, <1>5, <1>6

\* What the root asks for in a section.
LEMMA RootPackets ==
  ASSUME NEW n \in Nat, NEW s \in ClusterLists(RoutingDepth(n)), NEW embeds \in BOOLEAN,
         NEW a, a = RootAddress(n, s, embeds),
         NEW pairs, HasPairs(pairs, n, s), NEW held \in SUBSET pairs
  PROVE  /\ PacketsAfter(held, a.root, a.groupDepth) \in SUBSET pairs
         /\ OnLevel(a, s, 0)
<1> DEFINE g == IF n > LeafSize THEN s[1] ELSE 0
<1>0. pairs \in SUBSET (Nat \X Nat) /\ ClosedPairs(pairs) /\ PacketPairs(n, s) \subseteq pairs
  BY DEF HasPairs
<1>1. ValidList(s) /\ Fits(a, s) /\ a.node = n
  BY RootFits
<1>2. a.root = n /\ a.groupDepth = g /\ a.index = 1 /\ a.level = 0
  BY DEF RootAddress
<1>3. Sums(s)[0] = 0 /\ \A m \in 1 .. Len(s) : /\ Sums(s)[m] = s[m] + Sums(s)[m - 1]
                                               /\ s[m] \in Nat \ {0}
  BY <1>1, SumsFacts
<1>4. n > LeafSize => 1 \in 1 .. Len(s)
  BY <1>1, <1>2 DEF Fits
<1>5. g \in Nat
  BY <1>3, <1>4
<1>6. ASSUME n > LeafSize, g # 0 PROVE <<n, g>> \in pairs
  <2>1. n \in LevelSizes(n, 0)
    <3>1. n \div 1 = n
      OBVIOUS
    <3>2. RoutingDepth(n) + 0 <= RoutingDepth(n)
      BY RoutingDepthFacts
    <3>3. PowerOfTwo[0] = 1
      BY PowerFacts
    <3> QED
      BY <1>6, <3>1, <3>2, <3>3 DEF LevelSizes
  <2>2. Remain(s, 0, g)
    <3>1. 1 - 1 = 0 /\ 1 \in 1 .. Len(s)
      BY <1>4, <1>6
    <3>2. Sums(s)[1] = s[1] + 0 /\ s[1] \in Nat \ {0} /\ g = s[1]
      BY <1>3, <1>6, <3>1
    <3> HIDE DEF g
    <3>3. Sums(s)[1 - 1] <= 0 /\ 0 < Sums(s)[1] /\ g = Sums(s)[1] - 0
      BY <1>3, <3>1, <3>2
    <3> QED
      BY <3>1, <3>3 DEF Remain
  <2> HIDE DEF g
  <2> QED
    BY <1>0, <1>5, <2>1, <2>2 DEF PacketPairs
<1>7. OnLevel(a, s, 0)
  BY <1>2, <1>3 DEF OnLevel
<1> HIDE DEF g
<1>8. PacketsAfter(held, n, g) \in SUBSET pairs
  BY <1>0, <1>5, <1>6, PairsWithinClosed
<1> QED
  BY <1>2, <1>7, <1>8

LEMMA InitCache == Init => CacheInv
<1> SUFFICES ASSUME Init PROVE CacheInv
  OBVIOUS
<1> DEFINE n == format.count
           in == RootOf(format, format.input, "input")
           out == RootOf(format, format.output, "output")
           c == [count |-> n, in |-> in, out |-> out,
                 middle |-> 0, trail |-> <<>>, group |-> <<>>]
           ei == (format.placement = "input")  eo == (format.placement = "output")
           first == PacketsAfter({}, in.root, in.groupDepth)
<1>1. /\ pending = <<c>> /\ metrics = {} /\ format \in Formats(Counts, Placements)
      /\ packets = PacketsAfter(first, out.root, out.groupDepth)
  BY DEF Init
<1>2. /\ FormatIsValid
      /\ format.input \in ClusterLists(RoutingDepth(n))
      /\ format.output \in ClusterLists(RoutingDepth(n))
  BY <1>1, FormatFacts
<1>3. n \in Nat
  BY <1>2 DEF FormatIsValid
<1>4. HasPairs(AllPairs, n, format.input) /\ HasPairs(AllPairs, n, format.output)
  BY <1>2, PairsFacts
<1>5. ei \in BOOLEAN /\ eo \in BOOLEAN /\ in = RootAddress(n, format.input, ei)
      /\ out = RootAddress(n, format.output, eo)
  BY DEF RootOf
<1>6. c.in = in /\ c.out = out /\ c.count = n
  OBVIOUS
<1> HIDE DEF n, in, out, c, ei, eo
<1> HIDE DEF first
<1>7. PICK a, i, e : a = in /\ i = format.input /\ e = ei
  OBVIOUS
<1>8. first \in SUBSET AllPairs /\ OnLevel(in, format.input, 0)
  <2>1. {} \in SUBSET AllPairs
    OBVIOUS
  <2>2. /\ i \in ClusterLists(RoutingDepth(n)) /\ e \in BOOLEAN /\ a = RootAddress(n, i, e)
        /\ HasPairs(AllPairs, n, i)
    BY <1>2, <1>4, <1>5, <1>7
  <2>3. PacketsAfter({}, a.root, a.groupDepth) \in SUBSET AllPairs /\ OnLevel(a, i, 0)
    BY <1>3, <2>1, <2>2, RootPackets
  <2> QED
    BY <1>7, <2>3 DEF first
<1>9. PICK b, o, x, y : b = out /\ o = format.output /\ x = eo /\ y = first
  OBVIOUS
<1>10. packets \in SUBSET AllPairs /\ OnLevel(out, format.output, 0)
  <2>1. /\ o \in ClusterLists(RoutingDepth(n)) /\ x \in BOOLEAN /\ b = RootAddress(n, o, x)
        /\ HasPairs(AllPairs, n, o) /\ y \in SUBSET AllPairs
    BY <1>2, <1>4, <1>5, <1>8, <1>9
  <2>2. PacketsAfter(y, b.root, b.groupDepth) \in SUBSET AllPairs /\ OnLevel(b, o, 0)
    BY <1>3, <2>1, RootPackets
  <2> QED
    BY <1>1, <1>9, <2>2
<1>11. CallOnLevel(c)
  <2> SUFFICES ASSUME n > LeafSize PROVE n \in LevelSizes(n, 0)
    BY <1>6, <1>8, <1>10 DEF CallOnLevel, n
  <2>1. n \div 1 = n
    BY <1>3
  <2>2. RoutingDepth(n) + 0 <= RoutingDepth(n)
    BY <1>3, RoutingDepthFacts
  <2>3. PowerOfTwo[0] = 1
    BY PowerFacts
  <2> QED
    BY <1>3, <2>1, <2>2, <2>3 DEF LevelSizes
<1>12. \A m \in 1 .. Len(pending) : pending[m] = c
  BY <1>1
<1> QED
  BY <1>1, <1>11, <1>12, <1>10 DEF CacheInv

LEMMA SizesAreClosed ==
  ASSUME NEW n \in Nat
  PROVE  /\ InnerSizes(n) \in SUBSET Nat
         /\ \A m \in InnerSizes(n) : \A right \in BOOLEAN :
              ChildCount(right, m) > LeafSize => ChildCount(right, m) \in InnerSizes(n)
<1>1. InnerSizes(n) \in SUBSET Nat
  BY DEF InnerSizes
<1>2. ASSUME NEW m \in InnerSizes(n), NEW right \in BOOLEAN, ChildCount(right, m) > LeafSize
      PROVE  ChildCount(right, m) \in InnerSizes(n)
  <2>1. PICK l \in Nat : m \in LevelSizes(n, l)
    BY DEF InnerSizes
  <2>2. ChildCount(right, m) \in LevelSizes(n, l + 1)
    BY <1>2, <2>1, NextSizes
  <2>3. ChildCount(right, m) \in Nat /\ l + 1 \in Nat
    BY <2>2 DEF LevelSizes
  <2> QED
    BY <2>2, <2>3 DEF InnerSizes
<1> QED
  BY <1>1, <1>2

\* The metrics of a subnetwork of an inner node.
LEMMA AskedMetrics ==
  ASSUME NEW N \in Nat, NEW n \in InnerSizes(N), NEW held \in SUBSET InnerSizes(N)
  PROVE  MetricsAfter(held, LeftCount(n)) \in SUBSET InnerSizes(N)
<1> DEFINE S == InnerSizes(N)  m == LeftCount(n)
<1>1. /\ \A k : ChildCount(FALSE, k) = LeftCount(k) /\ ChildCount(TRUE, k) = RightCount(k)
      /\ TRUE \in BOOLEAN /\ FALSE \in BOOLEAN
  BY DEF ChildCount
<1>2. S \in SUBSET Nat
  BY SizesAreClosed
<1>3. /\ \A k \in S : LeftCount(k) > LeafSize => LeftCount(k) \in S
      /\ \A k \in S : RightCount(k) > LeafSize => RightCount(k) \in S
  BY <1>1, SizesAreClosed
<1>4. n \in Nat /\ n > LeafSize
  BY DEF InnerSizes, LevelSizes
<1>5. m \in Nat
  BY <1>1, <1>4, ChildDepth
<1>6. m > LeafSize => m \in S
  BY <1>3
<1>7. held \in SUBSET S
  OBVIOUS
<1> HIDE DEF S, m
<1>8. MetricsAfter(held, m) \subseteq S
  BY <1>2, <1>3, <1>5, <1>6, <1>7, MetricsWithin
<1> QED
  BY <1>8 DEF S, m

\* The call for a child is one level further down.
LEMMA ChildCallOnLevel ==
  ASSUME FormatIsValid, NEW c \in CallRecords, IsCall(c), c.count > LeafSize, CallOnLevel(c),
         NEW t \in BOOLEAN, NEW d, d = CallOf(c, t)
  PROVE  CallOnLevel(d)
<1> DEFINE n == format.count
<1>1. /\ n \in Nat /\ ValidList(format.input) /\ ValidList(format.output)
      /\ Fits(c.in, format.input) /\ Fits(c.out, format.output)
      /\ c.count = c.in.node /\ c.count = c.out.node
  BY DEF FormatIsValid, IsCall
<1>2. /\ d.count = ChildCount(t, c.count)
      /\ d.in = Child(c.in, t, c.count) /\ d.out = Child(c.out, t, c.count)
  BY WalkCallIs
<1>3. PICK l \in Nat : /\ c.count \in LevelSizes(n, l)
                       /\ OnLevel(c.in, format.input, l) /\ OnLevel(c.out, format.output, l)
  BY DEF CallOnLevel
<1>4. OnLevel(d.in, format.input, l + 1)
  BY <1>1, <1>2, <1>3, ChildOnLevel
<1>5. OnLevel(d.out, format.output, l + 1)
  BY <1>1, <1>2, <1>3, ChildOnLevel
<1>6. d.count > LeafSize => d.count \in LevelSizes(n, l + 1)
  BY <1>1, <1>2, <1>3, NextSizes
<1>7. l + 1 \in Nat
  OBVIOUS
<1> QED
  BY <1>4, <1>5, <1>6, <1>7 DEF CallOnLevel

LEMMA LeafCache == WalkInv /\ CacheInv /\ EncodeLeaf => CacheInv'
<1> SUFFICES ASSUME WalkInv, CacheInv, EncodeLeaf PROVE CacheInv'
  OBVIOUS
<1> DEFINE n == Len(pending) - 1
<1>1. /\ pending # <<>> /\ pending' = Tail(pending) /\ format' = format
      /\ metrics' = metrics /\ packets' = packets
  BY DEF EncodeLeaf
<1>2. pending \in Seq(CallRecords)
  BY DEF WalkInv, CallsFit
<1>3. /\ n \in Nat /\ Len(pending) = n + 1 /\ Len(pending') = n
      /\ \A m \in 1 .. n : m + 1 \in 1 .. n + 1 /\ pending'[m] = pending[m + 1]
  BY <1>1, <1>2, HeadAndTail
<1>4. \A m \in 1 .. n : CallOnLevel(pending'[m])
  BY <1>3 DEF CacheInv
<1>5. \A m \in 1 .. n : CallOnLevel(pending[m])'
  BY <1>1, <1>4 DEF CallOnLevel
<1> QED
  BY <1>1, <1>3, <1>5 DEF CacheInv, AllPairs

LEMMA NodeCache == WalkInv /\ CacheInv /\ EncodeNode => CacheInv'
<1> SUFFICES ASSUME WalkInv, CacheInv, EncodeNode PROVE CacheInv'
  OBVIOUS
<1> DEFINE c == pending[1]  n == Len(pending) - 1  N == format.count
           l == CallOf(c, FALSE)  r == CallOf(c, TRUE)
           step(held, right) ==
             PacketsOfChild(PacketsOfChild(held, c.in, right, c.count), c.out, right, c.count)
<1>1. /\ pending # <<>> /\ c.count > LeafSize /\ format' = format
      /\ pending' = <<l, r>> \o Tail(pending)
      /\ metrics' = MetricsAfter(metrics, LeftCount(c.count))
      /\ packets' = step(step(packets, FALSE), TRUE)
  BY DEF EncodeNode
<1>2. FormatIsValid /\ pending \in Seq(CallRecords)
      /\ \A m \in 1 .. Len(pending) : IsCall(pending[m])
  BY DEF WalkInv, CallsFit
<1>3. /\ n \in Nat /\ Len(pending) = n + 1 /\ DOMAIN pending = 1 .. n + 1 /\ c \in CallRecords
      /\ \A m \in 1 .. n : m + 1 \in 1 .. n + 1
  BY <1>1, <1>2, HeadAndTail
<1>4. 1 \in 1 .. n + 1 /\ IsCall(c) /\ CallOnLevel(c)
  BY <1>2, <1>3 DEF CacheInv
<1> HIDE DEF c, l, r, step
<1>5. l \in CallRecords /\ r \in CallRecords /\ CallOnLevel(l) /\ CallOnLevel(r)
  <2>1. TRUE \in BOOLEAN /\ FALSE \in BOOLEAN
    OBVIOUS
  <2> QED
    BY <1>1, <1>2, <1>3, <1>4, <2>1, WalkCallIs, ChildCallOnLevel DEF l, r
<1>6. /\ Len(pending') = n + 2
      /\ pending'[1] = l /\ pending'[2] = r
      /\ \A m \in 1 .. n : m + 2 \in 1 .. n + 2 /\ pending'[m + 2] = pending[m + 1]
      /\ \A m \in 1 .. n + 2 : m = 1 \/ m = 2 \/ \E k \in 1 .. n : m = k + 2
  BY <1>1, <1>2, <1>5, PairBeforeTail
<1>7. \A m \in 1 .. n + 2 : CallOnLevel(pending'[m])
  <2>1. \A k \in 1 .. n : CallOnLevel(pending[k + 1])
    BY <1>3 DEF CacheInv
  <2> HIDE DEF n
  <2> QED
    BY <1>5, <1>6, <2>1
<1>8. \A m \in 1 .. n + 2 : CallOnLevel(pending[m])'
  BY <1>1, <1>7 DEF CallOnLevel
<1>9. /\ N \in Nat /\ ValidList(format.input) /\ ValidList(format.output)
      /\ Fits(c.in, format.input) /\ Fits(c.out, format.output)
      /\ c.count = c.in.node /\ c.count = c.out.node
  BY <1>2, <1>4 DEF FormatIsValid, IsCall
<1>10. PICK k \in Nat : /\ c.count \in LevelSizes(N, k)
                        /\ OnLevel(c.in, format.input, k) /\ OnLevel(c.out, format.output, k)
  BY <1>1, <1>4 DEF CallOnLevel
<1> HIDE DEF n, N
<1>11. HasPairs(AllPairs, N, format.input) /\ HasPairs(AllPairs, N, format.output)
  BY <1>2, PairsFacts DEF N
<1>12. ASSUME NEW held \in SUBSET AllPairs, NEW t \in BOOLEAN
       PROVE  step(held, t) \in SUBSET AllPairs
  <2>1. PICK a, b, i, o : a = c.in /\ b = c.out /\ i = format.input /\ o = format.output
    OBVIOUS
  <2>2. /\ IsInner(a, i, N, k) /\ IsInner(b, o, N, k) /\ ValidList(i) /\ ValidList(o)
        /\ HasPairs(AllPairs, N, i) /\ HasPairs(AllPairs, N, o)
        /\ c.count = a.node /\ c.count = b.node
    BY <1>9, <1>10, <1>11, <2>1 DEF IsInner
  <2>3. PICK first : first = PacketsOfChild(held, a, t, a.node)
    OBVIOUS
  <2>4. first \in SUBSET AllPairs
    <3>1. PacketsOfChild(held, a, t, a.node) \in SUBSET AllPairs
      BY <1>9, <2>2, AskedPackets
    <3> QED
      BY <2>3, <3>1
  <2>5. PacketsOfChild(first, b, t, b.node) \in SUBSET AllPairs
    BY <1>9, <2>2, <2>4, AskedPackets
  <2> QED
    BY <2>1, <2>2, <2>3, <2>5 DEF step
<1>13. packets' \in SUBSET AllPairs
  <2>1. packets \in SUBSET AllPairs /\ TRUE \in BOOLEAN /\ FALSE \in BOOLEAN
    BY DEF CacheInv
  <2>2. step(packets, FALSE) \in SUBSET AllPairs
    BY <1>12, <2>1
  <2> QED
    BY <1>1, <1>12, <2>1, <2>2
<1>14. metrics' \in SUBSET InnerSizes(N)
  <2>1. c.count \in InnerSizes(N)
    <3>1. c.count \in Nat
      BY <1>10 DEF LevelSizes
    <3> QED
      BY <1>10, <3>1 DEF InnerSizes
  <2>2. metrics \in SUBSET InnerSizes(N)
    BY DEF CacheInv, N
  <2> QED
    BY <1>1, <1>9, <2>1, <2>2, AskedMetrics
<1>15. AllPairs' = AllPairs /\ InnerSizes(format.count)' = InnerSizes(N)
  BY <1>1 DEF AllPairs, N
<1> QED
  BY <1>6, <1>8, <1>13, <1>14, <1>15 DEF CacheInv

\* The cache holds sizes of inner nodes, each with the levels that remain of a cluster.
LEMMA AlwaysCacheInv == Spec => []CacheInv
<1>1. ASSUME WalkInv, CacheInv, [Next]_vars PROVE CacheInv'
  <2>1. CASE UNCHANGED vars
    <3>1. format' = format /\ pending' = pending /\ metrics' = metrics /\ packets' = packets
      BY <2>1 DEF vars
    <3> QED
      BY <1>1, <3>1 DEF CacheInv, CallOnLevel, AllPairs
  <2> QED
    BY <1>1, <2>1, LeafCache, NodeCache DEF Next
<1> QED
  BY <1>1, InitCache, AlwaysWalkInv, PTL DEF Spec

LEMMA CacheIsEnough == WalkInv /\ CacheInv => CacheSuffices
<1> SUFFICES ASSUME WalkInv, CacheInv PROVE CacheSuffices
  OBVIOUS
<1> DEFINE n == format.count  D == RoutingDepth(n)  M == MostSizes(D)
           S == InnerSizes(n)
           P == PacketPairs(n, format.input)  Q == PacketPairs(n, format.output)
<1>1. n \in Nat /\ ValidList(format.input) /\ ValidList(format.output)
  BY DEF WalkInv, FormatIsValid
<1>2. MostSizes(MaxDepth) <= MetricCapacity /\ 2 * MostSizes(MaxDepth) <= PacketCapacity
  BY MiddleGroupAssumption DEF MostSizes, MaxDepth, MetricCapacity, PacketCapacity
<1>3. ASSUME D > 0 PROVE Cardinality(metrics) <= M /\ Cardinality(packets) <= 2 * M
  <2>1. /\ IsFiniteSet(S) /\ Cardinality(S) \in Nat /\ Cardinality(S) <= M
        /\ IsFiniteSet(P) /\ Cardinality(P) \in Nat /\ Cardinality(P) <= M
        /\ IsFiniteSet(Q) /\ Cardinality(Q) \in Nat /\ Cardinality(Q) <= M
    BY <1>1, <1>3, FewSizes, FewPairs
  <2>2. D \in Nat
    BY <1>1, RoutingDepthFacts
  <2>3. M \in Nat
    BY <1>3, <2>2 DEF MostSizes
  <2>4. metrics \in SUBSET S /\ packets \in SUBSET (P \cup Q)
    BY DEF CacheInv, AllPairs
  <2> HIDE DEF S, P, Q, M
  <2>5. Cardinality(metrics) <= Cardinality(S) /\ Cardinality(metrics) \in Nat
    BY <2>1, <2>4, FS_Subset, FS_CardinalityType
  <2>6. /\ IsFiniteSet(P \cup Q)
        /\ Cardinality(P \cup Q) = Cardinality(P) + Cardinality(Q) - Cardinality(P \cap Q)
    BY <2>1, FS_Union
  <2>7. Cardinality(P \cap Q) \in Nat
    <3>1. IsFiniteSet(P \cap Q)
      BY <2>1, FS_Subset
    <3> QED
      BY <3>1, FS_CardinalityType
  <2>8. Cardinality(packets) <= Cardinality(P \cup Q) /\ Cardinality(packets) \in Nat
    BY <2>4, <2>6, FS_Subset, FS_CardinalityType
  <2>9. Cardinality(P \cup Q) \in Nat
    BY <2>6, FS_CardinalityType
  <2> QED
    BY <2>1, <2>3, <2>5, <2>6, <2>7, <2>8, <2>9
<1> QED
  BY <1>2, <1>3 DEF CacheSuffices

\* For every size and cluster list, and at any time of the walk: the encoder's
\* cache holds at most two sizes per level and, for each section, one pair for
\* each of them; the deepest network that a 64-bit count has fits the arrays.
THEOREM CacheAlwaysSuffices == Spec => []CacheSuffices
BY AlwaysWalkInv, AlwaysCacheInv, CacheIsEnough, PTL
=============================================================================
