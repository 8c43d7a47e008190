------------------------------- MODULE Header -------------------------------
(***************************************************************************)
(* The header of a compressed file, and what the two ways to open a file   *)
(* make of it.  compress normalises the format options, lays the sections  *)
(* out and writes a header; CompressedPermutationView parses the bytes in  *)
(* memory, CompressedPermutationFile reads the header from a stream in two *)
(* parts.  Header length and section offsets are not in the file, they are *)
(* computed again.  compress_file stores what compress returns; its stream *)
(* may fail on the way, and at the end without being noticed.              *)
(*                                                                         *)
(* A file is a record: what its first 20 bytes say, its length, the bytes  *)
(* after the 20 that may be cluster depths, and the set bits of the rest.  *)
(* Sizes so large that the arithmetic overflows are left out.              *)
(***************************************************************************)
EXTENDS Integers, Sequences, FiniteSets

CONSTANTS Options,          \* what compress is called with
          Files,            \* files of other origin
          Ones(_, _),       \* the set bits tried in a file that parses
          MaxClusterBytes   \* 64 in the code

\* The placements there are; any other number in a header is unknown.
Placements == {"separate", "input", "output"}
PlacementBytes == Placements \cup {"unknown"}

\* compress is given at least one value; the clusters a header counts are read
\* from the bytes behind it.
ASSUME HeaderAssumption ==
  /\ MaxClusterBytes \in Nat
  /\ Options \subseteq [size : Nat \ {0}, groupLog2 : Nat, placement : PlacementBytes,
                        input : Seq(Nat), output : Seq(Nat)]
  /\ Files \subseteq [magic : BOOLEAN, size : Nat, groupLog2 : Nat,
                      placement : PlacementBytes, inputs : Nat, outputs : Nat,
                      length : Nat, clusters : Seq(Nat), ones : {{}}]
  /\ \A f \in Files : Len(f.clusters) = f.inputs + f.outputs

VARIABLES
  phase,
  options,      \* one record, or none when the file is of other origin
  file,         \* one record, or none before it is written
  view,         \* the layout of the view in memory, empty when it threw
  layout        \* the layout of the file view

vars == <<phase, options, file, view, layout>>

HeaderSize == 20

Sizes(groupLog2) == INSTANCE FormatSizes WITH MiddleGroupLog2 <- groupLog2

DefaultClusters(depth) ==
  CASE depth = 0 -> <<>>
    [] depth = 1 -> <<1>>
    [] depth > 1 -> <<(depth + 1) \div 2, depth \div 2>>

ValidClusters(list, depth) ==
  0 \notin {list[n] : n \in DOMAIN list} /\ Sizes(1)!SumOf(list) = depth

\* normalize_format: the format meant by the options, if there is one.
Normalized(f) ==
  IF f.groupLog2 \notin 1 .. 5 \/ f.placement \notin Placements THEN {}
  ELSE LET depth == Sizes(f.groupLog2)!RoutingDepth(f.size)
           Filled(list) == IF list = <<>> THEN DefaultClusters(depth) ELSE list
           input  == Filled(f.input)
           output == Filled(f.output)
       IN  IF ValidClusters(input, depth) /\ ValidClusters(output, depth)
           THEN {[f EXCEPT !.input = input, !.output = output,
                           !.placement = IF depth = 0 THEN "separate" ELSE @]}
           ELSE {}

ByteCount(bits) == bits \div 8 + (IF bits % 8 # 0 THEN 1 ELSE 0)

\* make_layout of a normalised format: the offsets are those of bytes.
Layout(f) ==
  LET switches == ByteCount(Sizes(f.groupLog2)!SwitchBits(f.size))
      middle   == ByteCount(Sizes(f.groupLog2)!MiddleBits(f.size))
      At(side) == IF f.placement = side THEN middle ELSE 0
      inputOffset  == HeaderSize + Len(f.input) + Len(f.output)
      outputOffset == inputOffset + switches + At("input")
      middleOffset == outputOffset + switches + At("output")
  IN  [format |-> f, input |-> inputOffset, output |-> outputOffset,
       middle |-> middleOffset, end |-> middleOffset + At("separate")]

\* Mutant of Written: the output clusters are written first.
WrittenSwapped(l) ==
  LET f == l.format
  IN  [magic |-> TRUE, size |-> f.size, placement |-> f.placement,
       groupLog2 |-> f.groupLog2, inputs |-> Len(f.input), outputs |-> Len(f.output),
       length |-> l.end, clusters |-> f.output \o f.input, ones |-> {}]

\* What write_header writes.  The switches and ranks set no padding bit.
Written(l) ==
  LET f == l.format
  IN  [magic |-> TRUE, size |-> f.size, placement |-> f.placement,
       groupLog2 |-> f.groupLog2, inputs |-> Len(f.input), outputs |-> Len(f.output),
       length |-> l.end, clusters |-> f.input \o f.output, ones |-> {}]

\* The bits of the byte at an offset behind the fixed header.
IsSet(f, offset, bit) ==
  LET n == offset - HeaderSize + 1
  IN  IF n \in DOMAIN f.clusters THEN (f.clusters[n] \div 2 ^ bit) % 2 = 1
      ELSE offset * 8 + bit \in f.ones

\* The cluster depths from the first-th byte behind the fixed header.
Depths(f, first, count) ==
  [n \in 1 .. count |->
     IF first + n \in DOMAIN f.clusters THEN f.clusters[first + n] ELSE 0]

HeaderLength(f) == HeaderSize + f.inputs + f.outputs
Supported(f, actual) ==
  HeaderLength(f) <= HeaderSize + MaxClusterBytes /\ HeaderLength(f) <= actual

\* parse_header, given the first have bytes of a file said to be actual bytes
\* long.
Parsed(f, have, actual) ==
  IF have < HeaderSize \/ ~f.magic \/ ~Supported(f, actual)
     \/ have < HeaderLength(f) \/ f.size = 0
  THEN {}
  ELSE {l \in {Layout(n) : n \in Normalized(
                 [size |-> f.size, groupLog2 |-> f.groupLog2,
                  placement |-> f.placement,
                  input |-> Depths(f, 0, f.inputs),
                  output |-> Depths(f, f.inputs, f.outputs)])} :
          l.end = actual}

\* The bits set in a file stand behind its cluster depths.
ASSUME OnesAssumption ==
  \A f \in Files : \A ones \in Ones(f, Parsed(f, f.length, f.length)) :
    ones \subseteq (HeaderSize + Len(f.clusters)) * 8 .. f.length * 8 - 1

\* By section: where it begins and ends, and the bits it uses.
Sections(l) ==
  LET f == l.format
      switches == Sizes(f.groupLog2)!SwitchBits(f.size)
      middle   == Sizes(f.groupLog2)!MiddleBits(f.size)
      At(side) == IF f.placement = side THEN middle ELSE 0
  IN  {[begin |-> l.input, end |-> l.output, used |-> switches + At("input")],
       [begin |-> l.output, end |-> l.middle, used |-> switches + At("output")],
       [begin |-> l.middle, end |-> l.end, used |-> At("separate")]}

\* Mutant of PaddingBits: only the last byte in use has padding.
PaddingOfByte(s) == {b \in s.used .. s.used + 7 : b \div 8 = s.used \div 8 /\ b % 8 # 0}
PaddingBits(s) == s.used .. (s.end - s.begin) * 8 - 1

\* validate_padding.
PaddingIsZero(f, l) ==
  \A s \in Sections(l) :
    /\ s.used <= (s.end - s.begin) * 8
    /\ \A b \in PaddingBits(s) : ~IsSet(f, s.begin + b \div 8, b % 8)
-----------------------------------------------------------------------------
\* compress is called; or there is a file already.
Init ==
  /\ view = {} /\ layout = {}
  /\ \/ \E o \in Options :
          options = {o} /\ file = {} /\ phase = "compress"
     \/ \E f \in Files :
          \E ones \in Ones(f, Parsed(f, f.length, f.length)) :
            /\ options = {}
            /\ file = {[f EXCEPT !.ones = ones]}
            /\ phase = "view"

Compress ==
  /\ phase = "compress"
  /\ LET layouts == {Layout(n) : o \in options, n \in
                       UNION {Normalized(p) : p \in options}}
     IN  /\ file' = {Written(l) : l \in layouts}
         /\ phase' = IF layouts = {} THEN "refused" ELSE "write"
  /\ UNCHANGED <<options, view, layout>>

\* Mutant of Stored: the space is reserved before the bytes are written.
StoredInPlace(f, n) ==
  [f EXCEPT !.clusters = [d \in DOMAIN @ |-> IF HeaderSize + d > n THEN 0 ELSE @[d]]]
\* What is in the output file once n bytes have been written: it was truncated
\* when it was opened.
Stored(f, n) == [f EXCEPT !.length = n]

\* compress_file writes the bytes.  The disk may take a part of them only: the
\* stream's state is tested behind the write, but its buffer is flushed later,
\* so that the caller may believe in a file that was cut short.
WriteFile ==
  /\ phase = "write"
  /\ \E f \in file : \E n \in 0 .. f.length : file' = {Stored(f, n)}
  /\ phase' = "view"
  /\ UNCHANGED <<options, view, layout>>

\* The view of the bytes in memory: parse_layout.
OpenView ==
  /\ phase = "view"
  /\ view' = UNION {{l \in Parsed(f, f.length, f.length) : PaddingIsZero(f, l)} :
                    f \in file}
  /\ phase' = "fixed"
  /\ UNCHANGED <<options, file, layout>>

\* A read of the stream may fail at any time.
ReadFails ==
  /\ phase \in {"fixed", "rest", "padding"}
  /\ phase' = "failed"
  /\ layout' = {}
  /\ UNCHANGED <<options, file, view>>

\* The file view: the fixed header is read, which fails in a shorter file.
ReadFixed ==
  /\ phase = "fixed"
  /\ \E f \in file :
       phase' = IF f.length >= HeaderSize /\ Supported(f, f.length)
                THEN "rest" ELSE "rejected"
  /\ UNCHANGED <<options, file, view, layout>>

\* Mutant of ReadRest: the parser is told the length of what was read.
ReadRestAsFile ==
  /\ phase = "rest"
  /\ \E f \in file :
       /\ layout' = Parsed(f, HeaderLength(f), HeaderLength(f))
       /\ phase' = IF layout' = {} THEN "rejected" ELSE "padding"
  /\ UNCHANGED <<options, file, view>>

\* The cluster depths are read, and the header is parsed.
ReadRest ==
  /\ phase = "rest"
  /\ \E f \in file :
       /\ layout' = Parsed(f, HeaderLength(f), f.length)
       /\ phase' = IF layout' = {} THEN "rejected" ELSE "padding"
  /\ UNCHANGED <<options, file, view>>

ReadPadding ==
  /\ phase = "padding"
  /\ \E f \in file, l \in layout :
       IF PaddingIsZero(f, l) THEN phase' = "open" /\ UNCHANGED layout
       ELSE phase' = "rejected" /\ layout' = {}
  /\ UNCHANGED <<options, file, view>>

Next ==
  Compress \/ WriteFile \/ OpenView \/ ReadFails \/ ReadFixed \/ ReadRest \/ ReadPadding

Spec == Init /\ [][Next]_vars
-----------------------------------------------------------------------------
\* What compress has written opens in both views with the sections where the
\* encoder put them, as long as the header has room for its clusters.  What
\* compress_file has cut short opens in none.
WrittenOpens ==
  phase \in {"open", "rejected"} =>
    \A o \in options, f \in file :
      \A n \in Normalized(o) :
        Len(n.input) + Len(n.output) <= MaxClusterBytes =>
          LET written == {l \in {Layout(n)} : l.end = f.length}
          IN  /\ phase = "open" <=> written # {}
              /\ view = written
              /\ layout = written

\* The two views accept the same files, with the same layout.
ViewsAgree == phase \in {"open", "rejected"} => view = layout

\* When a file opens whose header says where its sections begin, every set bit
\* behind the header is one that a section uses: nothing can be hidden in it,
\* and a file of the same permutation and header has no second form.
Declares(f, l) == l.input = HeaderLength(f)

NothingIsHidden ==
  \A f \in file, l \in view :
    Declares(f, l) =>
      \A bit \in f.ones :
        \E s \in Sections(l) :
          bit \in s.begin * 8 .. s.begin * 8 + s.used - 1

\* "Header length, section offsets, and exact file size are derived from the
\* stored parameters rather than encoded again.  The decoder accepts only exact
\* canonical section bounds" (README.md:133-135): a file that opens has its
\* sections begin where its header ends.
SectionsFollowHeader == \A f \in file, l \in view : Declares(f, l)
=============================================================================
