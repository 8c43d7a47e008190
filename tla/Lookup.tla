------------------------------- MODULE Lookup -------------------------------
(***************************************************************************)
(* detail::lookup: a value is followed down the network by the switch bits *)
(* of one section, through the leaf's permutation, and up again by the     *)
(* bits of the other section.  forward goes down by the input section,     *)
(* inverse by the output section.  Here a value is looked up and then the  *)
(* answer is looked up in the other direction.                             *)
(*                                                                         *)
(* The file was written by an encoder, or it is any file whose header and  *)
(* padding are accepted: the parser cannot tell whether its bits are those *)
(* of an encoder.                                                          *)
(***************************************************************************)
EXTENDS Encoding

CONSTANTS Counts,       \* the sizes of the permutations
          Placements,   \* of the middle
          Inputs(_),    \* the permutations of a size that are encoded
          AnyFile       \* the sizes for which files hold any bits as well

ASSUME LookupAssumption ==
  /\ Counts \subseteq Nat \ {0}
  /\ Placements \subseteq {"separate", "input", "output"}
  /\ AnyFile \subseteq Counts
  /\ \A n \in Counts : Inputs(n) \subseteq Orders(n)   \* validate_permutation

VARIABLES
  format,
  permutation,  \* that was encoded, <<>> for any file
  file,         \* the set bits of the three sections
  value, inverse, \* the lookup's arguments
  asked,        \* the value asked for first
  back,         \* the second lookup has begun
  phase,
  index, count, \* the local variables of lookup
  in, out, middle,
  frames

vars == <<format, permutation, file, value, inverse, asked, back, phase,
          index, count, in, out, middle, frames>>
header == <<format, permutation, file>>

Span(bits) == 0 .. bits - 1

\* The bits of a section that are not padding.
SectionSpan(side) ==
  Span(SwitchBits(format.count)
         + IF format.placement = side THEN MiddleBits(format.count) ELSE 0)

Begin(v, inv) ==
  /\ value' = v
  /\ inverse' = inv
  /\ index' = v
  /\ count' = format.count
  /\ in' = RootOf(format, format.input, "input")
  /\ out' = RootOf(format, format.output, "output")
  /\ middle' = 0
  /\ frames' = <<>>
  /\ phase' = "down"

Init ==
  /\ format \in Formats(Counts, Placements)
  /\ \/ /\ format.count \in AnyFile
        /\ permutation = <<>>
        /\ file \in
             [input  : SUBSET SectionSpan("input"),
              output : SUBSET SectionSpan("output"),
              middle : SUBSET Span(IF format.placement = "separate"
                                   THEN MiddleBits(format.count) ELSE 0)]
     \/ /\ permutation \in Inputs(format.count)
        /\ file = Encoded(permutation, format)
  /\ value \in 0 .. format.count - 1
  /\ inverse \in BOOLEAN
  /\ asked = value
  /\ back = FALSE
  /\ phase = "down"
  /\ index = value
  /\ count = format.count
  /\ in = RootOf(format, format.input, "input")
  /\ out = RootOf(format, format.output, "output")
  /\ middle = 0
  /\ frames = <<>>

\* The section that is read on the way down, and its addresses.
Entered  == IF inverse THEN file.output ELSE file.input
Left(f)  == IF inverse THEN f.in ELSE f.out

\* Mutant of OddTail: the last value has a switch like the others.
NoOddTail == FALSE
OddTail == count % 2 = 1 /\ index = count - 1

\* One level down.
Descend ==
  /\ phase = "down"
  /\ count > LeafSize
  /\ LET bit   == SwitchBit(IF inverse THEN out ELSE in, index \div 2)
         right == ~OddTail /\ (bit \in Entered) # (index % 2 = 1)
     IN  /\ frames' = Append(frames,
                       [size |-> count, in |-> in, out |-> out, right |-> right])
         /\ middle' = middle + IF right THEN MiddleBits(LeftCount(count)) ELSE 0
         /\ in' = Child(in, right, count)
         /\ out' = Child(out, right, count)
         /\ count' = ChildCount(right, count)
  /\ index' = index \div 2
  /\ UNCHANGED <<header, value, inverse, asked, back, phase>>

\* read_rank on the bits of the leaf, the first one counting least.
RankRead ==
  LET start == RankStart(format, in, out, middle)
      bits  == file[RankSection(format)]
      last  == start + FactoradicBitCount(count)
      Upper[b \in 0 .. FactoradicBitCount(count)] ==
        IF b = 0 THEN 0
        ELSE 2 * Upper[b - 1] + IF last - b \in bits THEN 1 ELSE 0
  IN  Upper[FactoradicBitCount(count)]

\* Through the leaf; the array that holds it has zeros behind it.
Middle ==
  /\ phase = "down"
  /\ count <= LeafSize
  /\ LET order == Order(RankRead, count)
         leaf  == [n \in 0 .. 31 |-> IF n < count THEN order[n] ELSE 0]
     IN  IF inverse
         THEN IF \E n \in 0 .. count - 1 : leaf[n] = index
              THEN /\ index' = CHOOSE n \in 0 .. count - 1 : leaf[n] = index
                   /\ phase' = "up"
              ELSE phase' = "thrown" /\ UNCHANGED index
         ELSE index' = leaf[index] /\ phase' = "up"
  /\ UNCHANGED <<header, value, inverse, asked, back, count, in, out, middle, frames>>

\* Mutant of Exited: the bits of the way down are read again.
EnteredAgain == Entered
Exited == IF inverse THEN file.input ELSE file.output

\* One level up: the last frame is popped.
Ascend ==
  /\ phase = "up"
  /\ frames # <<>>
  /\ LET f     == frames[Len(frames)]
         pairs == f.size \div 2
     IN  IF ~f.right /\ f.size % 2 = 1 /\ index = pairs
         THEN index' = f.size - 1
         ELSE index' = 2 * index +
                IF f.right # (SwitchBit(Left(f), index) \in Exited) THEN 1 ELSE 0
  /\ frames' = SubSeq(frames, 1, Len(frames) - 1)
  /\ UNCHANGED <<header, value, inverse, asked, back, phase, count, in, out, middle>>

Return ==
  /\ phase = "up"
  /\ frames = <<>>
  /\ phase' = "answered"
  /\ UNCHANGED <<header, value, inverse, asked, back, index, count, in, out,
                 middle, frames>>

\* The answer is looked up in the other direction.
AskBack ==
  /\ phase = "answered"
  /\ ~back
  /\ back' = TRUE
  /\ Begin(index, ~inverse)
  /\ UNCHANGED <<header, asked>>

Next == Descend \/ Middle \/ Ascend \/ Return \/ AskBack

Spec == Init /\ [][Next]_vars
-----------------------------------------------------------------------------
\* A file answers with the permutation that was compressed into it, in both
\* directions, whatever its size, its clusters and the place of its middle.
AnswersThePermutation ==
  phase = "answered" /\ permutation # <<>> =>
    IF inverse THEN permutation[index] = value ELSE permutation[value] = index

\* The two directions undo each other in every file that opens, also one no
\* encoder has written: a file always is some permutation.
DirectionsAgree == phase = "answered" /\ back => index = asked

\* The exception for an index that no position of the leaf is sent to is never
\* thrown: the levels above hand the leaf an index it has, and its rank always
\* decodes to a permutation.
NeverThrows == phase # "thrown"
=============================================================================
