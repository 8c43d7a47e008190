--------------------------- MODULE SerialColoring ---------------------------
(***************************************************************************)
(* The portable encoder's colouring of one node: encode_compact_node walks *)
(* the constraints breadth first from the odd ends and then from every     *)
(* value that is still uncoloured, and writes one bit for each end of each *)
(* switch.  Two throw statements guard it; a step here is the visit of one *)
(* value, or one turn of the loop over the values.                         *)
(***************************************************************************)
EXTENDS BenesNode, Integers, Sequences

CONSTANT Inputs         \* the permutations offered

ASSUME InputsAssumption == Inputs \subseteq Permutations

VARIABLES permutation, inverse,
          color,        \* -1 until the value is coloured
          pending,      \* the deque of color_component
          edge,         \* the loop over the values
          phase

vars == <<permutation, inverse, color, pending, edge, phase>>

Init ==
  /\ permutation \in Inputs
  /\ inverse = InverseOf(permutation)
  /\ color = [x \in Index |-> -1]
  /\ pending = <<>>
  /\ edge = 0
  /\ phase = "odd_input"

\* The other value of the same pair, none for the unpaired one.
Partner(x) == IF x % 2 = 0 THEN x + 1 ELSE x - 1
InputPartner(x) ==
  IF Odd /\ x = Unpaired THEN <<>> ELSE <<Partner(x)>>
\* Mutant of OutputPartner: the permutation for its inverse.
OutputPartnerForward(x) ==
  IF Odd /\ permutation[x] = Unpaired THEN <<>>
  ELSE <<permutation[Partner(permutation[x])]>>
OutputPartner(x) ==
  IF Odd /\ permutation[x] = Unpaired THEN <<>>
  ELSE <<inverse[Partner(permutation[x])]>>

\* neighbors[x], in the order in which the loop over the pairs connects them.
Neighbors(x) ==
  IF x \div 2 <= permutation[x] \div 2
  THEN InputPartner(x) \o OutputPartner(x)
  ELSE OutputPartner(x) \o InputPartner(x)

\* color_component(first) starts.
Start(first) ==
  /\ color' = [color EXCEPT ![first] = 0]
  /\ pending' = <<first>>

Fails(x) == \E n \in DOMAIN Neighbors(x) :
              color[Neighbors(x)[n]] = color[x]

\* Mutant of Visit: of two uncoloured neighbours only the first is coloured.
VisitFirst ==
  /\ pending # <<>>
  /\ LET next == Neighbors(Head(pending))
     IN  IF Len(next) > 0 /\ color[next[1]] = -1
         THEN /\ color' = [color EXCEPT ![next[1]] = Xor(color[Head(pending)], 1)]
              /\ pending' = Append(Tail(pending), next[1])
         ELSE color' = color /\ pending' = Tail(pending)
  /\ UNCHANGED <<permutation, inverse, edge, phase>>

\* The neighbours still to be coloured, in order: one that is a neighbour by both
\* constraints is coloured at the first.
Uncolored(x) ==
  LET n == Neighbors(x)
      first  == IF Len(n) > 0 /\ color[n[1]] = -1 THEN <<n[1]>> ELSE <<>>
      second == IF Len(n) = 2 /\ color[n[2]] = -1 /\ n[1] # n[2] THEN <<n[2]>> ELSE <<>>
  IN  first \o second

\* One value leaves the deque and colours its neighbours.
Visit ==
  /\ pending # <<>>
  /\ phase # "failed"
  /\ LET x    == Head(pending)
         next == Uncolored(x)
     IN  IF Fails(x)
         THEN phase' = "failed" /\ UNCHANGED <<color, pending>>
         ELSE /\ color' = [y \in Index |-> IF \E n \in DOMAIN next : next[n] = y
                                           THEN Xor(color[x], 1) ELSE color[y]]
              /\ pending' = Tail(pending) \o next
              /\ UNCHANGED phase
  /\ UNCHANGED <<permutation, inverse, edge>>

\* Mutant of ColorOddInput: the odd end is left to the loop over the values.
SkipOddInput ==
  /\ phase = "odd_input"
  /\ phase' = "values"
  /\ UNCHANGED <<permutation, inverse, color, pending, edge>>

\* The odd ends come first, on the upper child.
ColorOddInput ==
  /\ phase = "odd_input"
  /\ IF Odd
     THEN Start(Unpaired) /\ phase' = "odd_output"
     ELSE phase' = "values" /\ UNCHANGED <<color, pending>>
  /\ UNCHANGED <<permutation, inverse, edge>>

ColorOddOutput ==
  /\ phase = "odd_output"
  /\ pending = <<>>
  /\ LET x == inverse[Unpaired]
     IN  \/ color[x] = -1 /\ Start(x) /\ phase' = "values"
         \/ color[x] = 0 /\ phase' = "values" /\ UNCHANGED <<color, pending>>
         \/ color[x] = 1 /\ phase' = "failed" /\ UNCHANGED <<color, pending>>
  /\ UNCHANGED <<permutation, inverse, edge>>

\* Mutant of ColorValue: a component begins with the value's pair.
ColorPartner ==
  /\ phase = "values"
  /\ pending = <<>>
  /\ edge < Count
  /\ IF color[edge] = -1 THEN Start(Partner(edge)) ELSE UNCHANGED <<color, pending>>
  /\ edge' = edge + 1
  /\ UNCHANGED <<permutation, inverse, phase>>

\* One turn of the loop over the values: an uncoloured one starts a component.
ColorValue ==
  /\ phase = "values"
  /\ pending = <<>>
  /\ edge < Count
  /\ IF color[edge] = -1 THEN Start(edge) ELSE UNCHANGED <<color, pending>>
  /\ edge' = edge + 1
  /\ UNCHANGED <<permutation, inverse, phase>>

\* The switch bits and the children's permutations are written.
Emit ==
  /\ phase = "values"
  /\ pending = <<>>
  /\ edge = Count
  /\ phase' = "done"
  /\ UNCHANGED <<permutation, inverse, color, pending, edge>>

\* set_encoded_bit can only set a bit, and both ends of a switch write it: the
\* bit in the file is set when either end asks for it.
Crossed(x, end) == IF color[x] # end % 2 THEN 1 ELSE 0
Either(a, b)    == IF a = 1 THEN 1 ELSE b
InputBits ==
  [k \in Pair |-> Either(Crossed(2 * k, 2 * k), Crossed(2 * k + 1, 2 * k + 1))]
OutputBits ==
  [k \in Pair |-> Either(Crossed(inverse[2 * k], 2 * k),
                         Crossed(inverse[2 * k + 1], 2 * k + 1))]

Next ==
  \/ Visit
  \/ ColorOddInput
  \/ ColorOddOutput
  \/ ColorValue
  \/ Emit

Spec == Init /\ [][Next]_vars
-----------------------------------------------------------------------------
\* Neither throw statement is ever reached: the constraints have no odd cycle,
\* and when one chain joins the two odd ends it gives both the same colour.
NeverThrows == phase # "failed"

\* A value in the deque is coloured and waits there once; a coloured value that
\* is not in the deque has had its neighbours coloured against it.  This is
\* what lets the search end with every constraint satisfied.
FrontierSeparates ==
  /\ \A m, n \in DOMAIN pending : pending[m] = pending[n] => m = n
  /\ \A n \in DOMAIN pending : color[pending[n]] # -1
  /\ \A x \in Index : color[x] # -1 =>
       \/ \E n \in DOMAIN pending : pending[n] = x
       \/ \A n \in DOMAIN Neighbors(x) :
            color[Neighbors(x)[n]] = Xor(color[x], 1)

\* The serial search chooses the colouring every encoder has to choose, and a
\* decoder finds it from the bits of either side: the two ends that write one
\* switch ask for the same setting.
Answers == {color, Decoded(InputBits, [i \in Index |-> i]),
            Decoded(OutputBits, permutation)}
Coloring == INSTANCE NodeColoring
              WITH answer <- IF phase = "done" THEN Answers ELSE {}
ImplementsNodeColoring == Coloring!Spec
=============================================================================
