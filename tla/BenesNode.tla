----------------------------- MODULE BenesNode -----------------------------
(***************************************************************************)
(* One node of the compact Benes network: a permutation of Count values    *)
(* whose inputs and outputs are taken in pairs.  Every value is routed to  *)
(* the upper (0, left) or the lower (1, right) child; the two values of an *)
(* input pair go to different children, and so do the two values of an     *)
(* output pair.  A value is named by its input position, as the code does. *)
(*                                                                         *)
(* Which of the many legal routings is written to the file is fixed by     *)
(* IsCanonical: all encoders (serial, CUDA, Metal) have to agree on it,    *)
(* because their files are compared byte for byte.                         *)
(***************************************************************************)
EXTENDS Naturals

CONSTANT Count          \* number of values of the node, CompactNode.count

ASSUME CountAssumption == Count \in Nat \ {0}

Index == 0 .. Count - 1
Pair  == 0 .. (Count \div 2) - 1        \* pairs whose two members exist
Unpaired  == Count - 1                      \* the unpaired end when Count is odd
Odd   == Count % 2 = 1

Bit == {0, 1}
Xor(a, b) == IF a = b THEN 0 ELSE 1

Permutations ==
  {p \in [Index -> Index] : \A i, j \in Index : p[i] = p[j] => i = j}

\* The input position of every output position.
InverseOf(p) == [o \in Index |-> CHOOSE i \in Index : p[i] = o]

\* The two ends of the constraint edges, inv being the inverse permutation:
\* number 1 joins an input pair, number 2 the values of an output pair.
LeftEnd(inv, pair, number) ==
  IF number = 1 THEN 2 * pair ELSE inv[2 * pair]
RightEnd(inv, pair, number) ==
  IF number = 1 THEN 2 * pair + 1 ELSE inv[2 * pair + 1]

Colorings == [Index -> Bit]

\* A routing the switches can realise.
Proper(inv, c) ==
  \A pair \in Pair, number \in {1, 2} :
    c[LeftEnd(inv, pair, number)] # c[RightEnd(inv, pair, number)]

ProperColorings(inv) == {c \in Colorings : Proper(inv, c)}

\* The values that a chain of constraints connects: their colours determine
\* each other in every proper colouring.
Tied(proper, i, j) == \E v \in Bit : \A c \in proper : Xor(c[i], c[j]) = v

\* The unpaired input and the unpaired output of an odd node have no switch,
\* they are wired to the upper child.
OddEnds(inv) == IF Odd THEN {Unpaired, inv[Unpaired]} ELSE {}

\* The values that decide their group's orientation: an odd end if the group
\* has one, its smallest position otherwise.
Leaders(inv, proper) ==
  OddEnds(inv) \cup
  {i \in Index : /\ \A e \in OddEnds(inv) : ~Tied(proper, i, e)
                 /\ \A j \in Index : j < i => ~Tied(proper, i, j)}

IsCanonical(inv, c) ==
  /\ c \in Colorings
  /\ Proper(inv, c)
  /\ \A i \in Leaders(inv, ProperColorings(inv)) : c[i] = 0

\* The routing a decoder finds from the bits of one side, end having the input or
\* output position by which it meets each value: an unpaired end has no switch.
Decoded(bits, end) ==
  [i \in Index |-> IF Odd /\ end[i] = Unpaired THEN 0
                   ELSE Xor(bits[end[i] \div 2], end[i] % 2)]

\* What an encoder hands to the next level: the child, the position in the
\* child's permutation and the value stored there, one triple per input.
Writes(p, c) == {<<c[i], i \div 2, p[i] \div 2>> : i \in Index}

\* The children's permutations in full: each slot is written once, and each
\* value occurs once.
ChildSize(child) == IF child = 0 THEN Count - (Count \div 2) ELSE Count \div 2

IsSplit(writes) ==
  \A child \in Bit :
    LET mine == {w \in writes : w[1] = child}
        slot == 0 .. ChildSize(child) - 1
    IN  /\ \A s \in slot : \E w \in mine : w[2] = s
        /\ \A s \in slot : \E w \in mine : w[3] = s
        /\ \A w \in mine : w[2] \in slot /\ w[3] \in slot
        /\ \A v, w \in mine : v[2] = w[2] <=> v[3] = w[3]
=============================================================================
