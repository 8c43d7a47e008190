---------------------------- MODULE NodeColoring ----------------------------
(***************************************************************************)
(* What every encoder of one node promises: given a permutation, it fixes  *)
(* the one canonical colouring.  The serial search of the portable encoder *)
(* and the concurrent union-find of the GPU encoders both implement it,    *)
(* which is why their files are equal byte for byte.                       *)
(***************************************************************************)
EXTENDS BenesNode

CONSTANT Inputs         \* the permutations offered

VARIABLES permutation,
          answer        \* the set of colourings given so far: the one the
                        \* children get and those the switch bits describe

Init ==
  /\ permutation \in Inputs
  /\ answer = {}

Choose ==
  /\ answer = {}
  /\ \E c \in Colorings :
       answer' = {c} /\ IsCanonical(InverseOf(permutation), c)
  /\ UNCHANGED permutation

Next == Choose

Spec == Init /\ [][Next]_<<permutation, answer>>
=============================================================================
