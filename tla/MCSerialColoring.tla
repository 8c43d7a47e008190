-------------------------- MODULE MCSerialColoring --------------------------
(* Instances of SerialColoring for TLC. *)
EXTENDS SerialColoring

AllPermutations == Permutations
=============================================================================
