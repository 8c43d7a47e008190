---------------------------- MODULE MCFactoradic ----------------------------
(* Instances of Factoradic for TLC. *)
EXTENDS Factoradic

SmallLeaves == 1 .. 5
=============================================================================
