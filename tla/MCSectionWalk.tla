---------------------------- MODULE MCSectionWalk ----------------------------
(* Instances of SectionWalk for TLC. *)
EXTENDS SectionWalk

\* The last three have nodes of two sizes on the fourth level.
Networks == 1 .. 33 \cup {39, 45, 47}
AllPlacements == {"separate", "input", "output"}
=============================================================================
