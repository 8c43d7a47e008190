---------------------------- MODULE MCUnionFind ----------------------------
(* Instances of UnionFind for TLC. *)
EXTENDS UnionFind

\* Given as a sequence of outputs, as a test would write it.
FromSeq(s) == [i \in Index |-> s[i + 1]]

\* The unpaired input and output at the ends of a long chain, of a short one,
\* tied directly, beside a cycle of the other pairs.
Seven ==
  {FromSeq(s) : s \in {
    <<1, 3, 0, 5, 2, 6, 4>>, <<2, 0, 3, 1, 6, 4, 5>>, <<0, 2, 4, 1, 3, 5, 6>>,
    <<6, 5, 4, 3, 2, 1, 0>>, <<0, 1, 2, 3, 4, 5, 6>>, <<2, 3, 0, 6, 1, 4, 5>>,
    <<0, 2, 1, 3, 4, 6, 5>>, <<4, 2, 0, 6, 3, 5, 1>>, <<5, 0, 6, 2, 1, 4, 3>>}}
=============================================================================
