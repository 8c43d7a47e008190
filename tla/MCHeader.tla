------------------------------ MODULE MCHeader ------------------------------
(* Instances of Header for TLC. *)
EXTENDS Header

\* Every kind of list for networks of up to three levels, good and bad.
Lists == {<<>>, <<0>>, <<1>>, <<2>>, <<3>>, <<1, 1>>, <<2, 1>>, <<1, 2>>, <<1, 1, 1>>}
SomeSizes == {1, 2, 5, 9}

SomeOptions ==
  [size : SomeSizes, groupLog2 : 0 .. 2, input : Lists, output : Lists,
   placement : Placements \cup {"unknown"}]

\* Files of 19 to 30 bytes whose header fits together or does not.
SomeFiles ==
  {[magic |-> magic, size |-> size, placement |-> place, groupLog2 |-> log2,
    inputs |-> Len(input), outputs |-> Len(output), length |-> length,
    clusters |-> input \o output, ones |-> {}] :
     magic \in {TRUE}, size \in SomeSizes \cup {0}, log2 \in {1, 2, 6},
     place \in Placements \cup {"unknown"}, input \in Lists, output \in Lists,
     length \in 19 .. 30}
  \cup
  {[magic |-> FALSE, size |-> 5, placement |-> "separate", groupLog2 |-> 1,
    inputs |-> 1, outputs |-> 1, length |-> 25, clusters |-> <<2, 2>>, ones |-> {}]}

\* In a file that parses no bit is set behind the cluster depths, or any one is.
OneBit(f, layouts) ==
  IF layouts = {} THEN {{}}
  ELSE {{}} \cup {{b} : b \in (HeaderSize + Len(f.clusters)) * 8 .. f.length * 8 - 1}
=============================================================================
