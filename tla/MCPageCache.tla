----------------------------- MODULE MCPageCache -----------------------------
(* Instances of PageCache for TLC: a file of two full pages and a half. *)
EXTENDS PageCache

FileBytes == [o \in 0 .. 4 |-> 10 + o]

Range(o, l) == [offset |-> o, length |-> l]

\* Single bytes as the lookups read them, a read over a page boundary, the
\* whole file, an empty read at the end, and one that leaves the file.
SomeRanges == {Range(1, 1), Range(4, 1), Range(1, 3), Range(0, 5),
               Range(5, 0), Range(4, 2)}
=============================================================================
