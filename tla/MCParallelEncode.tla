-------------------------- MODULE MCParallelEncode --------------------------
(* Instances of ParallelEncode for TLC: real networks over leaves of two. *)
EXTENDS ParallelEncode, Sequences

E == INSTANCE Encoding WITH MiddleGroupLog2 <- 1

\* A permutation without a pattern the network could share.
Scattered(n) == [x \in 0 .. n - 1 |-> (x * (IF n % 2 = 0 THEN 5 ELSE 4) + 3) % n]

JobOf(format) ==
  [calls |-> E!AllCalls(Scattered(format.count), format),
   file  |-> E!Encoded(Scattered(format.count), format)]

\* Networks of one to three levels, the last one with single clusters that mix
\* the bits of all calls.
SomeJobs == {JobOf(f) : f \in E!Formats({1, 3, 5}, {"separate", "input"})}
  \cup {JobOf(f) : f \in {g \in E!Formats({9, 11}, {"input"}) : Len(g.input) = 1 /\ Len(g.output) = 1}}
SomeRequests == 0 .. 5
=============================================================================
