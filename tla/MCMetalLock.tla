---------------------------- MODULE MCMetalLock ----------------------------
(* Instances of MetalLock for TLC. *)
EXTENDS MetalLock

CONSTANTS t1, t2, t3
AllThreads == {t1, t2, t3}
\* Two lanes of one group, and a thread of another.
TwoGroups(t) == IF t = t3 THEN 2 ELSE 1

Pair(l, h) == [low |-> l, high |-> h]
Swap(from, to) == [op |-> "swap", expected |-> from, replacement |-> to]
SomeRequests ==
  {[op |-> "load"], Swap(Pair(0, 0), Pair(1, 1)), Swap(Pair(1, 1), Pair(0, 1))}
=============================================================================
