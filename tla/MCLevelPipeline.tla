--------------------------- MODULE MCLevelPipeline ---------------------------
(* Instances of LevelPipeline for TLC. *)
EXTENDS LevelPipeline

AllOrders(n) == Orders(n)
Reversed(n)  == {[x \in 0 .. n - 1 |-> n - 1 - x]}
\* A permutation without a pattern the network could share.
Scattered(n) == {[x \in 0 .. n - 1 |-> (x * (IF n % 2 = 0 THEN 5 ELSE 4) + 3) % n]}
AllOrSome(n) == IF n > 4 THEN Reversed(n) \cup Scattered(n) ELSE AllOrders(n)

SmallAndDeep == {1, 2, 3, 4, 5, 8, 9, 15, 17}
Fifteen == {15}
AllPlacements == {"separate", "input", "output"}
AllHosts == {"cuda", "metal", "cuda64", "metal64"}
=============================================================================
