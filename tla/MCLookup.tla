------------------------------ MODULE MCLookup ------------------------------
(* Instances of Lookup for TLC. *)
EXTENDS Lookup

AllOrders(n) == Orders(n)

\* A few permutations without a pattern the network could share.
Scattered(n) ==
  {[x \in 0 .. n - 1 |-> n - 1 - x],
   [x \in 0 .. n - 1 |-> (2 * x + 1) % n],
   [x \in 0 .. n - 1 |-> (x * (IF n % 2 = 0 THEN 5 ELSE 4) + 3) % n]}
Some(n) == {p \in Scattered(n) : Cardinality({p[x] : x \in 0 .. n - 1}) = n}

AllOrSome(n) == IF n > 5 THEN Some(n) ELSE AllOrders(n)

UpToFive == 1 .. 5
SmallAndDeep == UpToFive \cup {9, 17}
AllPlacements == {"separate", "input", "output"}
=============================================================================
