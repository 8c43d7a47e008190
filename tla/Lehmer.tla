------------------------------- MODULE Lehmer -------------------------------
(***************************************************************************)
(* The code of a leaf: the permutations of n values, numbered.  Position   *)
(* i has as its digit the number of earlier positions with smaller values, *)
(* and the digits are the places of a number in mixed radix, the first one *)
(* counting most.  The reference the encoders and the decoder of leaves    *)
(* are compared with.                                                      *)
(***************************************************************************)
EXTENDS Naturals, FiniteSets

Orders(n) ==
  {p \in [0 .. n - 1 -> 0 .. n - 1] :
     \A i, j \in 0 .. n - 1 : p[i] = p[j] => i = j}

Digit(p, i) == Cardinality({j \in 0 .. i - 1 : p[j] < p[i]})

Rank(p, n) ==
  LET R[k \in 0 .. n] == IF k = 0 THEN 0 ELSE R[k - 1] * k + Digit(p, k - 1)
  IN  R[n]

Factorial[c \in Nat] == IF c = 0 THEN 1 ELSE c * Factorial[c - 1]

PowerOfTwo[c \in Nat] == IF c = 0 THEN 1 ELSE 2 * PowerOfTwo[c - 1]

\* A rank that no permutation has stands for its remainder.
Order(rank, n) == CHOOSE p \in Orders(n) : Rank(p, n) = rank % Factorial[n]
=============================================================================
