----------------------------- MODULE Factoradic -----------------------------
(***************************************************************************)
(* Leaves on their way into the file and out of it: encode_factoradic      *)
(* turns a permutation into a rank of two machine words, the rank's bits   *)
(* are stored, and decode_factoradic turns what is stored, which a damaged *)
(* or foreign file may have chosen, into a permutation.  Beside the scalar *)
(* code runs encode_factoradic_avx512, which never decrements the values   *)
(* it compares.                                                            *)
(*                                                                         *)
(* A half word holds 2^HalfBits values (2^32 in the code, with leaves of   *)
(* up to 32 values); the vector registers have Lanes lanes (16).           *)
(***************************************************************************)
EXTENDS Lehmer, Integers

CONSTANTS Sizes,        \* of the leaves, up to 2 * Lanes
          HalfBits,
          Lanes

ASSUME LeafAssumption ==
  /\ Lanes \in Nat \ {0}
  /\ Sizes \subseteq 1 .. 2 * Lanes
  /\ HalfBits \in Nat \ {0}

\* The intermediate results of multiply_add stay in a word, and every rank in
\* two: with 32 bits and 32 values there is plenty of room.
ASSUME RoomAssumption ==
  \A n \in Sizes : /\ (PowerOfTwo[HalfBits] - 1) * n + n < PowerOfTwo[2 * HalfBits]
                   /\ Factorial[n] < PowerOfTwo[4 * HalfBits]

VARIABLES
  size,
  block,        \* the permutation encoded, or <<>> when only the file is read
  stage,
  i,            \* the counter of the loop that runs
  digits,       \* the array digits of the encoder, output of the decoder
  decrements,   \* the vector encoder's registers, by lane
  acc,          \* the U128
  stored        \* the positions of the bits set in the file

leafVars == <<size, block, stage, i, digits, decrements, acc, stored>>

Half == PowerOfTwo[HalfBits]
Word == Half * Half
Positions == 0 .. size - 1

\* U128::multiply_add, by halves.
MultiplyAdd(u, m, a) ==
  LET lowHalf  == (u.low % Half) * m + a
      highHalf == (u.low \div Half) * m + lowHalf \div Half
  IN  [low  |-> ((highHalf * Half) % Word) + (lowHalf % Half),
       high |-> (u.high * m + highHalf \div Half) % Word]

\* Mutant of Divide: the remainder of the upper word is lost.
DivideByWords(u, d) ==
  [quotient  |-> [low |-> u.low \div d, high |-> u.high \div d],
   remainder |-> u.low % d]

\* U128::divide, limb by limb.
Divide(u, d) ==
  LET limb == <<u.high \div Half, u.high % Half, u.low \div Half, u.low % Half>>
      Rest[k \in 0 .. 4] ==
        IF k = 0 THEN 0 ELSE (Rest[k - 1] * Half + limb[k]) % d
      part(k) == (Rest[k - 1] * Half + limb[k]) \div d
  IN  [quotient  |-> [low  |-> part(3) * Half + part(4),
                      high |-> part(1) * Half + part(2)],
       remainder |-> Rest[4]]

Decrement(u) ==
  IF u.low = 0 THEN [low |-> Word - 1, high |-> (u.high + Word - 1) % Word]
  ELSE [u EXCEPT !.low = @ - 1]

BitWidth(x) == CHOOSE b \in 0 .. 2 * HalfBits :
                 x < PowerOfTwo[b] /\ (b > 0 => x >= PowerOfTwo[b - 1])

\* factoradic_bit_count.
BitCount(n) ==
  LET Product[k \in 1 .. n] ==
        IF k = 1 THEN [low |-> 1, high |-> 0] ELSE MultiplyAdd(Product[k - 1], k, 0)
      last == Decrement(Product[n])
  IN  IF last.high # 0 THEN 2 * HalfBits + BitWidth(last.high)
      ELSE BitWidth(last.low)

BitSet(u, b) ==
  IF b < 2 * HalfBits THEN (u.low \div PowerOfTwo[b]) % 2 = 1
  ELSE (u.high \div PowerOfTwo[b - 2 * HalfBits]) % 2 = 1

\* read_rank: the bits are put back into their words.
WordOf(bits, first) ==
  LET Sum[b \in 0 .. 2 * HalfBits] ==
        IF b = 0 THEN 0
        ELSE Sum[b - 1] + IF first + b - 1 \in bits THEN PowerOfTwo[b - 1] ELSE 0
  IN  Sum[2 * HalfBits]

StoredRank(bits) ==
  [low |-> WordOf(bits, 0), high |-> WordOf(bits, 2 * HalfBits)]

-----------------------------------------------------------------------------
\* A leaf is encoded, or a leaf of a file is read whoever wrote it.
Encode ==
  /\ block \in Orders(size)
  /\ stage = "remove"
  /\ i = size - 1
  /\ digits = block
  /\ acc = [low |-> 0, high |-> 0]
  /\ stored = {}

Read ==
  /\ block = <<>>
  /\ stage = "divide"
  /\ i = size - 1
  /\ digits = [p \in Positions |-> 0]
  /\ stored \in SUBSET (0 .. BitCount(size) - 1)
  /\ acc = StoredRank(stored)

LeafInit ==
  /\ size \in Sizes
  /\ decrements = [p \in Positions |-> 0]
  /\ Encode \/ Read

\* The lanes below i of the two registers.  Mutant: the upper register's lanes
\* are counted from one.
VectorLanesFromOne(n) ==
  {p \in Positions : p < Lanes /\ p < n}
    \cup {p \in Positions : p >= Lanes /\ p - Lanes + 1 < n - Lanes}
VectorLanes(n) ==
  {p \in Positions : p < Lanes /\ p < n}
    \cup {p \in Positions : p >= Lanes /\ p - Lanes < n - Lanes}

\* A turn of the loop that takes position i out: the values above its value
\* move down.  The vector code counts how often each lane has moved.
Remove ==
  /\ stage = "remove"
  /\ i >= 1
  /\ digits' = [p \in Positions |->
       IF p < i /\ digits[p] > digits[i] THEN digits[p] - 1 ELSE digits[p]]
  /\ decrements' = [p \in Positions |->
       decrements[p] +
         IF p \in VectorLanes(i) /\ block[p] > block[i] THEN 1 ELSE 0]
  /\ i' = i - 1
  /\ UNCHANGED <<size, block, stage, acc, stored>>

Removed ==
  /\ stage = "remove"
  /\ i < 1
  /\ stage' = "accumulate"
  /\ i' = 0
  /\ UNCHANGED <<size, block, digits, decrements, acc, stored>>

\* Mutant of Accumulate: the radix of a place is one too small.
AccumulateShort ==
  /\ stage = "accumulate"
  /\ i < size
  /\ acc' = MultiplyAdd(acc, i, digits[i])
  /\ i' = i + 1
  /\ UNCHANGED <<size, block, stage, digits, decrements, stored>>

Accumulate ==
  /\ stage = "accumulate"
  /\ i < size
  /\ acc' = MultiplyAdd(acc, i + 1, digits[i])
  /\ i' = i + 1
  /\ UNCHANGED <<size, block, stage, digits, decrements, stored>>

\* The bits of the rank are set in the file; a lookup reads them again.
Store ==
  /\ stage = "accumulate"
  /\ i = size
  /\ stored' = {b \in 0 .. BitCount(size) - 1 : BitSet(acc, b)}
  /\ acc' = StoredRank(stored')
  /\ stage' = "divide"
  /\ i' = size - 1
  /\ digits' = [p \in Positions |-> 0]
  /\ UNCHANGED <<size, block, decrements>>

\* decode_factoradic: the digits, from the last place to the first.
TakeDigit ==
  /\ stage = "divide"
  /\ i >= 0
  /\ LET q == Divide(acc, i + 1)
     IN  /\ digits' = [digits EXCEPT ![i] = q.remainder]
         /\ acc' = q.quotient
  /\ i' = i - 1
  /\ UNCHANGED <<size, block, stage, decrements, stored>>

Taken ==
  /\ stage = "divide"
  /\ i < 0
  /\ stage' = "insert"
  /\ i' = 0
  /\ UNCHANGED <<size, block, digits, decrements, acc, stored>>

\* Mutant of Insert: an equal value stays where it is.
InsertAbove ==
  /\ stage = "insert"
  /\ i < size
  /\ digits' = [p \in Positions |->
       IF p < i /\ digits[p] > digits[i] THEN digits[p] + 1 ELSE digits[p]]
  /\ i' = i + 1
  /\ UNCHANGED <<size, block, stage, decrements, acc, stored>>

\* A turn of the loop that puts position i in: the values from its value on
\* move up.
Insert ==
  /\ stage = "insert"
  /\ i < size
  /\ digits' = [p \in Positions |->
       IF p < i /\ digits[p] >= digits[i] THEN digits[p] + 1 ELSE digits[p]]
  /\ i' = i + 1
  /\ UNCHANGED <<size, block, stage, decrements, acc, stored>>

LeafNext ==
  \/ Remove \/ Removed \/ Accumulate \/ Store
  \/ TakeDigit \/ Taken \/ Insert

LeafSpec == LeafInit /\ [][LeafNext]_leafVars
-----------------------------------------------------------------------------
Value(u) == u.high * Word + u.low
Ended == stage = "insert" /\ i = size

\* p comes before q: its digit is smaller at the first place they differ in.
Before(p, q) ==
  \E n \in Positions :
    Digit(p, n) < Digit(q, n) /\ \A m \in 0 .. n - 1 : Digit(p, m) = Digit(q, m)

\* The rank of a permutation is the number of permutations before it, so no two
\* share a rank and none is left out, and the bits stored for it are as few as
\* the number of permutations allows.
RankIsPosition ==
  stage = "accumulate" /\ i = size =>
    /\ Value(acc) = Cardinality({p \in Orders(size) : Before(p, block)})
    /\ Value(acc) < PowerOfTwo[BitCount(size)]
    /\ PowerOfTwo[BitCount(size)] < 2 * Factorial[size]

\* What was encoded comes back, through the words, the file and the words.
BlockComesBack == Ended /\ block # <<>> => digits = block

\* Whatever bits a file holds, a leaf decodes to a permutation: to the one whose
\* rank is the remainder.  The lookup's "invalid compact factorial code" is
\* never reported.
EveryRankDecodes ==
  Ended => /\ digits \in Orders(size)
           /\ Rank(digits, size) = Value(StoredRank(stored)) % Factorial[size]

\* The vector encoder, which compares the values as they were, arrives at the
\* scalar encoder's digits turn by turn.
VectorAgrees ==
  stage \in {"remove", "accumulate"} =>
    \A p \in Positions : digits[p] = block[p] - decrements[p]
=============================================================================
