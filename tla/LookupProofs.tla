---------------------------- MODULE LookupProofs ----------------------------
(***************************************************************************)
(* Lookup and Factoradic, proved.  For every size, cluster list and place  *)
(* of the middle, and for every file, whatever its bits:                   *)
(*   - LookupsNeverThrow: an inverse lookup finds its index in the leaf    *)
(*   - DirectionsAlwaysAgree: forward and inverse undo each other          *)
(* For the files that an encoder has written:                              *)
(*   - FilesAnswerThePermutation: the answers are the permutation's        *)
(* For leaves of every size there is room for, words of every width, and   *)
(* whatever bits a file holds:                                             *)
(*   - RankAlwaysIsPosition: the permutations are numbered without gaps    *)
(*   - BlocksAlwaysComeBack: what is encoded decodes to itself             *)
(*   - EveryRankAlwaysDecodes: any bits decode to the order they name      *)
(*   - VectorAlwaysAgrees: the vector encoder has the scalar one's digits  *)
(*                                                                         *)
(* The lookups.  Every number below n! is the rank of a permutation of n   *)
(* values, so a leaf decodes to a permutation whatever its bits are.  By   *)
(* induction over the sizes every value of either side has a path: a list  *)
(* of stops, each with the value that enters the node and the one that     *)
(* leaves it, down to a leaf that joins the two.  A lookup follows a path; *)
(* the lookup back follows the same one from its other end.                *)
(*                                                                         *)
(* The files of an encoder.  Its calls keep parts of the sections that are *)
(* disjoint, so a lookup finds in a node the bits of that node's call, and *)
(* these send each value to the child that its order has it in.            *)
(*                                                                         *)
(* The leaves.  Taking the last position out and putting it in again undo  *)
(* each other and leave the digits of the others alone, so the encoder's   *)
(* array has the digits of the permutation from its end on, and the        *)
(* decoder's array is the permutation of the digits it has put in.  In     *)
(* between the digits are folded into two words and unfolded again: by     *)
(* halves and by limbs as on paper, the products staying below n!, which   *)
(* the words have room for.                                                *)
(***************************************************************************)
EXTENDS Lookup, Factoradic, AddressProofs, TLAPS

-----------------------------------------------------------------------------
(* Values on their way through a node, and paths through the network.        *)

\* RankRead, of a leaf in a file.
RankOf(form, bytes, n, a, b, m) ==
  LET start == RankStart(form, a, b, m)
      bits  == bytes[RankSection(form)]
      last  == start + FactoradicBitCount(n)
      Upper[k \in 0 .. FactoradicBitCount(n)] ==
        IF k = 0 THEN 0
        ELSE 2 * Upper[k - 1] + IF last - k \in bits THEN 1 ELSE 0
  IN  Upper[FactoradicBitCount(n)]

LEMMA RankReadIs == RankRead = RankOf(format, file, count, in, out, middle)
BY DEF RankRead, RankOf

\* The loop of read_rank, from the last bit down.
ReadsUp(U, w, last, bits) ==
  /\ U[0] = 0
  /\ \A k \in 0 .. w - 1 :
       U[k + 1] = 2 * U[k] + (IF last - (k + 1) \in bits THEN 1 ELSE 0)

HasReading(form, bytes, n, a, b, m) ==
  \E U : /\ ReadsUp(U, FactoradicBitCount(n),
                    RankStart(form, a, b, m) + FactoradicBitCount(n),
                    bytes[RankSection(form)])
         /\ RankOf(form, bytes, n, a, b, m) = U[FactoradicBitCount(n)]

LEMMA RankReads ==
  ASSUME NEW form, NEW bytes, NEW n \in Nat, NEW a, NEW b, NEW m
  PROVE  HasReading(form, bytes, n, a, b, m)
<1> DEFINE w == FactoradicBitCount(n)
           bits == bytes[RankSection(form)]
           last == RankStart(form, a, b, m) + w
           One(k) == IF last - k \in bits THEN 1 ELSE 0
           IsIt(U) == U = [k \in 0 .. w |-> IF k = 0 THEN 0 ELSE 2 * U[k - 1] + One(k)]
           Upper == CHOOSE U : IsIt(U)
           step == [k \in Nat |-> [x \in Nat |-> 2 * x + One(k + 1)]]
<1>1. RankOf(form, bytes, n, a, b, m) = Upper[w]
  BY DEF RankOf
<1>2. \A k : One(k) \in Nat
  OBVIOUS
<1>3. w \in Nat
  BY BitCountType
<1> HIDE DEF w, One
<1>4. IsStep(0, step, Nat)
  BY <1>2 DEF IsStep
<1>5. PICK f : Follows(f, 0, step, Nat)
  BY <1>4, FunctionExists
<1>6. /\ f[0] = 0
      /\ \A k \in Nat : f[k] \in Nat /\ f[k + 1] = 2 * f[k] + One(k + 1)
  BY <1>5 DEF Follows
<1>7. \E U : IsIt(U)
  <2> DEFINE g == [k \in 0 .. w |-> f[k]]
  <2>1. ASSUME NEW k \in 0 .. w
        PROVE  g[k] = IF k = 0 THEN 0 ELSE 2 * g[k - 1] + One(k)
    <3>1. CASE k = 0
      BY <1>6, <3>1
    <3>2. CASE k # 0
      <4>1. k - 1 \in Nat /\ k - 1 \in 0 .. w /\ (k - 1) + 1 = k
        BY <1>3, <3>2
      <4> QED
        BY <1>6, <3>2, <4>1
    <3> QED
      BY <3>1, <3>2
  <2> QED
    BY <2>1
<1>8. IsIt(Upper)
  <2> HIDE DEF IsIt
  <2> QED
    BY <1>7
<1>9. \A k \in 0 .. w : Upper[k] = IF k = 0 THEN 0 ELSE 2 * Upper[k - 1] + One(k)
  BY <1>8
<1> HIDE DEF Upper
<1>10. Upper[0] = 0 /\ \A k \in 0 .. w - 1 : Upper[k + 1] = 2 * Upper[k] + One(k + 1)
  <2>1. 0 \in 0 .. w /\ \A k \in 0 .. w - 1 : k + 1 \in 0 .. w /\ k + 1 # 0 /\ (k + 1) - 1 = k
    BY <1>3
  <2> QED
    BY <1>9, <2>1
<1> QED
  BY <1>1, <1>10, Zenon DEF One, w, ReadsUp, HasReading

LEMMA RankOfType ==
  ASSUME NEW form, NEW bytes, NEW n \in Nat, NEW a, NEW b, NEW m
  PROVE  RankOf(form, bytes, n, a, b, m) \in Nat
<1> DEFINE w == FactoradicBitCount(n)
<1>1. w \in Nat
  BY BitCountType
<1>2. PICK U : /\ ReadsUp(U, w, RankStart(form, a, b, m) + w, bytes[RankSection(form)])
               /\ RankOf(form, bytes, n, a, b, m) = U[w]
  <2>1. HasReading(form, bytes, n, a, b, m)
    BY RankReads
  <2> QED
    BY <2>1 DEF HasReading
<1> HIDE DEF w
<1> DEFINE S == {k \in Nat : k <= w => U[k] \in Nat}
<1>3. 0 \in S
  BY <1>2 DEF ReadsUp
<1>4. ASSUME NEW k \in Nat, k \in S PROVE k + 1 \in S
  <2> SUFFICES ASSUME k + 1 <= w PROVE U[k + 1] \in Nat
    OBVIOUS
  <2>1. k \in 0 .. w - 1 /\ U[k] \in Nat
    BY <1>1, <1>4
  <2> QED
    BY <1>2, <2>1 DEF ReadsUp
<1> HIDE DEF S
<1>5. w \in S
  BY <1>1, <1>3, <1>4, Induction
<1> QED
  BY <1>1, <1>2, <1>5 DEF S

\* The value x on one side of a node of n values leaves to the child, or comes
\* from it, as its value y; a is the node's address in that side's section.
Meets(x, y, n, right, a, bits) ==
  /\ y = x \div 2
  /\ right = (/\ ~(n % 2 = 1 /\ x = n - 1)
              /\ (SwitchBit(a, x \div 2) \in bits) # (x % 2 = 1))

\* The value the child's value y comes from.
Source(y, n, right, a, bits) ==
  IF ~right /\ n % 2 = 1 /\ y = n \div 2
  THEN n - 1
  ELSE 2 * y + IF right # (SwitchBit(a, y) \in bits) THEN 1 ELSE 0

LEMMA Halves ==
  ASSUME NEW n \in Nat, n > 1, NEW x \in 0 .. n - 1
  PROVE  /\ x \div 2 \in 0 .. n \div 2 + (n % 2) - 1
         /\ ~(n % 2 = 1 /\ x = n - 1) => x \div 2 \in 0 .. n \div 2 - 1
         /\ n % 2 = 1 /\ x = n - 1 => x \div 2 = n \div 2
         /\ x = 2 * (x \div 2) + (x % 2) /\ x % 2 \in 0 .. 1
OBVIOUS

LEMMA GoesDown ==
  ASSUME NEW n \in Nat, n > LeafSize, NEW x \in 0 .. n - 1, NEW a, NEW bits
  PROVE  \E right \in BOOLEAN : \E y \in 0 .. ChildCount(right, n) - 1 :
           Meets(x, y, n, right, a, bits)
<1> DEFINE right == /\ ~(n % 2 = 1 /\ x = n - 1)
                    /\ (SwitchBit(a, x \div 2) \in bits) # (x % 2 = 1)
<1>1. n > 1
  BY LeafSizes
<1>2. right \in BOOLEAN
  OBVIOUS
<1>3. right => ~(n % 2 = 1 /\ x = n - 1)
  OBVIOUS
<1>4. Meets(x, x \div 2, n, right, a, bits)
  BY DEF Meets
<1> HIDE DEF right
<1>5. x \div 2 \in 0 .. ChildCount(right, n) - 1
  BY <1>1, <1>2, <1>3, Halves, ChildCounts
<1> QED
  BY <1>2, <1>4, <1>5

LEMMA SourceMeets ==
  ASSUME NEW n \in Nat, n > LeafSize, NEW right \in BOOLEAN,
         NEW y \in 0 .. ChildCount(right, n) - 1, NEW a, NEW bits
  PROVE  /\ Source(y, n, right, a, bits) \in 0 .. n - 1
         /\ Meets(Source(y, n, right, a, bits), y, n, right, a, bits)
<1> DEFINE bit == SwitchBit(a, y) \in bits
<1>1. /\ n > 1 /\ y \in Nat
      /\ y <= (IF right THEN n \div 2 ELSE n \div 2 + (n % 2)) - 1
  BY LeafSizes, ChildCounts
<1>2. CASE ~right /\ n % 2 = 1 /\ y = n \div 2
  <2>1. Source(y, n, right, a, bits) = n - 1
    BY <1>2 DEF Source
  <2>2. n - 1 \in 0 .. n - 1 /\ (n - 1) \div 2 = y
    BY <1>1, <1>2
  <2> QED
    BY <1>2, <2>1, <2>2 DEF Meets
<1>3. CASE ~(~right /\ n % 2 = 1 /\ y = n \div 2)
  <2> DEFINE d == IF right # bit THEN 1 ELSE 0
             x == 2 * y + d
  <2>1. Source(y, n, right, a, bits) = x
    BY <1>3 DEF Source
  <2>2. y <= n \div 2 - 1
    BY <1>1, <1>3
  <2>3. d \in 0 .. 1 /\ (d = 1 <=> (right # bit))
    OBVIOUS
  <2> HIDE DEF bit, d
  <2>4. x \in 0 .. n - 1 /\ x \div 2 = y /\ x % 2 = d /\ ~(n % 2 = 1 /\ x = n - 1)
    BY <1>1, <2>2, <2>3
  <2>5. right = (bit # (d = 1))
    BY <2>3 DEF bit
  <2> HIDE DEF x
  <2> QED
    BY <2>1, <2>4, <2>5 DEF Meets, bit
<1> QED
  BY <1>2, <1>3

\* On the way up the source is the only one.
LEMMA SourceIsUnique ==
  ASSUME NEW n \in Nat, n > LeafSize, NEW right \in BOOLEAN,
         NEW x \in 0 .. n - 1, NEW y, NEW a, NEW bits,
         Meets(x, y, n, right, a, bits)
  PROVE  Source(y, n, right, a, bits) = x
<1> DEFINE bit == SwitchBit(a, y) \in bits
           tail == n % 2 = 1 /\ x = n - 1
<1>1. n > 1
  BY LeafSizes
<1>2. y = x \div 2 /\ right = (~tail /\ bit # (x % 2 = 1))
  BY DEF Meets
<1>3. CASE tail
  <2>1. y = n \div 2 /\ ~right
    BY <1>1, <1>2, <1>3, Halves
  <2> QED
    BY <1>3, <2>1 DEF Source
<1>4. CASE ~tail
  <2>1. y # n \div 2
    BY <1>1, <1>2, <1>4, Halves
  <2>2. right = (bit # (x % 2 = 1))
    BY <1>2, <1>4
  <2>3. (IF right # bit THEN 1 ELSE 0) = x % 2
    BY <1>1, <2>2, Halves
  <2>4. x = 2 * y + (x % 2)
    BY <1>1, <1>2, Halves
  <2> QED
    BY <2>1, <2>3, <2>4 DEF Source
<1> QED
  BY <1>3, <1>4

\* A stop: a node, where a path enters and leaves it, and the child it takes.
IsStop(e) ==
  /\ e.count \in Nat \ {0}
  /\ e.first \in 0 .. e.count - 1
  /\ e.last \in 0 .. e.count - 1
  /\ e.right \in BOOLEAN

\* The next stop is in the child.
Joined(e, f, bytes) ==
  /\ e.count > LeafSize
  /\ f.count = ChildCount(e.right, e.count)
  /\ f.in = Child(e.in, e.right, e.count)
  /\ f.out = Child(e.out, e.right, e.count)
  /\ f.middle = e.middle + IF e.right THEN MiddleBits(LeftCount(e.count)) ELSE 0
  /\ Meets(e.first, f.first, e.count, e.right, e.in, bytes.input)
  /\ Meets(e.last, f.last, e.count, e.right, e.out, bytes.output)

LeafOrder(e, form, bytes) ==
  Order(RankOf(form, bytes, e.count, e.in, e.out, e.middle), e.count)

Ends(e, form, bytes) ==
  /\ e.count <= LeafSize
  /\ LeafOrder(e, form, bytes)[e.first] = e.last

\* A value's path, of m stops.
IsPath(T, m, form, bytes) ==
  /\ m \in Nat \ {0}
  /\ \A k \in 1 .. m : IsStop(T[k])
  /\ \A k \in 1 .. m - 1 : Joined(T[k], T[k + 1], bytes)
  /\ Ends(T[m], form, bytes)

At(e, n, a, b, mid) == e.count = n /\ e.in = a /\ e.out = b /\ e.middle = mid

\* Where a lookup enters a node and where it leaves it.
Near(e, inv) == IF inv THEN e.last ELSE e.first
Far(e, inv)  == IF inv THEN e.first ELSE e.last

HasPath(form, bytes, n, a, b, mid, inv, x) ==
  \E m : \E T : /\ IsPath(T, m, form, bytes)
                /\ At(T[1], n, a, b, mid)
                /\ Near(T[1], inv) = x

LEMMA LeafIsPermutation ==
  ASSUME NEW e, IsStop(e), NEW form, NEW bytes
  PROVE  LeafOrder(e, form, bytes) \in Orders(e.count)
<1>1. e.count \in Nat
  BY DEF IsStop
<1> QED
  BY <1>1, RankOfType, OrderIsPermutation DEF LeafOrder

LEMMA LeafPath ==
  ASSUME NEW form, NEW bytes, NEW n \in Nat, n <= LeafSize, NEW x \in 0 .. n - 1,
         NEW a, NEW b, NEW mid, NEW inv \in BOOLEAN
  PROVE  HasPath(form, bytes, n, a, b, mid, inv, x)
<1> DEFINE order == Order(RankOf(form, bytes, n, a, b, mid), n)
<1>1. order \in Orders(n)
  BY RankOfType, OrderIsPermutation
<1>2. PICK first \in 0 .. n - 1, last \in 0 .. n - 1 :
        order[first] = last /\ x = IF inv THEN last ELSE first
  <2>1. CASE inv
    <3>1. PICK k \in 0 .. n - 1 : order[k] = x
      BY <1>1, OrdersAreOnto
    <3> QED
      BY <2>1, <3>1
  <2>2. CASE ~inv
    <3>1. order[x] \in 0 .. n - 1
      BY <1>1 DEF Orders
    <3> QED
      BY <2>2, <3>1
  <2> QED
    BY <2>1, <2>2
<1> DEFINE e == [count |-> n, in |-> a, out |-> b, middle |-> mid,
                 first |-> first, last |-> last, right |-> FALSE]
           T == [k \in 1 .. 1 |-> e]
<1>3. /\ e.count = n /\ e.in = a /\ e.out = b /\ e.middle = mid
      /\ e.first = first /\ e.last = last /\ e.right = FALSE
  OBVIOUS
<1>4. T[1] = e /\ \A k \in 1 .. 1 : T[k] = e
  OBVIOUS
<1> HIDE DEF e, T, order
<1>5. n \in Nat \ {0}
  OBVIOUS
<1>6. IsStop(e)
  BY <1>3, <1>5 DEF IsStop
<1>7. Ends(e, form, bytes)
  BY <1>2, <1>3 DEF Ends, LeafOrder, order
<1>8. IsPath(T, 1, form, bytes)
  <2>1. 1 \in Nat \ {0} /\ 1 .. 1 - 1 = {}
    OBVIOUS
  <2> QED
    BY <1>4, <1>6, <1>7, <2>1 DEF IsPath
<1>9. At(T[1], n, a, b, mid) /\ Near(T[1], inv) = x
  BY <1>2, <1>3, <1>4 DEF At, Near
<1> QED
  BY <1>8, <1>9 DEF HasPath

\* A path of a child is lengthened by the node above it.
LEMMA LongerPath ==
  ASSUME NEW form, NEW bytes, NEW m, NEW T, IsPath(T, m, form, bytes),
         NEW e, IsStop(e), Joined(e, T[1], bytes)
  PROVE  \E U : IsPath(U, m + 1, form, bytes) /\ U[1] = e
<1> DEFINE U == [k \in 1 .. m + 1 |-> IF k = 1 THEN e ELSE T[k - 1]]
<1>1. m \in Nat \ {0} /\ m + 1 \in Nat \ {0}
  BY DEF IsPath
<1>2. /\ 1 \in 1 .. m + 1 /\ m + 1 \in 1 .. m + 1 /\ m + 1 # 1 /\ (m + 1) - 1 = m
      /\ \A k \in 1 .. m + 1 : k # 1 => k - 1 \in 1 .. m
      /\ \A k \in 1 .. m : k + 1 \in 1 .. m + 1 /\ k \in 1 .. m + 1
                           /\ k + 1 # 1 /\ (k + 1) - 1 = k
      /\ \A k \in 1 .. (m + 1) - 1 : k \in 1 .. m
      /\ \A k \in 1 .. m : k # 1 => k - 1 \in 1 .. m - 1 /\ (k - 1) + 1 = k
  BY <1>1
<1>3. U[1] = e /\ \A k \in 1 .. m : U[k + 1] = T[k]
  BY <1>2
<1>4. \A k \in 1 .. m + 1 : k # 1 => U[k] = T[k - 1]
  BY <1>2
<1> HIDE DEF U
<1>5. \A k \in 1 .. m + 1 : IsStop(U[k])
  BY <1>2, <1>3, <1>4 DEF IsPath
<1>6. ASSUME NEW k \in 1 .. (m + 1) - 1 PROVE Joined(U[k], U[k + 1], bytes)
  <2>1. U[k + 1] = T[k] /\ k \in 1 .. m
    BY <1>2, <1>3
  <2>2. CASE k = 1
    BY <1>3, <2>1, <2>2
  <2>3. CASE k # 1
    <3>1. U[k] = T[k - 1] /\ k - 1 \in 1 .. m - 1 /\ (k - 1) + 1 = k
      BY <1>2, <1>4, <2>1, <2>3
    <3>2. Joined(T[k - 1], T[(k - 1) + 1], bytes)
      BY <3>1 DEF IsPath
    <3> QED
      BY <2>1, <3>1, <3>2
  <2> QED
    BY <2>2, <2>3
<1>7. Ends(U[m + 1], form, bytes)
  <2>1. U[m + 1] = T[m]
    BY <1>1, <1>3
  <2> QED
    BY <2>1 DEF IsPath
<1>8. IsPath(U, m + 1, form, bytes)
  BY <1>1, <1>5, <1>6, <1>7 DEF IsPath
<1> QED
  BY <1>3, <1>8

\* Where the child's path lies, the node's value does.
LEMMA NodePath ==
  ASSUME NEW form, NEW bytes, NEW n \in Nat, n > LeafSize, NEW x \in 0 .. n - 1,
         NEW a, NEW b, NEW mid, NEW inv \in BOOLEAN,
         \A k \in 0 .. n - 1 : \A a2, b2, mid2 : \A y \in 0 .. k - 1 :
           HasPath(form, bytes, k, a2, b2, mid2, inv, y)
  PROVE  HasPath(form, bytes, n, a, b, mid, inv, x)
<1> DEFINE near == IF inv THEN b ELSE a
           far  == IF inv THEN a ELSE b
           entered == IF inv THEN bytes.output ELSE bytes.input
           exited  == IF inv THEN bytes.input ELSE bytes.output
<1>1. PICK right \in BOOLEAN : \E y \in 0 .. ChildCount(right, n) - 1 :
        Meets(x, y, n, right, near, entered)
  BY GoesDown
<1>2. PICK y \in 0 .. ChildCount(right, n) - 1 : Meets(x, y, n, right, near, entered)
  BY <1>1
<1> DEFINE c == ChildCount(right, n)
           a2 == Child(a, right, n)
           b2 == Child(b, right, n)
           mid2 == mid + IF right THEN MiddleBits(LeftCount(n)) ELSE 0
<1>3. c \in 1 .. n - 1 /\ c \in 0 .. n - 1
  BY ChildCounts
<1> HIDE DEF c, a2, b2, mid2
<1>4. HasPath(form, bytes, c, a2, b2, mid2, inv, y)
  BY <1>2, <1>3 DEF c
<1>5. PICK m : \E T : /\ IsPath(T, m, form, bytes)
                      /\ At(T[1], c, a2, b2, mid2) /\ Near(T[1], inv) = y
  BY <1>4 DEF HasPath
<1>6. PICK T : /\ IsPath(T, m, form, bytes)
               /\ At(T[1], c, a2, b2, mid2) /\ Near(T[1], inv) = y
  BY <1>5
<1> DEFINE z == Far(T[1], inv)
           w == Source(z, n, right, far, exited)
<1>7. IsStop(T[1]) /\ 1 \in 1 .. m
  BY <1>6 DEF IsPath
<1>8. z \in 0 .. ChildCount(right, n) - 1
  BY <1>6, <1>7 DEF IsStop, At, Far, c
<1> HIDE DEF z
<1>9. w \in 0 .. n - 1 /\ Meets(w, z, n, right, far, exited)
  BY <1>8, SourceMeets
<1> HIDE DEF w
<1> DEFINE e == [count |-> n, in |-> a, out |-> b, middle |-> mid, right |-> right,
                 first |-> IF inv THEN w ELSE x, last |-> IF inv THEN x ELSE w]
<1>10. /\ e.count = n /\ e.in = a /\ e.out = b /\ e.middle = mid /\ e.right = right
       /\ e.first = (IF inv THEN w ELSE x) /\ e.last = (IF inv THEN x ELSE w)
  OBVIOUS
<1> HIDE DEF e
<1>11. IsStop(e)
  <2>1. n \in Nat \ {0}
    OBVIOUS
  <2> QED
    BY <1>9, <1>10, <2>1 DEF IsStop
<1>12. Joined(e, T[1], bytes)
  <2>1. /\ T[1].count = c /\ T[1].in = a2 /\ T[1].out = b2 /\ T[1].middle = mid2
    BY <1>6 DEF At
  <2>2. /\ Meets(e.first, T[1].first, n, right, a, bytes.input)
        /\ Meets(e.last, T[1].last, n, right, b, bytes.output)
    <3>1. CASE inv
      <4>1. T[1].last = y /\ T[1].first = z /\ e.first = w /\ e.last = x
        BY <1>6, <1>10, <3>1 DEF Near, Far, z
      <4> QED
        BY <1>2, <1>9, <3>1, <4>1
    <3>2. CASE ~inv
      <4>1. T[1].first = y /\ T[1].last = z /\ e.first = x /\ e.last = w
        BY <1>6, <1>10, <3>2 DEF Near, Far, z
      <4> QED
        BY <1>2, <1>9, <3>2, <4>1
    <3> QED
      BY <3>1, <3>2
  <2> QED
    BY <1>10, <2>1, <2>2 DEF Joined, c, a2, b2, mid2
<1>13. PICK U : IsPath(U, m + 1, form, bytes) /\ U[1] = e
  BY <1>6, <1>11, <1>12, LongerPath
<1>14. At(U[1], n, a, b, mid) /\ Near(U[1], inv) = x
  BY <1>10, <1>13 DEF At, Near
<1> QED
  BY <1>13, <1>14 DEF HasPath

\* In any file and on either side, every value has a path.
LEMMA EveryValueHasAPath ==
  ASSUME NEW form, NEW bytes, NEW inv \in BOOLEAN, NEW n \in Nat
  PROVE  \A a, b, mid : \A x \in 0 .. n - 1 :
           HasPath(form, bytes, n, a, b, mid, inv, x)
<1> DEFINE S == {k \in Nat : \A a, b, mid : \A x \in 0 .. k - 1 :
                               HasPath(form, bytes, k, a, b, mid, inv, x)}
<1>1. ASSUME NEW k \in Nat, \A j \in 0 .. k - 1 : j \in S PROVE k \in S
  <2> SUFFICES ASSUME NEW a, NEW b, NEW mid, NEW x \in 0 .. k - 1
               PROVE  HasPath(form, bytes, k, a, b, mid, inv, x)
    OBVIOUS
  <2>1. \A j \in 0 .. k - 1 : \A a2, b2, mid2 : \A y \in 0 .. j - 1 :
          HasPath(form, bytes, j, a2, b2, mid2, inv, y)
    BY <1>1
  <2>2. CASE k <= LeafSize
    BY <2>2, LeafPath
  <2>3. CASE ~(k <= LeafSize)
    <3>1. k > LeafSize
      BY <2>3, LeafSizes
    <3> QED
      BY <2>1, <3>1, NodePath
  <2> QED
    BY <2>2, <2>3
<1>2. Nat \subseteq S
  <2> HIDE DEF S
  <2> QED
    BY <1>1, FromAllBefore
<1> QED
  BY <1>2

-----------------------------------------------------------------------------
(* A lookup follows a path: on the way down it stands where the path enters  *)
(* a node, on the way up where it leaves it, and the frames are the stops    *)
(* above.  The lookup back follows the same path from its other end.         *)

Frame(e) == [size |-> e.count, in |-> e.in, out |-> e.out, right |-> e.right]

Trail(T, k) == [j \in 1 .. k |-> Frame(T[j])]

FollowsPath(T, m, k) ==
  /\ IsPath(T, m, format, file)
  /\ At(T[1], format.count, RootOf(format, format.input, "input"),
        RootOf(format, format.output, "output"), 0)
  /\ k \in 0 .. m - 1
  /\ frames = Trail(T, k)
  /\ value = Near(T[1], inverse)
  /\ asked = IF back THEN Far(T[1], inverse) ELSE value
  /\ IF phase = "down"
     THEN index = Near(T[k + 1], inverse) /\ At(T[k + 1], count, in, out, middle)
     ELSE index = Far(T[k + 1], inverse)

Inv ==
  /\ format.count \in Nat \ {0}
  /\ inverse \in BOOLEAN
  /\ back \in BOOLEAN
  /\ phase \in {"down", "up", "answered"}
  /\ \E T, m, k : FollowsPath(T, m, k) /\ (phase = "answered" => k = 0)

LEMMA TrailFacts ==
  ASSUME NEW T, NEW k \in Nat
  PROVE  /\ Append(Trail(T, k), Frame(T[k + 1])) = Trail(T, k + 1)
         /\ Trail(T, k) = <<>> <=> k = 0
         /\ k # 0 => /\ Trail(T, k)[Len(Trail(T, k))] = Frame(T[k])
                     /\ SubSeq(Trail(T, k), 1, Len(Trail(T, k)) - 1) = Trail(T, k - 1)
<1> DEFINE F == {Frame(T[j]) : j \in 1 .. k + 1}
<1>1. \A j \in 1 .. k + 1 : Frame(T[j]) \in F
  OBVIOUS
<1>2. k + 1 \in 1 .. k + 1 /\ \A j \in 1 .. k : j \in 1 .. k + 1
  OBVIOUS
<1>3. Trail(T, k) \in Seq(F) /\ Len(Trail(T, k)) = k
  <2>1. \A j \in 1 .. k : Frame(T[j]) \in F
    BY <1>1, <1>2
  <2> HIDE DEF F
  <2>2. Trail(T, k) \in [1 .. k -> F]
    BY <2>1 DEF Trail
  <2> QED
    BY <2>2
<1>4. Frame(T[k + 1]) \in F
  BY <1>1, <1>2
<1> HIDE DEF F
<1>5. Append(Trail(T, k), Frame(T[k + 1])) = Trail(T, k + 1)
  <2> DEFINE s == Append(Trail(T, k), Frame(T[k + 1]))
  <2>1. s \in Seq(F) /\ Len(s) = k + 1 /\ s[k + 1] = Frame(T[k + 1])
    BY <1>3, <1>4
  <2>2. \A j \in 1 .. k : s[j] = Trail(T, k)[j]
    BY <1>3, <1>4
  <2>3. \A j \in 1 .. k : Trail(T, k)[j] = Frame(T[j])
    BY DEF Trail
  <2> HIDE DEF s
  <2>4. s = [j \in 1 .. k + 1 |-> s[j]]
    BY <2>1
  <2>5. \A j \in 1 .. k + 1 : s[j] = Frame(T[j])
    BY <2>1, <2>2, <2>3
  <2> QED
    BY <2>4, <2>5 DEF Trail, s
<1>6. Trail(T, k) = <<>> <=> k = 0
  BY <1>3
<1>7. ASSUME k # 0
      PROVE  /\ Trail(T, k)[k] = Frame(T[k])
             /\ SubSeq(Trail(T, k), 1, k - 1) = Trail(T, k - 1)
  <2> DEFINE s == SubSeq(Trail(T, k), 1, k - 1)
  <2>1. Trail(T, k)[k] = Frame(T[k])
    BY <1>7 DEF Trail
  <2>2. s \in Seq(F) /\ Len(s) = k - 1 /\ \A j \in 1 .. k - 1 : s[j] = Trail(T, k)[j]
    BY <1>3, <1>7
  <2>3. \A j \in 1 .. k - 1 : Trail(T, k)[j] = Frame(T[j])
    BY DEF Trail
  <2> HIDE DEF s
  <2>4. s = [j \in 1 .. k - 1 |-> s[j]]
    BY <2>2
  <2>5. s = Trail(T, k - 1)
    BY <2>2, <2>3, <2>4 DEF Trail
  <2> QED
    BY <2>1, <2>5 DEF s
<1> QED
  BY <1>3, <1>5, <1>6, <1>7

LEMMA InitInv == Init => Inv
<1> SUFFICES ASSUME Init PROVE Inv
  OBVIOUS
<1>1. format.count \in Nat \ {0}
  <2>1. PICK n \in Counts : format.count = n
    BY DEF Init, Formats
  <2> QED
    BY <2>1, LookupAssumption
<1>2. /\ inverse \in BOOLEAN /\ back = FALSE /\ phase = "down"
      /\ value \in 0 .. format.count - 1 /\ asked = value /\ index = value
      /\ count = format.count /\ middle = 0 /\ frames = <<>>
      /\ in = RootOf(format, format.input, "input")
      /\ out = RootOf(format, format.output, "output")
  BY DEF Init
<1>3. HasPath(format, file, format.count, in, out, 0, inverse, value)
  BY <1>1, <1>2, EveryValueHasAPath
<1>4. PICK m : \E T : /\ IsPath(T, m, format, file)
                      /\ At(T[1], format.count, in, out, 0)
                      /\ Near(T[1], inverse) = value
  BY <1>3 DEF HasPath
<1>5. PICK T : /\ IsPath(T, m, format, file)
               /\ At(T[1], format.count, in, out, 0)
               /\ Near(T[1], inverse) = value
  BY <1>4
<1>6. FollowsPath(T, m, 0)
  <2>1. 0 \in 0 .. m - 1 /\ 0 + 1 = 1
    BY <1>5 DEF IsPath
  <2>2. frames = Trail(T, 0)
    BY <1>2, TrailFacts
  <2> QED
    BY <1>2, <1>5, <2>1, <2>2 DEF FollowsPath
<1> QED
  BY <1>1, <1>2, <1>6 DEF Inv

LEMMA DescendInv == Inv /\ Descend => Inv'
<1> SUFFICES ASSUME Inv, Descend PROVE Inv'
  OBVIOUS
<1>1. PICK T, m, k : FollowsPath(T, m, k)
  BY DEF Inv
<1> DEFINE e == T[k + 1]  f == T[k + 2]
<1>2. /\ IsPath(T, m, format, file) /\ k \in 0 .. m - 1 /\ m \in Nat \ {0}
      /\ frames = Trail(T, k)
      /\ index = Near(e, inverse) /\ At(e, count, in, out, middle)
  BY <1>1 DEF FollowsPath, Descend, IsPath
<1>3. k + 1 < m
  <2>1. k + 1 # m
    <3> SUFFICES ASSUME k + 1 = m PROVE FALSE
      OBVIOUS
    <3>1. e.count <= LeafSize
      BY <1>2 DEF IsPath, Ends
    <3>2. e.count > LeafSize /\ e.count \in Nat
      <4>1. IsStop(e)
        BY <1>2 DEF IsPath
      <4> QED
        BY <1>2, <4>1 DEF Descend, At, IsStop
    <3> QED
      BY <3>1, <3>2, LeafSizes
  <2> QED
    BY <1>2, <2>1
<1>4. /\ k + 1 \in 1 .. m - 1 /\ k + 1 \in 1 .. m /\ k + 1 \in 0 .. m - 1
      /\ (k + 1) + 1 = k + 2 /\ k \in Nat
  BY <1>2, <1>3
<1>5. IsStop(e) /\ Joined(e, f, file)
  BY <1>2, <1>4 DEF IsPath
<1> HIDE DEF e, f
<1> DEFINE bit == SwitchBit(IF inverse THEN out ELSE in, index \div 2)
           right == ~OddTail /\ (bit \in Entered) # (index % 2 = 1)
<1>6. Meets(index, Near(f, inverse), count, e.right,
            IF inverse THEN out ELSE in, Entered)
  BY <1>2, <1>5 DEF Joined, Near, Entered, At
<1>7. e.right = right /\ Near(f, inverse) = index \div 2
  BY <1>6 DEF Meets, OddTail
<1> HIDE DEF right
<1>8. /\ frames' = Append(frames,
                     [size |-> count, in |-> in, out |-> out, right |-> right])
      /\ middle' = middle + IF right THEN MiddleBits(LeftCount(count)) ELSE 0
      /\ in' = Child(in, right, count)
      /\ out' = Child(out, right, count)
      /\ count' = ChildCount(right, count)
      /\ index' = index \div 2
      /\ phase' = "down" /\ UNCHANGED <<header, value, inverse, asked, back>>
  BY DEF Descend, right
<1>9. frames' = Trail(T, k + 1)
  <2>1. frames' = Append(Trail(T, k), Frame(e))
    BY <1>2, <1>7, <1>8 DEF Frame, At
  <2> QED
    BY <1>4, <2>1, TrailFacts DEF e
<1>10. At(f, count', in', out', middle')
  BY <1>2, <1>5, <1>7, <1>8 DEF At, Joined
<1>11. index' = Near(f, inverse)
  BY <1>7, <1>8
<1>12. FollowsPath(T, m, k + 1)'
  BY <1>1, <1>4, <1>8, <1>9, <1>10, <1>11 DEF FollowsPath, f, header
<1> QED
  BY <1>8, <1>12 DEF Inv, header

LEMMA MiddleInv == Inv /\ Middle => Inv'
<1> SUFFICES ASSUME Inv, Middle PROVE Inv'
  OBVIOUS
<1>1. PICK T, m, k : FollowsPath(T, m, k)
  BY DEF Inv
<1> DEFINE e == T[k + 1]
<1>2. /\ IsPath(T, m, format, file) /\ k \in 0 .. m - 1 /\ m \in Nat \ {0}
      /\ index = Near(e, inverse) /\ At(e, count, in, out, middle)
  BY <1>1 DEF FollowsPath, Middle, IsPath
<1>3. IsStop(e)
  BY <1>2 DEF IsPath
<1>4. k + 1 = m
  <2> SUFFICES ASSUME k + 1 # m PROVE FALSE
    OBVIOUS
  <2>1. Joined(e, T[(k + 1) + 1], file)
    BY <1>2 DEF IsPath
  <2> QED
    BY <1>2, <1>3, <2>1, LeafSizes DEF Joined, At, Middle, IsStop
<1>5. Ends(e, format, file)
  BY <1>2, <1>4 DEF IsPath
<1> HIDE DEF e
<1> DEFINE order == Order(RankRead, count)
           leaf  == [n \in 0 .. 31 |-> IF n < count THEN order[n] ELSE 0]
<1>6. order = LeafOrder(e, format, file)
  BY <1>2, RankReadIs DEF LeafOrder, At
<1>7. /\ count \in Nat /\ count <= 32 /\ order \in Orders(count)
      /\ e.first \in 0 .. count - 1 /\ e.last \in 0 .. count - 1
      /\ order[e.first] = e.last
  BY <1>2, <1>3, <1>5, <1>6, LeafIsPermutation, LeafSizes DEF IsStop, At, Ends
<1> HIDE DEF order
<1>8. \A n \in 0 .. count - 1 : leaf[n] = order[n]
  <2>1. \A n \in 0 .. count - 1 : n \in 0 .. 31 /\ n < count
    BY <1>7
  <2> QED
    BY <2>1
<1>9. IF inverse
      THEN IF \E n \in 0 .. count - 1 : leaf[n] = index
           THEN /\ index' = CHOOSE n \in 0 .. count - 1 : leaf[n] = index
                /\ phase' = "up"
           ELSE phase' = "thrown" /\ UNCHANGED index
      ELSE index' = leaf[index] /\ phase' = "up"
  BY DEF Middle, order
<1> HIDE DEF leaf
<1>10. index' = Far(e, inverse) /\ phase' = "up"
  <2>1. CASE inverse
    <3>1. index = e.last /\ leaf[e.first] = index
      BY <1>2, <1>7, <1>8, <2>1 DEF Near
    <3>2. \A n \in 0 .. count - 1 : leaf[n] = index => n = e.first
      BY <1>7, <1>8, <3>1 DEF Orders
    <3>3. phase' = "up" /\ index' = CHOOSE n \in 0 .. count - 1 : leaf[n] = index
      BY <1>7, <1>9, <2>1, <3>1
    <3> DEFINE found == CHOOSE n \in 0 .. count - 1 : leaf[n] = index
    <3>4. found \in 0 .. count - 1 /\ leaf[found] = index
      BY <1>7, <3>1
    <3>5. found = e.first
      BY <3>2, <3>4
    <3> QED
      BY <2>1, <3>3, <3>5 DEF Far
  <2>2. CASE ~inverse
    BY <1>2, <1>7, <1>8, <1>9, <2>2 DEF Near, Far
  <2> QED
    BY <2>1, <2>2
<1>11. UNCHANGED <<header, value, inverse, asked, back, count, in, out, middle, frames>>
  BY DEF Middle
<1>12. FollowsPath(T, m, k)'
  BY <1>1, <1>10, <1>11 DEF FollowsPath, header, e
<1> QED
  BY <1>10, <1>11, <1>12 DEF Inv, header

LEMMA AscendInv == Inv /\ Ascend => Inv'
<1> SUFFICES ASSUME Inv, Ascend PROVE Inv'
  OBVIOUS
<1>1. PICK T, m, k : FollowsPath(T, m, k)
  BY DEF Inv
<1> DEFINE e == T[k]  f == T[k + 1]  g == frames[Len(frames)]
<1>2. /\ IsPath(T, m, format, file) /\ k \in 0 .. m - 1 /\ m \in Nat \ {0}
      /\ frames = Trail(T, k) /\ index = Far(f, inverse) /\ inverse \in BOOLEAN
  BY <1>1 DEF FollowsPath, Ascend, IsPath, Inv
<1>3. k \in Nat /\ k # 0
  BY <1>2, TrailFacts DEF Ascend
<1>4. /\ k - 1 \in 0 .. m - 1 /\ (k - 1) + 1 = k
      /\ k \in 1 .. m - 1 /\ k \in 1 .. m /\ k + 1 \in 1 .. m
  BY <1>2, <1>3
<1>5. IsStop(e) /\ IsStop(f) /\ Joined(e, f, file)
  BY <1>2, <1>4 DEF IsPath
<1>6. g = Frame(e) /\ SubSeq(frames, 1, Len(frames) - 1) = Trail(T, k - 1)
  BY <1>2, <1>3, TrailFacts
<1>7. /\ g.size = e.count /\ g.right = e.right /\ g.in = e.in /\ g.out = e.out
  BY <1>6 DEF Frame
<1> HIDE DEF e, f, g
<1>8. Meets(Far(e, inverse), index, e.count, e.right, Left(g), Exited)
  BY <1>2, <1>5, <1>7 DEF Joined, Far, Left, Exited
<1>9. index' = Source(index, e.count, e.right, Left(g), Exited)
  BY <1>7 DEF Ascend, Source, g
<1>10. index' = Far(e, inverse)
  <2>1. e.count \in Nat /\ e.count > LeafSize /\ e.right \in BOOLEAN
    BY <1>5 DEF IsStop, Joined
  <2>2. Far(e, inverse) \in 0 .. e.count - 1
    BY <1>5 DEF IsStop, Far
  <2> QED
    BY <1>8, <1>9, <2>1, <2>2, SourceIsUnique
<1>11. /\ frames' = Trail(T, k - 1) /\ phase = "up"
       /\ UNCHANGED <<header, value, inverse, asked, back, phase, count, in, out, middle>>
  BY <1>6 DEF Ascend
<1>12. FollowsPath(T, m, k - 1)'
  BY <1>1, <1>4, <1>10, <1>11 DEF FollowsPath, header, e
<1> QED
  BY <1>11, <1>12 DEF Inv, header

LEMMA ReturnInv == Inv /\ Return => Inv'
<1> SUFFICES ASSUME Inv, Return PROVE Inv'
  OBVIOUS
<1>1. PICK T, m, k : FollowsPath(T, m, k)
  BY DEF Inv
<1>2. frames = Trail(T, k) /\ k \in 0 .. m - 1 /\ m \in Nat \ {0}
  BY <1>1 DEF FollowsPath, IsPath
<1>3. k = 0
  BY <1>2, TrailFacts DEF Return
<1>4. FollowsPath(T, m, k)'
  BY <1>1 DEF FollowsPath, Return, header
<1> QED
  BY <1>3, <1>4 DEF Inv, Return, header

LEMMA AskBackInv == Inv /\ AskBack => Inv'
<1> SUFFICES ASSUME Inv, AskBack PROVE Inv'
  OBVIOUS
<1>1. PICK T, m, k : FollowsPath(T, m, k) /\ k = 0
  BY DEF Inv, AskBack
<1>2. /\ IsPath(T, m, format, file) /\ 0 \in 0 .. m - 1 /\ 0 + 1 = 1
      /\ index = Far(T[1], inverse) /\ asked = Near(T[1], inverse)
      /\ At(T[1], format.count, RootOf(format, format.input, "input"),
            RootOf(format, format.output, "output"), 0)
      /\ inverse \in BOOLEAN
  BY <1>1 DEF FollowsPath, AskBack, Inv, IsPath
<1>3. /\ value' = index /\ inverse' = ~inverse /\ index' = index /\ back' = TRUE
      /\ phase' = "down" /\ frames' = <<>> /\ middle' = 0 /\ count' = format.count
      /\ in' = RootOf(format, format.input, "input")
      /\ out' = RootOf(format, format.output, "output")
      /\ UNCHANGED <<header, asked>>
  BY DEF AskBack, Begin
<1>4. Near(T[1], inverse') = index /\ Far(T[1], inverse') = asked
  BY <1>2, <1>3 DEF Near, Far
<1>5. frames' = Trail(T, 0)
  BY <1>3, TrailFacts
<1>6. FollowsPath(T, m, 0)'
  BY <1>2, <1>3, <1>4, <1>5 DEF FollowsPath, header
<1> QED
  BY <1>2, <1>3, <1>6 DEF Inv, header

\* A lookup always follows a path.
THEOREM LookupFollowsAPath == Spec => []Inv
<1>1. Inv /\ UNCHANGED vars => Inv'
  <2> SUFFICES ASSUME Inv, UNCHANGED vars PROVE Inv'
    OBVIOUS
  <2>1. PICK T, m, k : FollowsPath(T, m, k) /\ (phase = "answered" => k = 0)
    BY DEF Inv
  <2>2. FollowsPath(T, m, k)'
    BY <2>1 DEF FollowsPath, vars
  <2> QED
    BY <2>1, <2>2 DEF Inv, vars
<1>2. Inv /\ [Next]_vars => Inv'
  BY <1>1, DescendInv, MiddleInv, AscendInv, ReturnInv, AskBackInv DEF Next
<1> QED
  BY InitInv, <1>2, PTL DEF Spec

\* NeverThrows: in every file that opens the leaf has a position for the index
\* it is handed on the way of an inverse lookup, so lookup's exception is never
\* thrown.
THEOREM LookupsNeverThrow == Spec => []NeverThrows
<1>1. Inv => NeverThrows
  BY DEF Inv, NeverThrows
<1> QED
  BY <1>1, LookupFollowsAPath, PTL

\* DirectionsAgree: in every file that opens, an encoder's or not, forward and
\* inverse undo each other.
THEOREM DirectionsAlwaysAgree == Spec => []DirectionsAgree
<1>1. Inv => DirectionsAgree
  BY DEF Inv, DirectionsAgree, FollowsPath
<1> QED
  BY <1>1, LookupFollowsAPath, PTL

-----------------------------------------------------------------------------
(* Codes: a permutation is its digits, and ranks follow the order of digits. *)

\* A turn of the encoder, on the permutation that is left.
WithoutLast(p, n) == [j \in 0 .. n - 1 |-> IF p[j] > p[n] THEN p[j] - 1 ELSE p[j]]

LEMMA WithoutLastFacts ==
  ASSUME NEW n \in Nat, NEW p \in Orders(n + 1)
  PROVE  /\ WithoutLast(p, n) \in Orders(n)
         /\ p[n] \in 0 .. n
         /\ p = Inserted(WithoutLast(p, n), n, p[n])
<1> DEFINE r == WithoutLast(p, n)
<1>1. /\ p \in [0 .. n -> 0 .. n]
      /\ \A j, k \in 0 .. n : p[j] = p[k] => j = k
  <2>1. (n + 1) - 1 = n
    OBVIOUS
  <2> QED
    BY <2>1 DEF Orders
<1>2. n \in 0 .. n /\ p[n] \in 0 .. n
  BY <1>1
<1>3. \A j \in 0 .. n - 1 : /\ j \in 0 .. n /\ j # n
                            /\ p[j] \in 0 .. n /\ p[j] # p[n]
                            /\ r[j] = IF p[j] > p[n] THEN p[j] - 1 ELSE p[j]
  BY <1>1, <1>2 DEF WithoutLast
<1>4. \A j \in 0 .. n - 1 : r[j] \in 0 .. n - 1
  BY <1>2, <1>3
<1>5. r \in [0 .. n - 1 -> 0 .. n - 1]
  BY <1>4 DEF WithoutLast
<1>6. ASSUME NEW j \in 0 .. n - 1, NEW k \in 0 .. n - 1, r[j] = r[k] PROVE j = k
  <2>1. p[j] = p[k]
    BY <1>2, <1>3, <1>6
  <2> QED
    BY <1>1, <1>3, <2>1
<1>7. r \in Orders(n)
  BY <1>5, <1>6 DEF Orders
<1> HIDE DEF r
<1> DEFINE q == Inserted(r, n, p[n])
<1>8. \A j \in 0 .. n : q[j] = IF j = n THEN p[n] ELSE IF r[j] < p[n] THEN r[j] ELSE r[j] + 1
  BY DEF Inserted
<1>9. \A j \in 0 .. n : j # n => j \in 0 .. n - 1
  OBVIOUS
<1>10. \A j \in 0 .. n : q[j] = p[j]
  <2> SUFFICES ASSUME NEW j \in 0 .. n PROVE q[j] = p[j]
    OBVIOUS
  <2>1. CASE j = n
    BY <1>8, <2>1
  <2>2. CASE j # n
    <3>1. j \in 0 .. n - 1
      BY <1>9, <2>2
    <3>2. /\ q[j] = IF r[j] < p[n] THEN r[j] ELSE r[j] + 1
          /\ p[j] \in 0 .. n /\ p[j] # p[n]
          /\ r[j] = IF p[j] > p[n] THEN p[j] - 1 ELSE p[j]
      BY <1>3, <1>8, <2>2, <3>1
    <3> HIDE DEF q
    <3> QED
      BY <1>2, <3>2
  <2> QED
    BY <2>1, <2>2
<1>11. q = p
  <2>1. q = [j \in 0 .. n |-> q[j]]
    BY DEF Inserted
  <2> HIDE DEF q
  <2> QED
    BY <1>1, <1>10, <2>1
<1> QED
  BY <1>2, <1>7, <1>11 DEF r

LEMMA LastDigit ==
  ASSUME NEW n \in Nat, NEW p \in Orders(n + 1)
  PROVE  /\ Digit(p, n) = p[n]
         /\ \A k \in 0 .. n - 1 : Digit(WithoutLast(p, n), k) = Digit(p, k)
<1> DEFINE r == WithoutLast(p, n)  d == p[n]
<1>1. r \in Orders(n) /\ d \in 0 .. n /\ p = Inserted(r, n, d)
  BY WithoutLastFacts
<1> HIDE DEF r, d
<1>2. /\ Digit(Inserted(r, n, d), n) = d
      /\ \A k \in 0 .. n - 1 : Digit(Inserted(r, n, d), k) = Digit(r, k)
  BY <1>1, InsertedFacts
<1> QED
  BY <1>1, <1>2 DEF r, d

\* A permutation is known by its digits.
LEMMA SameOrder ==
  ASSUME NEW n \in Nat
  PROVE  \A p, q \in Orders(n) :
           (\A k \in 0 .. n - 1 : Digit(p, k) = Digit(q, k)) => p = q
<1> DEFINE S == {m \in Nat : \A p, q \in Orders(m) :
                   (\A k \in 0 .. m - 1 : Digit(p, k) = Digit(q, k)) => p = q}
<1>1. 0 \in S
  <2>1. 0 .. 0 - 1 = {}
    OBVIOUS
  <2>2. \A p, q \in Orders(0) : p = q
    BY <2>1 DEF Orders
  <2> QED
    BY <2>2
<1>2. ASSUME NEW m \in Nat, m \in S PROVE m + 1 \in S
  <2> SUFFICES ASSUME NEW p \in Orders(m + 1), NEW q \in Orders(m + 1),
                      \A k \in 0 .. (m + 1) - 1 : Digit(p, k) = Digit(q, k)
               PROVE  p = q
    BY m + 1 \in Nat
  <2> DEFINE r == WithoutLast(p, m)  s == WithoutLast(q, m)
  <2>1. /\ r \in Orders(m) /\ p = Inserted(r, m, p[m])
        /\ s \in Orders(m) /\ q = Inserted(s, m, q[m])
    BY WithoutLastFacts
  <2>2. /\ Digit(p, m) = p[m] /\ Digit(q, m) = q[m]
        /\ \A k \in 0 .. m - 1 : Digit(r, k) = Digit(p, k)
        /\ \A k \in 0 .. m - 1 : Digit(s, k) = Digit(q, k)
    BY LastDigit
  <2>3. /\ m \in 0 .. (m + 1) - 1
        /\ \A k \in 0 .. m - 1 : k \in 0 .. (m + 1) - 1
    OBVIOUS
  <2>4. p[m] = q[m] /\ \A k \in 0 .. m - 1 : Digit(r, k) = Digit(s, k)
    BY <2>2, <2>3
  <2> HIDE DEF r, s
  <2>5. r = s
    BY <1>2, <2>1, <2>4
  <2> QED
    BY <2>1, <2>4, <2>5
<1>3. Nat \subseteq S
  <2> HIDE DEF S
  <2> QED
    BY <1>1, <1>2, Induction
<1> QED
  BY <1>3

LEMMA DigitBound ==
  ASSUME NEW p, NEW k \in Nat
  PROVE  Digit(p, k) \in 0 .. k
<1> DEFINE A == {j \in 0 .. k - 1 : p[j] < p[k]}
<1>1. IsFiniteSet(0 .. k - 1) /\ Cardinality(0 .. k - 1) = k
  BY FS_Interval
<1>2. A \subseteq 0 .. k - 1
  OBVIOUS
<1>3. Cardinality(A) <= k
  <2> HIDE DEF A
  <2> QED
    BY <1>1, <1>2, FS_Subset
<1>4. Digit(p, k) <= k
  BY <1>3 DEF Digit
<1> QED
  BY <1>4, DigitType

LEMMA RankBound ==
  ASSUME NEW p, NEW n \in Nat
  PROVE  Rank(p, n) \in 0 .. Factorial[n] - 1
<1> DEFINE S == {k \in Nat : Rank(p, k) < Factorial[k]}
<1>1. 0 \in S
  BY RankFacts, FactorialFacts
<1>2. ASSUME NEW k \in Nat, k \in S PROVE k + 1 \in S
  <2> DEFINE r == Rank(p, k)  f == Factorial[k]  d == Digit(p, k)
  <2>1. r \in Nat /\ f \in Nat /\ d \in 0 .. k /\ r < f
    BY <1>2, RankFacts, FactorialFacts, DigitBound
  <2>2. /\ Rank(p, k + 1) = r * (k + 1) + d
        /\ Factorial[k + 1] = (k + 1) * f
    BY RankFacts, FactorialFacts
  <2> HIDE DEF r, f, d
  <2>3. r * (k + 1) + (k + 1) <= f * (k + 1)
    BY <2>1, Monotone, k + 1 \in Nat
  <2>4. r * (k + 1) \in Nat /\ f * (k + 1) = (k + 1) * f
    BY <2>1
  <2>5. Rank(p, k + 1) < Factorial[k + 1]
    BY <2>1, <2>2, <2>3, <2>4
  <2> QED
    BY <2>5
<1>3. Nat \subseteq S
  <2> HIDE DEF S
  <2> QED
    BY <1>1, <1>2, Induction
<1>4. Rank(p, n) < Factorial[n]
  BY <1>3
<1>5. Rank(p, n) \in Nat /\ Factorial[n] \in Nat
  BY RankFacts, FactorialFacts
<1> QED
  BY <1>4, <1>5
-----------------------------------------------------------------------------
(* The arithmetic of two words.                                              *)

Numbers == [low : Nat, high : Nat]
Words   == [low : 0 .. Word - 1, high : 0 .. Word - 1]

LEMMA PowerSum ==
  ASSUME NEW a \in Nat
  PROVE  \A b \in Nat : PowerOfTwo[a + b] = PowerOfTwo[a] * PowerOfTwo[b]
<1> DEFINE S == {b \in Nat : PowerOfTwo[a + b] = PowerOfTwo[a] * PowerOfTwo[b]}
<1>1. 0 \in S
  BY PowerFacts, a + 0 = a
<1>2. ASSUME NEW b \in Nat, b \in S PROVE b + 1 \in S
  <2> DEFINE x == PowerOfTwo[a]  y == PowerOfTwo[b]  z == PowerOfTwo[a + b]
  <2>1. x \in Nat /\ y \in Nat /\ z \in Nat /\ z = x * y
    BY <1>2, PowerFacts, a + b \in Nat
  <2>2. a + (b + 1) = (a + b) + 1 /\ a + b \in Nat /\ b + 1 \in Nat
    OBVIOUS
  <2>3. PowerOfTwo[a + (b + 1)] = 2 * z /\ PowerOfTwo[b + 1] = 2 * y
    BY <2>2, PowerFacts
  <2> HIDE DEF x, y, z
  <2>4. x * (2 * y) = 2 * (x * y)
    BY <2>1
  <2> QED
    BY <2>1, <2>2, <2>3, <2>4 DEF x
<1>3. Nat \subseteq S
  <2> HIDE DEF S
  <2> QED
    BY <1>1, <1>2, Induction
<1> QED
  BY <1>3

LEMMA HalfFacts ==
  /\ Half \in Nat \ {0} /\ Word \in Nat \ {0} /\ Word * Word \in Nat \ {0}
  /\ Word = Half * Half
  /\ Word = PowerOfTwo[2 * HalfBits]
  /\ Word * Word = PowerOfTwo[4 * HalfBits]
<1>1. HalfBits \in Nat /\ 2 * HalfBits \in Nat
  BY LeafAssumption
<1>2. HalfBits + HalfBits = 2 * HalfBits /\ 2 * HalfBits + 2 * HalfBits = 4 * HalfBits
  BY <1>1
<1>3. Half \in Nat \ {0}
  BY <1>1, PowerFacts DEF Half
<1>4. \A x \in Nat \ {0} : x * x \in Nat \ {0}
  OBVIOUS
<1>5. Word = PowerOfTwo[2 * HalfBits]
  BY <1>1, <1>2, PowerSum DEF Word, Half
<1>6. Word * Word = PowerOfTwo[4 * HalfBits]
  BY <1>1, <1>2, <1>5, PowerSum
<1>7. Word \in Nat \ {0}
  BY <1>3, <1>4 DEF Word
<1> QED
  BY <1>3, <1>4, <1>5, <1>6, <1>7 DEF Word

\* Long multiplication, with limbs of base h.
LEMMA LongProduct ==
  ASSUME NEW h \in Nat, NEW m \in Nat, NEW a \in Nat, NEW high \in Nat,
         NEW lh \in Nat, NEW ll \in Nat, NEW q1 \in Nat, NEW r1 \in Nat,
         NEW q2 \in Nat, NEW r2 \in Nat,
         ll * m + a = q1 * h + r1,
         lh * m + q1 = q2 * h + r2
  PROVE  (high * (h * h) + (lh * h + ll)) * m + a
           = (high * m + q2) * (h * h) + (r2 * h + r1)
<1>1. (high * (h * h) + (lh * h + ll)) * m + a
        = (high * m) * (h * h) + (lh * m) * h + (ll * m + a)
  OBVIOUS
<1>2. (lh * m) * h + q1 * h = (lh * m + q1) * h
  OBVIOUS
<1>3. (lh * m + q1) * h = q2 * (h * h) + r2 * h
  <2>1. (q2 * h + r2) * h = q2 * (h * h) + r2 * h
    OBVIOUS
  <2> QED
    BY <2>1
<1>4. (high * m + q2) * (h * h) = (high * m) * (h * h) + q2 * (h * h)
  OBVIOUS
<1> DEFINE A == (high * m) * (h * h)  B == (lh * m) * h  C == q2 * (h * h)
           D == r2 * h  E == q1 * h  F == ll * m  G == (lh * m + q1) * h
           L == (high * (h * h) + (lh * h + ll)) * m
           R == (high * m + q2) * (h * h)
<1>5. /\ A \in Nat /\ B \in Nat /\ C \in Nat /\ D \in Nat /\ E \in Nat
      /\ F \in Nat /\ G \in Nat /\ L \in Nat /\ R \in Nat
  OBVIOUS
<1>6. L + a = A + B + (F + a) /\ B + E = G /\ G = C + D /\ R = A + C /\ F + a = E + r1
  BY <1>1, <1>2, <1>3, <1>4
<1> HIDE DEF A, B, C, D, E, F, G, L, R
<1>7. L + a = R + (D + r1)
  BY <1>5, <1>6
<1> QED
  BY <1>7 DEF L, R, D

LEMMA MultiplyAddFacts ==
  ASSUME NEW u \in Numbers, NEW m \in Nat, NEW a \in Nat
  PROVE  /\ MultiplyAdd(u, m, a) \in Numbers
         /\ u \in Words /\ Value(u) * m + a < Word * Word =>
              /\ MultiplyAdd(u, m, a) \in Words
              /\ Value(MultiplyAdd(u, m, a)) = Value(u) * m + a
<1> DEFINE h == Half  w == Word
           lh == u.low \div h  ll == u.low % h
           lowHalf == ll * m + a
           q1 == lowHalf \div h  r1 == lowHalf % h
           highHalf == lh * m + q1
           q2 == highHalf \div h  r2 == highHalf % h
           low == ((highHalf * h) % w) + r1
           high == (u.high * m + q2) % w
<1>1. MultiplyAdd(u, m, a) = [low |-> low, high |-> high]
  BY DEF MultiplyAdd
<1>2. h \in Nat \ {0} /\ w \in Nat \ {0} /\ w = h * h
  BY HalfFacts
<1>3. u.low \in Nat /\ u.high \in Nat
  BY DEF Numbers
<1> HIDE DEF h, w
<1>4. lh \in Nat /\ ll \in 0 .. h - 1 /\ u.low = lh * h + ll
  BY <1>2, <1>3, DivisionFacts
<1> HIDE DEF lh, ll
<1>5. lowHalf \in Nat
  BY <1>4
<1> HIDE DEF lowHalf
<1>6. q1 \in Nat /\ r1 \in 0 .. h - 1 /\ lowHalf = q1 * h + r1
  BY <1>2, <1>5, DivisionFacts
<1> HIDE DEF q1, r1
<1>7. highHalf \in Nat
  BY <1>4, <1>6
<1> HIDE DEF highHalf
<1>8. q2 \in Nat /\ r2 \in 0 .. h - 1 /\ highHalf = q2 * h + r2
  BY <1>2, <1>7, DivisionFacts
<1> HIDE DEF q2, r2
<1>9. r2 * h + r1 \in 0 .. w - 1 /\ r2 * h \in 0 .. w - 1
  <2>1. r2 * h + h <= h * h
    BY <1>2, <1>8, Monotone
  <2>2. r2 * h \in Nat /\ h * h \in Nat
    BY <1>2, <1>8
  <2> QED
    BY <1>2, <1>6, <2>1, <2>2
<1>10. (highHalf * h) % w = r2 * h
  <2>1. highHalf * h = q2 * w + r2 * h
    <3>1. (q2 * h + r2) * h = q2 * (h * h) + r2 * h
      BY <1>2, <1>8
    <3> QED
      BY <1>2, <1>8, <3>1
  <2>2. highHalf * h \in Nat
    BY <1>2, <1>7
  <2> DEFINE n == highHalf * h  r == r2 * h
  <2>3. n \in Nat /\ r \in 0 .. w - 1 /\ n = q2 * w + r
    BY <1>9, <2>1, <2>2
  <2> HIDE DEF n, r
  <2>4. n % w = r
    BY <1>2, <1>8, <2>3, OneQuotient
  <2> QED
    BY <2>4 DEF n, r
<1>11. low = r2 * h + r1 /\ low \in 0 .. w - 1
  BY <1>9, <1>10
<1> DEFINE t == u.high * m + q2
<1>12. t \in Nat /\ high = t % w
  BY <1>3, <1>8
<1>13. high \in 0 .. w - 1
  BY <1>2, <1>12, DivisionFacts
<1>14. MultiplyAdd(u, m, a) \in Words
  BY <1>1, <1>11, <1>13 DEF Words, w
<1>15. MultiplyAdd(u, m, a) \in Numbers
  BY <1>1, <1>2, <1>11, <1>13 DEF Numbers
<1>16. ASSUME u \in Words, Value(u) * m + a < Word * Word
       PROVE  Value(MultiplyAdd(u, m, a)) = Value(u) * m + a
  <2>1. Value(u) = u.high * w + u.low /\ Value(u) \in Nat
    <3>1. Value(u) = u.high * w + u.low
      BY DEF Value, w
    <3> QED
      BY <1>2, <1>3, <3>1
  <2>2. \A x \in Nat : ll * m + a = q1 * h + r1 /\ lh * m + q1 = q2 * h + r2 =>
           (x * (h * h) + (lh * h + ll)) * m + a
             = (x * m + q2) * (h * h) + (r2 * h + r1)
    BY <1>2, <1>4, <1>6, <1>8, LongProduct
  <2>3. ll * m + a = q1 * h + r1 /\ lh * m + q1 = q2 * h + r2
    BY <1>6, <1>8 DEF lowHalf, highHalf
  <2>4. (u.high * (h * h) + (lh * h + ll)) * m + a = t * (h * h) + (r2 * h + r1)
    BY <1>3, <2>2, <2>3
  <2>5. Value(u) * m + a = t * w + low
    BY <1>2, <1>4, <1>11, <2>1, <2>4
  <2>6. t * w + low < w * w
    BY <1>16, <2>5 DEF w
  <2> HIDE DEF t, low, high
  <2>7. t < w
    <3> SUFFICES ASSUME w <= t PROVE FALSE
      BY <1>2, <1>12
    <3>1. w * w <= t * w
      BY <1>2, <1>12, Monotone
    <3>2. w * w \in Nat /\ t * w \in Nat /\ low \in Nat
      BY <1>2, <1>11, <1>12
    <3> QED
      BY <2>6, <3>1, <3>2
  <2>8. high = t
    <3>1. t \in 0 .. w - 1
      BY <1>2, <1>12, <2>7
    <3>2. t = 0 * w + t
      BY <1>2, <1>12
    <3>3. t % w = t
      BY <1>2, <1>12, <3>1, <3>2, OneQuotient
    <3> QED
      BY <1>12, <3>3
  <2>9. Value(MultiplyAdd(u, m, a)) = high * w + low
    BY <1>1 DEF Value, w
  <2> QED
    BY <2>5, <2>8, <2>9
<1> QED
  BY <1>14, <1>15, <1>16

\* Long division, limb by limb.
LEMMA LongQuotient ==
  ASSUME NEW h \in Nat, NEW d \in Nat,
         NEW l1 \in Nat, NEW l2 \in Nat, NEW l3 \in Nat, NEW l4 \in Nat,
         NEW p1 \in Nat, NEW p2 \in Nat, NEW p3 \in Nat, NEW p4 \in Nat,
         NEW r1 \in Nat, NEW r2 \in Nat, NEW r3 \in Nat, NEW r4 \in Nat,
         l1 = p1 * d + r1,
         r1 * h + l2 = p2 * d + r2,
         r2 * h + l3 = p3 * d + r3,
         r3 * h + l4 = p4 * d + r4
  PROVE  (l1 * h + l2) * (h * h) + (l3 * h + l4)
           = ((p1 * h + p2) * (h * h) + (p3 * h + p4)) * d + r4
<1>1. l1 * h + l2 = (p1 * h + p2) * d + r2
  <2>1. (p1 * d + r1) * h + l2 = (p1 * h) * d + (r1 * h + l2)
    OBVIOUS
  <2>2. (p1 * h + p2) * d = (p1 * h) * d + p2 * d
    OBVIOUS
  <2> DEFINE x == l1 * h  y == (p1 * d + r1) * h  z == (p1 * h) * d
             s == r1 * h  t == p2 * d  v == (p1 * h + p2) * d
  <2>3. /\ x \in Nat /\ y \in Nat /\ z \in Nat /\ s \in Nat /\ t \in Nat /\ v \in Nat
    OBVIOUS
  <2>4. x = y /\ y + l2 = z + (s + l2) /\ v = z + t /\ s + l2 = t + r2
    BY <2>1, <2>2
  <2> HIDE DEF x, y, z, s, t, v
  <2>5. x + l2 = v + r2
    BY <2>3, <2>4
  <2> QED
    BY <2>5 DEF x, v
<1>2. r2 * (h * h) + (l3 * h + l4) = (p3 * h + p4) * d + r4
  <2>1. r2 * (h * h) + l3 * h = (r2 * h + l3) * h
    OBVIOUS
  <2>2. (p3 * d + r3) * h = (p3 * h) * d + r3 * h
    OBVIOUS
  <2>3. (p3 * h + p4) * d = (p3 * h) * d + p4 * d
    OBVIOUS
  <2> DEFINE x == r2 * (h * h)  y == l3 * h  z == (r2 * h + l3) * h
             s == (p3 * d + r3) * h  t == (p3 * h) * d  v == r3 * h
             w == (p3 * h + p4) * d  q == p4 * d
  <2>4. /\ x \in Nat /\ y \in Nat /\ z \in Nat /\ s \in Nat /\ t \in Nat /\ v \in Nat
        /\ w \in Nat /\ q \in Nat
    OBVIOUS
  <2>5. x + y = z /\ z = s /\ s = t + v /\ w = t + q /\ v + l4 = q + r4
    BY <2>1, <2>2, <2>3
  <2> HIDE DEF x, y, z, s, t, v, w, q
  <2>6. x + (y + l4) = w + r4
    BY <2>4, <2>5
  <2> QED
    BY <2>6 DEF x, y, w
<1> DEFINE a == p1 * h + p2  b == p3 * h + p4  c == l1 * h + l2  e == l3 * h + l4
<1>3. a \in Nat /\ b \in Nat /\ c \in Nat /\ e \in Nat
  OBVIOUS
<1>4. c = a * d + r2 /\ r2 * (h * h) + e = b * d + r4
  BY <1>1, <1>2
<1> HIDE DEF a, b, c, e
<1>5. c * (h * h) = (a * (h * h)) * d + r2 * (h * h)
  <2>1. (a * d + r2) * (h * h) = (a * (h * h)) * d + r2 * (h * h)
    BY <1>3
  <2> QED
    BY <1>4, <2>1
<1>6. (a * (h * h) + b) * d = (a * (h * h)) * d + b * d
  BY <1>3
<1> DEFINE x == c * (h * h)  y == (a * (h * h)) * d  z == r2 * (h * h)
           s == (a * (h * h) + b) * d  t == b * d
<1>7. x \in Nat /\ y \in Nat /\ z \in Nat /\ s \in Nat /\ t \in Nat
  BY <1>3
<1>8. x = y + z /\ s = y + t /\ z + e = t + r4
  BY <1>4, <1>5, <1>6
<1> HIDE DEF x, y, z, s, t
<1>9. x + e = s + r4
  BY <1>3, <1>7, <1>8
<1> QED
  BY <1>9 DEF x, s, a, b, c, e

LEMMA DivideFacts ==
  ASSUME NEW u \in Numbers, NEW d \in Nat \ {0}
  PROVE  /\ Divide(u, d).quotient \in Numbers
         /\ Divide(u, d).remainder \in 0 .. d - 1
         /\ Value(u) = Value(Divide(u, d).quotient) * d + Divide(u, d).remainder
<1> DEFINE h == Half
           limb == <<u.high \div h, u.high % h, u.low \div h, u.low % h>>
           IsIt(R) == R = [k \in 0 .. 4 |->
                        IF k = 0 THEN 0 ELSE (R[k - 1] * h + limb[k]) % d]
           R == CHOOSE R : IsIt(R)
           part(k) == (R[k - 1] * h + limb[k]) \div d
           n1 == 0 * h + limb[1]
           r1 == n1 % d
           n2 == r1 * h + limb[2]
           r2 == n2 % d
           n3 == r2 * h + limb[3]
           r3 == n3 % d
           n4 == r3 * h + limb[4]
           r4 == n4 % d
           g == [k \in 0 .. 4 |-> IF k = 0 THEN 0 ELSE IF k = 1 THEN r1
                                  ELSE IF k = 2 THEN r2 ELSE IF k = 3 THEN r3 ELSE r4]
<1>1. Divide(u, d) = [quotient  |-> [low  |-> part(3) * h + part(4),
                                     high |-> part(1) * h + part(2)],
                      remainder |-> R[4]]
  BY DEF Divide
<1>2. u.low \in Nat /\ u.high \in Nat /\ h \in Nat \ {0} /\ Word = h * h
  BY HalfFacts DEF Numbers
<1>3. /\ limb[1] \in Nat /\ limb[2] \in Nat /\ limb[3] \in Nat /\ limb[4] \in Nat
      /\ u.high = limb[1] * h + limb[2]
      /\ u.low = limb[3] * h + limb[4]
  <2>1. PICK x, y, b : x = u.high /\ y = u.low /\ b = h
    OBVIOUS
  <2>2. x \in Nat /\ y \in Nat /\ b \in Nat \ {0}
    BY <1>2, <2>1
  <2>3. x \div b \in Nat /\ x % b \in Nat /\ x = (x \div b) * b + (x % b)
    BY <2>2, DivisionFacts
  <2>4. y \div b \in Nat /\ y % b \in Nat /\ y = (y \div b) * b + (y % b)
    BY <2>2, DivisionFacts
  <2>5. limb[1] = x \div b /\ limb[2] = x % b /\ limb[3] = y \div b /\ limb[4] = y % b
    BY <2>1
  <2> HIDE DEF limb, h
  <2> QED
    BY <2>1, <2>3, <2>4, <2>5
<1> HIDE DEF limb, h
<1>4. IsIt(g)
  <2>1. \A k \in 0 .. 4 :
          g[k] = IF k = 0 THEN 0 ELSE (g[k - 1] * h + limb[k]) % d
    <3>1. g[0] = 0 /\ g[1] = r1 /\ g[2] = r2 /\ g[3] = r3 /\ g[4] = r4
      OBVIOUS
    <3> HIDE DEF g
    <3>2. /\ g[1] = (g[1 - 1] * h + limb[1]) % d
          /\ g[2] = (g[2 - 1] * h + limb[2]) % d
          /\ g[3] = (g[3 - 1] * h + limb[3]) % d
          /\ g[4] = (g[4 - 1] * h + limb[4]) % d
      <4>1. 1 - 1 = 0 /\ 2 - 1 = 1 /\ 3 - 1 = 2 /\ 4 - 1 = 3
        OBVIOUS
      <4> QED
        BY <3>1, <4>1
    <3> SUFFICES ASSUME NEW k \in 0 .. 4
                 PROVE  g[k] = IF k = 0 THEN 0 ELSE (g[k - 1] * h + limb[k]) % d
      OBVIOUS
    <3>3. k = 0 \/ k = 1 \/ k = 2 \/ k = 3 \/ k = 4
      OBVIOUS
    <3> QED
      BY <3>1, <3>2, <3>3
  <2> QED
    BY <2>1
<1>5. IsIt(R)
  <2> HIDE DEF IsIt
  <2> QED
    BY <1>4
<1> DEFINE Q(r, l) == (r * h + l) \div d
           M(r, l) == (r * h + l) % d
           Takes(r, l, p, s) == /\ p \in Nat /\ s \in 0 .. d - 1
                                /\ r * h + l = p * d + s
<1>6. /\ R[0] = 0 /\ R[1] = M(R[0], limb[1]) /\ R[2] = M(R[1], limb[2])
      /\ R[3] = M(R[2], limb[3]) /\ R[4] = M(R[3], limb[4])
  <2>1. \A k \in 0 .. 4 : R[k] = IF k = 0 THEN 0 ELSE M(R[k - 1], limb[k])
    BY <1>5
  <2>2. 1 - 1 = 0 /\ 2 - 1 = 1 /\ 3 - 1 = 2 /\ 4 - 1 = 3
    OBVIOUS
  <2> HIDE DEF R, IsIt, M
  <2> QED
    BY <2>1, <2>2
<1>7. /\ part(1) = Q(R[0], limb[1]) /\ part(2) = Q(R[1], limb[2])
      /\ part(3) = Q(R[2], limb[3]) /\ part(4) = Q(R[3], limb[4])
  <2>1. 1 - 1 = 0 /\ 2 - 1 = 1 /\ 3 - 1 = 2 /\ 4 - 1 = 3
    OBVIOUS
  <2> HIDE DEF R
  <2> QED
    BY <2>1
<1> HIDE DEF R, IsIt, part, g, n1, n2, n3, n4, r1, r2, r3, r4
<1>8. \A r, l \in Nat : Takes(r, l, Q(r, l), M(r, l))
  <2> SUFFICES ASSUME NEW r \in Nat, NEW l \in Nat
               PROVE  Takes(r, l, Q(r, l), M(r, l))
    OBVIOUS
  <2> DEFINE n == r * h + l
  <2>1. n \in Nat
    BY <1>2
  <2> HIDE DEF n
  <2>2. n \div d \in Nat /\ n % d \in 0 .. d - 1 /\ n = (n \div d) * d + (n % d)
    BY <2>1, DivisionFacts
  <2> QED
    BY <2>2 DEF n
<1>9. \A r, l, p, s : Takes(r, l, p, s) => p \in Nat /\ s \in Nat
  OBVIOUS
<1> HIDE DEF Q, M, Takes
<1>10. Takes(R[0], limb[1], part(1), R[1])
  BY <1>3, <1>6, <1>7, <1>8
<1>11. Takes(R[1], limb[2], part(2), R[2])
  BY <1>3, <1>6, <1>7, <1>8, <1>9, <1>10
<1>12. Takes(R[2], limb[3], part(3), R[3])
  BY <1>3, <1>6, <1>7, <1>8, <1>9, <1>11
<1>13. Takes(R[3], limb[4], part(4), R[4])
  BY <1>3, <1>6, <1>7, <1>8, <1>9, <1>12
<1>14. (limb[1] * h + limb[2]) * (h * h) + (limb[3] * h + limb[4])
         = ((part(1) * h + part(2)) * (h * h) + (part(3) * h + part(4))) * d + R[4]
  <2>1. PICK l1, l2, l3, l4, p1, p2, p3, p4, s1, s2, s3, s4 :
          /\ l1 = limb[1] /\ l2 = limb[2] /\ l3 = limb[3] /\ l4 = limb[4]
          /\ p1 = part(1) /\ p2 = part(2) /\ p3 = part(3) /\ p4 = part(4)
          /\ s1 = R[1] /\ s2 = R[2] /\ s3 = R[3] /\ s4 = R[4]
    OBVIOUS
  <2>2. /\ l1 \in Nat /\ l2 \in Nat /\ l3 \in Nat /\ l4 \in Nat
        /\ p1 \in Nat /\ p2 \in Nat /\ p3 \in Nat /\ p4 \in Nat
        /\ s1 \in Nat /\ s2 \in Nat /\ s3 \in Nat /\ s4 \in Nat
    BY <1>3, <1>9, <1>10, <1>11, <1>12, <1>13, <2>1
  <2>3. 0 * h + l1 = p1 * d + s1 /\ s1 * h + l2 = p2 * d + s2
    BY <1>6, <1>10, <1>11, <2>1 DEF Takes
  <2>4. s2 * h + l3 = p3 * d + s3 /\ s3 * h + l4 = p4 * d + s4
    BY <1>12, <1>13, <2>1 DEF Takes
  <2>5. h \in Nat /\ d \in Nat /\ l1 = p1 * d + s1
    BY <1>2, <2>2, <2>3
  <2>6. (l1 * h + l2) * (h * h) + (l3 * h + l4)
          = ((p1 * h + p2) * (h * h) + (p3 * h + p4)) * d + s4
    BY <2>2, <2>3, <2>4, <2>5, LongQuotient
  <2> QED
    BY <2>1, <2>6
<1> DEFINE low == part(3) * h + part(4)  high == part(1) * h + part(2)
<1>15. low \in Nat /\ high \in Nat
  <2>1. /\ part(1) \in Nat /\ part(2) \in Nat /\ part(3) \in Nat /\ part(4) \in Nat
    BY <1>9, <1>10, <1>11, <1>12, <1>13
  <2>2. \A a, b \in Nat : a * h + b \in Nat
    BY <1>2
  <2> QED
    BY <2>1, <2>2
<1>16. Divide(u, d) = [quotient |-> [low |-> low, high |-> high], remainder |-> R[4]]
  BY <1>1
<1>20. R[4] \in 0 .. d - 1
  BY <1>13 DEF Takes
<1>17. u.high * (h * h) + u.low = (high * (h * h) + low) * d + R[4]
  BY <1>3, <1>14
<1> HIDE DEF low, high
<1>18. Divide(u, d).quotient = [low |-> low, high |-> high] /\ Divide(u, d).remainder = R[4]
  BY <1>16
<1>19. Value(Divide(u, d).quotient) = high * Word + low /\ Value(u) = u.high * Word + u.low
  BY <1>18 DEF Value
<1> QED
  BY <1>2, <1>15, <1>17, <1>18, <1>19, <1>20 DEF Numbers
-----------------------------------------------------------------------------
(* The bits of two words.                                                    *)

LEMMA PowerMonotone ==
  ASSUME NEW a \in Nat, NEW b \in Nat, a <= b
  PROVE  PowerOfTwo[a] <= PowerOfTwo[b]
<1> DEFINE x == PowerOfTwo[a]  y == PowerOfTwo[b - a]
<1>1. b - a \in Nat /\ a + (b - a) = b
  OBVIOUS
<1>2. x \in Nat \ {0} /\ y \in Nat \ {0} /\ PowerOfTwo[b] = x * y
  BY <1>1, PowerFacts, PowerSum
<1> HIDE DEF x, y
<1>3. 1 * x <= y * x /\ y * x = x * y /\ 1 * x = x
  BY <1>2, Monotone
<1> QED
  BY <1>2, <1>3 DEF x

LEMMA FactorialMonotone ==
  ASSUME NEW a \in Nat
  PROVE  \A b \in Nat : a <= b => Factorial[a] <= Factorial[b]
<1> DEFINE S == {b \in Nat : a <= b => Factorial[a] <= Factorial[b]}
<1>1. 0 \in S
  BY FactorialFacts
<1>2. ASSUME NEW b \in Nat, b \in S PROVE b + 1 \in S
  <2> DEFINE x == Factorial[a]  y == Factorial[b]  z == Factorial[b + 1]
  <2>1. x \in Nat /\ y \in Nat /\ z = (b + 1) * y
    BY FactorialFacts
  <2>2. a <= b => x <= y
    BY <1>2
  <2>3. a <= b + 1 => a <= b \/ a = b + 1
    OBVIOUS
  <2>4. a = b + 1 => x = z
    OBVIOUS
  <2> HIDE DEF x, y, z
  <2>5. y <= z /\ z \in Nat
    <3>1. (b + 1) * y = b * y + y /\ b * y \in Nat
      BY <2>1
    <3> QED
      BY <2>1, <3>1
  <2>6. a <= b + 1 => x <= z
    BY <2>1, <2>2, <2>3, <2>4, <2>5
  <2> QED
    BY <2>6 DEF x, z
<1>3. Nat \subseteq S
  <2> HIDE DEF S
  <2> QED
    BY <1>1, <1>2, Induction
<1> QED
  BY <1>3

LEMMA WordOfFacts ==
  ASSUME NEW bits, NEW first \in Nat
  PROVE  /\ WordOf(bits, first) \in Nat
         /\ \A x \in 0 .. Word - 1 :
              (\A b \in 0 .. 2 * HalfBits - 1 :
                 first + b \in bits <=> (x \div PowerOfTwo[b]) % 2 = 1)
              => WordOf(bits, first) = x
<1> DEFINE w == 2 * HalfBits
           Bit(b) == IF first + b - 1 \in bits THEN PowerOfTwo[b - 1] ELSE 0
           IsIt(R) == R = [b \in 0 .. w |-> IF b = 0 THEN 0 ELSE R[b - 1] + Bit(b)]
           R == CHOOSE R : IsIt(R)
           step == [k \in Nat |-> [x \in Nat |-> x + Bit(k + 1)]]
<1>1. WordOf(bits, first) = R[w]
  BY DEF WordOf
<1>2. w \in Nat
  BY LeafAssumption
<1>3. \A k \in Nat : Bit(k + 1) = IF first + k \in bits THEN PowerOfTwo[k] ELSE 0
  <2>1. \A k \in Nat : first + (k + 1) - 1 = first + k /\ (k + 1) - 1 = k
    OBVIOUS
  <2> QED
    BY <2>1
<1>4. \A k \in Nat : Bit(k + 1) \in Nat
  BY <1>3, PowerFacts
<1> HIDE DEF Bit, w
<1>5. IsStep(0, step, Nat)
  BY <1>4 DEF IsStep
<1>6. PICK f : Follows(f, 0, step, Nat)
  BY <1>5, FunctionExists
<1>7. f[0] = 0 /\ \A k \in Nat : f[k] \in Nat /\ f[k + 1] = f[k] + Bit(k + 1)
  BY <1>6 DEF Follows
<1> DEFINE g == [b \in 0 .. w |-> f[b]]
<1>8. IsIt(g)
  <2>1. ASSUME NEW b \in 0 .. w
        PROVE  g[b] = IF b = 0 THEN 0 ELSE g[b - 1] + Bit(b)
    <3>1. CASE b = 0
      BY <1>7, <3>1
    <3>2. CASE b # 0
      <4>1. b - 1 \in Nat /\ b - 1 \in 0 .. w /\ (b - 1) + 1 = b
        BY <1>2, <3>2
      <4>2. f[b] = f[b - 1] + Bit(b)
        BY <1>7, <4>1
      <4> QED
        BY <3>2, <4>1, <4>2
    <3> QED
      BY <3>1, <3>2
  <2> QED
    BY <2>1
<1>9. IsIt(R)
  <2> HIDE DEF IsIt
  <2> QED
    BY <1>8
<1>10. R[0] = 0 /\ \A k \in 0 .. w - 1 : R[k + 1] = R[k] + Bit(k + 1)
  <2>1. \A b \in 0 .. w : R[b] = IF b = 0 THEN 0 ELSE R[b - 1] + Bit(b)
    BY <1>9
  <2>2. /\ 0 \in 0 .. w
        /\ \A k \in 0 .. w - 1 : k + 1 \in 0 .. w /\ k + 1 # 0 /\ (k + 1) - 1 = k
    BY <1>2
  <2> HIDE DEF R, IsIt
  <2> QED
    BY <2>1, <2>2
<1> HIDE DEF R, IsIt, g
<1>11. \A k \in 0 .. w : R[k] = f[k]
  <2>1. \A k \in 0 .. w - 1 : R[k] \in Nat => R[k + 1] = step[k][R[k]]
    BY <1>2, <1>10
  <2> HIDE DEF step
  <2> QED
    BY <1>2, <1>6, <1>10, <2>1, ComputesIt
<1>12. WordOf(bits, first) = f[w] /\ f[w] \in Nat
  BY <1>1, <1>2, <1>7, <1>11
<1>13. ASSUME NEW x \in 0 .. Word - 1,
              \A b \in 0 .. w - 1 :
                 first + b \in bits <=> (x \div PowerOfTwo[b]) % 2 = 1
       PROVE  f[w] = x
  <2> DEFINE S == {k \in Nat : k <= w => f[k] = x % PowerOfTwo[k]}
  <2>1. x \in Nat
    BY HalfFacts
  <2>2. 0 \in S
    BY <1>7, <2>1, PowerFacts
  <2>3. ASSUME NEW k \in Nat, k \in S PROVE k + 1 \in S
    <3> SUFFICES ASSUME k + 1 <= w PROVE f[k + 1] = x % PowerOfTwo[k + 1]
      BY <2>3
    <3> DEFINE p == PowerOfTwo[k]  s == (x \div p) % 2
    <3>1. f[k] = x % p /\ k \in 0 .. w - 1
      BY <1>2, <2>3
    <3>2. x % PowerOfTwo[k + 1] = (x % p) + p * s
      BY <2>1, NextPower
    <3>3. p \in Nat \ {0} /\ x \div p \in Nat
      <4>1. p \in Nat \ {0}
        BY PowerFacts
      <4> HIDE DEF p
      <4> QED
        BY <2>1, <4>1, DivisionFacts
    <3>4. s = 0 \/ s = 1
      BY <3>3
    <3>5. Bit(k + 1) = IF s = 1 THEN p ELSE 0
      BY <1>3, <1>13, <3>1
    <3>6. x % p \in Nat
      <4> HIDE DEF p
      <4> QED
        BY <2>1, <3>3, DivisionFacts
    <3> HIDE DEF p, s
    <3>7. p * s = IF s = 1 THEN p ELSE 0
      BY <3>3, <3>4
    <3> QED
      BY <1>7, <3>1, <3>2, <3>5, <3>7
  <2>4. Nat \subseteq S
    <3> HIDE DEF S
    <3> QED
      BY <2>2, <2>3, Induction
  <2>5. f[w] = x % PowerOfTwo[w]
    BY <1>2, <2>4
  <2>6. PowerOfTwo[w] = Word /\ Word \in Nat \ {0}
    BY HalfFacts DEF w
  <2>7. x = 0 * Word + x /\ 0 \in Nat
    BY <2>1, <2>6
  <2>8. x % Word = x
    BY <2>1, <2>6, <2>7, OneQuotient
  <2> QED
    BY <2>5, <2>6, <2>8
<1> QED
  BY <1>12, <1>13 DEF w

LEMMA StoredRankType ==
  ASSUME NEW bits
  PROVE  StoredRank(bits) \in Numbers
<1>1. 2 * HalfBits \in Nat /\ 0 \in Nat
  BY LeafAssumption
<1>2. WordOf(bits, 0) \in Nat /\ WordOf(bits, 2 * HalfBits) \in Nat
  BY <1>1, WordOfFacts
<1> QED
  BY <1>2 DEF StoredRank, Numbers

LEMMA BitWidthFacts ==
  ASSUME NEW x \in 0 .. Word - 1
  PROVE  /\ BitWidth(x) \in 0 .. 2 * HalfBits
         /\ x < PowerOfTwo[BitWidth(x)]
         /\ BitWidth(x) > 0 => x >= PowerOfTwo[BitWidth(x) - 1]
<1> DEFINE w == 2 * HalfBits
           IsWidth(b) == x < PowerOfTwo[b] /\ (b > 0 => x >= PowerOfTwo[b - 1])
<1>1. w \in Nat /\ Word = PowerOfTwo[w] /\ Word \in Nat \ {0} /\ x \in Nat /\ x < Word
  BY LeafAssumption, HalfFacts
<1> HIDE DEF w
<1>2. \E b \in 0 .. w : IsWidth(b)
  <2> SUFFICES ASSUME \A b \in 0 .. w : ~IsWidth(b) PROVE FALSE
    OBVIOUS
  <2> DEFINE S == {b \in Nat : b <= w => x >= PowerOfTwo[b]}
  <2>1. 0 \in S
    <3>1. 0 \in 0 .. w /\ ~(0 > 0)
      BY <1>1
    <3>2. PowerOfTwo[0] \in Nat
      BY PowerFacts
    <3> QED
      BY <1>1, <3>1, <3>2
  <2>2. ASSUME NEW b \in Nat, b \in S PROVE b + 1 \in S
    <3> SUFFICES ASSUME b + 1 <= w PROVE x >= PowerOfTwo[b + 1]
      BY <2>2
    <3>1. b + 1 \in 0 .. w /\ (b + 1) - 1 = b /\ x >= PowerOfTwo[b]
      BY <1>1, <2>2
    <3>2. PowerOfTwo[b + 1] \in Nat
      BY PowerFacts, b + 1 \in Nat
    <3> QED
      BY <1>1, <3>1, <3>2
  <2>3. Nat \subseteq S
    <3> HIDE DEF S
    <3> QED
      BY <2>1, <2>2, Induction
  <2>4. x >= PowerOfTwo[w]
    BY <1>1, <2>3
  <2> QED
    BY <1>1, <2>4
<1>3. BitWidth(x) = CHOOSE b \in 0 .. w : IsWidth(b)
  BY DEF BitWidth, w
<1>4. BitWidth(x) \in 0 .. w /\ IsWidth(BitWidth(x))
  <2> HIDE DEF IsWidth
  <2> QED
    BY <1>2, <1>3
<1> QED
  BY <1>4 DEF w

LEMMA WordHasRoom == Word > 1
<1>1. HalfBits - 1 \in Nat /\ (HalfBits - 1) + 1 = HalfBits
  BY LeafAssumption
<1>2. PowerOfTwo[HalfBits - 1] \in Nat \ {0} /\ Half = 2 * PowerOfTwo[HalfBits - 1]
  BY <1>1, PowerFacts DEF Half
<1>3. Half \in Nat /\ Half >= 2
  BY <1>2
<1>4. 2 * Half <= Half * Half
  BY <1>3, Monotone
<1> QED
  BY <1>3, <1>4, HalfFacts

LEMMA ValueType ==
  ASSUME NEW u \in Numbers
  PROVE  Value(u) \in Nat /\ Value(u) = u.high * Word + u.low
<1>1. u.high \in Nat /\ u.low \in Nat /\ Word \in Nat
  BY HalfFacts DEF Numbers
<1>2. \A a, b, c \in Nat : a * b + c \in Nat
  OBVIOUS
<1> QED
  BY <1>1, <1>2 DEF Value

LEMMA WordsAreNumbers ==
  ASSUME NEW u \in Words
  PROVE  /\ u \in Numbers
         /\ u.low \in 0 .. Word - 1 /\ u.high \in 0 .. Word - 1
         /\ u = [low |-> u.low, high |-> u.high]
BY HalfFacts DEF Words, Numbers

LEMMA SmallestWords ==
  /\ [low |-> 0, high |-> 0] \in Words /\ Value([low |-> 0, high |-> 0]) = 0
  /\ [low |-> 1, high |-> 0] \in Words /\ Value([low |-> 1, high |-> 0]) = 1
<1>1. Word \in Nat /\ Word > 1 /\ 0 * Word = 0
  BY HalfFacts, WordHasRoom
<1> QED
  BY <1>1 DEF Words, Value

LEMMA DecrementFacts ==
  ASSUME NEW u \in Words, Value(u) > 0
  PROVE  Decrement(u) \in Words /\ Value(Decrement(u)) = Value(u) - 1
<1>1. PICK x, y, w : x = u.low /\ y = u.high /\ w = Word
  OBVIOUS
<1>2. /\ w \in Nat \ {0} /\ x \in 0 .. w - 1 /\ y \in 0 .. w - 1
      /\ u = [low |-> x, high |-> y] /\ Value(u) = y * w + x
  BY <1>1, HalfFacts, WordsAreNumbers, ValueType
<1>3. CASE x = 0
  <2>1. y # 0
    BY <1>2, <1>3
  <2>2. y + w - 1 = 1 * w + (y - 1) /\ y - 1 \in 0 .. w - 1 /\ y + w - 1 \in Nat
    BY <1>2, <2>1
  <2>3. (y + w - 1) % w = y - 1
    <3>1. PICK n, r : n = y + w - 1 /\ r = y - 1
      OBVIOUS
    <3>2. n \in Nat /\ r \in 0 .. w - 1 /\ n = 1 * w + r
      BY <2>2, <3>1
    <3>3. n % w = r
      BY <1>2, <3>2, OneQuotient
    <3> QED
      BY <3>1, <3>3
  <2>4. Decrement(u) = [low |-> w - 1, high |-> y - 1]
    BY <1>1, <1>2, <1>3, <2>3 DEF Decrement
  <2>5. Value(Decrement(u)) = (y - 1) * w + (w - 1)
    BY <1>1, <2>4 DEF Value
  <2>6. (y - 1) * w = y * w - w /\ y * w \in Nat
    BY <1>2
  <2>7. Decrement(u) \in Words
    BY <1>1, <1>2, <2>2, <2>4 DEF Words
  <2> QED
    BY <1>2, <1>3, <2>5, <2>6, <2>7
<1>4. CASE x # 0
  <2>1. Decrement(u) = [low |-> x - 1, high |-> y]
    BY <1>1, <1>2, <1>4 DEF Decrement
  <2>2. x - 1 \in 0 .. w - 1 /\ y * w \in Nat
    BY <1>2, <1>4
  <2>3. Value(Decrement(u)) = y * w + (x - 1)
    BY <1>1, <2>1 DEF Value
  <2>4. Decrement(u) \in Words
    BY <1>1, <1>2, <2>1, <2>2 DEF Words
  <2> QED
    BY <1>2, <2>2, <2>3, <2>4
<1> QED
  BY <1>3, <1>4

\* The product 1 * 2 * ... * n of factoradic_bit_count.
LEMMA ProductFacts ==
  ASSUME NEW n \in Sizes, NEW P,
         P = CHOOSE Q : Q = [k \in 1 .. n |->
               IF k = 1 THEN [low |-> 1, high |-> 0] ELSE MultiplyAdd(Q[k - 1], k, 0)]
  PROVE  P[n] \in Words /\ Value(P[n]) = Factorial[n]
<1> DEFINE one == [low |-> 1, high |-> 0]
           IsIt(Q) == Q = [k \in 1 .. n |->
                             IF k = 1 THEN one ELSE MultiplyAdd(Q[k - 1], k, 0)]
           step == [k \in Nat |-> [x \in Numbers |-> MultiplyAdd(x, k + 2, 0)]]
<1>1. n \in Nat \ {0}
  BY LeafAssumption
<1>2. IsStep(one, step, Numbers)
  <2>1. \A k \in Nat : k + 2 \in Nat
    OBVIOUS
  <2>2. \A k \in Nat : \A x \in Numbers : MultiplyAdd(x, k + 2, 0) \in Numbers
    BY <2>1, MultiplyAddFacts
  <2>3. one \in Numbers
    BY SmallestWords, WordsAreNumbers
  <2> HIDE DEF one
  <2> QED
    BY <2>2, <2>3 DEF IsStep
<1>3. one \in Words /\ Value(one) = 1
  BY SmallestWords
<1> HIDE DEF one
<1>4. PICK f : Follows(f, one, step, Numbers)
  BY <1>2, FunctionExists
<1>5. f[0] = one /\ \A k \in Nat : f[k] \in Numbers /\ f[k + 1] = MultiplyAdd(f[k], k + 2, 0)
  BY <1>4 DEF Follows
<1> DEFINE g == [k \in 1 .. n |-> f[k - 1]]
<1>6. IsIt(g)
  <2>1. ASSUME NEW k \in 1 .. n
        PROVE  g[k] = IF k = 1 THEN one ELSE MultiplyAdd(g[k - 1], k, 0)
    <3>1. CASE k = 1
      BY <1>1, <1>5, <3>1
    <3>2. CASE k # 1
      <4>1. k - 1 \in 1 .. n /\ k - 2 \in Nat /\ (k - 2) + 1 = k - 1
            /\ (k - 2) + 2 = k /\ (k - 1) - 1 = k - 2
        BY <1>1, <3>2
      <4>2. f[k - 1] = MultiplyAdd(f[k - 2], k, 0)
        BY <1>5, <4>1
      <4>3. g[k] = f[k - 1] /\ g[k - 1] = f[k - 2]
        BY <4>1
      <4> HIDE DEF g
      <4> QED
        BY <3>2, <4>2, <4>3
    <3> QED
      BY <3>1, <3>2
  <2> QED
    BY <2>1
<1>7. IsIt(P)
  <2>1. P = CHOOSE Q : IsIt(Q)
    BY DEF one
  <2> HIDE DEF IsIt
  <2> QED
    BY <1>6, <2>1
<1>8. P[1] = one /\ \A k \in 1 .. n : k # 1 => P[k] = MultiplyAdd(P[k - 1], k, 0)
  <2>1. \A k \in 1 .. n : P[k] = IF k = 1 THEN one ELSE MultiplyAdd(P[k - 1], k, 0)
    BY <1>7
  <2> HIDE DEF IsIt
  <2> QED
    BY <1>1, <2>1
<1> HIDE DEF IsIt, g, step
<1> DEFINE S == {k \in Nat : k + 1 <= n => P[k + 1] \in Words
                                           /\ Value(P[k + 1]) = Factorial[k + 1]}
<1>9. 0 \in S
  <2>1. Factorial[0 + 1] = (0 + 1) * Factorial[0] /\ Factorial[0] = 1
    BY FactorialFacts
  <2>2. 0 + 1 = 1 /\ Factorial[1] = 1
    BY <2>1
  <2> QED
    BY <1>3, <1>8, <2>2
<1>10. ASSUME NEW k \in Nat, k \in S PROVE k + 1 \in S
  <2> SUFFICES ASSUME (k + 1) + 1 <= n
               PROVE  /\ P[(k + 1) + 1] \in Words
                      /\ Value(P[(k + 1) + 1]) = Factorial[(k + 1) + 1]
    BY <1>10
  <2> DEFINE m == (k + 1) + 1
  <2>1. /\ m \in 1 .. n /\ m \in Nat /\ m # 1 /\ m - 1 = k + 1 /\ k + 1 <= n /\ m <= n
        /\ k + 1 \in Nat
    BY <1>1
  <2>2. P[k + 1] \in Words /\ Value(P[k + 1]) = Factorial[k + 1]
    BY <1>10, <2>1
  <2>3. Factorial[m] = m * Factorial[k + 1]
    BY <2>1, FactorialFacts
  <2>4. P[m] = MultiplyAdd(P[k + 1], m, 0)
    BY <1>8, <2>1
  <2>5. Factorial[m] <= Factorial[n]
    BY <1>1, <2>1, FactorialMonotone
  <2>6. Factorial[n] < Word * Word /\ Word * Word \in Nat
    BY HalfFacts, RoomAssumption
  <2>7. Factorial[m] \in Nat /\ Factorial[n] \in Nat /\ Factorial[k + 1] \in Nat
    BY <1>1, <2>1, FactorialFacts
  <2> HIDE DEF m
  <2>8. Value(P[k + 1]) * m + 0 = Factorial[m] /\ Factorial[m] < Word * Word
    BY <2>1, <2>2, <2>3, <2>5, <2>6, <2>7
  <2>9. P[k + 1] \in Numbers
    BY <2>2, WordsAreNumbers
  <2>10. /\ MultiplyAdd(P[k + 1], m, 0) \in Words
         /\ Value(MultiplyAdd(P[k + 1], m, 0)) = Value(P[k + 1]) * m + 0
    BY <2>1, <2>2, <2>8, <2>9, MultiplyAddFacts
  <2>11. P[m] \in Words /\ Value(P[m]) = Factorial[m]
    BY <2>4, <2>8, <2>10
  <2> QED
    BY <2>11 DEF m
<1>11. Nat \subseteq S
  <2> HIDE DEF S
  <2> QED
    BY <1>9, <1>10, Induction
<1>12. n - 1 \in Nat /\ (n - 1) + 1 = n
  BY <1>1
<1> QED
  BY <1>11, <1>12

\* The bits of a leaf hold every rank, and half of them would not.
LEMMA BitCountFacts ==
  ASSUME NEW n \in Sizes
  PROVE  /\ BitCount(n) \in Nat
         /\ Factorial[n] <= PowerOfTwo[BitCount(n)]
         /\ PowerOfTwo[BitCount(n)] < 2 * Factorial[n]
<1> DEFINE P == CHOOSE Q : Q = [k \in 1 .. n |->
                  IF k = 1 THEN [low |-> 1, high |-> 0] ELSE MultiplyAdd(Q[k - 1], k, 0)]
           last == Decrement(P[n])
           h == last.high  l == last.low  w == 2 * HalfBits
           f == Factorial[n]
<1>1. BitCount(n) = IF h # 0 THEN w + BitWidth(h) ELSE BitWidth(l)
  BY DEF BitCount
<1>2. n \in Nat /\ w \in Nat
  BY LeafAssumption
<1>3. f \in Nat \ {0}
  BY <1>2, FactorialFacts
<1>4. P[n] \in Words /\ Value(P[n]) = f
  <2>1. PICK Q : Q = P
    OBVIOUS
  <2> HIDE DEF P
  <2>2. Q[n] \in Words /\ Value(Q[n]) = f
    BY <2>1, ProductFacts DEF P
  <2> QED
    BY <2>1, <2>2
<1> HIDE DEF P, f
<1>5. last \in Words /\ Value(last) = f - 1
  BY <1>3, <1>4, DecrementFacts
<1> HIDE DEF last
<1>6. /\ l \in 0 .. Word - 1 /\ h \in 0 .. Word - 1
      /\ f - 1 = h * Word + l
      /\ Word = PowerOfTwo[w] /\ Word \in Nat \ {0}
  BY <1>5, WordsAreNumbers, ValueType, HalfFacts
<1> HIDE DEF l, h, w
<1>7. CASE h # 0
  <2> DEFINE b == BitWidth(h)  p == PowerOfTwo[b]
  <2>1. b \in 0 .. w /\ h < p /\ (b > 0 => h >= PowerOfTwo[b - 1])
    BY <1>6, BitWidthFacts DEF w
  <2>2. b \in Nat /\ b > 0 /\ b - 1 \in Nat /\ (b - 1) + 1 = b
    <3>1. b = 0 => p = 1
      BY PowerFacts
    <3> HIDE DEF p
    <3> QED
      BY <1>2, <1>6, <1>7, <2>1, <3>1
  <2> DEFINE q == PowerOfTwo[b - 1]
  <2>3. p = 2 * q /\ q \in Nat \ {0} /\ p \in Nat
    BY <2>2, PowerFacts
  <2>4. PowerOfTwo[w + b] = Word * p
    BY <1>2, <1>6, <2>2, PowerSum
  <2>5. BitCount(n) = w + b
    BY <1>1, <1>7
  <2> HIDE DEF b, p, q
  <2>6. h * Word + Word <= p * Word /\ q * Word <= h * Word
    BY <1>6, <2>1, <2>2, <2>3, Monotone DEF q
  <2>7. /\ p * Word = Word * p /\ p * Word = 2 * (q * Word)
        /\ q * Word \in Nat /\ h * Word \in Nat
    BY <1>6, <2>3
  <2>8. f <= Word * p /\ Word * p < 2 * f
    BY <1>3, <1>6, <2>6, <2>7
  <2> QED
    BY <1>2, <2>2, <2>4, <2>5, <2>8 DEF f
<1>8. CASE h = 0
  <2> DEFINE b == BitWidth(l)  p == PowerOfTwo[b]
  <2>1. b \in 0 .. w /\ l < p /\ (b > 0 => l >= PowerOfTwo[b - 1])
    BY <1>6, BitWidthFacts DEF w
  <2>2. f - 1 = l
    BY <1>6, <1>8
  <2>3. BitCount(n) = b /\ b \in Nat
    BY <1>1, <1>2, <1>8, <2>1
  <2>4. p \in Nat
    BY <2>3, PowerFacts
  <2>5. CASE b = 0
    <3>1. p = 1
      BY <2>5, PowerFacts
    <3> HIDE DEF p, b
    <3>2. f <= p /\ p < 2 * f
      BY <1>3, <1>6, <2>1, <2>2, <3>1
    <3> QED
      BY <2>3, <3>2 DEF f, p
  <2>6. CASE b # 0
    <3> DEFINE q == PowerOfTwo[b - 1]
    <3>1. b > 0 /\ b - 1 \in Nat /\ (b - 1) + 1 = b
      BY <2>3, <2>6
    <3>2. p = 2 * q /\ q \in Nat \ {0}
      BY <3>1, PowerFacts
    <3>3. l >= q
      BY <2>1, <3>1
    <3> HIDE DEF p, b, q
    <3>4. f <= p /\ p < 2 * f
      BY <1>3, <1>6, <2>1, <2>2, <3>2, <3>3
    <3> QED
      BY <2>3, <3>4 DEF f, p
  <2> QED
    BY <2>5, <2>6
<1> QED
  BY <1>6, <1>7, <1>8

\* The bits stored for a rank are all it has.
LEMMA StoredFacts ==
  ASSUME NEW places \in Nat, NEW u \in Words, Value(u) < PowerOfTwo[places]
  PROVE  StoredRank({b \in 0 .. places - 1 : BitSet(u, b)}) = u
<1> DEFINE w == 2 * HalfBits
           bits == {b \in 0 .. places - 1 : BitSet(u, b)}
<1>1. PICK x, y : x = u.low /\ y = u.high
  OBVIOUS
<1>2. /\ w \in Nat /\ Word \in Nat \ {0} /\ Word = PowerOfTwo[w]
      /\ x \in 0 .. Word - 1 /\ y \in 0 .. Word - 1
      /\ u = [low |-> x, high |-> y] /\ Value(u) = y * Word + x
  BY <1>1, LeafAssumption, HalfFacts, WordsAreNumbers, ValueType
<1>3. y * Word \in Nat /\ x \in Nat /\ y \in Nat
  BY <1>2
<1>4. \A b : BitSet(u, b) <=> IF b < w THEN (x \div PowerOfTwo[b]) % 2 = 1
                              ELSE (y \div PowerOfTwo[b - w]) % 2 = 1
  BY <1>1 DEF BitSet
<1> HIDE DEF w
<1>5. \A p \in Nat \ {0} : \A z \in Nat : z < p => (z \div p) % 2 = 0
  <2> SUFFICES ASSUME NEW p \in Nat \ {0}, NEW z \in Nat, z < p
               PROVE  (z \div p) % 2 = 0
    OBVIOUS
  <2>1. z = 0 * p + z /\ z \in 0 .. p - 1
    OBVIOUS
  <2>2. z \div p = 0
    BY <2>1, OneQuotient
  <2> QED
    BY <2>2
<1>6. ASSUME NEW b \in 0 .. w - 1
      PROVE  0 + b \in bits <=> (x \div PowerOfTwo[b]) % 2 = 1
  <2>1. 0 + b = b /\ b \in Nat /\ b < w
    BY <1>2
  <2>2. CASE b < places
    BY <1>4, <2>1, <2>2
  <2>3. CASE ~(b < places)
    <3>1. places <= b
      BY <2>1, <2>3
    <3>2. /\ PowerOfTwo[places] <= PowerOfTwo[b]
          /\ PowerOfTwo[places] \in Nat /\ PowerOfTwo[b] \in Nat \ {0}
      BY <2>1, <3>1, PowerMonotone, PowerFacts
    <3>3. x < PowerOfTwo[b]
      BY <1>2, <1>3, <3>2
    <3>4. (x \div PowerOfTwo[b]) % 2 = 0
      BY <1>3, <1>5, <3>2, <3>3
    <3> QED
      BY <2>1, <2>3, <3>4
  <2> QED
    BY <2>2, <2>3
<1>7. ASSUME NEW b \in 0 .. w - 1
      PROVE  w + b \in bits <=> (y \div PowerOfTwo[b]) % 2 = 1
  <2>1. w + b \in Nat /\ b \in Nat /\ ~(w + b < w) /\ (w + b) - w = b
    BY <1>2
  <2>2. CASE w + b < places
    BY <1>4, <2>1, <2>2
  <2>3. CASE ~(w + b < places)
    <3> DEFINE p == PowerOfTwo[b]
    <3>1. places <= w + b
      BY <2>1, <2>3
    <3>2. PowerOfTwo[places] <= PowerOfTwo[w + b] /\ PowerOfTwo[places] \in Nat
      BY <2>1, <3>1, PowerMonotone, PowerFacts
    <3>3. PowerOfTwo[w + b] = Word * p /\ p \in Nat \ {0}
      BY <1>2, <2>1, PowerSum, PowerFacts
    <3> HIDE DEF p
    <3>4. y * Word < p * Word
      <4>1. p * Word = Word * p /\ p * Word \in Nat
        BY <1>2, <3>3
      <4> QED
        BY <1>2, <1>3, <3>2, <3>3, <4>1
    <3>5. y < p
      <4> SUFFICES ASSUME p <= y PROVE FALSE
        BY <1>3, <3>3
      <4>1. p * Word <= y * Word /\ p * Word \in Nat
        BY <1>2, <1>3, <3>3, Monotone
      <4> QED
        BY <1>3, <3>4, <4>1
    <3>6. (y \div p) % 2 = 0
      BY <1>3, <1>5, <3>3, <3>5
    <3> QED
      BY <2>1, <2>3, <3>6 DEF p
  <2> QED
    BY <2>2, <2>3
<1> HIDE DEF bits
<1>8. WordOf(bits, 0) = x
  BY <1>2, <1>6, WordOfFacts DEF w
<1>9. WordOf(bits, w) = y
  BY <1>2, <1>7, WordOfFacts DEF w
<1>10. StoredRank(bits) = u
  BY <1>2, <1>8, <1>9 DEF StoredRank, w
<1> QED
  BY <1>10 DEF bits
-----------------------------------------------------------------------------
(* Ranks follow the order of the digits.                                     *)

\* Before, of permutations of n values.
Precedes(p, q, n) ==
  \E m \in 0 .. n - 1 :
    Digit(p, m) < Digit(q, m) /\ \A k \in 0 .. m - 1 : Digit(p, k) = Digit(q, k)

LEMMA SmallerRank ==
  ASSUME NEW n \in Nat, NEW p, NEW q, Precedes(p, q, n)
  PROVE  Rank(p, n) < Rank(q, n)
<1>1. PICK m \in 0 .. n - 1 :
        /\ Digit(p, m) < Digit(q, m)
        /\ \A k \in 0 .. m - 1 : Digit(p, k) = Digit(q, k)
  BY DEF Precedes
<1>2. m \in Nat /\ m + 1 <= n /\ m + 1 \in Nat
  OBVIOUS
<1> DEFINE S == {k \in Nat : m + 1 <= k => Rank(p, k) < Rank(q, k)}
<1>3. 0 \in S
  BY <1>2
<1>4. ASSUME NEW k \in Nat, k \in S PROVE k + 1 \in S
  <2> SUFFICES ASSUME m + 1 <= k + 1 PROVE Rank(p, k + 1) < Rank(q, k + 1)
    BY <1>4
  <2> DEFINE a == Rank(p, k)  b == Rank(q, k)  d == Digit(p, k)  e == Digit(q, k)
  <2>1. a \in Nat /\ b \in Nat /\ d \in 0 .. k /\ e \in 0 .. k
    BY RankFacts, DigitBound
  <2>2. Rank(p, k + 1) = a * (k + 1) + d /\ Rank(q, k + 1) = b * (k + 1) + e
    BY RankFacts
  <2>3. CASE k = m
    <3>1. a = b
      BY <1>1, <1>2, <2>3, SameDigits
    <3>2. d < e
      BY <1>1, <2>3
    <3> HIDE DEF a, b, d, e
    <3>3. a * (k + 1) \in Nat
      BY <2>1
    <3> QED
      BY <2>1, <2>2, <3>1, <3>2, <3>3
  <2>4. CASE k # m
    <3>1. a < b
      BY <1>2, <1>4, <2>4
    <3> HIDE DEF a, b, d, e
    <3>2. a * (k + 1) + (k + 1) <= b * (k + 1)
      BY <2>1, <3>1, Monotone, k + 1 \in Nat
    <3>3. a * (k + 1) \in Nat /\ b * (k + 1) \in Nat
      BY <2>1
    <3> QED
      BY <2>1, <2>2, <3>2, <3>3
  <2> QED
    BY <2>3, <2>4
<1>5. Nat \subseteq S
  <2> HIDE DEF S
  <2> QED
    BY <1>3, <1>4, Induction
<1> QED
  BY <1>2, <1>5

LEMMA Compared ==
  ASSUME NEW n \in Nat, NEW p, NEW q
  PROVE  \/ Precedes(p, q, n)
         \/ Precedes(q, p, n)
         \/ \A k \in 0 .. n - 1 : Digit(p, k) = Digit(q, k)
<1> DEFINE S == {k \in Nat : k < n => Digit(p, k) = Digit(q, k)}
<1>1. CASE \A m \in Nat : (\A k \in 0 .. m - 1 : k \in S) => m \in S
  <2>1. Nat \subseteq S
    <3> HIDE DEF S
    <3> QED
      BY <1>1, FromAllBefore
  <2> QED
    BY <2>1
<1>2. CASE ~ \A m \in Nat : (\A k \in 0 .. m - 1 : k \in S) => m \in S
  <2>1. PICK m \in Nat : (\A k \in 0 .. m - 1 : k \in S) /\ m \notin S
    BY <1>2
  <2>2. m \in 0 .. n - 1 /\ Digit(p, m) # Digit(q, m)
    BY <2>1
  <2>3. \A k \in 0 .. m - 1 : k \in Nat /\ k < n
    BY <2>2
  <2>4. \A k \in 0 .. m - 1 : Digit(p, k) = Digit(q, k) /\ Digit(q, k) = Digit(p, k)
    BY <2>1, <2>3
  <2>5. Digit(p, m) \in Nat /\ Digit(q, m) \in Nat
    BY DigitType
  <2>6. Digit(p, m) < Digit(q, m) \/ Digit(q, m) < Digit(p, m)
    BY <2>2, <2>5
  <2> QED
    BY <2>2, <2>4, <2>6 DEF Precedes
<1> QED
  BY <1>1, <1>2

LEMMA RankOrder ==
  ASSUME NEW n \in Nat, NEW p \in Orders(n), NEW q \in Orders(n)
  PROVE  /\ Rank(p, n) = Rank(q, n) => p = q
         /\ Precedes(p, q, n) <=> Rank(p, n) < Rank(q, n)
<1>1. Rank(p, n) \in Nat /\ Rank(q, n) \in Nat
  BY RankFacts
<1>2. Precedes(p, q, n) => Rank(p, n) < Rank(q, n)
  BY SmallerRank
<1>3. Precedes(q, p, n) => Rank(q, n) < Rank(p, n)
  BY SmallerRank
<1>4. (\A k \in 0 .. n - 1 : Digit(p, k) = Digit(q, k)) => p = q
  BY SameOrder
<1> QED
  BY <1>1, <1>2, <1>3, <1>4, Compared

\* As many permutations come before one as its rank says.
LEMMA RankCounts ==
  ASSUME NEW n \in Nat, NEW q \in Orders(n)
  PROVE  Cardinality({p \in Orders(n) : Precedes(p, q, n)}) = Rank(q, n)
<1> DEFINE r == Rank(q, n)
           A == {p \in Orders(n) : Precedes(p, q, n)}
           B == 0 .. r - 1
           f == [v \in B |-> CHOOSE p \in Orders(n) : Rank(p, n) = v]
<1>1. r \in 0 .. Factorial[n] - 1 /\ Factorial[n] \in Nat /\ r \in Nat
  BY RankBound, FactorialFacts
<1>2. IsFiniteSet(B) /\ Cardinality(B) = r
  <2>1. PICK c : c = r
    OBVIOUS
  <2> HIDE DEF r
  <2>2. c \in Nat /\ c - 1 \in Int /\ 0 \in Int
    BY <1>1, <2>1
  <2>3. IsFiniteSet(0 .. c - 1) /\ Cardinality(0 .. c - 1) = c
    BY <2>2, FS_Interval
  <2> QED
    BY <2>1, <2>3
<1>3. \A v \in B : f[v] \in Orders(n) /\ Rank(f[v], n) = v
  <2>1. \A v \in B : v \in 0 .. Factorial[n] - 1
    BY <1>1
  <2>2. \A v \in B : \E p \in Orders(n) : Rank(p, n) = v
    BY <2>1, EveryRank
  <2> HIDE DEF B
  <2> QED
    BY <2>2
<1>4. \A v \in B : f[v] \in A
  <2>1. \A v \in B : v < r
    BY <1>1
  <2> HIDE DEF f, B
  <2> QED
    BY <1>3, <2>1, RankOrder
<1>5. f \in [B -> A]
  <2> HIDE DEF A, B
  <2> QED
    BY <1>4
<1>6. \A v, w \in B : f[v] = f[w] => v = w
  <2> HIDE DEF f, B
  <2> QED
    BY <1>3
<1>7. \A p \in A : \E v \in B : f[v] = p
  <2> SUFFICES ASSUME NEW p \in A PROVE \E v \in B : f[v] = p
    OBVIOUS
  <2>1. p \in Orders(n) /\ Rank(p, n) < r /\ Rank(p, n) \in Nat
    BY RankOrder, RankFacts
  <2>2. Rank(p, n) \in B
    BY <1>1, <2>1
  <2> HIDE DEF f, B, A
  <2>3. f[Rank(p, n)] = p
    BY <1>3, <2>1, <2>2, RankOrder
  <2> QED
    BY <2>2, <2>3
<1> HIDE DEF A, B, f, r
<1>8. f \in Injection(B, A) /\ f \in Surjection(B, A)
  BY <1>5, <1>6, <1>7 DEF Injection, IsInjective, Surjection
<1>9. Cardinality(A) = Cardinality(B)
  BY <1>2, <1>8, FS_Surjection
<1> QED
  BY <1>2, <1>9 DEF A, r
-----------------------------------------------------------------------------
(* The inductive invariant of Factoradic.                                    *)

\* The first n positions of the array.
FirstOf(d, n) == [j \in 0 .. n - 1 |-> d[j]]

\* From one position on, U holds the number whose digits D are.
Folds(U, D, from, to) ==
  /\ U \in [Nat -> Nat]
  /\ \A k \in from .. to - 1 : U[k + 1] = U[k] * (k + 1) + D[k]

VectorFollows ==
  /\ decrements \in [Positions -> Nat]
  /\ \A p \in Positions : digits[p] = block[p] - decrements[p]

Removing ==
  /\ stage = "remove"
  /\ i \in 0 .. size - 1
  /\ block \in Orders(size)
  /\ FirstOf(digits, i + 1) \in Orders(i + 1)
  /\ \A j, k \in 0 .. i : digits[j] < digits[k] <=> block[j] < block[k]
  /\ \A k \in i + 1 .. size - 1 : digits[k] = Digit(block, k)
  /\ VectorFollows
  /\ acc = [low |-> 0, high |-> 0]

Accumulating ==
  /\ stage = "accumulate"
  /\ i \in 0 .. size
  /\ block \in Orders(size)
  /\ \A k \in Positions : digits[k] = Digit(block, k)
  /\ VectorFollows
  /\ acc \in Words
  /\ Value(acc) = Rank(block, i)

\* What the file holds is the rank of the permutation, if there is one.
Written ==
  \/ block = <<>>
  \/ block \in Orders(size) /\ Value(StoredRank(stored)) = Rank(block, size)

Dividing ==
  /\ stage = "divide"
  /\ i \in -1 .. size - 1
  /\ Written
  /\ acc \in Numbers
  /\ \A k \in i + 1 .. size - 1 : digits[k] \in 0 .. k
  /\ \E U : /\ Folds(U, digits, i + 1, size)
            /\ U[i + 1] = Value(acc)
            /\ U[size] = Value(StoredRank(stored))

Inserting ==
  /\ stage = "insert"
  /\ i \in 0 .. size
  /\ Written
  /\ FirstOf(digits, i) \in Orders(i)
  /\ \E U, D : /\ Folds(U, D, 0, size)
               /\ U[size] = Value(StoredRank(stored))
               /\ \A k \in Positions : D[k] \in 0 .. k
               /\ \A k \in i .. size - 1 : digits[k] = D[k]
               /\ \A k \in 0 .. i - 1 : Digit(FirstOf(digits, i), k) = D[k]

LeafInv ==
  /\ size \in Sizes
  /\ digits \in [Positions -> Nat]
  /\ Removing \/ Accumulating \/ Dividing \/ Inserting

LEMMA SizeType ==
  ASSUME NEW n \in Sizes
  PROVE  n \in Nat \ {0}
BY LeafAssumption

LEMMA LeafInitInv == LeafInit => LeafInv
<1> SUFFICES ASSUME LeafInit PROVE LeafInv
  OBVIOUS
<1>1. size \in Sizes /\ size \in Nat \ {0} /\ decrements = [p \in Positions |-> 0]
  BY SizeType DEF LeafInit
<1>2. CASE Encode
  <2>1. /\ block \in Orders(size) /\ stage = "remove" /\ i = size - 1 /\ digits = block
        /\ acc = [low |-> 0, high |-> 0]
    BY <1>2 DEF Encode
  <2>2. i \in 0 .. size - 1 /\ i + 1 = size /\ (i + 1) - 1 = size - 1
    BY <1>1, <2>1
  <2>3. digits \in [Positions -> 0 .. size - 1]
    BY <2>1 DEF Orders, Positions
  <2>4. FirstOf(digits, i + 1) = digits
    BY <2>2, <2>3 DEF FirstOf, Positions
  <2>5. \A p \in Positions : digits[p] = block[p] - decrements[p]
    <3>1. \A p \in Positions : decrements[p] = 0 /\ block[p] \in Nat
      BY <1>1, <2>1, <2>3
    <3> QED
      BY <2>1, <3>1
  <2>6. decrements \in [Positions -> Nat] /\ digits \in [Positions -> Nat]
    BY <1>1, <2>3
  <2>7. \A k \in i + 1 .. size - 1 : FALSE
    BY <1>1, <2>2
  <2> QED
    BY <1>1, <2>1, <2>2, <2>4, <2>5, <2>6, <2>7 DEF LeafInv, Removing, VectorFollows
<1>3. CASE Read
  <2>1. /\ block = <<>> /\ stage = "divide" /\ i = size - 1
        /\ digits = [p \in Positions |-> 0] /\ acc = StoredRank(stored)
    BY <1>3 DEF Read
  <2>2. i \in -1 .. size - 1 /\ i + 1 = size /\ \A k \in i + 1 .. size - 1 : FALSE
    BY <1>1, <2>1
  <2>3. acc \in Numbers /\ Value(acc) \in Nat
    BY <2>1, StoredRankType, ValueType
  <2> DEFINE U == [k \in Nat |-> Value(acc)]
  <2>4. U \in [Nat -> Nat] /\ U[size] = Value(acc)
    BY <1>1, <2>3
  <2>5. Folds(U, digits, i + 1, size)
    BY <2>2, <2>4 DEF Folds
  <2> HIDE DEF U
  <2>6. Dividing
    BY <2>1, <2>2, <2>3, <2>4, <2>5 DEF Dividing, Written
  <2>7. digits \in [Positions -> Nat]
    BY <2>1
  <2> QED
    BY <1>1, <2>6, <2>7 DEF LeafInv
<1> QED
  BY <1>2, <1>3 DEF LeafInit

LEMMA RemoveInv == LeafInv /\ Remove => LeafInv'
<1> SUFFICES ASSUME LeafInv, Remove PROVE LeafInv'
  OBVIOUS
<1>1. Removing
  BY DEF LeafInv, Remove, Accumulating, Dividing, Inserting
<1>2. /\ size \in Sizes /\ size \in Nat \ {0} /\ i \in 1 .. size - 1
      /\ digits \in [Positions -> Nat]
      /\ size' = size /\ block' = block /\ stage' = "remove" /\ acc' = acc /\ i' = i - 1
      /\ Positions' = Positions
  BY <1>1, SizeType DEF LeafInv, Remove, Removing, Positions
<1>3. /\ block \in Orders(size)
      /\ FirstOf(digits, i + 1) \in Orders(i + 1)
      /\ \A j, k \in 0 .. i : digits[j] < digits[k] <=> block[j] < block[k]
      /\ \A k \in i + 1 .. size - 1 : digits[k] = Digit(block, k)
      /\ decrements \in [Positions -> Nat]
      /\ \A p \in Positions : digits[p] = block[p] - decrements[p]
      /\ acc = [low |-> 0, high |-> 0]
  BY <1>1 DEF Removing, VectorFollows
<1>4. /\ i - 1 \in 0 .. size - 1 /\ (i - 1) + 1 = i /\ i \in Nat /\ i \in 0 .. i
      /\ (i + 1) - 1 = i
      /\ \A k \in 0 .. i : k \in Positions
      /\ \A k \in 0 .. i - 1 : k \in 0 .. i /\ k < i /\ k # i
      /\ i \in Positions
  BY <1>2 DEF Positions
<1> DEFINE p == FirstOf(digits, i + 1)  q == WithoutLast(p, i)
<1>5. \A k \in 0 .. i : p[k] = digits[k] /\ p[k] \in Nat
  BY <1>2, <1>4 DEF FirstOf
<1>6. /\ q \in Orders(i) /\ p[i] \in 0 .. i
      /\ Digit(p, i) = p[i]
  BY <1>3, <1>4, WithoutLastFacts, LastDigit
<1>7. \A j, k \in 0 .. i : p[j] = p[k] => j = k
  BY <1>3, <1>4 DEF Orders
<1> HIDE DEF p
<1>8. \A k \in 0 .. i - 1 : /\ digits[k] # digits[i] /\ digits[k] \in Nat
                            /\ digits[i] \in Nat
  BY <1>4, <1>5, <1>7
<1>9. digits' = [k \in Positions |->
         IF k < i /\ digits[k] > digits[i] THEN digits[k] - 1 ELSE digits[k]]
  BY DEF Remove
<1>10. \A k \in 0 .. i - 1 : digits'[k] = IF digits[k] > digits[i] THEN digits[k] - 1
                                          ELSE digits[k]
  BY <1>4, <1>9
<1>11. \A k \in Positions : ~(k < i) => digits'[k] = digits[k]
  BY <1>9
<1>12. digits' \in [Positions -> Nat]
  <2>1. \A k \in Positions :
          (IF k < i /\ digits[k] > digits[i] THEN digits[k] - 1 ELSE digits[k]) \in Nat
    BY <1>2, <1>4
  <2> QED
    BY <1>9, <2>1
<1>13. FirstOf(digits', i) = q
  <2>1. \A k \in 0 .. i - 1 : digits'[k] = IF p[k] > p[i] THEN p[k] - 1 ELSE p[k]
    BY <1>4, <1>5, <1>10
  <2> QED
    BY <2>1 DEF FirstOf, WithoutLast
<1>14. \A j, k \in 0 .. i - 1 : digits'[j] < digits'[k] <=> block[j] < block[k]
  <2> SUFFICES ASSUME NEW j \in 0 .. i - 1, NEW k \in 0 .. i - 1
               PROVE  digits'[j] < digits'[k] <=> digits[j] < digits[k]
    BY <1>3, <1>4
  <2>1. /\ digits'[j] = IF digits[j] > digits[i] THEN digits[j] - 1 ELSE digits[j]
        /\ digits'[k] = IF digits[k] > digits[i] THEN digits[k] - 1 ELSE digits[k]
    BY <1>10
  <2>2. /\ digits[j] # digits[i] /\ digits[k] # digits[i]
        /\ digits[j] \in Nat /\ digits[k] \in Nat /\ digits[i] \in Nat
    BY <1>8
  <2> QED
    BY <2>1, <2>2
<1>15. digits[i] = Digit(block, i)
  <2>1. {j \in 0 .. i - 1 : p[j] < p[i]} = {j \in 0 .. i - 1 : block[j] < block[i]}
    BY <1>3, <1>4, <1>5
  <2>2. Digit(p, i) = Digit(block, i)
    BY <2>1 DEF Digit
  <2> QED
    BY <1>4, <1>5, <1>6, <2>2
<1>16. \A k \in i .. size - 1 : digits'[k] = Digit(block, k)
  <2> SUFFICES ASSUME NEW k \in i .. size - 1 PROVE digits'[k] = Digit(block, k)
    OBVIOUS
  <2>1. k \in Positions /\ ~(k < i) /\ (k = i \/ k \in i + 1 .. size - 1)
    BY <1>2, <1>4 DEF Positions
  <2> QED
    BY <1>3, <1>11, <1>15, <2>1
<1>17. decrements' = [k \in Positions |->
         decrements[k] + IF k < i /\ block[k] > block[i] THEN 1 ELSE 0]
  <2>1. decrements' = [k \in Positions |->
         decrements[k] + IF k \in VectorLanes(i) /\ block[k] > block[i] THEN 1 ELSE 0]
    BY DEF Remove
  <2>2. \A k \in Positions : k \in VectorLanes(i) <=> k < i
    <3>1. Lanes \in Nat
      BY LeafAssumption
    <3>2. \A k \in Positions : k \in Nat
      BY <1>2 DEF Positions
    <3> QED
      BY <1>4, <3>1, <3>2 DEF VectorLanes
  <2> QED
    BY <2>1, <2>2
<1>18. /\ decrements' \in [Positions -> Nat]
       /\ \A k \in Positions : digits'[k] = block[k] - decrements'[k]
  <2>1. ASSUME NEW k \in Positions
        PROVE  /\ decrements'[k] \in Nat
               /\ digits'[k] = block[k] - decrements'[k]
    <3>1. /\ decrements[k] \in Nat /\ digits[k] \in Nat /\ block[k] \in Nat
          /\ digits[k] = block[k] - decrements[k]
      <4>1. block \in [Positions -> 0 .. size - 1]
        BY <1>3 DEF Orders, Positions
      <4> QED
        BY <1>2, <1>3, <4>1
    <3>2. decrements'[k] = decrements[k] + IF k < i /\ block[k] > block[i] THEN 1 ELSE 0
      BY <1>17
    <3>3. k < i => (digits[k] > digits[i] <=> block[k] > block[i])
      <4>1. k < i => k \in 0 .. i
        BY <1>4 DEF Positions
      <4>2. k < i => (digits[i] < digits[k] <=> block[i] < block[k])
        BY <1>3, <1>4, <4>1
      <4> QED
        BY <4>2
    <3>4. digits'[k] = IF k < i /\ digits[k] > digits[i] THEN digits[k] - 1 ELSE digits[k]
      BY <1>9
    <3> QED
      BY <3>1, <3>2, <3>3, <3>4
  <2> QED
    BY <1>17, <2>1
<1> HIDE DEF q
<1>19. Removing'
  BY <1>2, <1>3, <1>4, <1>6, <1>13, <1>14, <1>16, <1>18 DEF Removing, VectorFollows
<1> QED
  BY <1>2, <1>12, <1>19 DEF LeafInv

LEMMA RemovedInv == LeafInv /\ Removed => LeafInv'
<1> SUFFICES ASSUME LeafInv, Removed PROVE LeafInv'
  OBVIOUS
<1>1. Removing
  BY DEF LeafInv, Removed, Accumulating, Dividing, Inserting
<1>2. /\ size \in Sizes /\ size \in Nat \ {0} /\ i \in 0 .. size - 1
      /\ digits \in [Positions -> Nat]
      /\ block \in Orders(size) /\ VectorFollows
      /\ size' = size /\ block' = block /\ stage' = "accumulate" /\ acc' = acc /\ i' = 0
      /\ digits' = digits /\ decrements' = decrements /\ Positions' = Positions
  BY <1>1, SizeType DEF LeafInv, Removed, Removing, Positions
<1>3. i = 0 /\ i + 1 = 1 /\ 0 \in Positions
  BY <1>2 DEF Removed, Positions
<1>4. \A k \in Positions : digits[k] = Digit(block, k)
  <2>1. \A k \in 1 .. size - 1 : digits[k] = Digit(block, k)
    BY <1>1, <1>3 DEF Removing
  <2>2. digits[0] = 0
    <3>1. FirstOf(digits, 1) \in Orders(1)
      BY <1>1, <1>3 DEF Removing
    <3>2. 1 - 1 = 0 /\ 0 \in 0 .. 0
      OBVIOUS
    <3>3. FirstOf(digits, 1) \in [0 .. 0 -> 0 .. 0]
      BY <3>1, <3>2 DEF Orders
    <3>4. FirstOf(digits, 1)[0] = digits[0]
      BY <3>2 DEF FirstOf
    <3> QED
      BY <3>2, <3>3, <3>4
  <2>3. Digit(block, 0) = 0
    BY DigitBound
  <2>4. \A k \in Positions : k = 0 \/ k \in 1 .. size - 1
    BY <1>2 DEF Positions
  <2> QED
    BY <2>1, <2>2, <2>3, <2>4
<1>5. acc \in Words /\ Value(acc) = 0
  BY <1>1, SmallestWords DEF Removing
<1>6. Rank(block, 0) = 0
  BY RankFacts
<1>7. VectorFollows'
  BY <1>2 DEF VectorFollows
<1>8. Value(acc') = Value(acc) /\ 0 \in 0 .. size
  BY <1>2
<1>9. Accumulating'
  BY <1>2, <1>4, <1>5, <1>6, <1>7, <1>8 DEF Accumulating, Value, Words
<1> QED
  BY <1>2, <1>9 DEF LeafInv

LEMMA AccumulateInv == LeafInv /\ Accumulate => LeafInv'
<1> SUFFICES ASSUME LeafInv, Accumulate PROVE LeafInv'
  OBVIOUS
<1>1. Accumulating
  BY DEF LeafInv, Accumulate, Removing, Dividing, Inserting
<1>2. /\ size \in Sizes /\ size \in Nat \ {0} /\ i \in 0 .. size - 1
      /\ digits \in [Positions -> Nat]
      /\ block \in Orders(size) /\ VectorFollows
      /\ size' = size /\ block' = block /\ stage' = "accumulate"
      /\ acc' = MultiplyAdd(acc, i + 1, digits[i]) /\ i' = i + 1
      /\ digits' = digits /\ decrements' = decrements /\ Positions' = Positions
  BY <1>1, SizeType DEF LeafInv, Accumulate, Accumulating, Positions
<1>3. /\ acc \in Words /\ Value(acc) = Rank(block, i)
      /\ \A k \in Positions : digits[k] = Digit(block, k)
  BY <1>1 DEF Accumulating
<1>4. i \in Nat /\ i + 1 \in Nat /\ i + 1 <= size /\ i + 1 \in 0 .. size /\ i \in Positions
  BY <1>2 DEF Positions
<1> DEFINE r == Rank(block, i + 1)
<1>5. /\ r = Value(acc) * (i + 1) + digits[i]
      /\ r \in 0 .. Factorial[i + 1] - 1
  BY <1>3, <1>4, RankFacts, RankBound
<1>6. /\ Factorial[i + 1] <= Factorial[size] /\ Factorial[size] < Word * Word
      /\ Factorial[i + 1] \in Nat /\ Factorial[size] \in Nat /\ Word * Word \in Nat
  BY <1>2, <1>4, FactorialMonotone, FactorialFacts, RoomAssumption, HalfFacts
<1> HIDE DEF r
<1>7. r < Word * Word
  BY <1>5, <1>6
<1>8. acc \in Numbers /\ digits[i] \in Nat
  BY <1>2, <1>3, <1>4, WordsAreNumbers
<1>9. acc' \in Words /\ Value(MultiplyAdd(acc, i + 1, digits[i])) = r
  <2>1. PICK u, m, a : u = acc /\ m = i + 1 /\ a = digits[i]
    OBVIOUS
  <2>2. /\ u \in Numbers /\ m \in Nat /\ a \in Nat /\ u \in Words
        /\ Value(u) * m + a = r
    BY <1>3, <1>4, <1>5, <1>8, <2>1
  <2>3. MultiplyAdd(u, m, a) \in Words /\ Value(MultiplyAdd(u, m, a)) = r
    BY <1>7, <2>2, MultiplyAddFacts
  <2> QED
    BY <1>2, <2>1, <2>3
<1>10. Value(acc)' = r
  BY <1>2, <1>9 DEF Value
<1>11. VectorFollows'
  BY <1>2 DEF VectorFollows
<1>12. Accumulating'
  BY <1>2, <1>3, <1>4, <1>9, <1>10, <1>11 DEF Accumulating, r, Words
<1> QED
  BY <1>2, <1>12 DEF LeafInv

LEMMA StoreInv == LeafInv /\ Store => LeafInv'
<1> SUFFICES ASSUME LeafInv, Store PROVE LeafInv'
  OBVIOUS
<1>1. Accumulating
  BY DEF LeafInv, Store, Removing, Dividing, Inserting
<1>2. /\ size \in Sizes /\ size \in Nat \ {0} /\ i = size
      /\ block \in Orders(size)
      /\ acc \in Words /\ Value(acc) = Rank(block, size)
      /\ size' = size /\ block' = block /\ stage' = "divide" /\ i' = size - 1
      /\ digits' = [p \in Positions |-> 0] /\ Positions' = Positions
      /\ stored' = {b \in 0 .. BitCount(size) - 1 : BitSet(acc, b)}
      /\ acc' = StoredRank(stored')
  BY <1>1, SizeType DEF LeafInv, Store, Accumulating, Positions
<1>3. /\ BitCount(size) \in Nat
      /\ Value(acc) < PowerOfTwo[BitCount(size)]
  <2>1. PICK n : n = size
    OBVIOUS
  <2>2. /\ BitCount(n) \in Nat /\ Factorial[n] <= PowerOfTwo[BitCount(n)]
    BY <1>2, <2>1, BitCountFacts
  <2>3. Rank(block, n) \in 0 .. Factorial[n] - 1 /\ Factorial[n] \in Nat
    BY <1>2, <2>1, RankBound, FactorialFacts
  <2>4. PowerOfTwo[BitCount(n)] \in Nat
    BY <2>2, PowerFacts
  <2> QED
    BY <1>2, <2>1, <2>2, <2>3, <2>4
<1>4. acc' = acc
  <2>1. PICK u, c : u = acc /\ c = BitCount(size)
    OBVIOUS
  <2>2. StoredRank({b \in 0 .. c - 1 : BitSet(u, b)}) = u
    BY <1>2, <1>3, <2>1, StoredFacts
  <2> QED
    BY <1>2, <2>1, <2>2
<1>5. acc' \in Numbers /\ Value(acc) \in Nat
  BY <1>2, <1>4, WordsAreNumbers, ValueType
<1>6. Value(StoredRank(stored'))  = Rank(block, size)
  BY <1>2, <1>4
<1>7. Written'
  BY <1>2, <1>6 DEF Written, Value, StoredRank, WordOf
<1> DEFINE U == [k \in Nat |-> Value(acc)]
<1>8. U \in [Nat -> Nat] /\ U[size] = Value(acc)
  BY <1>2, <1>5
<1>9. i' \in -1 .. size - 1 /\ i' + 1 = size /\ \A k \in i' + 1 .. size - 1 : FALSE
  BY <1>2
<1>10. Folds(U, digits', i' + 1, size)
  BY <1>8, <1>9 DEF Folds
<1>11. Value(acc)' = Value(acc) /\ Value(StoredRank(stored))' = Value(acc)
  BY <1>2, <1>4, <1>6 DEF Value, StoredRank, WordOf
<1> HIDE DEF U
<1>12. Dividing'
  BY <1>2, <1>5, <1>7, <1>8, <1>9, <1>10, <1>11 DEF Dividing, Folds, Numbers
<1>13. digits' \in [Positions -> Nat]
  BY <1>2
<1> QED
  BY <1>2, <1>12, <1>13 DEF LeafInv

LEMMA WrittenStays ==
  Written /\ UNCHANGED <<size, block, stored>> =>
    Written' /\ Value(StoredRank(stored))' = Value(StoredRank(stored))
BY DEF Written, Value, StoredRank, WordOf

LEMMA TakeDigitInv == LeafInv /\ TakeDigit => LeafInv'
<1> SUFFICES ASSUME LeafInv, TakeDigit PROVE LeafInv'
  OBVIOUS
<1>1. Dividing
  BY DEF LeafInv, TakeDigit, Removing, Accumulating, Inserting
<1> DEFINE q == Divide(acc, i + 1)
<1>2. /\ size \in Sizes /\ size \in Nat \ {0} /\ i \in 0 .. size - 1
      /\ digits \in [Positions -> Nat]
      /\ size' = size /\ block' = block /\ stored' = stored
      /\ stage' = "divide" /\ i' = i - 1
      /\ digits' = [digits EXCEPT ![i] = q.remainder]
      /\ acc' = q.quotient
      /\ Positions' = Positions
      /\ acc \in Numbers /\ Written
      /\ \A k \in i + 1 .. size - 1 : digits[k] \in 0 .. k
  BY <1>1, SizeType DEF LeafInv, TakeDigit, Dividing, Positions
<1>3. PICK U : /\ Folds(U, digits, i + 1, size)
               /\ U[i + 1] = Value(acc)
               /\ U[size] = Value(StoredRank(stored))
  BY <1>1 DEF Dividing
<1>4. /\ i \in Nat /\ i + 1 \in Nat \ {0} /\ i \in Positions /\ (i - 1) + 1 = i
      /\ i - 1 \in -1 .. size - 1
      /\ \A k \in i .. size - 1 : k \in Positions /\ k \in Nat /\ (k = i \/ k \in i + 1 .. size - 1)
      /\ \A k \in i + 1 .. size - 1 : k # i
  BY <1>2 DEF Positions
<1>5. /\ q.quotient \in Numbers /\ q.remainder \in 0 .. i
      /\ Value(acc) = Value(q.quotient) * (i + 1) + q.remainder
  <2>1. PICK u, d : u = acc /\ d = i + 1
    OBVIOUS
  <2>2. u \in Numbers /\ d \in Nat \ {0}
    BY <1>2, <1>4, <2>1
  <2>3. /\ Divide(u, d).quotient \in Numbers
        /\ Divide(u, d).remainder \in 0 .. d - 1
        /\ Value(u) = Value(Divide(u, d).quotient) * d + Divide(u, d).remainder
    BY <2>2, DivideFacts
  <2>4. d - 1 = i
    BY <1>4, <2>1
  <2> QED
    BY <2>1, <2>3, <2>4
<1>6. Value(q.quotient) \in Nat
  BY <1>5, ValueType
<1> HIDE DEF q
<1>7. digits'[i] = q.remainder /\ \A k \in i + 1 .. size - 1 : digits'[k] = digits[k]
  BY <1>2, <1>4
<1>8. digits' \in [Positions -> Nat]
  <2>1. q.remainder \in Nat
    BY <1>4, <1>5
  <2> QED
    BY <1>2, <2>1
<1> DEFINE T == [U EXCEPT ![i] = Value(q.quotient)]
<1>9. /\ T \in [Nat -> Nat] /\ T[i] = Value(q.quotient)
      /\ \A k \in Nat : k # i => T[k] = U[k]
  BY <1>3, <1>4, <1>6 DEF Folds
<1> HIDE DEF T
<1>10. \A k \in i .. size - 1 : T[k + 1] = T[k] * (k + 1) + digits'[k]
  <2> SUFFICES ASSUME NEW k \in i .. size - 1
               PROVE  T[k + 1] = T[k] * (k + 1) + digits'[k]
    OBVIOUS
  <2>1. k + 1 \in Nat /\ k + 1 # i /\ T[k + 1] = U[k + 1]
    BY <1>4, <1>9
  <2>2. CASE k = i
    BY <1>3, <1>5, <1>7, <1>9, <2>1, <2>2
  <2>3. CASE k # i
    <3>1. k \in i + 1 .. size - 1 /\ T[k] = U[k]
      BY <1>4, <1>9, <2>3
    <3>2. U[k + 1] = U[k] * (k + 1) + digits[k]
      BY <1>3, <3>1 DEF Folds
    <3> QED
      BY <1>7, <2>1, <3>1, <3>2
  <2> QED
    BY <2>2, <2>3
<1>11. Folds(T, digits', i, size)
  BY <1>9, <1>10 DEF Folds
<1>12. T[size] = U[size]
  BY <1>2, <1>9
<1>13. \A k \in i .. size - 1 : digits'[k] \in 0 .. k
  BY <1>2, <1>4, <1>5, <1>7
<1>14. Written' /\ Value(StoredRank(stored))' = Value(StoredRank(stored))
  BY <1>2, WrittenStays
<1>15. Value(acc)' = T[i]
  BY <1>2, <1>9 DEF Value
<1>16. Dividing'
  BY <1>2, <1>3, <1>4, <1>5, <1>11, <1>12, <1>13, <1>14, <1>15 DEF Dividing, Folds, Numbers
<1> QED
  BY <1>2, <1>8, <1>16 DEF LeafInv

LEMMA TakenInv == LeafInv /\ Taken => LeafInv'
<1> SUFFICES ASSUME LeafInv, Taken PROVE LeafInv'
  OBVIOUS
<1>1. Dividing
  BY DEF LeafInv, Taken, Removing, Accumulating, Inserting
<1>2. /\ size \in Sizes /\ size \in Nat \ {0} /\ i = -1
      /\ digits \in [Positions -> Nat]
      /\ size' = size /\ block' = block /\ stored' = stored
      /\ stage' = "insert" /\ i' = 0 /\ digits' = digits /\ Positions' = Positions
      /\ Written /\ i + 1 = 0
      /\ \A k \in i + 1 .. size - 1 : digits[k] \in 0 .. k
  BY <1>1, SizeType DEF LeafInv, Taken, Dividing, Positions
<1>3. PICK U : /\ Folds(U, digits, i + 1, size)
               /\ U[size] = Value(StoredRank(stored))
  BY <1>1 DEF Dividing
<1>4. FirstOf(digits, 0) \in Orders(0)
  <2>1. 0 .. 0 - 1 = {}
    OBVIOUS
  <2> QED
    BY <2>1 DEF FirstOf, Orders
<1>5. /\ Folds(U, digits, 0, size)
      /\ \A k \in 0 .. size - 1 : digits[k] \in 0 .. k
      /\ \A k \in 0 .. 0 - 1 : FALSE
      /\ 0 \in 0 .. size
  BY <1>2, <1>3
<1>6. Written' /\ Value(StoredRank(stored))' = Value(StoredRank(stored))
  BY <1>2, WrittenStays
<1>7. /\ \A k \in Positions : digits[k] \in 0 .. k
      /\ \A k \in 0 .. size - 1 : digits[k] = digits[k]
      /\ \A k \in 0 .. 0 - 1 : Digit(FirstOf(digits, 0), k) = digits[k]
  BY <1>5 DEF Positions
<1>8. Inserting'
  BY <1>2, <1>3, <1>4, <1>5, <1>6, <1>7 DEF Inserting
<1> QED
  BY <1>2, <1>8 DEF LeafInv

LEMMA InsertInv == LeafInv /\ Insert => LeafInv'
<1> SUFFICES ASSUME LeafInv, Insert PROVE LeafInv'
  OBVIOUS
<1>1. Inserting
  BY DEF LeafInv, Insert, Removing, Accumulating, Dividing
<1>2. /\ size \in Sizes /\ size \in Nat \ {0} /\ i \in 0 .. size - 1
      /\ digits \in [Positions -> Nat]
      /\ size' = size /\ block' = block /\ stored' = stored
      /\ stage' = "insert" /\ i' = i + 1 /\ Positions' = Positions
      /\ Written /\ FirstOf(digits, i) \in Orders(i)
      /\ digits' = [p \in Positions |->
           IF p < i /\ digits[p] >= digits[i] THEN digits[p] + 1 ELSE digits[p]]
  BY <1>1, SizeType DEF LeafInv, Insert, Inserting, Positions
<1>3. PICK U, D : /\ Folds(U, D, 0, size)
                  /\ U[size] = Value(StoredRank(stored))
                  /\ \A k \in Positions : D[k] \in 0 .. k
                  /\ \A k \in i .. size - 1 : digits[k] = D[k]
                  /\ \A k \in 0 .. i - 1 : Digit(FirstOf(digits, i), k) = D[k]
  BY <1>1 DEF Inserting
<1>4. /\ i \in Nat /\ i + 1 \in 0 .. size /\ i \in i .. size - 1 /\ i \in Positions
      /\ (i + 1) - 1 = i
      /\ \A k \in 0 .. i : k \in Positions /\ (k = i \/ k \in 0 .. i - 1)
      /\ \A k \in 0 .. i - 1 : k < i /\ k # i
      /\ \A k \in i + 1 .. size - 1 : k \in Positions /\ ~(k < i) /\ k \in i .. size - 1
  BY <1>2 DEF Positions
<1> DEFINE p == FirstOf(digits, i)  d == digits[i]  q == Inserted(p, i, d)
<1>5. d = D[i] /\ d \in 0 .. i
  BY <1>3, <1>4
<1>6. /\ q \in Orders(i + 1) /\ Digit(q, i) = d
      /\ \A k \in 0 .. i - 1 : Digit(q, k) = Digit(p, k)
  <2> HIDE DEF p, d
  <2> QED
    BY <1>2, <1>4, <1>5, InsertedFacts DEF p
<1>7. FirstOf(digits', i + 1) = q
  <2>1. \A k \in 0 .. i : digits'[k] = IF k = i THEN d ELSE IF p[k] < d THEN p[k] ELSE p[k] + 1
    <3> SUFFICES ASSUME NEW k \in 0 .. i
                 PROVE  digits'[k] = IF k = i THEN d ELSE IF p[k] < d THEN p[k] ELSE p[k] + 1
      OBVIOUS
    <3>1. digits'[k] = IF k < i /\ digits[k] >= d THEN digits[k] + 1 ELSE digits[k]
      BY <1>2, <1>4
    <3>2. CASE k = i
      BY <1>4, <3>1, <3>2
    <3>3. CASE k # i
      <4>1. k \in 0 .. i - 1 /\ k < i
        BY <1>4, <3>3
      <4>2. p[k] = digits[k] /\ digits[k] \in Nat /\ d \in Nat
        BY <1>2, <1>4, <4>1 DEF FirstOf
      <4> HIDE DEF p, d
      <4> QED
        BY <3>1, <3>3, <4>1, <4>2
    <3> QED
      BY <3>2, <3>3
  <2> QED
    BY <1>4, <2>1 DEF FirstOf, Inserted
<1>8. digits' \in [Positions -> Nat]
  <2>1. \A k \in Positions :
          (IF k < i /\ digits[k] >= digits[i] THEN digits[k] + 1 ELSE digits[k]) \in Nat
    BY <1>2
  <2> QED
    BY <1>2, <2>1
<1>9. \A k \in i + 1 .. size - 1 : digits'[k] = D[k]
  BY <1>2, <1>3, <1>4
<1> HIDE DEF q, p, d
<1>10. \A k \in 0 .. (i + 1) - 1 : Digit(q, k) = D[k]
  BY <1>3, <1>4, <1>5, <1>6 DEF p
<1>11. Written' /\ Value(StoredRank(stored))' = Value(StoredRank(stored))
  BY <1>2, WrittenStays
<1>12. \E V, E : /\ Folds(V, E, 0, size')
                 /\ V[size'] = Value(StoredRank(stored))'
                 /\ \A k \in Positions' : E[k] \in 0 .. k
                 /\ \A k \in i' .. size' - 1 : digits'[k] = E[k]
                 /\ \A k \in 0 .. i' - 1 : Digit(FirstOf(digits', i'), k) = E[k]
  BY <1>2, <1>3, <1>7, <1>9, <1>10, <1>11
<1>13. /\ stage' = "insert" /\ i' \in 0 .. size' /\ Written'
       /\ FirstOf(digits', i') \in Orders(i')
  BY <1>2, <1>4, <1>6, <1>7, <1>11
<1>14. Inserting'
  BY <1>12, <1>13 DEF Inserting, Folds, FirstOf
<1> QED
  BY <1>2, <1>8, <1>14 DEF LeafInv
-----------------------------------------------------------------------------
(* What the runs check of Factoradic, for every leaf, every file and every    *)
(* width of the words that has room for the ranks.                           *)

\* Encoding takes a permutation apart into its digits, and decoding puts
\* together whatever digits the bits of a file have.
THEOREM LeavesFollowTheCode == LeafSpec => []LeafInv
<1>1. LeafInit => LeafInv
  BY LeafInitInv
<1>2. LeafInv /\ UNCHANGED leafVars => LeafInv'
  <2> SUFFICES ASSUME LeafInv, UNCHANGED leafVars PROVE LeafInv'
    OBVIOUS
  <2>1. /\ size' = size /\ block' = block /\ stage' = stage /\ i' = i
        /\ digits' = digits /\ decrements' = decrements /\ acc' = acc
        /\ stored' = stored /\ Positions' = Positions
    BY DEF leafVars, Positions
  <2>2. VectorFollows => VectorFollows'
    BY <2>1 DEF VectorFollows
  <2>3. Written => Written'
    BY <2>1 DEF Written
  <2>4. Removing => Removing'
    BY <2>1, <2>2 DEF Removing
  <2>5. Accumulating => Accumulating'
    BY <2>1, <2>2 DEF Accumulating
  <2>6. Dividing => Dividing'
    BY <2>1, <2>3 DEF Dividing
  <2>7. Inserting => Inserting'
    BY <2>1, <2>3 DEF Inserting
  <2> QED
    BY <2>1, <2>4, <2>5, <2>6, <2>7 DEF LeafInv
<1>3. LeafInv /\ [LeafNext]_leafVars => LeafInv'
  BY <1>2, RemoveInv, RemovedInv, AccumulateInv, StoreInv, TakeDigitInv, TakenInv,
     InsertInv DEF LeafNext
<1> QED
  BY <1>1, <1>3, PTL DEF LeafSpec

\* VectorAgrees: the AVX-512 encoder, which counts for every lane how often its
\* value has moved, has the scalar encoder's digits after every turn.
THEOREM VectorAlwaysAgrees == LeafSpec => []VectorAgrees
<1>1. LeafInv => VectorAgrees
  BY DEF LeafInv, Removing, Accumulating, Dividing, Inserting, VectorFollows, VectorAgrees
<1> QED
  BY <1>1, LeavesFollowTheCode, PTL

\* RankIsPosition: encode_factoradic numbers the permutations of a leaf without
\* a gap in the order of their digits, and factoradic_bit_count has room for
\* every number and not twice the room.
THEOREM RankAlwaysIsPosition == LeafSpec => []RankIsPosition
<1>1. LeafInv => RankIsPosition
  <2> SUFFICES ASSUME LeafInv, stage = "accumulate", i = size
               PROVE  /\ Value(acc) = Cardinality({p \in Orders(size) : Before(p, block)})
                      /\ Value(acc) < PowerOfTwo[BitCount(size)]
                      /\ PowerOfTwo[BitCount(size)] < 2 * Factorial[size]
    BY DEF RankIsPosition
  <2>1. /\ size \in Sizes /\ size \in Nat /\ block \in Orders(size)
        /\ Value(acc) = Rank(block, size)
    BY SizeType DEF LeafInv, Removing, Accumulating, Dividing, Inserting
  <2>2. \A p : Before(p, block) <=> Precedes(p, block, size)
    BY DEF Before, Precedes, Positions
  <2>3. PICK n, q : n = size /\ q = block
    OBVIOUS
  <2>4. n \in Sizes /\ n \in Nat /\ q \in Orders(n)
    BY <2>1, <2>3
  <2>5. Cardinality({p \in Orders(n) : Precedes(p, q, n)}) = Rank(q, n)
    BY <2>4, RankCounts
  <2>6. {p \in Orders(size) : Before(p, block)} = {p \in Orders(n) : Precedes(p, q, n)}
    BY <2>2, <2>3
  <2>7. /\ BitCount(n) \in Nat
        /\ Factorial[n] <= PowerOfTwo[BitCount(n)]
        /\ PowerOfTwo[BitCount(n)] < 2 * Factorial[n]
    BY <2>4, BitCountFacts
  <2>8. Rank(q, n) \in 0 .. Factorial[n] - 1 /\ Factorial[n] \in Nat
        /\ PowerOfTwo[BitCount(n)] \in Nat
    BY <2>4, <2>7, RankBound, FactorialFacts, PowerFacts
  <2>9. Rank(q, n) < PowerOfTwo[BitCount(n)]
    BY <2>7, <2>8
  <2> QED
    BY <2>1, <2>3, <2>5, <2>6, <2>7, <2>9
<1> QED
  BY <1>1, LeavesFollowTheCode, PTL

\* A number is its multiple of n! and the rank that its digits have.
LEMMA FoldedRank ==
  ASSUME NEW n \in Nat, NEW U, NEW D, Folds(U, D, 0, n),
         NEW p, \A k \in 0 .. n - 1 : Digit(p, k) = D[k]
  PROVE  U[n] % Factorial[n] = Rank(p, n)
<1>1. U \in [Nat -> Nat] /\ \A k \in 0 .. n - 1 : U[k + 1] = U[k] * (k + 1) + D[k]
  BY DEF Folds
<1> DEFINE S == {k \in Nat : k <= n => U[k] = U[0] * Factorial[k] + Rank(p, k)}
<1>2. 0 \in S
  <2>1. U[0] \in Nat /\ Factorial[0] = 1 /\ Rank(p, 0) = 0
    BY <1>1, FactorialFacts, RankFacts
  <2> QED
    BY <2>1
<1>3. ASSUME NEW k \in Nat, k \in S PROVE k + 1 \in S
  <2> SUFFICES ASSUME k + 1 <= n
               PROVE  U[k + 1] = U[0] * Factorial[k + 1] + Rank(p, k + 1)
    BY <1>3
  <2> DEFINE a == U[0]  f == Factorial[k]  r == Rank(p, k)  u == U[k]  d == D[k]
  <2>1. k \in 0 .. n - 1 /\ k <= n
    OBVIOUS
  <2>2. a \in Nat /\ f \in Nat /\ r \in Nat /\ u \in Nat /\ u = a * f + r
    BY <1>1, <1>3, <2>1, FactorialFacts, RankFacts
  <2>3. /\ U[k + 1] = u * (k + 1) + d
        /\ Factorial[k + 1] = (k + 1) * f
        /\ Rank(p, k + 1) = r * (k + 1) + d
    <3>1. U[k + 1] = u * (k + 1) + d
      BY <1>1, <2>1
    <3>2. Digit(p, k) = d
      BY <2>1
    <3>3. Rank(p, k + 1) = r * (k + 1) + Digit(p, k)
      BY RankFacts
    <3> QED
      BY <3>1, <3>2, <3>3, FactorialFacts
  <2>4. d \in Nat
    BY <2>1, DigitType
  <2> HIDE DEF f, r, u, d
  <2>5. PICK b : b = a
    OBVIOUS
  <2>6. u * (k + 1) = b * ((k + 1) * f) + r * (k + 1)
    <3>1. \A x, y, z, m \in Nat : (x * y + z) * m = x * (m * y) + z * m
      OBVIOUS
    <3>2. b \in Nat /\ k + 1 \in Nat /\ f \in Nat /\ r \in Nat /\ u = b * f + r
      BY <2>2, <2>5
    <3>3. PICK m : m = k + 1
      OBVIOUS
    <3>4. (b * f + r) * m = b * (m * f) + r * m
      BY <3>1, <3>2, <3>3
    <3> QED
      BY <3>2, <3>3, <3>4
  <2>7. b * ((k + 1) * f) \in Nat /\ r * (k + 1) \in Nat /\ u * (k + 1) \in Nat
    BY <2>2, <2>5
  <2>8. u * (k + 1) + d = b * ((k + 1) * f) + (r * (k + 1) + d)
    BY <2>4, <2>6, <2>7
  <2> QED
    BY <2>3, <2>5, <2>8
<1>4. Nat \subseteq S
  <2> HIDE DEF S
  <2> QED
    BY <1>2, <1>3, Induction
<1>5. U[n] = U[0] * Factorial[n] + Rank(p, n)
  BY <1>4
<1> DEFINE a == U[0]  f == Factorial[n]  r == Rank(p, n)  u == U[n]
<1>6. a \in Nat /\ f \in Nat \ {0} /\ r \in 0 .. f - 1 /\ u \in Nat /\ u = a * f + r
  BY <1>1, <1>5, FactorialFacts, RankBound
<1> HIDE DEF a, f, r, u
<1>7. u % f = r
  BY <1>6, OneQuotient
<1> QED
  BY <1>7 DEF f, r, u

LEMMA EndFacts ==
  ASSUME LeafInv, Ended
  PROVE  /\ size \in Nat
         /\ digits \in Orders(size)
         /\ Rank(digits, size) = Value(StoredRank(stored)) % Factorial[size]
         /\ Written
<1>1. Inserting /\ i = size /\ size \in Nat \ {0} /\ digits \in [Positions -> Nat]
  BY SizeType DEF Ended, LeafInv, Removing, Accumulating, Dividing
<1>2. PICK U, D : /\ Folds(U, D, 0, size)
                  /\ U[size] = Value(StoredRank(stored))
                  /\ \A k \in 0 .. size - 1 : Digit(FirstOf(digits, size), k) = D[k]
  BY <1>1 DEF Inserting
<1>3. FirstOf(digits, size) = digits /\ FirstOf(digits, size) \in Orders(size) /\ Written
  BY <1>1 DEF Inserting, FirstOf, Positions
<1>4. PICK n, p : n = size /\ p = digits
  OBVIOUS
<1>5. n \in Nat /\ Folds(U, D, 0, n) /\ \A k \in 0 .. n - 1 : Digit(p, k) = D[k]
  BY <1>1, <1>2, <1>3, <1>4
<1>6. U[n] % Factorial[n] = Rank(p, n)
  BY <1>5, FoldedRank
<1> QED
  BY <1>1, <1>2, <1>3, <1>4, <1>6

\* EveryRankDecodes: decode_factoradic makes of any bits the permutation that
\* has them as its rank, or has the remainder.
THEOREM EveryRankAlwaysDecodes == LeafSpec => []EveryRankDecodes
<1>1. LeafInv => EveryRankDecodes
  BY EndFacts DEF EveryRankDecodes
<1> QED
  BY <1>1, LeavesFollowTheCode, PTL

\* BlockComesBack: a leaf that was encoded and stored decodes to itself.
THEOREM BlocksAlwaysComeBack == LeafSpec => []BlockComesBack
<1>1. LeafInv => BlockComesBack
  <2> SUFFICES ASSUME LeafInv, Ended, block # <<>> PROVE digits = block
    BY DEF BlockComesBack
  <2>1. PICK n, p, q : n = size /\ p = digits /\ q = block
    OBVIOUS
  <2>2. /\ n \in Nat /\ p \in Orders(n) /\ q \in Orders(n)
        /\ Rank(p, n) = Rank(q, n) % Factorial[n]
    BY <2>1, EndFacts DEF Written
  <2>3. Rank(q, n) % Factorial[n] = Rank(q, n)
    <3> DEFINE r == Rank(q, n)  f == Factorial[n]
    <3>1. r \in 0 .. f - 1 /\ f \in Nat \ {0}
      BY <2>2, RankBound, FactorialFacts
    <3> HIDE DEF r, f
    <3>2. r \in Nat /\ 0 \in Nat /\ r = 0 * f + r
      BY <3>1
    <3>3. r % f = r
      BY <3>1, <3>2, OneQuotient
    <3> QED
      BY <3>3 DEF r, f
  <2>4. p = q
    BY <2>2, <2>3, RankOrder
  <2> QED
    BY <2>1, <2>4
<1> QED
  BY <1>1, LeavesFollowTheCode, PTL

-----------------------------------------------------------------------------
(* What a lookup reads in a file that an encoder has written.                *)

\* A rank is read as it was written.
HoldsRank(form, bytes, n, a, b, m, r) ==
  /\ RankStart(form, a, b, m) \in Nat
  /\ r \in 0 .. PowerOfTwo[FactoradicBitCount(n)] - 1
  /\ \A d \in 0 .. FactoradicBitCount(n) - 1 :
       RankStart(form, a, b, m) + d \in bytes[RankSection(form)]
         <=> (r \div PowerOfTwo[d]) % 2 = 1

LEMMA RankIsRead ==
  ASSUME NEW form, NEW bytes, NEW n \in Nat, NEW a, NEW b, NEW m, NEW r,
         HoldsRank(form, bytes, n, a, b, m, r)
  PROVE  RankOf(form, bytes, n, a, b, m) = r
<1> DEFINE w == FactoradicBitCount(n)
           start == RankStart(form, a, b, m)
           bits == bytes[RankSection(form)]
<1>1. w \in Nat /\ start \in Nat
  BY BitCountType DEF HoldsRank
<1>2. PICK U : ReadsUp(U, w, start + w, bits) /\ RankOf(form, bytes, n, a, b, m) = U[w]
  <2>1. HasReading(form, bytes, n, a, b, m)
    BY RankReads
  <2> QED
    BY <2>1 DEF HasReading
<1>3. PowerOfTwo[w] \in Nat \ {0} /\ r \in 0 .. PowerOfTwo[w] - 1
  BY <1>1, PowerFacts DEF HoldsRank
<1>4. \A d \in 0 .. w - 1 : start + d \in bits <=> (r \div PowerOfTwo[d]) % 2 = 1
  BY DEF HoldsRank
<1> HIDE DEF w, start, bits
<1> DEFINE S == {k \in Nat : k <= w => U[k] = r \div PowerOfTwo[w - k]}
<1>5. 0 \in S
  <2>1. r \in Nat /\ r = 0 * PowerOfTwo[w] + r /\ w - 0 = w
    BY <1>1, <1>3
  <2>2. r \div PowerOfTwo[w] = 0
    BY <2>1, <1>3, OneQuotient
  <2> QED
    BY <2>1, <2>2, <1>2 DEF ReadsUp
<1>6. ASSUME NEW k \in Nat, k \in S
      PROVE  k + 1 \in S
  <2> SUFFICES ASSUME k + 1 <= w PROVE U[k + 1] = r \div PowerOfTwo[w - (k + 1)]
    OBVIOUS
  <2> DEFINE d == w - (k + 1)
             s == r \div PowerOfTwo[d]
  <2>1. /\ d \in Nat /\ d \in 0 .. w - 1 /\ d + 1 = w - k /\ k \in 0 .. w - 1
        /\ (start + w) - (k + 1) = start + d
    BY <1>1
  <2>2. U[k + 1] = 2 * U[k] + (IF start + d \in bits THEN 1 ELSE 0)
    BY <1>2, <2>1 DEF ReadsUp
  <2>3. U[k] = r \div PowerOfTwo[d + 1]
    BY <1>1, <1>6, <2>1
  <2>4. r \in Nat /\ PowerOfTwo[d] \in Nat \ {0}
    BY <1>3, <2>1, PowerFacts
  <2>5. r \div PowerOfTwo[d + 1] = s \div 2
    BY <2>1, <2>4, NextPower
  <2>6. s \in Nat
    BY <2>4, DivisionFacts
  <2>7. start + d \in bits <=> s % 2 = 1
    BY <1>4, <2>1
  <2> HIDE DEF d, s
  <2>8. s = 2 * (s \div 2) + (s % 2) /\ s % 2 \in {0, 1}
    BY <2>6
  <2>9. U[k + 1] = s
    BY <2>2, <2>3, <2>5, <2>7, <2>8, <2>6
  <2> QED
    BY <2>9 DEF d, s
<1> HIDE DEF S
<1>7. w \in S
  BY <1>1, <1>5, <1>6, Induction
<1>8. U[w] = r \div PowerOfTwo[w - w] /\ w - w = 0
  BY <1>1, <1>7 DEF S
<1>9. r \div 1 = r
  BY <1>3
<1> QED
  BY <1>2, <1>8, <1>9, PowerFacts

\* There are as many bits as a leaf's ranks need.
LEMMA RankFits ==
  ASSUME NEW n \in Nat, n <= LeafSize
  PROVE  Factorial[n] <= PowerOfTwo[FactoradicBitCount(n)]
<1> DEFINE g == MiddleGroupLog2
           f == Factorial[n]
<1>1. g \in Nat /\ LeafSize = PowerOfTwo[g] /\ LeafSize \in Nat
  <2>1. /\ PowerOfTwo[1] = 2 /\ PowerOfTwo[2] = 4 /\ PowerOfTwo[3] = 8
        /\ PowerOfTwo[4] = 16 /\ PowerOfTwo[5] = 32
    <3>1. /\ PowerOfTwo[0 + 1] = 2 * PowerOfTwo[0] /\ PowerOfTwo[1 + 1] = 2 * PowerOfTwo[1]
          /\ PowerOfTwo[2 + 1] = 2 * PowerOfTwo[2] /\ PowerOfTwo[3 + 1] = 2 * PowerOfTwo[3]
          /\ PowerOfTwo[4 + 1] = 2 * PowerOfTwo[4] /\ PowerOfTwo[0] = 1
      BY PowerFacts
    <3>2. 0 + 1 = 1 /\ 1 + 1 = 2 /\ 2 + 1 = 3 /\ 3 + 1 = 4 /\ 4 + 1 = 5
      OBVIOUS
    <3> QED
      BY <3>1, <3>2
  <2>2. g = 1 \/ g = 2 \/ g = 3 \/ g = 4 \/ g = 5
    BY MiddleGroupAssumption
  <2> QED
    BY <2>1, <2>2 DEF LeafSize
<1> HIDE DEF g
<1>2. f \in Nat \ {0}
  BY FactorialFacts
<1>3. f <= PowerOfTwo[g * n]
  <2> DEFINE S == {k \in Nat : k <= n => Factorial[k] <= PowerOfTwo[g * k]}
  <2>1. 0 \in S
    <3>1. g * 0 = 0
      BY <1>1
    <3> QED
      BY <3>1, FactorialFacts, PowerFacts
  <2>2. ASSUME NEW k \in Nat, k \in S
        PROVE  k + 1 \in S
    <3> SUFFICES ASSUME k + 1 <= n PROVE Factorial[k + 1] <= PowerOfTwo[g * (k + 1)]
      OBVIOUS
    <3> DEFINE x == Factorial[k]  y == PowerOfTwo[g * k]  z == PowerOfTwo[g]
    <3>1. g * k \in Nat /\ g * (k + 1) = g + g * k
      BY <1>1
    <3>2. x \in Nat /\ y \in Nat /\ z \in Nat /\ Factorial[k + 1] = (k + 1) * x
      BY <1>1, <3>1, FactorialFacts, PowerFacts
    <3>3. PowerOfTwo[g * (k + 1)] = z * y
      BY <1>1, <3>1, PowerSum
    <3>4. x <= y /\ k + 1 <= z
      BY <1>1, <2>2
    <3> HIDE DEF x, y, z
    <3>5. (k + 1) * x <= z * x /\ x * z <= y * z
      BY <3>2, <3>4, Monotone
    <3>6. z * x = x * z /\ y * z = z * y /\ (k + 1) * x \in Nat /\ x * z \in Nat /\ y * z \in Nat
      BY <3>2
    <3> QED
      BY <3>2, <3>3, <3>5, <3>6
  <2> HIDE DEF S
  <2>3. n \in S
    BY <2>1, <2>2, Induction
  <2> QED
    BY <2>3 DEF S
<1> HIDE DEF f
<1> DEFINE Big(b) == ~(PowerOfTwo[b] < f)
<1>4. \E b \in Nat : Big(b) /\ \A c \in 0 .. b - 1 : ~Big(c)
  <2> SUFFICES ASSUME \A b \in Nat : Big(b) => \E c \in 0 .. b - 1 : Big(c)
               PROVE  FALSE
    OBVIOUS
  <2> DEFINE S == {b \in Nat : ~Big(b)}
  <2>1. \A b \in Nat : (\A c \in 0 .. b - 1 : c \in S) => b \in S
    OBVIOUS
  <2> HIDE DEF S
  <2>2. Nat \subseteq S
    BY <2>1, FromAllBefore
  <2>3. g * n \in Nat
    BY <1>1
  <2> QED
    BY <1>1, <1>2, <1>3, <2>2, <2>3, PowerFacts DEF S
<1>5. PICK b \in Nat : Big(b) /\ \A c \in 0 .. b - 1 : ~Big(c)
  BY <1>4
<1>6. PowerOfTwo[b] \in Nat /\ f <= PowerOfTwo[b]
  BY <1>2, <1>5, PowerFacts
<1>7. {c \in 0 .. g * n : PowerOfTwo[c] < f} = 0 .. b - 1
  <2>1. ASSUME NEW c \in 0 .. g * n, PowerOfTwo[c] < f
        PROVE  c \in 0 .. b - 1
    <3> SUFFICES ASSUME b <= c PROVE FALSE
      BY <1>1
    <3>1. c \in Nat /\ PowerOfTwo[c] \in Nat
      BY <1>1, PowerFacts
    <3>2. PowerOfTwo[b] <= PowerOfTwo[c]
      BY <3>1, PowerMonotone
    <3> QED
      BY <1>2, <1>6, <2>1, <3>1, <3>2
  <2>2. ASSUME NEW c \in 0 .. b - 1
        PROVE  c \in 0 .. g * n /\ PowerOfTwo[c] < f
    <3>1. PowerOfTwo[c] < f /\ c \in Nat
      BY <1>5
    <3>2. ~(g * n < c)
      <4> SUFFICES ASSUME g * n < c PROVE FALSE
        OBVIOUS
      <4>1. g * n \in Nat /\ g * n <= c
        BY <1>1, <3>1
      <4>2. PowerOfTwo[g * n] <= PowerOfTwo[c] /\ PowerOfTwo[g * n] \in Nat /\ PowerOfTwo[c] \in Nat
        BY <3>1, <4>1, PowerMonotone, PowerFacts
      <4> QED
        BY <1>2, <1>3, <3>1, <4>2
    <3> QED
      BY <1>1, <3>1, <3>2
  <2> QED
    BY <2>1, <2>2
<1>8. FactoradicBitCount(n) = Cardinality(0 .. b - 1)
  BY <1>7 DEF FactoradicBitCount, f, g
<1>9. Cardinality(0 .. b - 1) = b
  <2>1. 0 \in Int /\ b - 1 \in Int /\ ((b - 1) - 0) + 1 = b /\ ~(0 > b - 1 /\ b > 0)
    OBVIOUS
  <2> QED
    BY <2>1, FS_Interval
<1> QED
  BY <1>6, <1>8, <1>9 DEF f

LEMMA SwitchesApart ==
  ASSUME NEW a, IsPlace(a), a.node > LeafSize,
         NEW j \in 0 .. a.node \div 2 - 1, NEW k \in 0 .. a.node \div 2 - 1,
         SwitchBit(a, j) = SwitchBit(a, k)
  PROVE  j = k
<1> DEFINE d == PairSpan(a)
           S(p) == CellStart(a, p, a.level, a.path)
           x == j \div d  r == j % d  y == k \div d  t == k % d
<1>1. /\ IsCluster(a) /\ d \in Nat \ {0} /\ a.base \in Nat /\ j \in Nat /\ k \in Nat
      /\ a.level \in 0 .. a.groupDepth - 1 /\ a.path \in 0 .. PowerOfTwo[a.level] - 1
  BY PlaceFacts DEF IsPlace
<1>2. /\ x \in Nat /\ S(x) + r \in Nat /\ SwitchBit(a, j) = a.base + (S(x) + r)
      /\ InCell(a, x, a.level, a.path, S(x) + r)
  BY SwitchBitIs
<1>3. /\ y \in Nat /\ S(y) + t \in Nat /\ SwitchBit(a, k) = a.base + (S(y) + t)
      /\ InCell(a, y, a.level, a.path, S(y) + t)
  BY SwitchBitIs
<1>4. r \in 0 .. d - 1 /\ t \in 0 .. d - 1 /\ j = x * d + r /\ k = y * d + t
  BY <1>1, DivisionFacts
<1> DEFINE u == S(x) + r  v == S(y) + t
<1>5. u = v
  <2>1. u \in Nat /\ v \in Nat /\ a.base + u = a.base + v
    BY <1>2, <1>3
  <2> HIDE DEF u, v
  <2> QED
    BY <2>1, <1>1
<1> HIDE DEF d, S
<1>6. x = y
  <2> HIDE DEF x, y, u, v
  <2>1. u \in Nat /\ InCell(a, x, a.level, a.path, u) /\ InCell(a, y, a.level, a.path, u)
    BY <1>2, <1>3, <1>5 DEF u, v
  <2> QED
    BY <2>1, <1>1, <1>2, <1>3, OneCell
<1>7. r = t
  <2>1. S(x) \in Int
    <3> DEFINE F == FullPacketBits(a)  T == LevelsBits(a, x, a.level)
               Q == PathPrefixBits(a, x, a.level, a.path)
    <3>1. /\ a.groupDepth \in 0 .. a.groupDepth /\ a.level \in 0 .. a.groupDepth
          /\ a.path \in Nat /\ 0 \in Nat
      BY <1>1, PlaceFacts DEF IsCluster
    <3>2. F \in Nat /\ T \in Nat
      BY <1>1, <1>2, <3>1, LevelsFacts DEF FullPacketBits
    <3>3. Q \in Nat
      BY <1>1, <1>2, <3>1, PrefixFacts
    <3>4. S(x) = x * F + T + Q
      BY DEF S, CellStart
    <3> HIDE DEF F, T, Q, x
    <3> QED
      BY <1>2, <3>2, <3>3, <3>4
  <2> QED
    BY <1>4, <1>5, <1>6, <2>1 DEF u, v
<1> HIDE DEF x, y, r, t
<1> QED
  BY <1>4, <1>6, <1>7

\* The switches that a node of an encoding finds in the file.
LEMMA NodeReads ==
  ASSUME NEW form, IsFormat(form), NEW p \in Orders(form.count),
         NEW k \in DOMAIN Calls(p, form), Calls(p, form)[k].count > LeafSize,
         NEW j \in 0 .. Calls(p, form)[k].count \div 2 - 1
  PROVE  LET call == Calls(p, form)[k]
             inv  == Node(call.count)!InverseOf(call.order)
         IN  /\ SwitchBit(call.in, j) \in Encoded(p, form).input <=> call.colors[2 * j] = 1
             /\ SwitchBit(call.out, j) \in Encoded(p, form).output
                  <=> call.colors[inv[2 * j]] = 1
<1> DEFINE calls == Calls(p, form)
           call == calls[k]
           pairs == 0 .. call.count \div 2 - 1
           inv == Node(call.count)!InverseOf(call.order)
           bits == CallBits(call, form)
<1>1. IsTree(calls, form) /\ ~Waits(calls, k)
  BY CallsFacts
<1>2. /\ GoodCall(call, form) /\ call.count > LeafSize
      /\ 2 * k \in DOMAIN calls
  BY <1>1, TreeFacts
<1>3. /\ IsPlace(call.in) /\ call.in.node = call.count
      /\ IsPlace(call.out) /\ call.out.node = call.count
  BY <1>2, LeafSizes DEF GoodCall, Fits, IsAddress, IsLeafRoot
<1>4. /\ "input" \in Sides /\ "output" \in Sides
      /\ Part(calls, k, "input") = Mine(call, "input")
      /\ Part(calls, k, "output") = Mine(call, "output")
  BY <1>2 DEF Part, Sides
<1>5. /\ bits.input = {SwitchBit(call.in, z) : z \in {w \in pairs : call.colors[2 * w] = 1}}
      /\ bits.output = {SwitchBit(call.out, z) :
                          z \in {w \in pairs : call.colors[inv[2 * w]] = 1}}
      /\ Mine(call, "input") = {SwitchBit(call.in, z) : z \in pairs}
      /\ Mine(call, "output") = {SwitchBit(call.out, z) : z \in pairs}
  BY <1>2, NodeCall
<1>6. /\ SwitchBit(call.in, j) \in Part(calls, k, "input")
      /\ SwitchBit(call.out, j) \in Part(calls, k, "output")
  BY <1>4, <1>5
<1>7. /\ SwitchBit(call.in, j) \in Encoded(p, form).input
           <=> SwitchBit(call.in, j) \in bits.input
      /\ SwitchBit(call.out, j) \in Encoded(p, form).output
           <=> SwitchBit(call.out, j) \in bits.output
  BY <1>4, <1>6, EncodedBits
<1>8. \A z \in pairs : /\ SwitchBit(call.in, z) = SwitchBit(call.in, j) => z = j
                       /\ SwitchBit(call.out, z) = SwitchBit(call.out, j) => z = j
  BY <1>2, <1>3, SwitchesApart
<1>9. j \in pairs
  OBVIOUS
<1> HIDE DEF calls, bits, pairs, inv
<1>10. SwitchBit(call.in, j) \in bits.input <=> call.colors[2 * j] = 1
  BY <1>5, <1>8, <1>9
<1>11. SwitchBit(call.out, j) \in bits.output <=> call.colors[inv[2 * j]] = 1
  BY <1>5, <1>8, <1>9
<1> QED
  BY <1>7, <1>10, <1>11 DEF calls, inv

\* A leaf of an encoding is read as it was written.
LEMMA LeafReads ==
  ASSUME NEW form, IsFormat(form), NEW p \in Orders(form.count),
         NEW k \in DOMAIN Calls(p, form), Calls(p, form)[k].count <= LeafSize
  PROVE  LET call == Calls(p, form)[k]
         IN  Order(RankOf(form, Encoded(p, form), call.count, call.in, call.out, call.middle),
                   call.count) = call.order
<1> DEFINE calls == Calls(p, form)
           call == calls[k]
           n == call.count
           bytes == Encoded(p, form)
           start == RankStart(form, call.in, call.out, call.middle)
           width == FactoradicBitCount(n)
           rank == Rank(call.order, n)
           sec == RankSection(form)
           bits == CallBits(call, form)
<1>1. IsTree(calls, form) /\ ~Waits(calls, k)
  BY CallsFacts
<1>2. /\ GoodCall(call, form) /\ n \in Nat \ {0} /\ n <= LeafSize
      /\ 2 * k \notin DOMAIN calls /\ call.order \in Orders(n)
  BY <1>1, TreeFacts DEF GoodCall
<1>3. /\ start \in Nat /\ width \in Nat /\ sec \in Sides
      /\ Space(call, sec) = {start + b : b \in 0 .. width - 1}
      /\ bits[sec] = {start + b : b \in {d \in 0 .. width - 1 :
                                         (rank \div PowerOfTwo[d]) % 2 = 1}}
  BY <1>2, LeafCall
<1>4. Part(calls, k, sec) = Space(call, sec)
  BY <1>2 DEF Part
<1>5. \A y \in Space(call, sec) : y \in bytes[sec] <=> y \in bits[sec]
  BY <1>3, <1>4, EncodedBits
<1>6. rank \in 0 .. Factorial[n] - 1 /\ Factorial[n] <= PowerOfTwo[width]
  BY <1>2, RankBound, RankFits
<1>7. Factorial[n] \in Nat \ {0} /\ PowerOfTwo[width] \in Nat
  BY <1>2, <1>3, FactorialFacts, PowerFacts
<1>8. rank \in 0 .. PowerOfTwo[width] - 1
  BY <1>6, <1>7
<1>9. ASSUME NEW d \in 0 .. width - 1
      PROVE  start + d \in bytes[sec] <=> (rank \div PowerOfTwo[d]) % 2 = 1
  <2>1. start + d \in Space(call, sec)
    BY <1>3
  <2>2. start + d \in bytes[sec] <=> start + d \in bits[sec]
    BY <1>5, <2>1
  <2> HIDE DEF start, width, rank, bits, bytes, sec
  <2>3. \A b \in 0 .. width - 1 : start + b = start + d => b = d
    BY <1>3
  <2>4. start + d \in bits[sec] <=> (rank \div PowerOfTwo[d]) % 2 = 1
    BY <1>3, <2>3
  <2> QED
    BY <2>2, <2>4
<1>10. RankOf(form, bytes, n, call.in, call.out, call.middle) = rank
  <2>1. HoldsRank(form, bytes, n, call.in, call.out, call.middle, rank)
    BY <1>3, <1>8, <1>9, Zenon DEF HoldsRank
  <2> HIDE DEF rank, bytes, call, start, width, sec
  <2> QED
    BY <1>2, <2>1, RankIsRead
<1>11. Order(rank, n) = call.order
  <2>1. rank % Factorial[n] = rank
    BY <1>6, <1>7
  <2>2. Order(rank, n) = CHOOSE q \in Orders(n) : Rank(q, n) = rank
    BY <2>1 DEF Order
  <2>3. PICK q : q = Order(rank, n)
    OBVIOUS
  <2>4. q \in Orders(n) /\ Rank(q, n) = rank
    BY <1>2, <2>2, <2>3
  <2> QED
    BY <1>2, <2>3, <2>4, RankOrder
<1> QED
  BY <1>10, <1>11

\* A value leaves to the child of its colour.
Routes(d, n, a, bits) ==
  /\ n \in Nat /\ n > 1 /\ d \in [0 .. n - 1 -> {0, 1}]
  /\ \A j \in 0 .. n \div 2 - 1 : /\ d[2 * j] # d[2 * j + 1]
                                  /\ SwitchBit(a, j) \in bits <=> d[2 * j] = 1
  /\ n % 2 = 1 => d[n - 1] = 0

LEMMA MeetsColor ==
  ASSUME NEW n, NEW d, NEW a, NEW bits, Routes(d, n, a, bits),
         NEW x \in 0 .. n - 1, NEW y, NEW right
  PROVE  Meets(x, y, n, right, a, bits) <=> y = x \div 2 /\ right = (d[x] = 1)
<1> USE DEF Routes
<1> DEFINE j == x \div 2
           here == /\ ~(n % 2 = 1 /\ x = n - 1)
                   /\ (SwitchBit(a, j) \in bits) # (x % 2 = 1)
<1>1. here <=> d[x] = 1
  <2>1. CASE n % 2 = 1 /\ x = n - 1
    BY <2>1
  <2>2. CASE ~(n % 2 = 1 /\ x = n - 1)
    <3>1. j \in 0 .. n \div 2 - 1 /\ x = 2 * j + (x % 2) /\ x % 2 \in 0 .. 1
      BY <2>2, Halves
    <3>2. /\ d[2 * j] # d[2 * j + 1] /\ (SwitchBit(a, j) \in bits <=> d[2 * j] = 1)
          /\ 2 * j \in 0 .. n - 1 /\ 2 * j + 1 \in 0 .. n - 1
      <4> HIDE DEF j
      <4>1. /\ d[2 * j] # d[2 * j + 1] /\ (SwitchBit(a, j) \in bits <=> d[2 * j] = 1)
        BY <3>1
      <4>2. 2 * j \in 0 .. n - 1 /\ 2 * j + 1 \in 0 .. n - 1
        BY <3>1
      <4> QED
        BY <4>1, <4>2
    <3> HIDE DEF j
    <3>3. CASE x % 2 = 0
      <4>1. x = 2 * j
        BY <3>1, <3>3
      <4> QED
        BY <2>2, <3>2, <3>3, <4>1
    <3>4. CASE x % 2 = 1
      <4>1. x = 2 * j + 1
        BY <3>1, <3>4
      <4>2. d[2 * j] \in {0, 1} /\ d[2 * j + 1] \in {0, 1}
        BY <3>2
      <4> QED
        BY <2>2, <3>2, <3>4, <4>1, <4>2
    <3> QED
      BY <3>1, <3>3, <3>4
  <2> QED
    BY <2>1, <2>2
<1>2. here \in BOOLEAN
  OBVIOUS
<1>3. Meets(x, y, n, right, a, bits) <=> y = j /\ right = here
  BY Zenon DEF Meets
<1> HIDE DEF here, j
<1>4. here = (d[x] = 1)
  BY <1>1, <1>2
<1> QED
  BY <1>3, <1>4 DEF j

\* Every value leaves to the child of its colour.
Sends(d, n, a, bits) ==
  \A x \in 0 .. n - 1 : \A y, right :
    Meets(x, y, n, right, a, bits) <=> y = x \div 2 /\ right = (d[x] = 1)

LEMMA RoutesSends ==
  ASSUME NEW d, NEW n, NEW a, NEW bits, Routes(d, n, a, bits)
  PROVE  Sends(d, n, a, bits)
<1> SUFFICES ASSUME NEW x \in 0 .. n - 1, NEW y, NEW right
             PROVE  Meets(x, y, n, right, a, bits)
                      <=> y = x \div 2 /\ right = (d[x] = 1)
  BY DEF Sends
<1> QED
  BY MeetsColor

\* The calls and the nodes a lookup passes are the same.
AtCall(e, call) == At(e, call.count, call.in, call.out, call.middle)

LEMMA NodeAnswers ==
  ASSUME NEW form, IsFormat(form), NEW p \in Orders(form.count),
         NEW k \in DOMAIN Calls(p, form),
         NEW e, IsStop(e), AtCall(e, Calls(p, form)[k]),
         NEW f, IsStop(f), Joined(e, f, Encoded(p, form))
  PROVE  LET calls == Calls(p, form)
         IN  \E j \in DOMAIN calls :
               /\ AtCall(f, calls[j])
               /\ f.last = calls[j].order[f.first] => e.last = calls[k].order[e.first]
<1> DEFINE calls == Calls(p, form)
           call == calls[k]
           n == call.count
           q == call.order
           c == call.colors
           inv == Node(n)!InverseOf(q)
           bytes == Encoded(p, form)
           child == ChildCall(call, e.right)
           x == e.first
           z == q[x]
<1>1. IsTree(calls, form) /\ ~Waits(calls, k)
  BY CallsFacts
<1>2. /\ n > LeafSize /\ e.count = n /\ e.in = call.in /\ e.out = call.out
      /\ e.middle = call.middle /\ e.right \in BOOLEAN
      /\ x \in 0 .. n - 1 /\ e.last \in 0 .. n - 1
  BY Zenon DEF Joined, AtCall, At, IsStop
<1>3. /\ GoodCall(call, form) /\ n \in Nat \ {0} /\ n \in Nat /\ n > 1 /\ q \in Orders(n)
      /\ c = Coloring(q, n)
  <2>1. GoodCall(call, form)
    BY <1>1, <1>2, TreeFacts
  <2> HIDE DEF call
  <2> QED
    BY <1>2, <2>1, LeafSizes DEF GoodCall
<1>4. \E j \in DOMAIN calls : calls[j] = child
  <2>1. /\ 2 * k \in DOMAIN calls /\ calls[2 * k] = ChildCall(call, FALSE)
        /\ 2 * k + 1 \in DOMAIN calls /\ calls[2 * k + 1] = ChildCall(call, TRUE)
    BY <1>1, <1>2, TreeFacts
  <2> HIDE DEF calls
  <2>2. CASE e.right = TRUE
    BY <2>1, <2>2
  <2>3. CASE e.right = FALSE
    BY <2>1, <2>3
  <2> QED
    BY <1>2, <2>2, <2>3
<1>5. /\ child.order = ChildOrder(q, n, c, e.right)
      /\ child.count = ChildCount(e.right, n)
      /\ child.in = Child(call.in, e.right, n) /\ child.out = Child(call.out, e.right, n)
      /\ child.middle = call.middle + (IF e.right THEN MiddleBits(LeftCount(n)) ELSE 0)
  BY <1>2, <1>3, ChildIsGood
<1>6. /\ f.count = ChildCount(e.right, n)
      /\ f.in = Child(call.in, e.right, n) /\ f.out = Child(call.out, e.right, n)
      /\ f.middle = call.middle + (IF e.right THEN MiddleBits(LeftCount(n)) ELSE 0)
      /\ Meets(x, f.first, n, e.right, call.in, bytes.input)
      /\ Meets(e.last, f.last, n, e.right, call.out, bytes.output)
  BY <1>2 DEF Joined
<1>7. /\ c \in [0 .. n - 1 -> {0, 1}] /\ inv \in [0 .. n - 1 -> 0 .. n - 1]
      /\ q \in [0 .. n - 1 -> 0 .. n - 1] /\ inv[z] = x
      /\ \A j \in 0 .. n \div 2 - 1 : /\ c[2 * j] # c[2 * j + 1]
                                      /\ c[inv[2 * j]] # c[inv[2 * j + 1]]
      /\ n % 2 = 1 => c[n - 1] = 0 /\ c[inv[n - 1]] = 0
  <2> HIDE DEF calls, call, bytes, child, n, q, c, x
  <2>1. q \in [0 .. n - 1 -> 0 .. n - 1] /\ inv \in [0 .. n - 1 -> 0 .. n - 1]
    BY <1>3, NodePermutations
  <2>2. \A y \in 0 .. n - 1 : inv[q[y]] = y
    BY <1>3, NodePermutations
  <2>3. /\ c \in [0 .. n - 1 -> {0, 1}]
        /\ \A j \in 0 .. n \div 2 - 1 : /\ c[2 * j] # c[2 * j + 1]
                                        /\ c[inv[2 * j]] # c[inv[2 * j + 1]]
        /\ n % 2 = 1 => c[n - 1] = 0 /\ c[inv[n - 1]] = 0
    BY <1>3, ColoringFacts
  <2> HIDE DEF inv
  <2> QED
    BY <1>2, <2>1, <2>2, <2>3
<1>8. \A j \in 0 .. n \div 2 - 1 :
        /\ SwitchBit(call.in, j) \in bytes.input <=> c[2 * j] = 1
        /\ SwitchBit(call.out, j) \in bytes.output <=> c[inv[2 * j]] = 1
  BY <1>2, NodeReads
<1>9. /\ \A y \in 0 .. n - 1 : c[y] = (IF e.right THEN 1 ELSE 0) =>
           ChildOrder(q, n, c, e.right)[y \div 2] = q[y] \div 2
  BY <1>2, <1>3, ChildOrderFacts
<1> DEFINE d == [y \in 0 .. n - 1 |-> c[inv[y]]]
<1>10. /\ d \in [0 .. n - 1 -> {0, 1}] /\ \A y \in 0 .. n - 1 : d[y] = c[inv[y]]
       /\ z \in 0 .. n - 1 /\ d[z] = c[x]
  <2> HIDE DEF calls, call, bytes, inv, child, n, q, c, x
  <2> QED
    BY <1>2, <1>7
<1>11. \A j \in 0 .. n \div 2 - 1 : 2 * j \in 0 .. n - 1 /\ 2 * j + 1 \in 0 .. n - 1
  <2> HIDE DEF n
  <2> QED
    BY <1>3
<1> DEFINE a == call.in
           b == call.out
           I == bytes.input
           O == bytes.output
           right == e.right
<1>12. Routes(c, n, a, I) /\ Routes(d, n, b, O)
  <2>1. n \in Nat /\ n > 1
    BY <1>3
  <2> HIDE DEF calls, call, bytes, inv, child, n, q, c, x, z, d
  <2>2. n % 2 = 1 => n - 1 \in 0 .. n - 1
    BY <2>1
  <2>3. /\ c \in [0 .. n - 1 -> {0, 1}]
        /\ \A j \in 0 .. n \div 2 - 1 : /\ c[2 * j] # c[2 * j + 1]
                                        /\ SwitchBit(a, j) \in I <=> c[2 * j] = 1
        /\ n % 2 = 1 => c[n - 1] = 0
    BY <1>7, <1>8
  <2>4. /\ d \in [0 .. n - 1 -> {0, 1}]
        /\ \A j \in 0 .. n \div 2 - 1 : /\ d[2 * j] # d[2 * j + 1]
                                        /\ SwitchBit(b, j) \in O <=> d[2 * j] = 1
        /\ n % 2 = 1 => d[n - 1] = 0
    BY <1>7, <1>8, <1>10, <1>11, <2>2
  <2> HIDE DEF a, b, I, O
  <2> QED
    BY <2>1, <2>3, <2>4, Zenon DEF Routes
<1> HIDE DEF calls, call, bytes, inv, child, n, q, c, x, z, d, a, b, I, O, right
<1>13. /\ f.first = x \div 2 /\ right = (c[x] = 1)
       /\ \A y, t : Meets(z, y, n, t, b, O) <=> y = z \div 2 /\ t = (d[z] = 1)
  <2>1. x \in 0 .. n - 1 /\ z \in 0 .. n - 1
    BY <1>2, <1>10
  <2>2. Meets(x, f.first, n, right, a, I)
    BY <1>6 DEF a, I, right
  <2>3. Sends(c, n, a, I) /\ Sends(d, n, b, O)
    BY <1>12, RoutesSends
  <2> QED
    BY <2>1, <2>2, <2>3 DEF Sends
<1>14. ASSUME f.last = child.order[f.first]
       PROVE  e.last = z
  <2>0. /\ n \in Nat /\ n > 1 /\ right \in BOOLEAN /\ right = e.right
        /\ x \in 0 .. n - 1 /\ z \in 0 .. n - 1 /\ e.last \in 0 .. n - 1
    BY <1>2, <1>3, <1>10 DEF right
  <2>1. c[x] = (IF right THEN 1 ELSE 0)
    BY <1>7, <1>13, <2>0
  <2>2. f.last = z \div 2
    <3>1. child.order = ChildOrder(q, n, c, right)
      BY <1>5 DEF right
    <3>2. ChildOrder(q, n, c, right)[x \div 2] = q[x] \div 2
      BY <1>9, <2>0, <2>1 DEF right
    <3> QED
      BY <1>13, <1>14, <3>1, <3>2 DEF z
  <2>3. Meets(z, f.last, n, right, b, O)
    BY <1>10, <1>13, <2>2
  <2>4. Meets(e.last, f.last, n, right, b, O)
    BY <1>6 DEF b, O, right
  <2>5. Source(f.last, n, right, b, O) = z /\ Source(f.last, n, right, b, O) = e.last
    BY <1>2, <2>0, <2>3, <2>4, SourceIsUnique
  <2> QED
    BY <2>5
<1>15. AtCall(f, child)
  BY <1>5, <1>6, Zenon DEF AtCall, At
<1> QED
  BY <1>4, <1>14, <1>15 DEF calls, call, z, x, q

\* On the paths of an encoding, a call's values are joined by its order.
LEMMA PathAnswers ==
  ASSUME NEW form, IsFormat(form), NEW p \in Orders(form.count),
         NEW m, NEW T, IsPath(T, m, form, Encoded(p, form)),
         At(T[1], form.count, RootOf(form, form.input, "input"),
            RootOf(form, form.output, "output"), 0)
  PROVE  T[1].last = p[T[1].first]
<1> DEFINE calls == Calls(p, form)
           bytes == Encoded(p, form)
           Tells(j) == \A k \in DOMAIN calls :
                         AtCall(T[m - j], calls[k]) =>
                           T[m - j].last = calls[k].order[T[m - j].first]
           B == {j \in Nat : j < m => Tells(j)}
<1>1. /\ m \in Nat \ {0}
      /\ \A k \in 1 .. m : IsStop(T[k])
      /\ \A k \in 1 .. m - 1 : Joined(T[k], T[k + 1], bytes)
      /\ Ends(T[m], form, bytes)
  BY DEF IsPath
<1>2. Tells(0)
  <2>0. m - 0 = m
    BY <1>1
  <2> DEFINE e == T[m]
  <2> SUFFICES ASSUME NEW k \in DOMAIN calls, AtCall(e, calls[k])
               PROVE  e.last = calls[k].order[e.first]
    BY <2>0
  <2>1. /\ e.count <= LeafSize /\ LeafOrder(e, form, bytes)[e.first] = e.last
        /\ e.count = calls[k].count /\ e.in = calls[k].in /\ e.out = calls[k].out
        /\ e.middle = calls[k].middle
    BY <1>1 DEF Ends, AtCall, At
  <2>2. LeafOrder(e, form, bytes) = calls[k].order
    <3>1. Order(RankOf(form, bytes, calls[k].count, calls[k].in, calls[k].out,
                       calls[k].middle), calls[k].count) = calls[k].order
      BY <2>1, LeafReads
    <3> HIDE DEF calls, bytes, e
    <3> QED
      BY <2>1, <3>1, Zenon DEF LeafOrder
  <2> QED
    BY <2>1, <2>2
<1>3. ASSUME NEW j \in Nat, j \in B PROVE j + 1 \in B
  <2> SUFFICES ASSUME j + 1 < m PROVE Tells(j + 1)
    OBVIOUS
  <2> DEFINE u == m - (j + 1)
             e == T[u]
             f == T[m - j]
  <2>1. u \in 1 .. m /\ u \in 1 .. m - 1 /\ u + 1 = m - j /\ m - j \in 1 .. m /\ j < m
    BY <1>1
  <2>2. Tells(j) /\ IsStop(e) /\ IsStop(f) /\ Joined(e, f, bytes)
    BY <1>1, <1>3, <2>1
  <2> SUFFICES ASSUME NEW k \in DOMAIN calls, AtCall(e, calls[k])
               PROVE  e.last = calls[k].order[e.first]
    OBVIOUS
  <2> HIDE DEF e, f
  <2>3. PICK h \in DOMAIN calls :
          /\ AtCall(f, calls[h])
          /\ f.last = calls[h].order[f.first] => e.last = calls[k].order[e.first]
    BY <2>2, NodeAnswers
  <2>4. f.last = calls[h].order[f.first]
    BY <2>2, <2>3 DEF f
  <2> QED
    BY <2>3, <2>4
<1>4. Nat \subseteq B
  <2>1. 0 \in B
    BY <1>2
  <2> HIDE DEF B
  <2> QED
    BY <1>3, <2>1, Induction
<1>5. Tells(m - 1)
  <2>1. m - 1 \in Nat /\ m - 1 < m
    BY <1>1
  <2> HIDE DEF Tells
  <2> QED
    BY <1>4, <2>1
<1>6. /\ 1 \in DOMAIN calls /\ calls[1].order = p
      /\ AtCall(T[1], calls[1])
  <2>1. 1 \in DOMAIN calls /\ calls[1] = RootCall(p, form)
    BY CallsFacts
  <2> DEFINE root == RootCall(p, form)
  <2>2. /\ root.order = p /\ root.count = form.count /\ root.middle = 0
        /\ root.in = RootOf(form, form.input, "input")
        /\ root.out = RootOf(form, form.output, "output")
    BY CallIs DEF RootCall
  <2> HIDE DEF root, calls
  <2>3. AtCall(T[1], root)
    BY <2>2, Zenon DEF AtCall
  <2> QED
    BY <2>1, <2>2, <2>3 DEF root
<1>7. m - (m - 1) = 1
  BY <1>1
<1> HIDE DEF calls
<1> QED
  BY <1>5, <1>6, <1>7

\* What no step of a lookup changes.
HeaderInv ==
  /\ format \in Formats(Counts, Placements)
  /\ permutation # <<>> => /\ permutation \in Orders(format.count)
                           /\ file = Encoded(permutation, format)

LEMMA ValidFormat ==
  ASSUME NEW form \in Formats(Counts, Placements)
  PROVE  IsFormat(form) /\ form.count \in Counts
<1>1. PICK n \in Counts :
        form \in [count : {n}, input : ClusterLists(RoutingDepth(n)),
                  output : ClusterLists(RoutingDepth(n)),
                  placement : IF RoutingDepth(n) = 0 THEN {"separate"} ELSE Placements]
  BY DEF Formats
<1>2. form.placement \in {"separate", "input", "output"}
  <2>1. form.placement \in (IF RoutingDepth(n) = 0 THEN {"separate"} ELSE Placements)
    BY <1>1
  <2> QED
    BY <2>1, LookupAssumption
<1> QED
  BY <1>1, <1>2, LookupAssumption DEF IsFormat

LEMMA HeaderStays == Spec => []HeaderInv
<1>1. Init => HeaderInv
  <2> SUFFICES ASSUME Init PROVE HeaderInv
    OBVIOUS
  <2>1. format \in Formats(Counts, Placements)
    BY DEF Init
  <2>2. CASE permutation = <<>>
    BY <2>1, <2>2 DEF HeaderInv
  <2>3. CASE permutation \in Inputs(format.count) /\ file = Encoded(permutation, format)
    <3>1. format.count \in Counts
      BY <2>1, ValidFormat
    <3> QED
      BY <2>1, <2>3, <3>1, LookupAssumption DEF HeaderInv
  <2> QED
    BY <2>2, <2>3 DEF Init
<1>2. HeaderInv /\ [Next]_vars => HeaderInv'
  <2> SUFFICES ASSUME HeaderInv, [Next]_vars PROVE HeaderInv'
    OBVIOUS
  <2>1. UNCHANGED header
    BY DEF Next, Descend, Middle, Ascend, Return, AskBack, vars, header
  <2> QED
    BY <2>1 DEF HeaderInv, header
<1> QED
  BY <1>1, <1>2, PTL DEF Spec

\* AnswersThePermutation: a file that was compressed from a permutation answers
\* every lookup, in both directions, as the permutation does; for every size,
\* list of clusters and place of the middle, and every permutation.
THEOREM FilesAnswerThePermutation == Spec => []AnswersThePermutation
<1>1. Inv /\ HeaderInv => AnswersThePermutation
  <2> SUFFICES ASSUME Inv, HeaderInv, phase = "answered", permutation # <<>>
               PROVE  IF inverse THEN permutation[index] = value
                      ELSE permutation[value] = index
    BY DEF AnswersThePermutation
  <2>1. PICK T, m, k : FollowsPath(T, m, k) /\ k = 0
    BY DEF Inv
  <2>2. /\ IsPath(T, m, format, file)
        /\ At(T[1], format.count, RootOf(format, format.input, "input"),
              RootOf(format, format.output, "output"), 0)
        /\ value = Near(T[1], inverse) /\ index = Far(T[1], inverse)
    BY <2>1 DEF FollowsPath
  <2>3. /\ IsFormat(format) /\ permutation \in Orders(format.count)
        /\ file = Encoded(permutation, format)
    BY ValidFormat DEF HeaderInv
  <2>4. T[1].last = permutation[T[1].first]
    BY <2>2, <2>3, PathAnswers
  <2> QED
    BY <2>2, <2>4 DEF Near, Far
<1> QED
  BY <1>1, LookupFollowsAPath, HeaderStays, PTL
=============================================================================
