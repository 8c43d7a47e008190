-------------------------- MODULE UnionFindProofs --------------------------
(***************************************************************************)
(* What holds of the concurrent union-find for every node size, every set  *)
(* of permutations and both kinds of hardware.                             *)
(***************************************************************************)
EXTENDS UnionFind, MetalLock, BenesNodeProofs, TLAPS

USE CountAssumption, InputsAssumption, BackendAssumption

-----------------------------------------------------------------------------
(* Facts about the data. *)

LEMMA LoadType ==
  ASSUME TypeOK, NEW t \in Pair, NEW x \in Index, NEW v \in Loads(t, x)
  PROVE  v \in Entry
BY DEF TypeOK, Loads, Self, Entry, Bit

-----------------------------------------------------------------------------
(* Type correctness. *)

LEMMA InitType == Init => TypeOK
<1> SUFFICES ASSUME Init PROVE TypeOK
  OBVIOUS
<1>1. inverse \in [Index -> Index]
  BY InverseType DEF Init
<1>2. \A t \in Pair : LeftEnd(inverse, t, 1) \in Index
  BY <1>1, EndType
<1> QED
  BY <1>1, <1>2 DEF Init, TypeOK, Self, Entry, Found, Bit

LEMMA JoinedType ==
  ASSUME TypeOK, NEW t \in Pair, Joined(t)
  PROVE  /\ pc' \in [Pair -> {"left", "right", "cas", "end"}]
         /\ number' \in [Pair -> {1, 2}]
         /\ pos' \in [Pair -> Index]
         /\ par' \in [Pair -> Bit]
         /\ leftRoot' \in [Pair -> Found]
<1>1. LeftEnd(inverse, t, 2) \in Index
  BY EndType DEF TypeOK
<1> QED
  BY <1>1 DEF TypeOK, Joined, Bit

LEMMA StepType == TypeOK /\ [Next]_vars => TypeOK'
<1> SUFFICES ASSUME TypeOK, [Next]_vars PROVE TypeOK'
  OBVIOUS
<1>1. ASSUME NEW t \in Pair, Find(t) PROVE TypeOK'
  <2>1. PICK packed \in Loads(t, pos[t]) :
          /\ SawEntry(t, pos[t], packed)
          /\ \/ Climb(t, packed)
             \/ FindLeft(t, packed)
             \/ FindSame(t, packed)
             \/ FindRight(t, packed)
    BY <1>1 DEF Find
  <2>2. pos[t] \in Index /\ par[t] \in Bit
    BY DEF TypeOK
  <2>3. packed.next \in Index /\ packed.parity \in Bit
    BY <2>2, LoadType DEF Entry
  <2>4. Xor(par[t], packed.parity) \in Bit /\ 0 \in Bit
    BY <2>2, <2>3, XorType DEF Bit
  <2>5. Right(t) \in Index
    BY EndType DEF TypeOK, Right
  <2>6. seen' \in [Pair -> SUBSET Index]
    BY <2>1, <2>2 DEF SawEntry, TypeOK
  <2>7. UNCHANGED <<shared, stage, root>>
    BY <1>1 DEF Find
  <2>8. CASE Climb(t, packed)
    BY <2>3, <2>4, <2>6, <2>7, <2>8 DEF Climb, TypeOK, shared
  <2>9. CASE FindLeft(t, packed)
    BY <2>2, <2>4, <2>5, <2>6, <2>7, <2>9 DEF FindLeft, TypeOK, Found, shared
  <2>10. CASE FindSame(t, packed)
    BY JoinedType, <2>6, <2>7, <2>10 DEF FindSame, TypeOK, shared
  <2>11. CASE FindRight(t, packed)
    BY <2>4, <2>6, <2>7, <2>11 DEF FindRight, TypeOK, shared
  <2> QED
    BY <2>1, <2>8, <2>9, <2>10, <2>11
<1>2. ASSUME NEW t \in Pair, CasLinks(t) PROVE TypeOK'
  <2>1. Link(t) \in Entry /\ High(t) \in Index
    <3>1. leftRoot[t].x \in Index /\ leftRoot[t].y \in Bit
      BY DEF TypeOK, Found
    <3>2. pos[t] \in Index /\ par[t] \in Bit
      BY DEF TypeOK
    <3>3. Xor(Xor(leftRoot[t].y, par[t]), 1) \in Bit
      BY <3>1, <3>2, XorType DEF Bit
    <3> QED
      BY <3>1, <3>2, <3>3 DEF Link, High, Low, Beyond, Entry
  <2>2. parents' \in [Index -> Entry] /\ seen' \in [Pair -> SUBSET Index]
    BY <1>2, <2>1 DEF CasLinks, TypeOK
  <2> QED
    BY <1>2, <2>2, JoinedType DEF CasLinks, TypeOK
<1>3. ASSUME NEW t \in Pair, CasFails(t) PROVE TypeOK'
  <2>1. Left(t) \in Index /\ High(t) \in Index
    BY EndType DEF TypeOK, Left, High, Beyond, Found
  <2>2. seen' \in [Pair -> SUBSET Index]
    BY <1>3, <2>1 DEF CasFails, SawEntry, TypeOK
  <2> QED
    BY <1>3, <2>1, <2>2 DEF CasFails, TypeOK, shared, Bit
<1>4. CASE Barrier \/ FoundRoots
  BY <1>4 DEF Barrier, FoundRoots, TypeOK, shared, thread
<1>5. CASE Ascend
  <2>1. \A x \in Index : root[x].x \in Index /\ root[x].y \in Bit
    BY DEF TypeOK, Found
  <2>2. \A x \in Index : parents[x].next \in Index /\ parents[x].parity \in Bit
    BY DEF TypeOK, Entry
  <2>3. root' \in [Index -> Found]
    BY <1>5, <2>1, <2>2, XorType DEF Ascend, Found
  <2> QED
    BY <1>5, <2>3 DEF Ascend, TypeOK, shared, thread
<1>6. CASE Orient
  <2>1. \A x \in Index : root[x].x \in Index /\ root[x].y \in Bit
    BY DEF TypeOK, Found
  <2>2. flips' \in [Index -> Bit]
    BY <1>6, <2>1, IndexFacts DEF Orient, OddFlips, TypeOK
  <2> QED
    BY <1>6, <2>2 DEF Orient, TypeOK, thread
<1>7. CASE Route
  <2>1. \A x \in Index : root[x].x \in Index /\ root[x].y \in Bit
    BY DEF TypeOK, Found
  <2>2. \A x \in Index : Branch(x) \in Bit
    BY <2>1, XorType DEF Branch, TypeOK
  <2> QED
    BY <1>7, <2>2 DEF Route, TypeOK, thread
<1>8. CASE UNCHANGED vars
  BY <1>8 DEF vars, shared, thread, TypeOK
<1> QED
  BY <1>1, <1>2, <1>3, <1>4, <1>5, <1>6, <1>7, <1>8 DEF Next

\* Every state of the kernels is one the types describe: no entry, position or
\* root leaves the node, whatever the interleaving.
THEOREM TypeCorrect == Spec => []TypeOK
BY InitType, StepType, PTL DEF Spec

-----------------------------------------------------------------------------
(* Parities agree with every proper colouring. *)

\* The permutation's inverse and the ends of the joins are fixed.
LEMMA InverseFixed == TypeOK /\ [Next]_vars => inverse' = inverse
BY DEF Next, vars, shared, Find, CasLinks, CasFails, Barrier, FoundRoots,
       Ascend, Orient, Route

\* A load that returns an overwritten value returns one that was right too.
LEMMA LoadAgrees ==
  ASSUME TypeOK, NEW c \in Colorings, EntriesAgree(c),
         NEW t \in Pair, NEW x \in Index, NEW v \in Loads(t, x)
  PROVE  c[x] = Xor(v.parity, c[v.next])
<1>1. c[x] \in Bit
  BY DEF Colorings
<1>2. v = parents[x] \/ v = Self(x)
  BY DEF Loads
<1> QED
  BY <1>1, <1>2, XorGroup DEF EntriesAgree, Self

LEMMA InitParity == Init => ParityAgrees
<1> SUFFICES ASSUME Init, NEW c \in Colorings
             PROVE  /\ EntriesAgree(c)
                    /\ \A t \in Pair : FindAgrees(c, t)
                    /\ RootsAgree(c)
  BY DEF ParityAgrees
<1>1. TypeOK
  BY InitType
<1>2. \A x \in Index : c[x] = Xor(0, c[x])
  BY XorGroup DEF Colorings
<1>3. \A t \in Pair : pos[t] = Left(t) /\ pos[t] \in Index
  BY <1>1 DEF Init, Left, TypeOK
<1> QED
  BY <1>2, <1>3 DEF Init, EntriesAgree, FindAgrees, RootsAgree, Self

\* The next join of a thread, or the retry of this one, begins at its left end.
LEMMA JoinedAgrees ==
  ASSUME TypeOK, inverse' = inverse, NEW t \in Pair, Joined(t),
         NEW c \in Colorings
  PROVE  FindAgrees(c, t)'
<1>1. LeftEnd(inverse, t, 2) \in Index
  BY EndType DEF TypeOK
<1>2. c[LeftEnd(inverse, t, 2)] = Xor(0, c[LeftEnd(inverse, t, 2)])
  BY <1>1, XorGroup DEF Colorings
<1> QED
  BY <1>2 DEF Joined, FindAgrees, TypeOK, Left

\* A thread does not disturb another.
LEMMA OthersAgree ==
  ASSUME TypeOK, inverse' = inverse, NEW t \in Pair, NEW c \in Colorings,
         NEW u \in Pair, FindAgrees(c, u),
         pc'[u] = pc[u], number'[u] = number[u], pos'[u] = pos[u],
         par'[u] = par[u], leftRoot'[u] = leftRoot[u]
  PROVE  FindAgrees(c, u)'
BY DEF FindAgrees, Left, Right

LEMMA FindStepAgrees ==
  ASSUME TypeOK, inverse' = inverse, NEW t \in Pair, NEW c \in Colorings,
         EntriesAgree(c), FindAgrees(c, t), Find(t)
  PROVE  FindAgrees(c, t)'
<1>1. PICK packed \in Loads(t, pos[t]) :
        \/ Climb(t, packed)
        \/ FindLeft(t, packed)
        \/ FindSame(t, packed)
        \/ FindRight(t, packed)
  BY DEF Find
<1>2. pos[t] \in Index /\ par[t] \in Bit /\ pc[t] \in {"left", "right"}
  BY DEF TypeOK, Find
<1>3. packed.next \in Index /\ packed.parity \in Bit
  BY <1>2, LoadType DEF Entry
<1>4. c[pos[t]] = Xor(packed.parity, c[packed.next])
  BY <1>2, LoadAgrees
<1>5. c[packed.next] \in Bit /\ c[pos[t]] \in Bit
  BY <1>2, <1>3 DEF Colorings
<1>6. Xor(par[t], c[pos[t]]) = Xor(Xor(par[t], packed.parity), c[packed.next])
  BY <1>2, <1>3, <1>4, <1>5, XorGroup
<1>7. CASE Climb(t, packed)
  BY <1>2, <1>6, <1>7 DEF Climb, FindAgrees, TypeOK, Left, Right
<1>8. CASE FindLeft(t, packed)
  <2>1. Right(t) \in Index
    BY EndType DEF TypeOK, Right
  <2>2. c[Right(t)] = Xor(0, c[Right(t)])
    BY <2>1, XorGroup DEF Colorings
  <2>3. c[Left(t)] = Xor(Xor(par[t], packed.parity), c[pos[t]])
    BY <1>6, <1>8 DEF FindLeft, FindAgrees
  <2> QED
    BY <1>8, <2>2, <2>3 DEF FindLeft, FindAgrees, TypeOK, Left, Right
<1>9. CASE FindSame(t, packed)
  BY <1>9, JoinedAgrees DEF FindSame
<1>10. CASE FindRight(t, packed)
  <2>1. c[Right(t)] = Xor(Xor(par[t], packed.parity), c[pos[t]])
    BY <1>6, <1>10 DEF FindRight, FindAgrees
  <2> QED
    BY <1>10, <2>1 DEF FindRight, FindAgrees, TypeOK, Left, Right
<1> QED
  BY <1>1, <1>7, <1>8, <1>9, <1>10

\* The entry that is linked gets the parity its two trees' colours require.
LEMMA LinkAgrees ==
  ASSUME TypeOK, NEW t \in Pair, NEW c \in Colorings, Proper(inverse, c),
         FindAgrees(c, t), pc[t] = "cas"
  PROVE  c[High(t)] = Xor(Link(t).parity, c[Link(t).next])
<1> DEFINE l == leftRoot[t]  cl == c[l.x]  cr == c[pos[t]]
<1>1. /\ l.x \in Index /\ l.y \in Bit
      /\ pos[t] \in Index /\ par[t] \in Bit
      /\ number[t] \in {1, 2}
  BY DEF TypeOK, Found
<1>2. cl \in Bit /\ cr \in Bit
  BY <1>1 DEF Colorings
<1>3. c[Left(t)] # c[Right(t)]
  BY <1>1 DEF Proper, Left, Right
<1>4. c[Left(t)] = Xor(l.y, cl) /\ c[Right(t)] = Xor(par[t], cr)
  BY DEF FindAgrees
<1>5. Xor(Xor(l.y, par[t]), 1) = Xor(cl, cr)
  BY <1>1, <1>2, <1>3, <1>4 DEF Xor, Bit
<1>6. cl = Xor(Xor(cl, cr), cr) /\ cr = Xor(Xor(cl, cr), cl)
  BY <1>2 DEF Xor, Bit
<1> QED
  BY <1>1, <1>5, <1>6 DEF Link, High, Low, Beyond, Index

LEMMA StepParity == TypeOK /\ ParityAgrees /\ [Next]_vars => ParityAgrees'
<1> SUFFICES ASSUME TypeOK, ParityAgrees, [Next]_vars,
                    NEW c \in Colorings, Proper(inverse', c)
             PROVE  /\ EntriesAgree(c)'
                    /\ (\A t \in Pair : FindAgrees(c, t))'
                    /\ RootsAgree(c)'
  BY DEF ParityAgrees
<1>1. inverse' = inverse
  BY InverseFixed
<1>2. /\ Proper(inverse, c)
      /\ EntriesAgree(c)
      /\ \A t \in Pair : FindAgrees(c, t)
      /\ RootsAgree(c)
  BY <1>1 DEF ParityAgrees
<1>3. ASSUME NEW t \in Pair, Find(t)
      PROVE  /\ EntriesAgree(c)'
             /\ (\A u \in Pair : FindAgrees(c, u))'
             /\ RootsAgree(c)'
  <2>1. parents' = parents /\ root' = root
    BY <1>3 DEF Find, shared
  <2>2. ASSUME NEW u \in Pair, u # t
        PROVE  FindAgrees(c, u)'
    <3>1. /\ pc'[u] = pc[u] /\ number'[u] = number[u] /\ pos'[u] = pos[u]
          /\ par'[u] = par[u] /\ leftRoot'[u] = leftRoot[u]
      BY <1>3, <2>2 DEF Find, Climb, FindLeft, FindSame, FindRight, Joined, TypeOK
    <3> QED
      BY <1>1, <1>2, <3>1, OthersAgree
  <2>3. FindAgrees(c, t)'
    BY <1>1, <1>2, <1>3, FindStepAgrees
  <2> QED
    BY <1>2, <2>1, <2>2, <2>3 DEF EntriesAgree, RootsAgree
<1>4. ASSUME NEW t \in Pair, CasLinks(t)
      PROVE  /\ EntriesAgree(c)'
             /\ (\A u \in Pair : FindAgrees(c, u))'
             /\ RootsAgree(c)'
  <2>1. root' = root
    BY <1>4 DEF CasLinks
  <2>2. c[High(t)] = Xor(Link(t).parity, c[Link(t).next])
    BY <1>2, <1>4, LinkAgrees DEF CasLinks
  <2>3. EntriesAgree(c)'
    BY <1>2, <1>4, <2>2 DEF CasLinks, EntriesAgree, TypeOK
  <2>4. ASSUME NEW u \in Pair, u # t
        PROVE  FindAgrees(c, u)'
    <3>1. /\ pc'[u] = pc[u] /\ number'[u] = number[u] /\ pos'[u] = pos[u]
          /\ par'[u] = par[u] /\ leftRoot'[u] = leftRoot[u]
      BY <1>4, <2>4 DEF CasLinks, Joined, TypeOK
    <3> QED
      BY <1>1, <1>2, <3>1, OthersAgree
  <2>5. FindAgrees(c, t)'
    BY <1>1, <1>4, JoinedAgrees DEF CasLinks
  <2> QED
    BY <1>2, <2>1, <2>3, <2>4, <2>5 DEF RootsAgree
<1>5. ASSUME NEW t \in Pair, CasFails(t)
      PROVE  /\ EntriesAgree(c)'
             /\ (\A u \in Pair : FindAgrees(c, u))'
             /\ RootsAgree(c)'
  <2>1. parents' = parents /\ root' = root
    BY <1>5 DEF CasFails, shared
  <2>2. ASSUME NEW u \in Pair, u # t
        PROVE  FindAgrees(c, u)'
    <3>1. /\ pc'[u] = pc[u] /\ number'[u] = number[u] /\ pos'[u] = pos[u]
          /\ par'[u] = par[u] /\ leftRoot'[u] = leftRoot[u]
      BY <1>5, <2>2 DEF CasFails, TypeOK
    <3> QED
      BY <1>1, <1>2, <3>1, OthersAgree
  <2>3. c[Left(t)] = Xor(0, c[Left(t)])
    <3>1. Left(t) \in Index
      BY EndType DEF TypeOK, Left
    <3> QED
      BY <3>1, XorGroup DEF Colorings
  <2>4. FindAgrees(c, t)'
    BY <1>1, <1>5, <2>3 DEF CasFails, FindAgrees, TypeOK, Left
  <2> QED
    BY <1>2, <2>1, <2>2, <2>4 DEF EntriesAgree, RootsAgree
<1>6. CASE Ascend
  <2>1. ASSUME NEW x \in Index
        PROVE  c[x] = Xor(root'[x].y, c[root'[x].x])
    <3> DEFINE r == root[x]  packed == parents[r.x]
    <3>1. r.x \in Index /\ r.y \in Bit
      BY DEF TypeOK, Found
    <3>2. packed.next \in Index /\ packed.parity \in Bit
      BY <3>1 DEF TypeOK, Entry
    <3>3. c[x] = Xor(r.y, Xor(packed.parity, c[packed.next]))
      BY <1>2, <3>1 DEF RootsAgree, EntriesAgree
    <3>4. c[packed.next] \in Bit
      BY <3>2 DEF Colorings
    <3>5. c[x] = Xor(Xor(r.y, packed.parity), c[packed.next])
      BY <3>1, <3>2, <3>3, <3>4, XorGroup
    <3> QED
      BY <1>6, <3>5 DEF Ascend
  <2> QED
    BY <1>2, <1>6, <2>1
    DEF Ascend, shared, thread, EntriesAgree, RootsAgree, FindAgrees, Left, Right
<1>7. CASE Barrier \/ FoundRoots \/ Orient \/ Route \/ UNCHANGED vars
  BY <1>2, <1>7
  DEF Barrier, FoundRoots, Orient, Route, vars, shared, thread,
      EntriesAgree, RootsAgree, FindAgrees, Left, Right
<1> QED
  BY <1>3, <1>4, <1>5, <1>6, <1>7 DEF Next

\* Whatever the interleaving, stale loads and spurious failures, the parity of
\* every entry and every parity a thread carries agree with every routing the
\* switches can realise.
THEOREM ParitiesAlwaysAgree == Spec => []ParityAgrees
<1>1. Init => TypeOK /\ ParityAgrees
  BY InitType, InitParity
<1>2. TypeOK /\ ParityAgrees /\ [Next]_vars => (TypeOK /\ ParityAgrees)'
  BY StepType, StepParity
<1> QED
  BY <1>1, <1>2, PTL DEF Spec

-----------------------------------------------------------------------------
(* No join is lost. *)

\* A load leads to an entry of the same tree, even if its value is overwritten.
LEMMA LoadStays ==
  ASSUME TypeOK, NEW f \in Colorings, ConstantOnTrees(f),
         NEW t \in Pair, NEW x \in Index, NEW v \in Loads(t, x)
  PROVE  f[v.next] = f[x]
BY DEF Loads, ConstantOnTrees, Self

LEMMA InitJoins == Init => JoinsHold
<1> SUFFICES ASSUME Init, NEW f \in Colorings
             PROVE  /\ \A t \in Pair : EndsMeet(f, t) /\ FindStays(f, t)
                    /\ \A x \in Index : f[root[x].x] = f[x]
  BY DEF JoinsHold
<1>1. \A t \in Pair : pos[t] = Left(t)
  BY DEF Init, Left
<1> QED
  BY <1>1 DEF Init, EndsMeet, HasJoined, FindStays

\* compact_join returns only when the ends it was given are in one tree.
LEMMA JoinedHolds ==
  ASSUME TypeOK, inverse' = inverse, NEW t \in Pair, Joined(t),
         NEW f \in Colorings, EndsMeet(f, t), pc[t] # "end",
         f[Left(t)] = f[Right(t)]
  PROVE  EndsMeet(f, t)' /\ FindStays(f, t)'
<1>1. number[t] \in {1, 2}
  BY DEF TypeOK
<1>2. CASE number[t] = 1
  <2>1. number'[t] = 2 /\ pc'[t] = "left" /\ pos'[t] = LeftEnd(inverse, t, 2)
    BY <1>2 DEF Joined, TypeOK
  <2> QED
    BY <1>2, <2>1 DEF EndsMeet, HasJoined, FindStays, Left, Right
<1>3. CASE number[t] = 2
  <2>1. number'[t] = 2 /\ pc'[t] = "end"
    BY <1>3 DEF Joined, TypeOK
  <2>2. f[LeftEnd(inverse, t, 1)] = f[RightEnd(inverse, t, 1)]
    BY <1>3 DEF EndsMeet, HasJoined
  <2> QED
    BY <1>3, <2>1, <2>2 DEF EndsMeet, HasJoined, FindStays, Left, Right
<1> QED
  BY <1>1, <1>2, <1>3

LEMMA OthersHold ==
  ASSUME TypeOK, inverse' = inverse, NEW u \in Pair, NEW f \in Colorings,
         EndsMeet(f, u), FindStays(f, u),
         pc'[u] = pc[u], number'[u] = number[u], pos'[u] = pos[u],
         leftRoot'[u] = leftRoot[u]
  PROVE  EndsMeet(f, u)' /\ FindStays(f, u)'
BY DEF EndsMeet, HasJoined, FindStays, Left, Right

LEMMA FindStepHolds ==
  ASSUME TypeOK, inverse' = inverse, NEW t \in Pair, NEW f \in Colorings,
         ConstantOnTrees(f), EndsMeet(f, t), FindStays(f, t), Find(t)
  PROVE  EndsMeet(f, t)' /\ FindStays(f, t)'
<1>1. PICK packed \in Loads(t, pos[t]) :
        \/ Climb(t, packed)
        \/ FindLeft(t, packed)
        \/ FindSame(t, packed)
        \/ FindRight(t, packed)
  BY DEF Find
<1>2. pos[t] \in Index /\ pc[t] \in {"left", "right"}
  BY DEF TypeOK, Find
<1>3. f[packed.next] = f[pos[t]]
  BY <1>2, LoadStays
<1>4. CASE Climb(t, packed)
  BY <1>2, <1>3, <1>4
  DEF Climb, EndsMeet, HasJoined, FindStays, TypeOK, Left, Right
<1>5. CASE FindLeft(t, packed)
  BY <1>5 DEF FindLeft, EndsMeet, HasJoined, FindStays, TypeOK, Left, Right
<1>6. CASE FindSame(t, packed)
  <2>1. f[Left(t)] = f[Right(t)]
    BY <1>6 DEF FindSame, FindStays
  <2> QED
    BY <1>2, <1>6, <2>1, JoinedHolds DEF FindSame
<1>7. CASE FindRight(t, packed)
  BY <1>7 DEF FindRight, EndsMeet, HasJoined, FindStays, TypeOK, Left, Right
<1> QED
  BY <1>1, <1>4, <1>5, <1>6, <1>7

LEMMA StepJoins == TypeOK /\ JoinsHold /\ [Next]_vars => JoinsHold'
<1> SUFFICES ASSUME TypeOK, JoinsHold, [Next]_vars,
                    NEW f \in Colorings, ConstantOnTrees(f)'
             PROVE  /\ (\A t \in Pair : EndsMeet(f, t) /\ FindStays(f, t))'
                    /\ (\A x \in Index : f[root[x].x] = f[x])'
  BY DEF JoinsHold
<1>1. inverse' = inverse
  BY InverseFixed
<1>2. ASSUME ConstantOnTrees(f)
      PROVE  /\ \A t \in Pair : EndsMeet(f, t) /\ FindStays(f, t)
             /\ \A x \in Index : f[root[x].x] = f[x]
  BY <1>2 DEF JoinsHold
<1>3. ASSUME NEW t \in Pair, Find(t)
      PROVE  /\ (\A u \in Pair : EndsMeet(f, u) /\ FindStays(f, u))'
             /\ (\A x \in Index : f[root[x].x] = f[x])'
  <2>1. ConstantOnTrees(f) /\ root' = root
    BY <1>3 DEF Find, shared, ConstantOnTrees
  <2>2. ASSUME NEW u \in Pair, u # t
        PROVE  EndsMeet(f, u)' /\ FindStays(f, u)'
    <3>1. /\ pc'[u] = pc[u] /\ number'[u] = number[u] /\ pos'[u] = pos[u]
          /\ leftRoot'[u] = leftRoot[u]
      BY <1>3, <2>2 DEF Find, Climb, FindLeft, FindSame, FindRight, Joined, TypeOK
    <3> QED
      BY <1>1, <1>2, <2>1, <3>1, OthersHold
  <2>3. EndsMeet(f, t)' /\ FindStays(f, t)'
    BY <1>1, <1>2, <1>3, <2>1, FindStepHolds
  <2> QED
    BY <1>2, <2>1, <2>2, <2>3
<1>4. ASSUME NEW t \in Pair, CasLinks(t)
      PROVE  /\ (\A u \in Pair : EndsMeet(f, u) /\ FindStays(f, u))'
             /\ (\A x \in Index : f[root[x].x] = f[x])'
  <2>1. /\ leftRoot[t].x \in Index /\ pos[t] \in Index
        /\ High(t) \in Index /\ Low(t) \in Index
        /\ root' = root /\ pc[t] = "cas"
    BY <1>4 DEF TypeOK, Found, High, Low, Beyond, CasLinks
  <2>2. f[Low(t)] = f[High(t)]
    BY <1>4, <2>1 DEF CasLinks, ConstantOnTrees, Link, TypeOK
  <2>3. ConstantOnTrees(f)
    BY <1>4, <2>1 DEF CasLinks, ConstantOnTrees, Self, TypeOK
  <2>4. f[leftRoot[t].x] = f[pos[t]]
    BY <2>1, <2>2 DEF High, Low, Beyond, Index
  <2>5. f[Left(t)] = f[Right(t)]
    BY <1>2, <2>1, <2>3, <2>4 DEF FindStays
  <2>6. ASSUME NEW u \in Pair, u # t
        PROVE  EndsMeet(f, u)' /\ FindStays(f, u)'
    <3>1. /\ pc'[u] = pc[u] /\ number'[u] = number[u] /\ pos'[u] = pos[u]
          /\ leftRoot'[u] = leftRoot[u]
      BY <1>4, <2>6 DEF CasLinks, Joined, TypeOK
    <3> QED
      BY <1>1, <1>2, <2>3, <3>1, OthersHold
  <2>7. EndsMeet(f, t)' /\ FindStays(f, t)'
    BY <1>1, <1>2, <1>4, <2>1, <2>3, <2>5, JoinedHolds DEF CasLinks
  <2> QED
    BY <1>2, <2>1, <2>3, <2>6, <2>7
<1>5. ASSUME NEW t \in Pair, CasFails(t)
      PROVE  /\ (\A u \in Pair : EndsMeet(f, u) /\ FindStays(f, u))'
             /\ (\A x \in Index : f[root[x].x] = f[x])'
  <2>1. ConstantOnTrees(f) /\ root' = root
    BY <1>5 DEF CasFails, shared, ConstantOnTrees
  <2>2. ASSUME NEW u \in Pair, u # t
        PROVE  EndsMeet(f, u)' /\ FindStays(f, u)'
    <3>1. /\ pc'[u] = pc[u] /\ number'[u] = number[u] /\ pos'[u] = pos[u]
          /\ leftRoot'[u] = leftRoot[u]
      BY <1>5, <2>2 DEF CasFails, TypeOK
    <3> QED
      BY <1>1, <1>2, <2>1, <3>1, OthersHold
  <2>3. pc'[t] = "left" /\ pos'[t] = Left(t) /\ number'[t] = number[t]
    BY <1>5 DEF CasFails, TypeOK
  <2>4. EndsMeet(f, t)
    BY <1>2, <2>1
  <2>5. EndsMeet(f, t)' /\ FindStays(f, t)'
    BY <1>1, <1>5, <2>3, <2>4
    DEF CasFails, EndsMeet, HasJoined, FindStays, Left
  <2> QED
    BY <1>2, <2>1, <2>2, <2>5
<1>6. CASE Ascend
  <2>1. ConstantOnTrees(f)
    BY <1>6 DEF Ascend, shared, ConstantOnTrees
  <2>2. ASSUME NEW x \in Index PROVE f[root'[x].x] = f[x]
    <3>1. root[x].x \in Index /\ root'[x].x = parents[root[x].x].next
      BY <1>6 DEF Ascend, TypeOK, Found
    <3> QED
      BY <1>2, <2>1, <3>1 DEF ConstantOnTrees
  <2> QED
    BY <1>2, <1>6, <2>1, <2>2
    DEF Ascend, shared, thread, EndsMeet, HasJoined, FindStays, Left, Right
<1>7. CASE Barrier \/ FoundRoots \/ Orient \/ Route \/ UNCHANGED vars
  <2>1. ConstantOnTrees(f)
    BY <1>7 DEF Barrier, FoundRoots, Orient, Route, vars, shared, ConstantOnTrees
  <2> QED
    BY <1>2, <1>7, <2>1
    DEF Barrier, FoundRoots, Orient, Route, vars, shared, thread,
        EndsMeet, HasJoined, FindStays, Left, Right
<1> QED
  BY <1>3, <1>4, <1>5, <1>6, <1>7 DEF Next

\* No join is lost, whatever the interleaving: equal roots and a successful
\* compare-and-swap both leave the two ends in one tree for good.
THEOREM JoinsAlwaysHold == Spec => []JoinsHold
<1>1. Init => TypeOK /\ JoinsHold
  BY InitType, InitJoins
<1>2. TypeOK /\ JoinsHold /\ [Next]_vars => (TypeOK /\ JoinsHold)'
  BY StepType, StepJoins
<1> QED
  BY <1>1, <1>2, PTL DEF Spec

-----------------------------------------------------------------------------
\* An entry that has been linked is never written again.
THEOREM LinkedEntriesStay == Spec => LinkedForGood
<1>1. TypeOK /\ [Next]_vars =>
        [\A x \in Index : parents[x] # Self(x) => parents'[x] = parents[x]]_vars
  <2> SUFFICES ASSUME TypeOK, Next, NEW x \in Index, parents[x] # Self(x)
               PROVE  parents'[x] = parents[x]
    OBVIOUS
  <2>1. ASSUME NEW t \in Pair, CasLinks(t) PROVE parents'[x] = parents[x]
    BY <2>1 DEF CasLinks, TypeOK
  <2>2. ASSUME NEW t \in Pair, Find(t) \/ CasFails(t)
        PROVE  parents'[x] = parents[x]
    BY <2>2 DEF Find, CasFails, shared
  <2>3. CASE Barrier \/ Ascend \/ FoundRoots \/ Orient \/ Route
    BY <2>3 DEF Barrier, Ascend, FoundRoots, Orient, Route, shared
  <2> QED
    BY <2>1, <2>2, <2>3 DEF Next
<1> QED
  BY <1>1, TypeCorrect, PTL DEF Spec, LinkedForGood

-----------------------------------------------------------------------------
(* What the finds lead to, and the kernels make of it. *)

\* Entries are linked to smaller ones; the finds of an entry and of its parent
\* go up together; the later kernels come when the joins have ended and the
\* finds have arrived, and leave what they are to.
Climbs ==
  \A x \in Index :
    /\ parents[x].next <= x
    /\ root[x].x <= x
    /\ root[parents[x].next].x = parents[root[x].x].next

KernelOrder ==
  /\ inverse = InverseOf(permutation)
  /\ stage = "join" => \A x \in Index : root[x].x = x
  /\ stage # "join" => \A t \in Pair : pc[t] = "end"
  /\ stage \in {"orient", "route", "done"} => AtRoots
  /\ stage \in {"join", "find", "orient"} => \A x \in Index : flips[x] = 0
  /\ stage \in {"route", "done"} =>
       \A x \in Index :
         flips[x] = IF Odd /\ x = root[inverse[Unpaired]].x
                    THEN root[inverse[Unpaired]].y
                    ELSE IF Odd /\ x = root[Unpaired].x THEN root[Unpaired].y ELSE 0
  /\ stage = "done" => \A x \in Index : colors[x] = Branch(x)

LEMMA InitOrder == Init => Climbs /\ KernelOrder
<1> SUFFICES ASSUME Init PROVE Climbs /\ KernelOrder
  OBVIOUS
<1>1. \A x \in Index : x <= x
  BY DEF Index
<1> QED
  BY <1>1 DEF Init, Climbs, KernelOrder, Self

LEMMA StepClimbs == TypeOK /\ Climbs /\ KernelOrder /\ [Next]_vars => Climbs'
<1> SUFFICES ASSUME TypeOK, Climbs, KernelOrder, [Next]_vars PROVE Climbs'
  OBVIOUS
<1>1. ASSUME NEW t \in Pair, CasLinks(t) PROVE Climbs'
  <2>1. /\ leftRoot[t].x \in Index /\ pos[t] \in Index
        /\ High(t) \in Index /\ Low(t) \in Index /\ Link(t).next = Low(t)
    BY DEF TypeOK, Found, High, Low, Beyond, Link
  <2>2. Low(t) <= High(t)
    BY <2>1 DEF High, Low, Beyond, Index
  <2>3. /\ \A x \in Index : parents'[x] = IF x = High(t) THEN Link(t) ELSE parents[x]
        /\ root' = root /\ \A x \in Index : root[x].x = x
    BY <1>1 DEF CasLinks, TypeOK, KernelOrder
  <2>4. \A x \in Index : parents'[x].next \in Index
    BY <2>1, <2>3 DEF TypeOK, Entry
  <2> QED
    BY <2>1, <2>2, <2>3, <2>4 DEF Climbs
<1>2. CASE Ascend
  <2>1. \A x \in Index : /\ root[x].x \in Index /\ parents[x].next \in Index
                         /\ root'[x].x = parents[root[x].x].next
    BY <1>2 DEF Ascend, TypeOK, Found, Entry
  <2>2. parents' = parents
    BY <1>2 DEF Ascend, shared
  <2>3. ASSUME NEW x \in Index
        PROVE  /\ root'[x].x <= x
               /\ root'[parents[x].next].x = parents[root'[x].x].next
    <3>1. parents[root[x].x].next <= root[x].x /\ root[x].x <= x
      BY <2>1 DEF Climbs
    <3>2. root'[x].x <= x
      BY <2>1, <3>1 DEF Index
    <3>3. root'[parents[x].next].x = parents[root[parents[x].next].x].next
      BY <2>1
    <3> QED
      BY <2>1, <3>2, <3>3 DEF Climbs
  <2> QED
    BY <2>2, <2>3 DEF Climbs
<1>3. ASSUME NEW t \in Pair, Find(t) \/ CasFails(t) PROVE Climbs'
  BY <1>3 DEF Find, CasFails, shared, Climbs
<1>4. CASE Barrier \/ FoundRoots \/ Orient \/ Route \/ UNCHANGED vars
  BY <1>4 DEF Barrier, FoundRoots, Orient, Route, vars, shared, Climbs
<1> QED
  BY <1>1, <1>2, <1>3, <1>4 DEF Next

LEMMA StepOrder == TypeOK /\ KernelOrder /\ [Next]_vars => KernelOrder'
<1> SUFFICES ASSUME TypeOK, KernelOrder, [Next]_vars PROVE KernelOrder'
  OBVIOUS
<1>1. ASSUME NEW t \in Pair, Find(t) \/ CasFails(t) \/ CasLinks(t)
      PROVE  KernelOrder'
  <2>1. /\ stage = "join" /\ stage' = "join" /\ inverse' = inverse
        /\ permutation' = permutation /\ root' = root /\ flips' = flips
    BY <1>1 DEF Find, CasFails, CasLinks, shared
  <2> QED
    BY <2>1 DEF KernelOrder
<1>2. CASE Barrier
  BY <1>2 DEF Barrier, KernelOrder, shared, thread
<1>3. CASE Ascend
  BY <1>3 DEF Ascend, KernelOrder, shared, thread
<1>4. CASE FoundRoots
  BY <1>4 DEF FoundRoots, KernelOrder, shared, thread, AtRoots
<1>5. CASE Orient
  <2>1. /\ stage = "orient" /\ stage' = "route" /\ inverse' = inverse
        /\ permutation' = permutation /\ root' = root /\ parents' = parents
        /\ pc' = pc /\ AtRoots
    BY <1>5 DEF Orient, KernelOrder, thread
  <2>2. \A x \in Index : flips[x] = 0
    BY <2>1 DEF KernelOrder
  <2>3. /\ Unpaired \in Index /\ inverse[Unpaired] \in Index
        /\ root[Unpaired].x \in Index /\ root[inverse[Unpaired]].x \in Index
    BY IndexFacts DEF TypeOK, Found
  <2>4. ASSUME NEW x \in Index
        PROVE  flips'[x] = IF Odd /\ x = root[inverse[Unpaired]].x
                           THEN root[inverse[Unpaired]].y
                           ELSE IF Odd /\ x = root[Unpaired].x THEN root[Unpaired].y ELSE 0
    <3>1. CASE Odd
      BY <1>5, <2>2, <2>3, <3>1 DEF Orient, OddFlips, TypeOK
    <3>2. CASE ~Odd
      BY <1>5, <2>2, <3>2 DEF Orient
    <3> QED
      BY <3>1, <3>2
  <2> QED
    BY <2>1, <2>4 DEF KernelOrder, AtRoots
<1>6. CASE Route
  <2>1. /\ stage = "route" /\ stage' = "done" /\ inverse' = inverse
        /\ permutation' = permutation /\ root' = root /\ parents' = parents
        /\ pc' = pc /\ flips' = flips /\ colors' = [x \in Index |-> Branch(x)]
    BY <1>6 DEF Route, thread
  <2> QED
    BY <2>1 DEF KernelOrder, AtRoots, Branch
<1>7. CASE UNCHANGED vars
  BY <1>7 DEF vars, shared, thread, KernelOrder, AtRoots, Branch
<1> QED
  BY <1>1, <1>2, <1>3, <1>4, <1>5, <1>6, <1>7 DEF Next

\* The invariant of the kernels.
Inv == TypeOK /\ ParityAgrees /\ JoinsHold /\ Climbs /\ KernelOrder

LEMMA AlwaysInv == Spec => []Inv
<1>1. Init => Inv
  BY InitType, InitParity, InitJoins, InitOrder DEF Inv
<1>2. Inv /\ [Next]_vars => Inv'
  BY StepType, StepParity, StepJoins, StepClimbs, StepOrder DEF Inv
<1> QED
  BY <1>1, <1>2, PTL DEF Spec

-----------------------------------------------------------------------------
(* The colouring the kernels choose is the canonical one. *)

\* With the roots found, a constraint's ends have one root.
LEMMA EndsShareRoot ==
  ASSUME Inv, stage = "done", NEW t \in Pair, NEW n \in {1, 2}
  PROVE  root[LeftEnd(inverse, t, n)].x = root[RightEnd(inverse, t, n)].x
<1> DEFINE l == LeftEnd(inverse, t, n)
           r == RightEnd(inverse, t, n)
           f == [x \in Index |-> IF root[x].x = root[l].x THEN 1 ELSE 0]
<1>1. l \in Index /\ r \in Index
  BY EndType DEF Inv, TypeOK
<1>2. f \in Colorings
  BY DEF Colorings, Bit
<1>3. \A x \in Index : parents[x].next \in Index /\ root[x].x \in Index
  BY DEF Inv, TypeOK, Entry, Found
<1>4. \A x \in Index : root[parents[x].next].x = root[x].x
  BY <1>3 DEF Inv, Climbs, KernelOrder, AtRoots
<1>5. ConstantOnTrees(f)
  BY <1>3, <1>4 DEF ConstantOnTrees
<1>6. HasJoined(t, n)
  BY DEF Inv, KernelOrder, HasJoined
<1>7. f[l] = f[r]
  BY <1>2, <1>5, <1>6 DEF Inv, JoinsHold, EndsMeet
<1> QED
  BY <1>1, <1>7

\* Two values have one root exactly if they are tied: the values with some root
\* can be recoloured together.
LEMMA RootsAreGroups ==
  ASSUME Inv, stage = "done", NEW i \in Index, NEW j \in Index
  PROVE  Tied(ProperColorings(inverse), i, j) <=> root[i].x = root[j].x
<1>1. \A x \in Index : root[x].x \in Index /\ root[x].y \in Bit
  BY DEF Inv, TypeOK, Found
<1>2. ASSUME root[i].x = root[j].x PROVE Tied(ProperColorings(inverse), i, j)
  <2>1. ASSUME NEW c \in ProperColorings(inverse)
        PROVE  Xor(c[i], c[j]) = Xor(root[i].y, root[j].y)
    <3>1. /\ c[i] = Xor(root[i].y, c[root[i].x])
          /\ c[j] = Xor(root[j].y, c[root[i].x])
          /\ c[root[i].x] \in Bit
      BY <1>1, <1>2 DEF ProperColorings, Inv, ParityAgrees, RootsAgree, Colorings
    <3>2. \A x, y, z \in Bit : Xor(Xor(x, z), Xor(y, z)) = Xor(x, y)
      BY DEF Xor, Bit
    <3> QED
      BY <1>1, <3>1, <3>2
  <2> QED
    BY <1>1, <2>1, XorType DEF Tied
<1>3. ASSUME Tied(ProperColorings(inverse), i, j), root[i].x # root[j].x PROVE FALSE
  <2>1. permutation \in Permutations /\ inverse = InverseOf(permutation)
    BY DEF Inv, TypeOK, KernelOrder
  <2>2. PICK c \in Colorings : Proper(inverse, c)
    BY <2>1, ProperExists
  <2> DEFINE d == [x \in Index |-> IF root[x].x = root[i].x THEN 1 - c[x] ELSE c[x]]
  <2>3. \A x \in Index : c[x] \in {0, 1}
    BY DEF Colorings, Bit
  <2>4. d \in Colorings
    BY <2>3 DEF Colorings, Bit
  <2>5. \A x \in Index : d[x] = IF root[x].x = root[i].x THEN 1 - c[x] ELSE c[x]
    OBVIOUS
  <2> HIDE DEF d
  <2>6. ASSUME NEW t \in Pair, NEW n \in {1, 2}
        PROVE  d[LeftEnd(inverse, t, n)] # d[RightEnd(inverse, t, n)]
    <3> DEFINE l == LeftEnd(inverse, t, n)
               r == RightEnd(inverse, t, n)
    <3>1. l \in Index /\ r \in Index /\ root[l].x = root[r].x /\ c[l] # c[r]
      BY <2>2, EndType, EndsShareRoot DEF Proper, Inv, TypeOK
    <3> HIDE DEF l, r
    <3>2. d[l] # d[r]
      BY <2>3, <2>5, <3>1
    <3> QED
      BY <3>2 DEF l, r
  <2>7. c \in ProperColorings(inverse) /\ d \in ProperColorings(inverse)
    BY <2>2, <2>4, <2>6 DEF ProperColorings, Proper
  <2>8. c[i] = c[j] <=> d[i] = d[j]
    BY <1>3, <2>7, TiedColors DEF ProperColorings
  <2> QED
    BY <1>3, <2>3, <2>5, <2>8
<1> QED
  BY <1>2, <1>3

\* The colour of a value is its parity to its root, turned if the root is that
\* of an odd end.
LEMMA ColorsOfRoots ==
  ASSUME Inv, stage = "done"
  PROVE  /\ \A i, j \in Index : root[i].x = root[j].x =>
              Xor(colors[i], colors[j]) = Xor(root[i].y, root[j].y)
         /\ \A e \in OddEnds(inverse) : colors[e] = 0
         /\ \A i \in Index :
              (\A e \in OddEnds(inverse) : root[i].x # root[e].x) => colors[i] = root[i].y
<1>1. \A x \in Index : root[x].x \in Index /\ root[x].y \in Bit /\ flips[x] \in Bit
  BY DEF Inv, TypeOK, Found
<1>2. \A x \in Index : colors[x] = Xor(root[x].y, flips[root[x].x])
  BY DEF Inv, KernelOrder, Branch
<1>3. /\ permutation \in Permutations /\ inverse = InverseOf(permutation)
      /\ inverse \in [Index -> Index] /\ Unpaired \in Index
  BY IndexFacts DEF Inv, TypeOK, KernelOrder
<1>4. ASSUME NEW i \in Index, NEW j \in Index, root[i].x = root[j].x
      PROVE  Xor(colors[i], colors[j]) = Xor(root[i].y, root[j].y)
  <2>1. \A x, y, z \in Bit : Xor(Xor(x, z), Xor(y, z)) = Xor(x, y)
    BY DEF Xor, Bit
  <2>2. colors[j] = Xor(root[j].y, flips[root[i].x])
    BY <1>2, <1>4
  <2> QED
    BY <1>1, <1>2, <2>1, <2>2
<1>5. ASSUME NEW e \in OddEnds(inverse) PROVE colors[e] = 0
  <2> DEFINE a == Unpaired
             b == inverse[Unpaired]
  <2>1. Odd /\ a \in Index /\ b \in Index /\ e \in {a, b}
    BY <1>3, <1>5 DEF OddEnds
  <2>2. PICK c \in Colorings : Proper(inverse, c)
    BY <1>3, ProperExists
  <2>3. c[a] = c[b]
    BY <1>3, <2>1, <2>2, OddEndsAgree
  <2>4. Tied(ProperColorings(inverse), a, b)
    <3>1. \A d \in ProperColorings(inverse) : Xor(d[a], d[b]) = 0
      BY <1>3, <2>1, OddEndsAgree DEF ProperColorings, Xor
    <3> QED
      BY <3>1 DEF Tied, Bit
  <2>5. root[a].x = root[b].x
    BY <2>1, <2>4, RootsAreGroups
  <2>6. root[a].y = root[b].y
    <3>1. c[a] = Xor(root[a].y, c[root[a].x]) /\ c[b] = Xor(root[b].y, c[root[b].x])
      BY <2>1, <2>2 DEF Inv, ParityAgrees, RootsAgree
    <3>2. \A x, y, z \in Bit : Xor(x, z) = Xor(y, z) => x = y
      BY DEF Xor, Bit
    <3>3. c[root[a].x] \in Bit /\ root[a].y \in Bit /\ root[b].y \in Bit
      BY <1>1, <2>1 DEF Colorings
    <3>4. Xor(root[a].y, c[root[a].x]) = Xor(root[b].y, c[root[a].x])
      BY <2>3, <2>5, <3>1
    <3> QED
      BY <3>2, <3>3, <3>4
  <2>7. flips[root[e].x] = root[b].y
    BY <1>1, <2>1, <2>5 DEF Inv, KernelOrder
  <2>8. root[e].y = root[b].y
    BY <2>1, <2>6
  <2> QED
    BY <1>1, <1>2, <2>1, <2>7, <2>8, XorGroup
<1>6. ASSUME NEW i \in Index, \A e \in OddEnds(inverse) : root[i].x # root[e].x
      PROVE  colors[i] = root[i].y
  <2>1. flips[root[i].x] = 0
    BY <1>1, <1>6 DEF OddEnds, Inv, KernelOrder
  <2> QED
    BY <1>1, <1>2, <2>1, XorGroup
<1> QED
  BY <1>4, <1>5, <1>6

LEMMA ColorsAreCanonical ==
  ASSUME Inv, stage = "done"
  PROVE  IsCanonical(inverse, colors)
<1> DEFINE S == ProperColorings(inverse)
<1>1. /\ permutation \in Permutations /\ inverse = InverseOf(permutation)
      /\ inverse \in [Index -> Index] /\ colors \in Colorings
  BY DEF Inv, TypeOK, KernelOrder, Colorings
<1>2. PICK c \in Colorings : Proper(inverse, c)
  BY <1>1, ProperExists
<1>3. \A x \in Index : /\ root[x].x \in Index /\ root[x].y \in Bit /\ colors[x] \in Bit
                       /\ c[x] \in Bit /\ c[x] = Xor(root[x].y, c[root[x].x])
  BY <1>1, <1>2 DEF Inv, TypeOK, Found, ParityAgrees, RootsAgree, Colorings
<1>4. Proper(inverse, colors)
  <2> SUFFICES ASSUME NEW t \in Pair, NEW n \in {1, 2}
               PROVE  colors[LeftEnd(inverse, t, n)] # colors[RightEnd(inverse, t, n)]
    BY DEF Proper
  <2> DEFINE l == LeftEnd(inverse, t, n)
             r == RightEnd(inverse, t, n)
  <2>1. l \in Index /\ r \in Index /\ root[l].x = root[r].x /\ c[l] # c[r]
    BY <1>1, <1>2, EndType, EndsShareRoot DEF Proper
  <2> HIDE DEF l, r
  <2>2. root[l].y # root[r].y
    BY <1>3, <2>1
  <2>3. Xor(colors[l], colors[r]) = Xor(root[l].y, root[r].y)
    BY <2>1, ColorsOfRoots
  <2>4. colors[l] # colors[r]
    BY <1>3, <2>1, <2>2, <2>3, XorGroup
  <2> QED
    BY <2>4 DEF l, r
<1>5. ASSUME NEW i \in Leaders(inverse, S) PROVE colors[i] = 0
  <2>1. CASE i \in OddEnds(inverse)
    BY <2>1, ColorsOfRoots
  <2>2. CASE i \notin OddEnds(inverse)
    <3>1. /\ i \in Index
          /\ \A e \in OddEnds(inverse) : ~Tied(S, i, e)
          /\ \A j \in Index : j < i => ~Tied(S, i, j)
      BY <2>2 DEF Leaders
    <3>2. \A e \in OddEnds(inverse) : root[i].x # root[e].x
      BY <1>1, <3>1, OddEndFacts, RootsAreGroups
    <3> DEFINE top == root[i].x
    <3>3. top \in Index /\ top <= i
      BY <1>3, <3>1 DEF Inv, Climbs
    <3>4. root[top].x = top
      <4>1. parents[top].next = top
        BY <3>1 DEF Inv, KernelOrder, AtRoots
      <4>2. root[top].x <= top /\ root[parents[top].next].x = parents[root[top].x].next
        BY <3>3 DEF Inv, Climbs
      <4>3. Tied(S, i, root[top].x)
        <5>1. c \in S /\ Tied(S, i, top) /\ Tied(S, top, root[top].x)
          <6>1. \A x \in Index : Tied(S, x, root[x].x)
            <7> SUFFICES ASSUME NEW x \in Index PROVE Tied(S, x, root[x].x)
              OBVIOUS
            <7>1. \A d \in S : Xor(d[x], d[root[x].x]) = root[x].y
              <8> SUFFICES ASSUME NEW d \in S PROVE Xor(d[x], d[root[x].x]) = root[x].y
                OBVIOUS
              <8>1. d[x] = Xor(root[x].y, d[root[x].x]) /\ d[root[x].x] \in Bit
                BY <1>3 DEF ProperColorings, Inv, ParityAgrees, RootsAgree, Colorings
              <8>2. \A y, z \in Bit : Xor(Xor(y, z), z) = y
                BY DEF Xor, Bit
              <8> QED
                BY <1>3, <8>1, <8>2
            <7> QED
              BY <1>3, <7>1 DEF Tied
          <6> QED
            BY <1>2, <3>1, <3>3, <6>1 DEF ProperColorings
        <5>2. S \in SUBSET Colorings
          BY DEF ProperColorings
        <5>3. root[top].x \in Index
          BY <1>3, <3>3
        <5> QED
          BY <3>1, <3>3, <5>1, <5>2, <5>3, TiedEquivalence
      <4>4. ~(root[top].x < i)
        BY <1>3, <3>1, <3>3, <4>3
      <4> HIDE DEF top
      <4>5. root[top].x \in Index
        BY <1>3, <3>3
      <4> QED
        BY <3>1, <3>3, <4>2, <4>4, <4>5 DEF Index
    <3>5. top = i
      <4>1. Tied(S, i, top)
        BY <3>1, <3>3, <3>4, RootsAreGroups
      <4>2. ~(top < i)
        BY <3>1, <3>3, <4>1
      <4> QED
        BY <3>1, <3>3, <4>2 DEF Index
    <3>6. c[i] = Xor(root[i].y, c[i])
      BY <1>3, <3>1, <3>5
    <3>7. root[i].y = 0
      <4>1. \A y, z \in Bit : z = Xor(y, z) => y = 0
        BY DEF Xor, Bit
      <4> QED
        BY <1>3, <3>1, <3>6, <4>1
    <3> QED
      BY <3>1, <3>2, <3>7, ColorsOfRoots
  <2> QED
    BY <2>1, <2>2
<1> QED
  BY <1>1, <1>4, <1>5 DEF IsCanonical
-----------------------------------------------------------------------------
(* What the kernels hand on. *)

\* The threads of compact_route write every slot of both children once, and what
\* they write are two permutations.
THEOREM ChildrenAlwaysSplit == Spec => []ChildrenArePermutations
<1>1. Inv => ChildrenArePermutations
  <2> SUFFICES ASSUME Inv, stage = "done" PROVE IsSplit(Routed)
    BY DEF ChildrenArePermutations
  <2>1. permutation \in Permutations /\ inverse = InverseOf(permutation)
    BY DEF Inv, TypeOK, KernelOrder
  <2>2. colors \in Colorings /\ Proper(inverse, colors)
    BY ColorsAreCanonical DEF IsCanonical
  <2> QED
    BY <2>1, <2>2, ColorsOfRoots, ProperSplits DEF Routed
<1> QED
  BY <1>1, AlwaysInv, PTL

\* The end of the kernels: one answer, the canonical one.
Answered ==
  stage = "done" => /\ Answers = {colors}
                    /\ IsCanonical(InverseOf(permutation), colors)

\* The switch bits of either side describe the colouring the children get.
LEMMA AlwaysAnswered == Spec => []Answered
<1>1. Inv => Answered
  <2> SUFFICES ASSUME Inv, stage = "done"
               PROVE  Answers = {colors} /\ IsCanonical(InverseOf(permutation), colors)
    BY DEF Answered
  <2> DEFINE id == [i \in Index |-> i]
  <2>1. /\ permutation \in Permutations /\ permutation \in [Index -> Index]
        /\ inverse = InverseOf(permutation) /\ inverse \in [Index -> Index]
        /\ \A i \in Index : inverse[permutation[i]] = i
    BY InverseType DEF Inv, TypeOK, KernelOrder, Permutations
  <2>2. IsCanonical(inverse, colors)
    BY ColorsAreCanonical
  <2>3. /\ colors \in Colorings
        /\ \A k \in Pair : /\ colors[2 * k] # colors[2 * k + 1]
                           /\ colors[inverse[2 * k]] # colors[inverse[2 * k + 1]]
        /\ Odd => colors[Unpaired] = 0 /\ colors[inverse[Unpaired]] = 0
    BY <2>2, ColorsOfRoots DEF IsCanonical, Proper, LeftEnd, RightEnd, OddEnds
  <2>4. Decoded(InputBits, id) = colors
    <3>1. id \in [Index -> Index] /\ \A i \in Index : id[i] = i
      OBVIOUS
    <3>2. \A k \in Pair : InputBits[k] = colors[2 * k]
      BY DEF InputBits
    <3> HIDE DEF id
    <3>3. /\ \A k \in Pair : colors[id[2 * k]] # colors[id[2 * k + 1]]
          /\ Odd => colors[id[Unpaired]] = 0
          /\ \A k \in Pair : InputBits[k] = colors[id[2 * k]]
          /\ \A i \in Index : id[id[i]] = i
      BY <2>3, <3>1, <3>2, IndexFacts
    <3> QED
      BY <2>3, <3>1, <3>3, DecodedIsColoring
  <2>5. Decoded(OutputBits, permutation) = colors
    <3>1. \A k \in Pair : OutputBits[k] = colors[inverse[2 * k]]
      BY DEF OutputBits
    <3> QED
      BY <2>1, <2>3, <3>1, DecodedIsColoring
  <2> QED
    BY <2>1, <2>2, <2>4, <2>5 DEF Answers
<1> QED
  BY <1>1, AlwaysInv, PTL

\* The abstract specification speaks of the same colourings.
LEMMA SameCanonical ==
  /\ Coloring!Colorings = Colorings
  /\ \A p, c : Coloring!IsCanonical(Coloring!InverseOf(p), c) <=> IsCanonical(InverseOf(p), c)
<1>1. Coloring!Colorings = Colorings
  BY DEF Coloring!Colorings, Coloring!Index, Coloring!Bit, Colorings, Index, Bit
<1>2. ASSUME NEW p PROVE Coloring!InverseOf(p) = InverseOf(p)
  BY DEF Coloring!InverseOf, Coloring!Index, InverseOf, Index
<1>3. ASSUME NEW v, NEW c PROVE Coloring!Proper(v, c) <=> Proper(v, c)
  BY DEF Coloring!Proper, Coloring!LeftEnd, Coloring!RightEnd, Coloring!Pair,
         Proper, LeftEnd, RightEnd, Pair
<1>4. ASSUME NEW v PROVE Coloring!ProperColorings(v) = ProperColorings(v)
  BY <1>1, <1>3 DEF Coloring!ProperColorings, ProperColorings
<1>5. ASSUME NEW v, NEW S PROVE Coloring!Leaders(v, S) = Leaders(v, S)
  BY DEF Coloring!Leaders, Coloring!OddEnds, Coloring!Tied, Coloring!Odd, Coloring!Unpaired,
         Coloring!Index, Coloring!Bit, Coloring!Xor,
         Leaders, OddEnds, Tied, Odd, Unpaired, Index, Bit, Xor
<1>6. ASSUME NEW p, NEW c
      PROVE  Coloring!IsCanonical(Coloring!InverseOf(p), c) <=> IsCanonical(InverseOf(p), c)
  BY <1>1, <1>2, <1>3, <1>4, <1>5 DEF Coloring!IsCanonical, IsCanonical
<1> QED
  BY <1>1, <1>6

\* The kernels implement NodeColoring: whatever the interleaving, they end with
\* the canonical colouring, the one every other encoder has to choose.
THEOREM KernelsAreCanonical == Spec => ImplementsNodeColoring
<1>1. Init => Coloring!Init
  BY DEF Init, Coloring!Init
<1>2. Inv /\ Answered /\ Answered' /\ Inv' /\ [Next]_vars =>
        [Coloring!Next]_<<permutation, IF stage = "done" THEN Answers ELSE {}>>
  <2> SUFFICES ASSUME Inv, Answered, Answered', Inv', [Next]_vars
               PROVE  [Coloring!Next]_<<permutation, IF stage = "done" THEN Answers ELSE {}>>
    OBVIOUS
  <2>1. permutation' = permutation
    BY DEF Next, vars, shared, Find, CasLinks, CasFails, Barrier, Ascend, FoundRoots, Orient, Route
  <2>2. CASE Route
    <3>1. stage # "done" /\ stage' = "done" /\ Answers' = {colors'}
          /\ IsCanonical(InverseOf(permutation), colors')
      BY <2>1, <2>2 DEF Route, Answered
    <3>2. colors' \in Coloring!Colorings
          /\ Coloring!IsCanonical(Coloring!InverseOf(permutation), colors')
      BY <3>1, SameCanonical DEF IsCanonical
    <3> QED
      BY <2>1, <3>1, <3>2 DEF Coloring!Next, Coloring!Choose
  <2>3. CASE UNCHANGED vars
    <3>1. colors' = colors /\ stage' = stage
      BY <2>3 DEF vars, shared
    <3> QED
      BY <2>1, <3>1 DEF Answered
  <2>4. CASE \/ \E t \in Pair : Find(t) \/ CasLinks(t) \/ CasFails(t)
             \/ Barrier \/ Ascend \/ FoundRoots \/ Orient
    <3>1. stage # "done" /\ stage' # "done"
      BY <2>4 DEF Find, CasLinks, CasFails, Barrier, Ascend, FoundRoots, Orient
    <3> QED
      BY <2>1, <3>1
  <2> QED
    BY <2>2, <2>3, <2>4 DEF Next
<1> QED
  BY <1>1, <1>2, AlwaysInv, AlwaysAnswered, PTL DEF Spec, ImplementsNodeColoring, Coloring!Spec

-----------------------------------------------------------------------------
(***************************************************************************)
(* On Metal an entry of the parents array may be two words and a lock.     *)
(* They are one atomic entry for every set of threads and groups, all      *)
(* words, and any requests.                                                *)
(***************************************************************************)

Records == [request : Requests, ended : BOOLEAN, result : Values]

LockTypes ==
  /\ words \in Values
  /\ lock \in {0, 1}
  /\ pending \in [Threads -> SUBSET {"low", "high", "lock"}]
  /\ known \in [Threads -> Values]
  /\ read \in [Threads -> Values]
  /\ at \in [Threads -> {"idle", "spin", "acquired", "load", "compare", "stored"}]
  /\ call \in [Threads -> Records]
  /\ calls \in Nat

\* A thread has the lock until its last store has reached memory.
Holder(t) ==
  at[t] \in {"acquired", "load", "compare", "stored"} \/ "lock" \in pending[t]

LockIsTaken == \A t \in Threads : Holder(t) => lock = 1
OneHolder   == \A t, u \in Threads : Holder(t) /\ Holder(u) => t = u

\* The words are stored by swaps that succeeded, and the lock behind them.
StoresInOrder ==
  \A t \in Threads :
    /\ ("low" \in pending[t] \/ "high" \in pending[t]) =>
         at[t] = "stored" /\ call[t].request.op = "swap"
    /\ "lock" \in pending[t] => at[t] \in {"idle", "spin"}

\* Behind the first fence a thread knows the words in memory and no older ones.
KnownIsNewest ==
  \A t \in Threads :
    /\ at[t] \in {"load", "compare"} => known[t] = words
    /\ at[t] = "compare" => read[t].low = words.low

CallsMatch == \A t \in Threads : call[t].ended <=> at[t] \in {"idle", "stored"}

LockInv ==
  /\ LockTypes
  /\ LockIsTaken
  /\ OneHolder
  /\ StoresInOrder
  /\ KnownIsNewest
  /\ CallsMatch

-----------------------------------------------------------------------------
(* Facts about the data. *)

LEMMA PairOf ==
  ASSUME NEW v \in Values
  PROVE  /\ v = [low |-> v.low, high |-> v.high]
         /\ v.low \in Words /\ v.high \in Words
BY DEF Values

LEMMA HalfReplaced ==
  ASSUME NEW v \in Values, NEW r \in Values, NEW half \in {"low", "high"}
  PROVE  /\ [v EXCEPT ![half] = r[half]] \in Values
         /\ [v EXCEPT ![half] = r[half]][half] = r[half]
         /\ \A other \in {"low", "high"} \ {half} :
              [v EXCEPT ![half] = r[half]][other] = v[other]
BY DEF Values

LEMMA SwapArguments ==
  ASSUME NEW c \in Records, c.request.op = "swap"
  PROVE  c.request.expected \in Values /\ c.request.replacement \in Values
BY MetalAssumption DEF Records, MetalAssumption

\* A call that is asked.
LEMMA AskedCall ==
  ASSUME LockTypes, NEW t \in Threads, NEW r \in Requests
  PROVE  [call EXCEPT ![t].request = r, ![t].ended = FALSE] \in [Threads -> Records]
BY DEF LockTypes, Records

LEMMA InitLockInv == LockInit => LockInv
<1> SUFFICES ASSUME LockInit PROVE LockInv
  OBVIOUS
<1>1. PICK r \in Requests :
        call = [t \in Threads |-> [request |-> r, ended |-> TRUE, result |-> words]]
  BY DEF LockInit
<1>2. LockTypes
  BY <1>1 DEF LockInit, LockTypes, Records
<1>3. LockIsTaken /\ OneHolder /\ StoresInOrder
  BY DEF LockInit, LockIsTaken, OneHolder, StoresInOrder, Holder
<1>4. KnownIsNewest
  BY DEF LockInit, KnownIsNewest
<1>5. CallsMatch
  BY <1>1 DEF LockInit, CallsMatch
<1> QED
  BY <1>2, <1>3, <1>4, <1>5 DEF LockInv

-----------------------------------------------------------------------------
(* One lemma for every step. *)

LEMMA AskInv == ASSUME LockInv, NEW t \in Threads, Ask(t) PROVE LockInv'
<1> USE DEF LockInv
<1>1. PICK r \in Requests :
        call' = [call EXCEPT ![t].request = r, ![t].ended = FALSE]
  BY DEF Ask
<1>3. LockTypes'
  <2>1. call' \in [Threads -> Records]
    BY <1>1, AskedCall
  <2> QED
    BY <2>1 DEF LockTypes, Ask, Goes
<1>4. LockIsTaken' /\ OneHolder'
  BY DEF Ask, Goes, LockTypes, LockIsTaken, OneHolder, Holder
<1>5. StoresInOrder'
  BY <1>1 DEF Ask, Goes, LockTypes, StoresInOrder
<1>6. KnownIsNewest'
  BY DEF Ask, Goes, LockTypes, KnownIsNewest
<1>7. CallsMatch'
  BY <1>1 DEF Ask, Goes, LockTypes, Records, CallsMatch
<1> QED
  BY <1>3, <1>4, <1>5, <1>6, <1>7

LEMMA AcquireInv == ASSUME LockInv, NEW t \in Threads, Acquire(t) PROVE LockInv'
<1> USE DEF LockInv
<1>1. LockTypes'
  BY DEF Acquire, Goes, LockTypes
<1>2. \A u \in Threads : ~Holder(u)
  BY DEF Acquire, LockIsTaken
<1>3. LockIsTaken' /\ OneHolder'
  BY <1>2 DEF Acquire, Goes, LockTypes, LockIsTaken, OneHolder, Holder
<1>4. StoresInOrder'
  BY DEF Acquire, Goes, LockTypes, StoresInOrder
<1>5. KnownIsNewest' /\ CallsMatch'
  BY DEF Acquire, Goes, LockTypes, KnownIsNewest, CallsMatch
<1> QED
  BY <1>1, <1>3, <1>4, <1>5

LEMMA EnterInv == ASSUME LockInv, NEW t \in Threads, Enter(t) PROVE LockInv'
<1> USE DEF LockInv
<1>1. LockTypes'
  BY DEF Enter, Refreshed, Goes, LockTypes
<1>2. LockIsTaken' /\ OneHolder' /\ StoresInOrder'
  BY DEF Enter, Goes, LockTypes, LockIsTaken, OneHolder, StoresInOrder, Holder
<1>3. KnownIsNewest' /\ CallsMatch'
  BY DEF Enter, Refreshed, Goes, LockTypes, KnownIsNewest, CallsMatch
<1> QED
  BY <1>1, <1>2, <1>3

\* What a thread finds behind the first fence is what is in memory.
LEMMA FindsMemory ==
  ASSUME LockInv, NEW t \in Threads, at[t] \in {"load", "compare"},
         NEW half, NEW w \in Finds(t, half)
  PROVE  w = words[half]
BY DEF LockInv, KnownIsNewest, Finds

LEMMA LoadLowInv == ASSUME LockInv, NEW t \in Threads, LoadLow(t) PROVE LockInv'
<1> USE DEF LockInv
<1>1. read' = [read EXCEPT ![t].low = words.low]
  BY FindsMemory DEF LoadLow
<1>2. LockTypes'
  BY <1>1 DEF LoadLow, Goes, LockTypes, Values
<1>3. LockIsTaken' /\ OneHolder' /\ StoresInOrder'
  BY DEF LoadLow, Goes, LockTypes, LockIsTaken, OneHolder, StoresInOrder, Holder
<1>4. KnownIsNewest'
  BY <1>1 DEF LoadLow, Goes, LockTypes, Values, KnownIsNewest
<1>5. CallsMatch'
  BY DEF LoadLow, Goes, LockTypes, CallsMatch
<1> QED
  BY <1>2, <1>3, <1>4, <1>5

\* A call takes effect on the words in memory.
LEMMA ComparesMemory ==
  ASSUME LockInv, NEW t \in Threads, Compare(t)
  PROVE  /\ read' = [read EXCEPT ![t] = words]
         /\ call' = [call EXCEPT ![t].ended = TRUE, ![t].result = words]
         /\ \E stores \in {{}, {"low", "high"}} :
              /\ pending' = [pending EXCEPT ![t] = stores]
              /\ stores # {} <=> Atomic!Succeeds(call[t].request, words)
<1>1. [read[t] EXCEPT !.high = words.high] = words
  BY DEF LockInv, Compare, KnownIsNewest, LockTypes, Values
<1>2. /\ read' = [read EXCEPT ![t] = words]
      /\ call' = [call EXCEPT ![t].ended = TRUE, ![t].result = words]
      /\ pending' = [pending EXCEPT ![t] =
           IF Atomic!Succeeds(call[t].request, words) THEN {"low", "high"} ELSE {}]
  BY <1>1, FindsMemory DEF Compare
<1>3. CASE Atomic!Succeeds(call[t].request, words)
  <2>1. pending' = [pending EXCEPT ![t] = {"low", "high"}]
    BY <1>2, <1>3, Zenon
  <2> QED
    BY <1>2, <1>3, <2>1
<1>4. CASE ~Atomic!Succeeds(call[t].request, words)
  <2>1. pending' = [pending EXCEPT ![t] = {}]
    BY <1>2, <1>4, Zenon
  <2> QED
    BY <1>2, <1>4, <2>1
<1> QED
  BY <1>3, <1>4

LEMMA CompareInv == ASSUME LockInv, NEW t \in Threads, Compare(t) PROVE LockInv'
<1>1. /\ read' = [read EXCEPT ![t] = words]
      /\ call' = [call EXCEPT ![t].ended = TRUE, ![t].result = words]
  BY ComparesMemory
<1>2. PICK stores \in {{}, {"low", "high"}} :
        /\ pending' = [pending EXCEPT ![t] = stores]
        /\ stores # {} <=> Atomic!Succeeds(call[t].request, words)
  BY ComparesMemory
<1> USE DEF LockInv
<1>3. /\ call' \in [Threads -> Records]
      /\ call'[t].ended
      /\ \A u \in Threads : call'[u].request = call[u].request
      /\ \A u \in Threads \ {t} : call'[u] = call[u]
  BY <1>1 DEF LockTypes, Records
<1>4. LockTypes'
  BY <1>1, <1>2, <1>3 DEF Compare, Goes, LockTypes
<1>5. \A u \in Threads : Holder(u)' => Holder(u)
  BY <1>2 DEF Compare, Goes, LockTypes, Holder
<1>6. LockIsTaken' /\ OneHolder'
  BY <1>5 DEF Compare, LockIsTaken, OneHolder
<1>7. StoresInOrder'
  BY <1>2, <1>3 DEF Compare, Goes, LockTypes, StoresInOrder, Atomic!Succeeds
<1>8. KnownIsNewest'
  BY <1>1 DEF Compare, Goes, LockTypes, KnownIsNewest
<1>9. CallsMatch'
  BY <1>3 DEF Compare, Goes, LockTypes, CallsMatch
<1> QED
  BY <1>4, <1>6, <1>7, <1>8, <1>9

LEMMA LeaveInv == ASSUME LockInv, NEW t \in Threads, Leave(t) PROVE LockInv'
<1> USE DEF LockInv
<1>1. LockTypes'
  BY DEF Leave, Unlocks, Refreshed, Goes, LockTypes
<1>2. LockIsTaken' /\ OneHolder'
  BY DEF Leave, Unlocks, Goes, LockTypes, LockIsTaken, OneHolder, Holder
<1>3. StoresInOrder'
  BY DEF Leave, Unlocks, Goes, LockTypes, StoresInOrder
<1>4. KnownIsNewest' /\ CallsMatch'
  BY DEF Leave, Refreshed, Goes, LockTypes, KnownIsNewest, CallsMatch
<1> QED
  BY <1>1, <1>2, <1>3, <1>4

LEMMA ArriveInv == ASSUME LockInv, NEW t \in Threads, Arrive(t) PROVE LockInv'
<1> USE DEF LockInv
<1>1. PICK where \in pending[t] :
        /\ pending' = [pending EXCEPT ![t] = @ \ {where}]
        /\ IF where = "lock" THEN lock' = 0 /\ UNCHANGED words
           ELSE words' = [words EXCEPT ![where] = call[t].request.replacement[where]]
                /\ UNCHANGED lock
        /\ UNCHANGED <<known, read, at, call, calls>>
  BY DEF Arrive
<1>2. where \in {"low", "high", "lock"} /\ Holder(t)
  BY DEF LockTypes, StoresInOrder, Holder
<1>3. words' \in Values
  <2>1. CASE where = "lock"
    BY <1>1, <2>1 DEF LockTypes
  <2>2. CASE where # "lock"
    <3>1. call[t].request.replacement \in Values
      BY <1>2, <2>2, SwapArguments DEF LockTypes, StoresInOrder
    <3>2. words' = [words EXCEPT ![where] = call[t].request.replacement[where]]
      BY <1>1, <2>2
    <3>3. words \in Values /\ where \in {"low", "high"}
      BY <1>2, <2>2 DEF LockTypes
    <3> QED
      BY <3>1, <3>2, <3>3, HalfReplaced, Zenon
  <2> QED
    BY <2>1, <2>2
<1>4. LockTypes'
  <2>1. pending' \in [Threads -> SUBSET {"low", "high", "lock"}]
    BY <1>1 DEF LockTypes
  <2> QED
    BY <1>1, <1>3, <2>1 DEF LockTypes
<1>5. \A u \in Threads : Holder(u)' => Holder(u)
  BY <1>1 DEF LockTypes, Holder
<1>6. where = "lock" => ~Holder(t)'
  BY <1>1 DEF LockTypes, StoresInOrder, Holder
<1>7. LockIsTaken' /\ OneHolder'
  BY <1>1, <1>2, <1>5, <1>6 DEF LockIsTaken, OneHolder
<1>8. StoresInOrder' /\ CallsMatch'
  BY <1>1 DEF LockTypes, StoresInOrder, CallsMatch
<1>9. KnownIsNewest'
  <2>1. where # "lock" => \A u \in Threads : at[u] \notin {"load", "compare"}
    BY <1>2 DEF StoresInOrder, OneHolder, Holder
  <2> QED
    BY <1>1, <2>1 DEF KnownIsNewest
<1> QED
  BY <1>4, <1>7, <1>8, <1>9

LEMMA StepLockInv == LockInv /\ [LockNext]_lockVars => LockInv'
<1> SUFFICES ASSUME LockInv, [LockNext]_lockVars PROVE LockInv'
  OBVIOUS
<1>1. CASE UNCHANGED lockVars
  BY <1>1 DEF LockInv, lockVars, LockTypes, LockIsTaken, OneHolder, Holder, StoresInOrder,
              KnownIsNewest, CallsMatch
<1>2. CASE LockNext
  BY <1>2, AskInv, AcquireInv, EnterInv, LoadLowInv, CompareInv, LeaveInv, ArriveInv
     DEF LockNext, Step
<1> QED
  BY <1>1, <1>2

LEMMA AlwaysLockInv == LockSpec => []LockInv
BY InitLockInv, StepLockInv, PTL DEF LockSpec

-----------------------------------------------------------------------------
(* Every step is a step of the atomic entry, or none.                      *)

\* The entry as its threads see it when a half of it is on its way to memory,
\* and when none is.
LEMMA SettledPending ==
  ASSUME LockInv, NEW t \in Threads, NEW half \in {"low", "high"}, half \in pending[t]
  PROVE  Settled(half) = call[t].request.replacement[half]
<1>1. \A u \in Threads : half \in pending[u] => u = t
  BY DEF LockInv, StoresInOrder, OneHolder, Holder
<1> QED
  BY <1>1 DEF Settled

LEMMA SettledNone ==
  ASSUME NEW half, \A t \in Threads : half \notin pending[t]
  PROVE  Settled(half) = words[half]
BY DEF Settled

\* The same of the state that a step leads to.
LEMMA SettledPendingNext ==
  ASSUME LockInv', NEW t \in Threads, NEW half \in {"low", "high"}, half \in pending'[t]
  PROVE  Settled(half)' = call'[t].request.replacement[half]
<1>1. \A u \in Threads : half \in pending'[u] => u = t
  BY DEF LockInv, StoresInOrder, OneHolder, Holder
<1> QED
  BY <1>1 DEF Settled

LEMMA SettledNoneNext ==
  ASSUME NEW half, \A t \in Threads : half \notin pending'[t]
  PROVE  Settled(half)' = words'[half]
BY DEF Settled

\* A half is unchanged when neither its place in memory nor what is pending
\* for it changes.
LEMMA SettledStays ==
  ASSUME NEW half, UNCHANGED words,
         \A t \in Threads :
           /\ half \in pending'[t] <=> half \in pending[t]
           /\ half \in pending[t] => call'[t].request = call[t].request
  PROVE  Settled(half)' = Settled(half)
<1>1. CASE \E t \in Threads : half \in pending[t]
  <2>1. (CHOOSE u \in Threads : half \in pending'[u]) = (CHOOSE u \in Threads : half \in pending[u])
    OBVIOUS
  <2>2. PICK t \in Threads : t = CHOOSE u \in Threads : half \in pending[u]
    BY <1>1
  <2>3. half \in pending[t]
    BY <1>1, <2>2
  <2> QED
    BY <1>1, <2>1, <2>2, <2>3 DEF Settled
<1>2. CASE ~\E t \in Threads : half \in pending[t]
  BY <1>2 DEF Settled
<1> QED
  BY <1>1, <1>2

LEMMA AskRefines == ASSUME LockInv, NEW t \in Threads, Ask(t) PROVE Atomic!Ask(t)
<1>1. PICK r \in Requests :
        call' = [call EXCEPT ![t].request = r, ![t].ended = FALSE]
  BY DEF Ask
<1>2. call[t].ended
  BY DEF LockInv, CallsMatch, Ask
<1>3. ASSUME NEW half \in {"low", "high"} PROVE Settled(half)' = Settled(half)
  <2>1. half \notin pending[t]
    BY DEF LockInv, StoresInOrder, Ask
  <2> QED
    BY <1>1, <2>1, SettledStays DEF LockInv, LockTypes, Ask
<1> QED
  BY <1>1, <1>2, <1>3 DEF Atomic!Ask

LEMMA QuietRefines ==
  ASSUME LockInv, NEW t \in Threads, Acquire(t) \/ Enter(t) \/ LoadLow(t) \/ Leave(t)
  PROVE  UNCHANGED <<[low |-> Settled("low"), high |-> Settled("high")], call>>
<1>1. UNCHANGED <<words, call>>
  BY DEF Acquire, Enter, LoadLow, Leave
<1>2. ASSUME NEW half \in {"low", "high"}, NEW u \in Threads
      PROVE  half \in pending'[u] <=> half \in pending[u]
  BY DEF Acquire, Enter, LoadLow, Leave, Unlocks, LockInv, LockTypes
<1>3. ASSUME NEW half \in {"low", "high"} PROVE Settled(half)' = Settled(half)
  BY <1>1, <1>2, SettledStays
<1> QED
  BY <1>1, <1>3

LEMMA CompareRefines == ASSUME LockInv, NEW t \in Threads, Compare(t) PROVE Atomic!Take(t)
<1> DEFINE entry == [low |-> Settled("low"), high |-> Settled("high")]
<1>1. /\ call' = [call EXCEPT ![t].ended = TRUE, ![t].result = words]
      /\ call'[t].request = call[t].request
  <2>1. call' = [call EXCEPT ![t].ended = TRUE, ![t].result = words]
    BY ComparesMemory
  <2> QED
    BY <2>1 DEF LockInv, LockTypes, Records
<1>2. PICK stores \in {{}, {"low", "high"}} :
        /\ pending' = [pending EXCEPT ![t] = stores]
        /\ stores # {} <=> Atomic!Succeeds(call[t].request, words)
  BY ComparesMemory
<1>3. \A u \in Threads : "low" \notin pending[u] /\ "high" \notin pending[u]
  BY DEF LockInv, StoresInOrder, OneHolder, Holder, Compare
<1>4. words = entry
  BY <1>3, SettledNone, PairOf DEF LockInv, LockTypes
<1>5. LockInv'
  BY CompareInv
<1>6. CASE Atomic!Succeeds(call[t].request, words)
  <2>1. call[t].request.replacement \in Values
    BY <1>6, SwapArguments DEF Atomic!Succeeds, LockInv, LockTypes
  <2>2. "low" \in pending'[t] /\ "high" \in pending'[t]
    BY <1>6, <1>2 DEF LockInv, LockTypes
  <2>3. ASSUME NEW half \in {"low", "high"}
        PROVE  Settled(half)' = call[t].request.replacement[half]
    BY <1>1, <1>5, <2>2, SettledPendingNext
  <2>4. entry' = call[t].request.replacement
    BY <2>1, <2>3, PairOf
  <2> QED
    BY <1>1, <1>4, <1>6, <2>4 DEF Atomic!Take, LockInv, CallsMatch, Compare
<1>7. CASE ~Atomic!Succeeds(call[t].request, words)
  <2>1. \A u \in Threads : "low" \notin pending'[u] /\ "high" \notin pending'[u]
    BY <1>3, <1>7, <1>2 DEF LockInv, LockTypes
  <2>2. entry' = words'
    BY <1>5, <2>1, SettledNoneNext, PairOf DEF LockInv, LockTypes
  <2>3. words' = words
    BY DEF Compare
  <2> QED
    BY <1>4, <1>7, <2>2, <2>3, <1>1 DEF Atomic!Take, LockInv, CallsMatch, Compare
<1> QED
  BY <1>6, <1>7

LEMMA ArriveRefines ==
  ASSUME LockInv, NEW t \in Threads, Arrive(t)
  PROVE  UNCHANGED <<[low |-> Settled("low"), high |-> Settled("high")], call>>
<1>1. PICK where \in pending[t] :
        /\ pending' = [pending EXCEPT ![t] = @ \ {where}]
        /\ IF where = "lock" THEN lock' = 0 /\ UNCHANGED words
           ELSE words' = [words EXCEPT ![where] = call[t].request.replacement[where]]
                /\ UNCHANGED lock
        /\ UNCHANGED <<known, read, at, call, calls>>
  BY DEF Arrive
<1>2. where \in {"low", "high", "lock"}
  BY DEF LockInv, LockTypes
<1>3. \A u \in Threads : \A half \in {"low", "high"} \ {where} :
        half \in pending'[u] <=> half \in pending[u]
  BY <1>1 DEF LockInv, LockTypes
<1>4. ASSUME NEW half \in {"low", "high"} PROVE Settled(half)' = Settled(half)
  <2>1. CASE where = half
    <3>1. Settled(half) = call[t].request.replacement[half]
      BY <2>1, SettledPending
    <3>2. call[t].request.replacement \in Values /\ words \in Values
      BY <2>1, SwapArguments DEF LockInv, LockTypes, StoresInOrder
    <3>3. words' = [words EXCEPT ![half] = call[t].request.replacement[half]]
      BY <1>1, <2>1
    <3>4. words'[half] = call[t].request.replacement[half]
      BY <3>2, <3>3 DEF Values
    <3>5. \A u \in Threads : half \notin pending'[u]
      BY <1>1, <2>1 DEF LockInv, LockTypes, StoresInOrder, OneHolder, Holder
    <3>6. Settled(half)' = words'[half]
      BY <3>5, SettledNoneNext
    <3> QED
      BY <3>1, <3>4, <3>6
  <2>2. CASE where = "lock"
    BY <1>1, <1>3, <2>2, SettledStays
  <2>3. CASE where # half /\ where # "lock"
    <3>1. \A u \in Threads : half \in pending[u] => u = t
      BY <1>2, <2>3 DEF LockInv, StoresInOrder, OneHolder, Holder
    <3>2. call[t].request.replacement \in Values /\ words \in Values
      BY <1>2, <2>3, SwapArguments DEF LockInv, LockTypes, StoresInOrder
    <3>3. words' = [words EXCEPT ![where] = call[t].request.replacement[where]]
      BY <1>1, <2>3
    <3>4. where \in {"low", "high"} /\ half \in {"low", "high"} \ {where}
      BY <1>2, <2>3
    <3>5. words'[half] = words[half]
      BY <3>2, <3>3, <3>4, HalfReplaced
    <3>6. LockInv'
      BY ArriveInv
    <3>7. CASE half \in pending[t]
      BY <1>1, <1>3, <2>3, <3>6, <3>7, SettledPending, SettledPendingNext
    <3>8. CASE half \notin pending[t]
      BY <1>3, <2>3, <3>1, <3>5, <3>8, SettledNone, SettledNoneNext
    <3> QED
      BY <3>7, <3>8
  <2> QED
    BY <2>1, <2>2, <2>3
<1> QED
  BY <1>1, <1>4

LEMMA StepRefines ==
  LockInv /\ [LockNext]_lockVars =>
    [Atomic!Next]_<<[low |-> Settled("low"), high |-> Settled("high")], call>>
<1> SUFFICES ASSUME LockInv, [LockNext]_lockVars
             PROVE  [Atomic!Next]_<<[low |-> Settled("low"), high |-> Settled("high")], call>>
  OBVIOUS
<1>1. CASE UNCHANGED lockVars
  <2>1. ASSUME NEW half PROVE Settled(half)' = Settled(half)
    BY <1>1 DEF lockVars, Settled
  <2> QED
    BY <1>1, <2>1 DEF lockVars
<1>2. ASSUME NEW t \in Threads, Ask(t) PROVE Atomic!Next
  BY <1>2, AskRefines DEF Atomic!Next
<1>3. ASSUME NEW t \in Threads, Compare(t) PROVE Atomic!Next
  BY <1>3, CompareRefines DEF Atomic!Next
<1> QED
  BY <1>1, <1>2, <1>3, QuietRefines, ArriveRefines DEF LockNext, Step

LEMMA InitRefines == LockInit => Atomic!Init
<1> SUFFICES ASSUME LockInit PROVE Atomic!Init
  OBVIOUS
<1>1. words = [low |-> Settled("low"), high |-> Settled("high")]
  <2>1. \A half, t \in Threads : half \notin pending[t]
    BY DEF LockInit
  <2> QED
    BY <2>1, SettledNone, PairOf DEF LockInit
<1>2. call \in [Threads -> {c \in Atomic!Calls : c.ended}]
  BY DEF LockInit, Atomic!Calls
<1> QED
  BY <1>1, <1>2 DEF LockInit, Atomic!Init

\* The code between the exchange and the store that gives the lock back is run
\* by one thread at a time, and the lock is taken until its stores have arrived.
THEOREM OneThreadHolds == LockSpec => [](LockIsTaken /\ OneHolder)
BY AlwaysLockInv, PTL DEF LockInv

\* For every set of threads, groups and requests, the entry is atomic: each load
\* or swap takes effect at one moment between its start and its end.
THEOREM EntryIsAtomic == LockSpec => ImplementsAtomicEntry
<1>1. LockInit => Atomic!Init
  BY InitRefines
<1>2. LockInv /\ [LockNext]_lockVars =>
        [Atomic!Next]_<<[low |-> Settled("low"), high |-> Settled("high")], call>>
  BY StepRefines
<1> QED
  BY <1>1, <1>2, AlwaysLockInv, PTL DEF LockSpec, ImplementsAtomicEntry, Atomic!Spec
=============================================================================
