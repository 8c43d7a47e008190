------------------------------ MODULE UnionFind ------------------------------
(***************************************************************************)
(* The kernels that colour one node on a GPU: compact_initialize,          *)
(* compact_join_pairs, compact_orient_odd and compact_route, run one after *)
(* the other with a barrier between them.  In compact_join_pairs one       *)
(* thread per pair joins its two constraints in a lock-free union-find     *)
(* whose entries hold a parent and the parity of the colours of the entry  *)
(* and its parent.  A step of a thread is one access to shared memory.     *)
(*                                                                         *)
(* CUDA reads an entry by an atomic read-modify-write, and its             *)
(* compare-and-swap is strong.  Metal reads by a relaxed load, which may   *)
(* return the value the entry had before another thread changed it, and    *)
(* its compare-and-swap is weak: it may fail although the entry holds the  *)
(* expected value.  The kernels exist in five forms (CUDA for values of 32 *)
(* and 64 bits, Metal for 32, for 64 over 32-bit entries, and for 64 with  *)
(* a lock by MetalLock), which differ in the width of their words only.    *)
(***************************************************************************)
EXTENDS BenesNode

CONSTANTS Inputs,       \* the permutations offered
          RelaxedLoads, \* TRUE: a load may return an overwritten value
          WeakCas       \* TRUE: a compare-and-swap may fail spuriously

ASSUME InputsAssumption == Inputs \subseteq Permutations
ASSUME BackendAssumption == RelaxedLoads \in BOOLEAN /\ WeakCas \in BOOLEAN

VARIABLES
  permutation,  \* the node's values, never written
  inverse,      \* filled by compact_inverse before the joins
  stage,        \* the kernel that runs
  parents,      \* the union-find
  flips,        \* by root: the colour the root gets
  root,         \* what compact_find returns once the joins have ended
  colors,       \* the routing, once compact_route has run
  pc,           \* of each thread: what it does next
  number,       \* of each thread: the join it is at
  pos,          \* of each thread: the entry compact_find looks at
  par,          \* of each thread: the parity it has collected
  leftRoot,     \* of each thread: what the first compact_find returned
  seen          \* of each thread: the changed entries whose new value it read

shared == <<permutation, inverse, parents, flips, colors>>
thread == <<pc, number, pos, par, leftRoot, seen>>
vars   == <<shared, stage, root, thread>>

Self(x) == [next |-> x, parity |-> 0]
Entry   == [next : Index, parity : Bit]
Found   == [x : Index, y : Bit]         \* the uint2 compact_find returns

Left(t)  == LeftEnd(inverse, t, number[t])
Right(t) == RightEnd(inverse, t, number[t])

\* compact_inverse and compact_initialize have run.
Init ==
  /\ permutation \in Inputs
  /\ inverse = InverseOf(permutation)
  /\ stage = "join"
  /\ parents = [x \in Index |-> Self(x)]
  /\ flips = [x \in Index |-> 0]
  /\ root = [x \in Index |-> [x |-> x, y |-> 0]]
  /\ colors = [x \in Index |-> 0]
  /\ pc = [t \in Pair |-> "left"]
  /\ number = [t \in Pair |-> 1]
  /\ pos = [t \in Pair |-> LeftEnd(inverse, t, 1)]
  /\ par = [t \in Pair |-> 0]
  /\ leftRoot = [t \in Pair |-> [x |-> LeftEnd(inverse, t, 1), y |-> 0]]
  /\ seen = [t \in Pair |-> {}]

\* The values a load of entry x by thread t may return.  An entry changes at
\* most once, and a thread that has read the new value keeps reading it.
Loads(t, x) ==
  {parents[x]} \cup (IF RelaxedLoads /\ x \notin seen[t] THEN {Self(x)} ELSE {})

\* What a thread knows of entry x after it has read v from it.
SawEntry(t, x, v) ==
  seen' = [seen EXCEPT ![t] = IF RelaxedLoads /\ v # Self(x) THEN @ \cup {x} ELSE @]

\* compact_find moves on to the parent.
Climb(t, packed) ==
  /\ packed.next # pos[t]
  /\ pos' = [pos EXCEPT ![t] = packed.next]
  /\ par' = [par EXCEPT ![t] = Xor(@, packed.parity)]
  /\ UNCHANGED <<pc, number, leftRoot>>

\* The first compact_find of compact_join returns, the second begins.
FindLeft(t, packed) ==
  /\ packed.next = pos[t]
  /\ pc[t] = "left"
  /\ leftRoot' = [leftRoot EXCEPT ![t] =
                   [x |-> pos[t], y |-> Xor(par[t], packed.parity)]]
  /\ pc' = [pc EXCEPT ![t] = "right"]
  /\ pos' = [pos EXCEPT ![t] = Right(t)]
  /\ par' = [par EXCEPT ![t] = 0]
  /\ UNCHANGED number

\* compact_join returns: the thread turns to its other constraint or ends.
Joined(t) ==
  IF number[t] = 1
  THEN /\ number' = [number EXCEPT ![t] = 2]
       /\ pc' = [pc EXCEPT ![t] = "left"]
       /\ pos' = [pos EXCEPT ![t] = LeftEnd(inverse, t, 2)]
       /\ par' = [par EXCEPT ![t] = 0]
       /\ UNCHANGED leftRoot
  ELSE /\ pc' = [pc EXCEPT ![t] = "end"]
       /\ UNCHANGED <<number, pos, par, leftRoot>>

\* The second compact_find returns the root of the first: nothing to join.
FindSame(t, packed) ==
  /\ packed.next = pos[t]
  /\ pc[t] = "right"
  /\ pos[t] = leftRoot[t].x
  /\ Joined(t)

\* The second compact_find returns another root.
FindRight(t, packed) ==
  /\ packed.next = pos[t]
  /\ pc[t] = "right"
  /\ pos[t] # leftRoot[t].x
  /\ par' = [par EXCEPT ![t] = Xor(@, packed.parity)]
  /\ pc' = [pc EXCEPT ![t] = "cas"]
  /\ UNCHANGED <<number, pos, leftRoot>>

\* One turn of the loop of compact_find.
Find(t) ==
  /\ stage = "join"
  /\ pc[t] \in {"left", "right"}
  /\ \E packed \in Loads(t, pos[t]) :
       /\ SawEntry(t, pos[t], packed)
       /\ \/ Climb(t, packed)
          \/ FindLeft(t, packed)
          \/ FindSame(t, packed)
          \/ FindRight(t, packed)
  /\ UNCHANGED <<shared, stage, root>>

\* Mutant of Beyond: the smaller root is linked under the larger one.
BeyondReversed(x, y) == x < y
Beyond(x, y) == x > y

High(t) == IF Beyond(leftRoot[t].x, pos[t]) THEN leftRoot[t].x ELSE pos[t]
Low(t)  == IF Beyond(leftRoot[t].x, pos[t]) THEN pos[t] ELSE leftRoot[t].x
\* Mutants of Link: the two ends are taken to have equal colours; the parity is
\* added up without a reduction.
LinkWithoutFlip(t) == [next |-> Low(t), parity |-> Xor(leftRoot[t].y, par[t])]
LinkUnreduced(t) == [next |-> Low(t), parity |-> leftRoot[t].y + par[t] + 1]
Link(t) == [next |-> Low(t), parity |-> Xor(Xor(leftRoot[t].y, par[t]), 1)]

\* Mutant of CasLinks: the entry is overwritten without a comparison.
CasOverwrites(t) ==
  /\ stage = "join"
  /\ pc[t] = "cas"
  /\ parents' = [parents EXCEPT ![High(t)] = Link(t)]
  /\ seen' = [seen EXCEPT ![t] = IF RelaxedLoads THEN @ \cup {High(t)} ELSE @]
  /\ Joined(t)
  /\ UNCHANGED <<permutation, inverse, flips, colors, stage, root>>

\* The compare-and-swap finds the larger root unlinked and links it.
CasLinks(t) ==
  /\ stage = "join"
  /\ pc[t] = "cas"
  /\ parents[High(t)] = Self(High(t))
  /\ parents' = [parents EXCEPT ![High(t)] = Link(t)]
  /\ seen' = [seen EXCEPT ![t] = IF RelaxedLoads THEN @ \cup {High(t)} ELSE @]
  /\ Joined(t)
  /\ UNCHANGED <<permutation, inverse, flips, colors, stage, root>>

\* Mutants of CasFails: the thread takes the failure for someone else's success
\* at its own join; it repeats the swap with the roots it has.
CasGivesUp(t) ==
  /\ stage = "join"
  /\ pc[t] = "cas"
  /\ parents[High(t)] # Self(High(t))
  /\ Joined(t)
  /\ UNCHANGED <<shared, stage, root, seen>>
CasRepeats(t) ==
  /\ stage = "join"
  /\ pc[t] = "cas"
  /\ parents[High(t)] # Self(High(t))
  /\ SawEntry(t, High(t), parents[High(t)])
  /\ UNCHANGED <<shared, stage, root, pc, number, pos, par, leftRoot>>

\* It fails, which is a load of the entry, and both finds are redone.
CasFails(t) ==
  /\ stage = "join"
  /\ pc[t] = "cas"
  /\ \E packed \in Loads(t, High(t)) :
       /\ WeakCas \/ packed # Self(High(t))
       /\ SawEntry(t, High(t), packed)
  /\ pc' = [pc EXCEPT ![t] = "left"]
  /\ pos' = [pos EXCEPT ![t] = Left(t)]
  /\ par' = [par EXCEPT ![t] = 0]
  /\ UNCHANGED <<shared, stage, root, number, leftRoot>>

\* Mutant of Barrier: the next kernel starts when the first thread has ended.
NoBarrier ==
  /\ stage = "join"
  /\ \E t \in Pair : pc[t] = "end"
  /\ stage' = "find"
  /\ UNCHANGED <<shared, root, thread>>

\* Every thread of compact_join_pairs has ended; the barrier makes their
\* writes visible.
Barrier ==
  /\ stage = "join"
  /\ \A t \in Pair : pc[t] = "end"
  /\ stage' = "find"
  /\ UNCHANGED <<shared, root, thread>>

\* From here on parents is only read, so that compact_find returns the same in
\* both remaining kernels and whatever the other threads do: the finds of all
\* entries are carried out here, in step.
AtRoots == \A x \in Index : parents[root[x].x].next = root[x].x

Ascend ==
  /\ stage = "find"
  /\ ~AtRoots
  /\ root' = [x \in Index |->
       LET packed == parents[root[x].x]
       IN  [x |-> packed.next, y |-> Xor(root[x].y, packed.parity)]]
  /\ UNCHANGED <<shared, stage, thread>>

FoundRoots ==
  /\ stage = "find"
  /\ AtRoots
  /\ stage' = "orient"
  /\ UNCHANGED <<shared, root, thread>>

\* Mutant of OddFlips: the flips are stored at the ends, not at their roots.
OddFlipsAtEnds ==
  [flips EXCEPT ![Unpaired] = root[Unpaired].y,
                ![inverse[Unpaired]] = root[inverse[Unpaired]].y]

\* compact_orient_odd: one thread, so the two writes come in this order.  The two
\* ends always are in one group, and the second write replaces the first.
OddFlips ==
  LET input  == root[Unpaired]
      output == root[inverse[Unpaired]]
  IN  [flips EXCEPT ![input.x] = input.y, ![output.x] = output.y]

Orient ==
  /\ stage = "orient"
  /\ flips' = IF Odd THEN OddFlips ELSE flips
  /\ stage' = "route"
  /\ UNCHANGED <<permutation, inverse, parents, colors, root, thread>>

\* compact_route: each thread writes its own entry.
Branch(x) == Xor(root[x].y, flips[root[x].x])

Route ==
  /\ stage = "route"
  /\ colors' = [x \in Index |-> Branch(x)]
  /\ stage' = "done"
  /\ UNCHANGED <<permutation, inverse, parents, flips, root, thread>>

\* What compact_route stores for the children.
Routed == Writes(permutation, colors)

\* What compact_pack_switches sets: by pair, the bits of the two sections.
InputBits  == [k \in Pair |-> colors[2 * k]]
OutputBits == [k \in Pair |-> colors[inverse[2 * k]]]

Next ==
  \/ \E t \in Pair : Find(t) \/ CasLinks(t) \/ CasFails(t)
  \/ Barrier
  \/ Ascend
  \/ FoundRoots
  \/ Orient
  \/ Route

Spec == Init /\ [][Next]_vars

\* A compare-and-swap that gets somewhere: it links, or learns of a link.
CasSettles(t) == CasLinks(t) \/ (CasFails(t) /\ High(t) \in seen'[t])

\* A launched grid runs to its end: every thread keeps getting its turn, and
\* the kernels are launched one after the other.  A weak compare-and-swap that
\* is tried again and again does not fail for ever, spuriously or for a stale
\* value.
Fairness ==
  /\ \A t \in Pair : WF_vars(Find(t) \/ CasLinks(t) \/ CasFails(t))
  /\ \A t \in Pair : SF_vars(WeakCas /\ CasSettles(t))
  /\ WF_vars(Barrier \/ Ascend \/ FoundRoots \/ Orient \/ Route)

FairSpec == Spec /\ Fairness
-----------------------------------------------------------------------------
TypeOK ==
  /\ permutation \in Inputs
  /\ inverse \in [Index -> Index]
  /\ stage \in {"join", "find", "orient", "route", "done"}
  /\ parents \in [Index -> Entry]
  /\ flips \in [Index -> Bit]
  /\ root \in [Index -> Found]
  /\ colors \in [Index -> Bit]
  /\ pc \in [Pair -> {"left", "right", "cas", "end"}]
  /\ number \in [Pair -> {1, 2}]
  /\ pos \in [Pair -> Index]
  /\ par \in [Pair -> Bit]
  /\ leftRoot \in [Pair -> Found]
  /\ seen \in [Pair -> SUBSET Index]

\* Of a colouring c: the parity of an entry is the difference of its colour
\* and its parent's, what compact_find collects is the difference between the
\* entry it started from and the one it stands at.
EntriesAgree(c) ==
  \A x \in Index : c[x] = Xor(parents[x].parity, c[parents[x].next])

FindAgrees(c, t) ==
  /\ pc[t] = "left" => c[Left(t)] = Xor(par[t], c[pos[t]])
  /\ pc[t] \in {"right", "cas"} =>
       /\ c[Left(t)] = Xor(leftRoot[t].y, c[leftRoot[t].x])
       /\ c[Right(t)] = Xor(par[t], c[pos[t]])

RootsAgree(c) ==
  \A x \in Index : c[x] = Xor(root[x].y, c[root[x].x])

\* The parities are right: they agree with every proper colouring.  Concerns
\* the relation compact_join computes from roots that other threads may link
\* elsewhere before its compare-and-swap.
ParityAgrees ==
  \A c \in Colorings : Proper(inverse, c) =>
    /\ EntriesAgree(c)
    /\ \A t \in Pair : FindAgrees(c, t)
    /\ RootsAgree(c)

\* Of a labelling f that does not tell an entry from its parent: the ends of
\* the constraints already joined have equal labels, and so have the end a
\* find started from and the entry it stands at.
ConstantOnTrees(f) == \A x \in Index : f[parents[x].next] = f[x]

HasJoined(t, n) == pc[t] = "end" \/ n < number[t]

EndsMeet(f, t) ==
  \A n \in {1, 2} : HasJoined(t, n) =>
    f[LeftEnd(inverse, t, n)] = f[RightEnd(inverse, t, n)]

FindStays(f, t) ==
  /\ pc[t] = "left" => f[Left(t)] = f[pos[t]]
  /\ pc[t] \in {"right", "cas"} =>
       f[Left(t)] = f[leftRoot[t].x] /\ f[Right(t)] = f[pos[t]]

\* No join is lost: once compact_join has returned, its two ends stay in one
\* tree, for no labelling that is constant on the trees tells them apart.
\* Concerns a return on equal roots read from entries linked in the meantime,
\* and a link under an entry that is no root any more.
JoinsHold ==
  \A f \in Colorings : ConstantOnTrees(f) =>
    /\ \A t \in Pair : EndsMeet(f, t) /\ FindStays(f, t)
    /\ \A x \in Index : f[root[x].x] = f[x]

\* An entry that has been linked is never written again: two threads that hold
\* the same root cannot both link it.  Stale loads are harmless only because
\* of this.
LinkedForGood ==
  [][\A x \in Index : parents[x] # Self(x) => parents'[x] = parents[x]]_vars

\* The threads of compact_route write without synchronisation: no two of them
\* write one slot, no slot stays unwritten, and what the next level reads is a
\* permutation for each child.
ChildrenArePermutations == stage = "done" => IsSplit(Routed)

\* The kernels end, whatever the threads' interleaving.
Terminates == <>(stage = "done")

\* The concurrent kernels choose the colouring every encoder has to choose, and
\* a decoder finds it from the input switches as well as from the output ones.
Answers == {colors, Decoded(InputBits, [i \in Index |-> i]),
            Decoded(OutputBits, permutation)}
Coloring == INSTANCE NodeColoring
              WITH answer <- IF stage = "done" THEN Answers ELSE {}
ImplementsNodeColoring == Coloring!Spec
=============================================================================
