# benes-perm in TLA+

benes-perm stores a permutation of `n` values as the switch settings of a
generalised Beneš network whose lowest levels are replaced by blocks of at most
32 values, each stored as a factoradic rank. A value is looked up in the
compressed file in either direction by reading one switch per level and side and
one block. Files are byte-identical whichever encoder wrote them: the portable
CPU encoder, CUDA, or Metal.

This directory holds TLA+ modules for the parts of that system with states worth
exploring, TLC configurations that check them on small instances, and proofs,
checked by TLAPS, of what holds for every value of the constants. Names are
those of the source wherever TLA+ allows.

## The system's parts

| Part | State | Operations | Talks to |
|---|---|---|---|
| Node colouring, breadth-first (`encode_compact_node`) | `neighbors`, `color`, `pending` of one node | colour the odd ends, then a component per uncoloured edge; emit switches and two child permutations | writes switches at section addresses; recurses |
| Node colouring, union-find kernels (`benes_cuda.cu`, `benes.metal`) | `parents`, `flips` shared by all threads of a grid | initialise, join pairs, orient odd ends, route, pack switches | the level pipeline on the host orders the kernels |
| Section addresses and sizes (`FormatSizeCache`, `SectionAddress`) | the path to a node; a small cache of sizes | bit of a switch, bit of a rank, child, packed node for the kernels | encoder, lookup, kernels |
| Leaf blocks (`encode_factoradic`, `decode_factoradic`, AVX-512 encoder) | a 128-bit rank in two words, digits | encode, store, read, decode | encoder, lookup |
| Recursive encoder (`encode_compact_node`, `std::async`) | the file's bytes and the stack frames of all threads | handle a node, split the work, join, throw | colouring, addresses, leaf blocks |
| 64-bit entries on Metal (`compact64_load`, `compact64_compare_exchange`) | two words and a lock per entry | load, compare and swap | the union-find kernels |
| Lookup (`detail::lookup`) | a position, two addresses, a frame per level | go down by one section, decode the block, come up by the other | addresses, leaf blocks, page cache |
| File view (`CompressedPermutationFile::Impl`) | the page table, a tick, a mutex, the stream | `read_cached`, `page` with eviction, `read_exact` | called by every lookup of every thread |
| Header (`normalize_format`, `make_layout`, `write_header`, `parse_header`, `validate_padding`) | the layout | write, parse, reject | compress, both views |
| Compact tree and level pipeline (`make_compact_tree`, host code of CUDA and Metal) | node tables, two permutation buffers | one group of kernels per level | kernels |
| `compress`, `compress_file` | none; the output stream | validate, choose a backend, write | encoders |

Left aside: the layered encoders of an earlier format (`benes_cpu.cpp` and the
`make_blob` path, which throws always and is called by nothing), the stubs and
the discovery of devices, tools, benchmarks, build files.

What is hard in it, in the order it was attacked:

1. The kernels colour a node with a lock-free union-find under relaxed loads and
   weak swaps, and must choose the same colouring, of many proper ones, as a
   sequential search.
2. The page cache is shared by all readers, hands out references into a table it
   evicts from, and reads from a stream that fails.
3. Addresses are computed three times (encoder, lookup, kernels) from different
   representations; tails of packets, odd children and embedded ranks make the
   formulas differ at particular sizes only.
4. Ranks need more than one word; files may hold ranks no encoder writes.
5. All of this has to fit: a lookup must find through the other side's switches
   what the encoder's colouring put there.
6. The file does not say where its sections are; writer and readers derive it,
   and must derive the same, also from headers nobody wrote.
7. The GPU hosts run the recursion level by level on two buffers that change
   places, cut launches that are too large, and size their buffers on their own.
8. The portable encoder splits its recursion over threads that set bits in the same
   bytes, use vectors in each other's frames, and may throw anywhere.
9. Metal has no 64-bit swap: entries of the 64-bit kernels are two words under a
   spin lock built from relaxed operations and fences, in lanes that run in lock step.

`PROJECT.json` lists each hazard at its line with the properties that cover it.

## Modules

```
BenesNode ── BenesNodeProofs (one canonical routing)
    ├─ NodeColoring  (abstract: the one canonical colouring)
    ├─ SerialColoring   implements NodeColoring ── SerialColoringProofs
    └─ UnionFind        implements NodeColoring ─┐
                                                 ├─ UnionFindProofs
AtomicEntry (abstract: one word of the parents)  │
   └── MetalLock implements it ──────────────────┘

ByteSource (abstract: a file)
   └── PageCache implements it ──────────┐
                                         ├─ FileViewProofs
Lehmer ─┬─ FormatSizes ─┬─ Header ───────┘
        └─ Factoradic ··│······················· LookupProofs (below) has its proofs
                        └─ SectionAddress ─┬─ DeviceAddress (the kernels' own computation)
                                           │     ├─ SectionWalk ── SectionWalkProofs
                                           │     └─ LevelPipeline (below)
                                           └─ Encoding ─┬─ Lookup ── LookupProofs (and BenesNodeProofs)
                                                        ├─ LevelPipeline ────────────────┐
                                                        └─ MCParallelEncode ── ParallelEncode ── EncoderProofs
AddressProofs (of Encoding and DeviceAddress): facts for SectionWalkProofs, LookupProofs, EncoderProofs
```

The formulas of `PageCache`, `MetalLock`, `Factoradic` and `LevelPipeline` have names of
their own (`CacheInit`, `LockSpec`, `LeafNext`, `PipelineInit`, ...), so that one module of
proofs can extend both halves of what it is about: the header and the pages behind it, the
kernels and the entries they use, a lookup and the leaves it ends in, the threads and the
levels by which an encoding is divided.

### Colouring a node

`BenesNode` has what all encoders share. An *edge* of a node is one of its values,
named by its input; paired inputs and paired outputs must go to different
children, so a routing is a proper 2-colouring of a graph of degree two.
`IsCanonical` singles out one of the proper colourings: the odd ends go to child
0, and in any other component the smallest input does.

`NodeColoring` is the abstract specification: in one step the node's canonical
colouring is given.

`SerialColoring` is the portable encoder on one node. `phase` says where in
`encode_compact_node` the program is, `pending` is the deque, `color` has -1 for
uncoloured edges. `Visit` is one turn of the `while` loop with its inner loop
over the neighbours, including the throw; `ColorOddInput`, `ColorOddOutput` and
`ColorValue` are the three places that start a component (the odd output's end
turns out to be coloured always, as the odd ends are the two ends of one path); `Emit` writes the
switches and the children.

`UnionFind` is the sequence of kernels. `parents[x]` is the word
`parity << 31 | parent`. In `compact_join_pairs` a thread per pair joins
the two constraints of its pair, and a step of a thread is one access to shared
memory: `Find` is one turn of `compact_find`'s loop, `CasLinks` and `CasFails`
are the outcomes of the swap. Metal's relaxed load is modelled by letting a thread
read an entry's old value until it has read the new one (`seen`); an entry
changes at most once, so the old value is `Self(x)`, and `LinkedForGood` checks
that "at most once". Metal's weak swap may fail on an unchanged or stale entry.
CUDA reads by an atomic operation and swaps strongly: `RelaxedLoads = FALSE`,
`WeakCas = FALSE`. Only the order of the stream separates the kernels, and
`Barrier` is that order. After it, nothing writes `parents`, so the
kernels' finds are done in lock step by `Ascend`: all threads' finds move to the
parent together until every one has arrived. `Orient` and `Route` are the last two kernels;
`Routed`, `InputBits` and `OutputBits` are what they leave in memory.

The source has these kernels five times: CUDA for 32 and 64 bits, Metal for 32
bits, for 64-bit positions over 32-bit entries, and for 64-bit entries. They differ
in the width of words only, so `UnionFind` is all of them, and `PROJECT.json` maps its
definitions to one form or another. Strong swaps and atomic reads, which are
what CUDA and the locked entries have, only take steps away from those that
relaxed loads and weak swaps allow; the run therefore takes the latter.

That the switches describe the routing is part of `ImplementsNodeColoring`: its
refinement mapping (`Answers`) is the set of the colouring the children get and those
a decoder reads from the input switches and from the output switches, and the
abstract specification gives one colouring only.

`MetalLock` is one 64-bit entry. All accesses are relaxed. A store is `pending`
until it arrives in memory, in any order with the thread's other stores; a load finds the word in
memory or the one the thread knows since its last fence; a fence waits for the
thread's stores and renews what it knows. `Reconverged` is the reason
for the shape of the loop in the source: a lane must do its work inside the body of
the `if`, since the other lanes of its SIMD group do not go round the loop
without it. The refinement mapping `Settled` reads a stored word where it is
pending, so that a swap takes effect at its comparison.

### The file

`FormatSizes` has the sizes `FormatSizeCache` computes and the set of sizes it
has cached, as recursive functions of the sizes below the one asked for; `SectionAddress` is class `SectionAddress` as a record with
`SwitchBit`, `MiddleBit` and `Child`. `DeviceAddress` is what the kernels compute from a
packed node: they get the prefix of a full packet from the host, and sum up that of the
tail packet by a loop of their own over the bits of each level (`LoopTurn`,
`DeviceIncluded`, `DevicePrefix`), where the host halves recursively. The 32-bit kernels do
this with 32-bit numbers, so every sum and power goes through `Counted`, which wraps at
`UintMax`; the 64-bit kernels are the same code, `wide`. `SectionWalk` lets the encoder walk
the network in its own order and records which bits it hands out for what.

`Lehmer` is the reference: the rank of a permutation as its position in the
lexicographic order, the permutation of a rank. `Factoradic` is the machine that
does it, loop by loop: digits, `U128::multiply_add` on halves of words, the
stored bits, `U128::divide`, the insertion loop, and beside it the vector
encoder with its two registers. The widths are constants. In the run, 3-bit half words and
3 lanes with leaves of up to five values stand in for 32-bit halves and 16 lanes with leaves of
32; the proofs are about all widths for which `RoomAssumption` holds, which says what of
these numbers the code relies on: that `(2^h - 1) * n + n` is below `2^(2h)` and
`n!` below `2^(4h)`. For halves of `h = 32` bits and `n <= 32` that is
`2^37 < 2^64` and `32! < 2^118 < 2^128`.

`Encoding` is what an encoder writes, as a function of permutation and format,
with the canonical colouring taken from `BenesNode`: the calls of
`encode_compact_node` level by level, numbered as in a heap (`Calls`), and the
bits that each of them sets (`CallBits`). `Lookup` steps through
`detail::lookup` on such a file, down, through the leaf, and up, and then looks
the answer up in the opposite direction.

`Header` is the other half of the file: what `compress` makes of its options
(`Normalized`, `Layout`, `Written`), and how a file opens, by `OpenView` in memory
and by `ReadFixed`, `ReadRest` and `ReadPadding` from a stream that may fail at
any of them. A file is abstracted to what its header says, its length, and which
bits behind are set. Files come from `Compress`, are then written by `WriteFile`,
which may leave off the end and not notice, or come from anywhere.

### The threads of the portable encoder

`ParallelEncode` is the tree of calls of `encode_compact_node`. Calls are numbered
as in a heap, and `frame` has the calls whose frames are on some stack, with
their number of threads, their size cache, and how far they are. `Write` sets the
bits of a node in one step, as no thread reads them before all have ended; what it
relies on is that `fetch_or` finds the newest bytes (`Found`). `Fork` is
`std::async` with half of the threads and a copied size cache, `CallLeft` the
sequential branch, `LeftEnds` and `RightEnds` the return of a child, `Throw` an
allocation that fails or a thread that cannot be started. The difference between
`right_work.get()`, which throws what the right half threw, and the future's
destructor, which only waits, is in `AfterRight` and `AfterLeft`. What each call
writes, and so the file it is all compared with, is a parameter (`Jobs`) in the
module, where `IsJob` says what is used of it, and comes from `Encoding` in
`MCParallelEncode`.

### The GPU hosts

`LevelPipeline` is `compress_compact_cuda` and `compress_compact_metal` for both
widths of values. `ListLeaf`, `ListNode` and `LinkLevel` are `make_compact_tree`: the
recursion of `build_nodes` (`pending` has its calls) hands out buffer entries per level in
depth-first order (`lists`), and the lists are strung together by level (`tree`). Then each step is what one kernel does to the whole level: `EncodeLeaves`,
`Invert`, `Unite` (three kernels, whose threads' races are `UnionFind`'s
subject), `Route`, `Pack` with the exchange of the buffers. Which elements a
launch handles is computed as the host cuts the work: by a strided loop in 64-bit
CUDA (`Turns`), by `dispatch_batched` in 64-bit Metal (`Batches`). Every entry
carries the level it was written for, so that a stale read is visible even if
the value happens to be right. `Copy` copies as many bytes as the file's layout
has; what lies behind a buffer may be anything.

### The page cache

`ByteSource` is the abstract specification of a file with several readers: a
call is begun, and ends with the bytes of its range or in failure; a range
outside the file always fails. `PageCache` is `read_cached` and `page`: `Ask`
and `Reject` before the mutex, `Lock`, then per page `Hit`, or `Miss` (the
eviction) followed by `Load` or `LoadFails`, then `Copy` out of the referenced
page, and `Return`. The load is a step of its own because it is where the
exception comes from, with the eviction done. `uses`, the pages in the order
of their uses, is a history variable for `EvictsLeastRecent`. `MaxReads` bounds the reads begun.

## Runs

| Run | Instance | Question |
|---|---|---|
| `union_find_metal` | odd node of 7, nine permutations, 3 threads, relaxed loads, weak swaps | do parities, joins, final colouring, switches and children come out right in every interleaving, and does it end? |
| `serial` | every permutation of 5 | does the search throw, keep its frontier, and find *the* canonical routing? |
| `page_cache` | 2 threads, 3 pages in a file, room for 2, reads across pages, of nothing, past the end | limit, eviction order, completion, refinement of the file |
| `section_walk` | leaves of 4, sizes 1..33, 39, 45 and 47, all cluster lists, all placements, 32-bit numbers up to 127 | is every bit of both sections handed out once, do the kernels' loops come to the same bits, does the cache suffice? |
| `factoradic` | every leaf of up to 5 and every stored rank | ranks right and dense, decoded back, every rank decodes, vectors agree |
| `lookup` | leaves of 4, all formats: every permutation of up to 5 and some of 9 and 17; any file of up to 5 values | do both lookups answer the permutation, and undo each other, without a throw, on a file nobody encoded? |
| `header` | options and files for sizes 1, 2, 5, 9, every kind of cluster list, 19 to 30 bytes, room for 4 clusters | does what is written whole open and what was cut short not, do both views agree, can a bit be hidden? |
| `header_bounds` | the same | *violated*: do the sections of a file that opens follow its header? |
| `pipeline` | four hosts, leaves of 2, sizes up to 17, all formats, launches cut after 4 or 5 | are the bits the portable encoder's, is every read fresh, are nodes apart? |
| `pipeline_buffer` | 15 values over leaves of 4 | *violated*: is the device's file the portable encoder's? |
| `parallel_encode` | leaves of 2, nodes of 4 and more split, 0 to 5 threads asked for, unknown number of cores; 1, 3 and 5 values in several formats, 9 and 11 with one cluster a side; any calls fail | is what is returned the whole file, are frames and caches safe, is the thread limit kept, does it end? |
| `metal_lock` | 3 threads in 2 SIMD groups, words of one bit, a load and two swaps, 4 calls | is the entry atomic, does every call end? |

Why the bounds are enough to be interesting. Seven values and three threads are
the least at which a thread's root is linked by a second thread while a third
links that one; the permutations are chosen for long chains, short ones, cycles
and unpaired ends tied directly. Five values make an odd node with components of
every kind, and all 120 permutations are tried. Thirty-three values over leaves of four make
four levels, so that cluster lists with more than one cluster, packets with a
tail, and clusters deeper than the remaining network all occur; thirty-three has a single large
node on each of its levels, and 39, 45 and 47 have several for the kernels' loops to count. All
sizes are within the half of `UintMax` up to which the 32-bit kernels are used. Leaves of four
are the least whose ranks do not fill their bits (4! = 24 of 32), which is what
makes `EveryRankDecodes`, `NeverThrows` and `DirectionsAgree` more than the
encoder's own round trip; seventeen values put three levels above them. Three
pages with room for two give every eviction a choice; that the limits of the
other sizes are kept is proved. The limits of the hosts are scaled
so that a level of nine values takes several turns or batches, and a leaf would
be cut in two if the limit were not rounded; `BatchMax` and `UintMax` are one
number in the code, but 32-bit Metal must be able to count the threads of a level
that 64-bit Metal cuts up. The header's limit of 64 clusters is scaled to four,
less than some formats need. The parallel encoder splits nodes of 4096 values;
with 4 in its place, eleven values over leaves of two are split on two
levels, so that threads divide unevenly, one half fails while both halves of the other
run, and nodes below the limit run on one thread; single clusters put the bits of
all calls into the same bytes. Two lanes of one SIMD group and a thread of another are the
least for which a lane waits for its own group and for another; the second
swap expects what the first writes, so that each may find half of it if the lock fails.

Deadlock checking is off in every configuration because every modelled
activity ends: the kernels, the search, the walk, the machine and the lookups
have finished, a compression returns or throws, and the reads and calls are bounded.

### Fairness

* `UnionFind!Fairness`: each thread of a grid keeps being scheduled and the next
  kernel is launched (weak fairness). Only for weak swaps, a swap that is retried
  again and again does not fail for ever, spuriously or on a stale value (strong
  fairness, restricted by `WeakCas`). The code's loop has no other exit, so it
  relies on that; both languages say that atomic stores become visible in time.
* `PageCache!CacheFairness`: each thread's step, weakly. Nothing is assumed of the
  mutex: a thread waits only for the bounded number of reads before it.
* `ParallelEncode!FairSpec`: some thread that can take a step takes one (weak
  fairness of `Next`), the least a scheduler does.
* `MetalLock!LockFairSpec`: each lane that is not held up gets on, and a store
  arrives in memory, both weakly. The calls are bounded by `MaxCalls`: on a lock that
  others take again and again a thread could starve under this fairness, but a kernel makes
  finitely many calls, and each swap that fails was preceded by one that succeeded.

## What is proved

For every value of the constants, under the `ASSUME`s of the modules.

`BenesNodeProofs`, for a node of any size and any permutation:

* `OneCanonicalRouting`: there is exactly one canonical routing. That there is a
  proper colouring at all is shown by putting in the output pairs one after the other:
  the values still free are ends of chains (`IsOtherEnd`), a pair that closes a
  chain is split already, since a chain begins and ends with an input pair, and
  a pair that joins two chains is split after recolouring one of them. A routing with
  colour 0 at all `Leaders` is had by recolouring whole groups of tied values; it is the
  only one, as every value is tied to a leader. Also here: a proper colouring gives two
  permutations to the children.

`UnionFindProofs`, for every node size, set of permutations, and kind of hardware:

* `TypeCorrect`: `TypeOK` is inductive.
* `ParitiesAlwaysAgree`: every parity in the union-find, and every one a thread
  carries between its reads and its swap, is the difference of the colours of
  its two ends in *every* proper colouring. The property is stated over all
  colourings so that it is inductive as it stands: a link adds the relation
  of a constraint, which every proper colouring satisfies, to two relations that
  hold, and what was read stays true when the entry has been linked since. No
  thread therefore needs to see the newest value, which is why relaxed loads do no harm.
* `JoinsAlwaysHold`: "two entries are in one tree" is stated as "no labelling that
  is constant along parent links tells them apart", which needs no notion of a
  path and is inductive: a link only shrinks the set of such labellings.
* `LinkedEntriesStay`: `LinkedForGood`, an action property; a swap expects a root.
  The model of the relaxed load depends on it.
* `ChildrenAlwaysSplit`, `KernelsAreCanonical`: the kernels hand on two permutations and
  implement `NodeColoring` in every interleaving. Links lead to smaller
  entries, and the finds of an entry and of its parent rise together (`Climbs`); the
  later kernels find what the earlier ones leave (`KernelOrder`). At the end the
  roots of the trees are the least values of their groups, so that each group is
  oriented by its leader (`Answered`).

`UnionFindProofs`, of the lock, for every set of threads, grouping, and set of requests:

* `LockInv`: shapes (`LockTypes`); a thread from its exchange to the arrival of its
  store of 0 holds the lock (`LockIsTaken`), alone (`OneHolder`); a word is stored
  before the fence and the 0 after it, so they are never pending together
  (`StoresInOrder`); the holder, once past its fence, knows the words in memory and
  no older ones (`KnownIsNewest`); a call has ended exactly when its thread is at
  the second fence or idle (`CallsMatch`).
* `OneThreadHolds`: mutual exclusion; `EntryIsAtomic`: `MetalLock` implements
  `AtomicEntry`. Neither needs `Reconverged`: lock step matters for `CallsEnd` only.

`SerialColoringProofs`, for every node size and set of permutations:

* `Inv`: types; an edge that is done with has no uncoloured neighbour
  (`FrontierSeparates`); *some* proper colouring extends the colours given so far
  (`Extends`), which is what the search needs in order never to meet an edge of the wrong
  colour; and each coloured value is tied to one of colour 0 its component began
  with (`Anchors`). When a component is exhausted, no constraint leaves it, so a
  colouring that extends it with the opposite colours elsewhere is proper too: the
  next component may begin with 0.
* `SearchNeverThrows`, `FrontierAlwaysSeparates`, `SearchIsCanonical`: the
  two invariants, and `SerialColoring` implements `NodeColoring`. With `KernelsAreCanonical`: CPU and GPU give every node the same
  routing, for every `Count`.

`EncoderProofs`, of the threads, for every network, limit of threads, and whichever calls fail:

* `Inv`: the frames are those of calls of the job (`Shapes`); a caller waits for
  its children at the step that calls them (`CallersWait`); once a call has
  thrown, some frame has thrown or is unwinding (`FailureTravels`); and
  everything below a call that has returned is in the bytes (`WorkIsDone`).
  The last is stated without recursion on the tree: there is a set of
  calls with this one in it, closed under children, all of whose bits are set
  (`Whole`). A leaf is such a set on its own, and a node joins those of its
  children to itself. At the root, the set is all calls, as one left out with
  the smallest number would have its parent in the set.
* `FramesAlwaysOutlive`, `OnlyWholeFiles`: `FramesOutliveCalls` and `ReturnsWhole`.
* `CachesAlwaysApart`, `ThreadsAlwaysWithinLimit`, from `Resources`: the calls that use one
  size cache are a line of ancestors, which begins where the cache was made
  (`CachesDescend`), so two of them are never both running; and the threads a call
  may hand out are a lane of the numbers below the limit, disjoint from other
  calls' lanes and from the threads that are alive (`HasLanes`), so there are never more
  threads than numbers.

`EncoderProofs`, of the level pipeline, for every size, cluster list and place of the middle,
every host, and every way to cut a launch:

* `TreeIsSound`: while `build_nodes` is under way, the entries of the next level's buffer
  that a node has booked for its children are taken, each once, by a part that is listed or by a
  call still to be made (`PlacesAreTaken`), and parts of one level share none. Once
  linked, the lists of a level are the strings the host launches over (`IsLinked`).
* `LevelIsHeld`: the parts of a level carry the same orders as the calls `Encoding` has on
  it, part for call and call for part. `LevelInv`: the current buffer holds the level that is
  being done, and after `Route` the other one the next level; in between `InverseKnown` and
  `ColorsKnown` say what the kernels have left. That a launch leaves no element out, whether it is
  strided (`Turns`) or batched (`Batches`), is arithmetic about quotients.
* `ReadsAlwaysFresh`, `PartsAlwaysApart`: `ReadsAreFresh` and `PartsAreApart`.
* `BitsInv`: the bits set are those of the calls done so far (`DoneCalls`), by the facts about
  addresses below. `UsedBitsAlwaysCanonical`: `UsedBitsAreCanonical`, provided that 32-bit Metal can
  count the threads of every level's leaves (`LeavesFit`). `DefaultLeavesFit`: it can for leaves
  of 32, whatever the count. For smaller leaves see the last section.

`FileViewProofs`, of the header, for every set of sizes, options, files and the limit on clusters:

* `Inv` says which file each phase has and what is known of it: where it comes from
  (`Origin`), that the view has what `Parsed` gives of it, and that what the stream
  has read so far passed the tests on the way. Behind it are facts about the
  operators: sizes are numbers (they are recursive, so this is by the order of the
  naturals), normalising twice is normalising once, the sections of a layout cover
  the file behind the header without overlap, and parsing what was written
  gives the layout it was written from.
* `WrittenAlwaysOpens`, `ViewsAlwaysAgree`, `NothingIsEverHidden`: `WrittenOpens`,
  `ViewsAgree` and `NothingIsHidden`.

`FileViewProofs`, of the page cache, for every file, page size, limit, and set of threads:

* `CacheInv` is the inductive invariant: shapes; only the mutex's holder is in the
  guarded part (`Exclusive`); the range a guarded thread works on is inside the file
  (`RangesChecked`); a page in the table has the file's bytes (`PagesMatch`);
  what has been copied is the beginning of the answer (`CopiedMatches`); a
  thread about to load has room (`RoomForLoad`); and the two properties that
  are checked. None of the last is inductive without the first: the limit needs that no other
  thread fills the room between eviction and load, the page's presence that
  nobody else evicts.
* `LimitKept`, `PageStays`: `WithinLimit` and `SourcePageStays`.
* `ReadsAreRight`: `PageCache` implements `ByteSource`; each step of the cache
  is a step of the abstract reader or leaves its call unchanged.
* `OldestGoes`: the action property `EvictsLeastRecent`, of the history of uses. By
  `Recency`, the tick a page is stamped with is the place of its last use in that
  history, and the page a thread loads is not there (otherwise `emplace` would
  leave an old stamp).

`SectionWalkProofs`, for every set of sizes, all cluster lists and every place of the
middle; what it says of the operators is in `AddressProofs`:

* A *cell* is what node `q` of level `l` has in packet `p` of its cluster. The cells
  of a cluster are the intervals between neighbouring prefixes, so they are disjoint
  (`OneCell`) and leave nothing out (`SomeCell`). This needs that
  `PacketSwitchBits`, which counts the switches of a cluster down the tree, is
  the sum over packets and levels of what `PathPrefixBits` counts across the tree
  (`LevelsPackets`), that the halving loop of `IncludedLarge` finds how many of the
  first nodes of a level are large (`NodeSizes`: the sizes it gives are those that halving
  the root gives), and that all packets but one are as long as packet 0 or
  empty (`CellPackets`). `SwitchBitIs` and `CellHasSwitches`: the bits of a node's
  switches are the bits of its cells.
* The *region* of an address is what its node and the nodes below it have: their cells of
  the cluster, and an interval behind the cluster for the clusters below it. At a
  leaf, it is the run of bits for the rank, or empty. A node's region is the disjoint union of
  its own bits and its children's regions, inside a cluster
  (`RegionOfInner`) and at its end (`RegionOfLast`).
* `WalkInv`: the bits handed out and the regions of all pending calls cut up each
  section (`Fills`), and a call's two addresses fit its size and the cluster list
  (`CallsFit`): the levels that the remaining clusters have are as many as the
  node needs, or more. At first, the root's region is the section; in the end
  nothing is pending and all has been handed out.
* `SectionsAlwaysFilled`: `SectionsAreFilled`.
  No two switches or ranks share a bit and none is left over, however the levels are grouped.
* `DeviceAlwaysAgrees`: `DeviceAgrees`. After each turn of the kernels' loop, the nodes counted
  and those that the host's recursion finds in what remains are as many as it finds at
  the start (`LoopIs`). In 32 bits the loop computes modulo `UintMax + 1`; nothing wraps around as
  long as node, root and number of paths leave room (`HasRoom`), and by `CallsWithin` no pending
  call is larger than the count, which the 32-bit hosts refuse above 2^31 - 1
  (`benes_cuda.cu:1159`, `benes_metal.mm:402`).
* `PacketInv`: there is a cluster for each group of placed switches; a switch stands in the cell
  of its packet and level; and each cell of a cluster is filled, or is below a pending
  call of that group. The turns of pending calls and groups part (`TrailsPart`), so a call
  that enters a new cluster never takes the name of a group that is there. In the end all
  cells are filled, and a packet's cells follow each other level by level:
  `PacketsAlwaysContiguous`.
* `CacheInv`: every pending call of an inner node is on a level of the network that its
  addresses in both sections agree on. `LevelSizes` has two sizes for a level and one
  for the root's, and `Remain` one depth for a level of a section. What a call asks the cache
  for is among them, and so is all the recursive methods compute on the
  way (`MetricsWithin`, `PairsWithin`). Counting gives `CacheAlwaysSuffices`: `2 * depth - 1`
  sizes and twice as many pairs, at most 125 and 250 for arrays of 128 and 256.

`LookupProofs`, for every size, cluster list, place of the middle, and every file,
whatever its bits:

* Every number below `n!` is the rank of a permutation of `n` values (`EveryRank`, by
  induction over `n`: the last digit is a value put in at the end), so every leaf
  decodes to a permutation.
* In every file, every value on either side has a *path*: a list of nodes with the
  value that enters each and the one that leaves it, down to a leaf that joins
  the two (`EveryValueHasAPath`, by induction over the size of the node). `Inv` says a lookup
  follows a path, and the lookup back follows the same one from its other end.
* `LookupsNeverThrow`, `DirectionsAlwaysAgree`: `NeverThrows` and `DirectionsAgree`.

And for a file that was compressed, `FilesAnswerThePermutation` (`AnswersThePermutation`: both
lookups answer as the permutation does), from what `Init` says of the file, that it is
`Encoded` of a permutation in the format its header has (`HeaderInv`):

* The facts of `BenesNodeProofs` are about one `Count`, and the calls of an encoding are about
  many. The module is instantiated with a size for which the facts fail, if there is one
  (`Exception`), so they fail for none (`EveryNodeIsRouted`). `ProperColoringsAre`: the
  set `Encoding` builds value by value is that of all proper colourings, so `Coloring` is
  the canonical one, and the orders it hands down are permutations (`ColoringFacts`, `ChildOrderFacts`).
* `IsTree` is an invariant of the levels of `Calls`: every call has addresses that fit the
  format (`GoodCall`), and the parts of a section that calls keep or still have to hand
  down are disjoint (`Part`). `TreeGrows` adds the children of one level to it, by
  `SpaceSplits`, which rests on the same facts about addresses as `SectionsAlwaysFilled`;
  `EnoughLevels`: after the routing depth no call waits for its children. So a bit
  that belongs to a call is set in the file if and only if that call sets it (`EncodedBits`).
* A lookup in a call's node thus reads the call's own colours (`NodeReads`), and in a leaf the
  rank of its order (`LeafReads`: `read_rank` gives back the number whose bits were
  stored). `NodeAnswers`: if the child's values are joined by the child's order, then
  the node's are by the node's. Along the path from its leaf up: `PathAnswers`.

This needs one more assumption on the constants, that what is encoded is a permutation, which
`validate_permutation` sees to (`LookupAssumption`).

The same module, for leaves of every size there is room for, in words of every width and
registers of every length that holds the leaf in two, and whatever bits are stored:

* `LeafInv` has a part for each loop. `Removing`: the positions still in the array are in
  the order their values have in the leaf, and the digits behind them are the permutation's;
  a lane of the vector encoder has what is taken off so far (`VectorFollows`).
  `Accumulating`: the two words hold the rank of what has been folded in. `Dividing`: the
  remaining quotient and the digits split off fold to the stored number again (`Folds`), which is
  the rank of what was written, if something was (`Written`); of a number that is
  `n!` or more a quotient is left over at the end. `Inserting`: the array is
  a permutation and its digits are those put in so far.
* Taking the last position out and putting it in again undo each other and leave the
  digits of the others alone (`WithoutLastFacts`, `LastDigit`). `RankBound` and
  `PowerSum` bound what is in the words.
* `MultiplyAddFacts` and `DivideFacts`: the product by halves and the division by limbs are
  exact wherever the result fits in two words, and `RoomAssumption` with `RankBound` says that it does.
  `StoredFacts`: what is read from the bits is what was written to them.
* `RankCounts`: the rank of a permutation is how many come before it, by the digit
  at which two permutations first differ (`SmallerRank`).
* `RankAlwaysIsPosition`, `BlocksAlwaysComeBack`, `EveryRankAlwaysDecodes` and
  `VectorAlwaysAgrees`: the four invariants of the run.

Induction over data is done by hand: the library's induction theorems take an operator as
parameter, which no installed prover can instantiate, so a proof forms the *set*
of numbers that have the property, and a number outside it would have a smallest
one (`NatLessThanWellFounded`, `WFMin`). What a recursive function is follows in the
same way (`FunctionExists`, `RuleHasFunction`, `HalvedExists`). Powers of two are such a function
(`PowerOfTwo`), as the provers know nothing of `^`.

The inductive invariants were checked by TLC on the runs' instances before they
were proved, except those with a quantifier over paths, colourings or functions that TLC
cannot enumerate there.

Only model-checked: liveness (`Terminates`, `ReadsEnd`, `Ends`, `CallsEnd`), as the prover
handles neither `ENABLED` nor fairness.

## Findings

* `header_bounds` (`benes.cpp:66`). The parser fills in cluster lists that the
  header leaves empty and lays the sections out behind the longer header. The
  README says only exact canonical section bounds are accepted
  (`README.md:133-135`). A file of five values with leaves of two that stores no
  lists opens when it has four bytes more; they are between header and
  sections and nothing looks at them. `NothingIsHidden` is therefore about files
  whose sections do follow the header.
* `pipeline_buffer` (`benes_cuda.cu:1177`, also 1355 and `benes_metal.mm:417`,
  602). A section with embedded ranks is rounded to bytes twice in the file and
  to words once on the device. For 15 values over leaves of four, or 36 over the
  default leaves of 32, the file takes one byte more than the buffer has; the copy
  reads it from behind the buffer. `README.md:53-54` and the tests ask for
  identical bytes.

## Not modelled

* The wrap of `leaf_count * 32` in 32-bit Metal (`benes_metal.mm:478`) has no run of its own:
  the `pipeline` run stays below it and `UsedBitsAlwaysCanonical` supposes `LeavesFit`.
  `LevelPipeline` has it: with `UintMax = 31`, `Lanes = BlockSize = 8`, `BatchMax = 9`, fifteen
  values and leaves of two, `UsedBitsAreCanonical` is violated by the host "metal" alone. At the
  real width this takes a level of 2^27 leaves, that is 2^28 values over leaves of two.
* Formats with more than 64 clusters, which the encoder writes and the parser refuses
  (`benes.cpp:44`). They take more than 2^33 values; `WrittenOpens` leaves them out by its premise.
* Of `compress`: the choice of a backend, `validate_permutation` and the reading
  of input files, which keep no state and are tested directly. Accessors of the views.
* Allocation that fails, other than in `ParallelEncode`.
* The layered encoders (`benes_cpu.cpp`, `make_blob`, parts of
  `benes_cuda.cu` and `benes_metal.mm`): nothing reaches them.
* Stubs, discovery of devices, tools, benchmarks, build files: I/O or no logic.

Assumed of the environment, not checked: a launched grid sees all writes of the one before it; a
fence in Metal orders as `MetalLock` says.
