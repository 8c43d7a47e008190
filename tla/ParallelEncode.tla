--------------------------- MODULE ParallelEncode ---------------------------
(***************************************************************************)
(* The recursion of encode_compact_node and the threads it is spread over. *)
(* A call gets a number of threads; while that is more than one and the    *)
(* node is large, std::async starts the call for the right child with half *)
(* of them, and the call for the left child runs on with the rest.  All    *)
(* calls set bits in the same bytes.                                       *)
(*                                                                         *)
(* Calls are numbered as in a heap: 1 is the root, 2k and 2k+1 are the     *)
(* children of k.  frame has the calls whose stack frames exist.  What a   *)
(* node's colouring chooses, and where its bits stand, is given: a job has *)
(* for every call the number of its values and the bits it sets.           *)
(***************************************************************************)
EXTENDS Integers, FiniteSets

CONSTANTS Jobs,         \* [calls |-> number :> [count, bits], file |-> bits]
          LargestLeaf,
          SplitFrom,    \* 4096 in the code
          Requests,     \* the values of CompressOptions::threads
          Cores         \* hardware_concurrency(), which may be 0

\* A node's call has two children and a leaf's none; what the calls set is the
\* file.
IsJob(j) ==
  /\ 1 \in DOMAIN j.calls /\ DOMAIN j.calls \subseteq Nat \ {0}
  /\ \A k \in DOMAIN j.calls :
       /\ k # 1 => k \div 2 \in DOMAIN j.calls
       /\ IF j.calls[k].count <= LargestLeaf
          THEN {2 * k, 2 * k + 1} \cap DOMAIN j.calls = {}
          ELSE {2 * k, 2 * k + 1} \subseteq DOMAIN j.calls
  /\ j.file = [s \in DOMAIN j.file |->
                 UNION {j.calls[k].bits[s] : k \in DOMAIN j.calls}]

ASSUME ParallelAssumption ==
  /\ Requests \subseteq Nat /\ Cores \in Nat
  /\ \A j \in Jobs : IsJob(j)

VARIABLES
  job,
  limit,        \* the number of threads compress was allowed
  frame,        \* by call: its arguments and how far it is
  bytes,        \* the bits set in the file, by section
  failed        \* some call has thrown an exception of its own

vars == <<job, limit, frame, bytes, failed>>

Call    == DOMAIN frame
Step(k) == frame[k].step
IsLeaf(k)   == job.calls[k].count <= LargestLeaf
Running == {"called", "written"}
Ended   == {"returned", "thrown"}

\* A call's arguments: its threads, its FormatSizeCache, named by the call it
\* was made for, and the cache its addresses refer to.  seen is what the bytes
\* were when it was called.
Called(threads, sizes, addresses, async) ==
  [step |-> "called", threads |-> threads, sizes |-> sizes,
   addresses |-> addresses, async |-> async, seen |-> bytes]

\* Frames are made and removed, and one call gets on.
Becomes(f, k, step) == [f EXCEPT ![k].step = step]
Without(k)    == [c \in Call \ {k} |-> frame[c]]
And(f, k, called) == [c \in DOMAIN f \cup {k} |-> IF c = k THEN called ELSE f[c]]

Granted(request) ==
  IF request # 0 THEN request ELSE IF Cores = 0 THEN 1 ELSE Cores

Init ==
  /\ job \in Jobs
  /\ \E request \in Requests : limit = Granted(request)
  /\ bytes = [s \in DOMAIN job.file |-> {}]
  /\ frame = [k \in {1} |-> Called(limit, 1, 1, FALSE)]
  /\ failed = FALSE

\* Mutant of Found: a read-modify-write of two steps.  Of the bytes that the
\* call changes it has read a state from before other threads' writes.
FoundEarlier(k) ==
  [s \in DOMAIN bytes |->
     {b \in bytes[s] : (\E own \in job.calls[k].bits[s] : own \div 8 = b \div 8)
                         => b \in frame[k].seen[s]}]

\* The state of the bytes that fetch_or finds: relaxed, yet the newest.
Found(k) == bytes

\* The node is coloured and its switches, or the leaf's rank, are written.  No
\* thread reads the bits, so they are written in one step.
Write(k) ==
  /\ Step(k) = "called"
  /\ bytes' = [s \in DOMAIN bytes |-> Found(k)[s] \cup job.calls[k].bits[s]]
  /\ frame' = Becomes(frame, k, IF IsLeaf(k) THEN "returned" ELSE "written")
  /\ UNCHANGED <<job, limit, failed>>

Forks(k) == frame[k].threads > 1 /\ job.calls[k].count >= SplitFrom

\* A node's vectors cannot be allocated, or its second thread cannot be started.
Throw(k) ==
  /\ \/ Step(k) = "called" /\ ~IsLeaf(k)
     \/ Step(k) = "written" /\ Forks(k)
  /\ frame' = Becomes(frame, k, "thrown")
  /\ failed' = TRUE
  /\ UNCHANGED <<job, limit, bytes>>

\* Mutants: the left half keeps all threads; the right addresses keep the cache
\* of the caller.
AllThreads(k) == frame[k].threads
LeftThreads(k) == frame[k].threads - frame[k].threads \div 2
CallersCache(k) == frame[k].addresses
RightCache(k)  == 2 * k + 1     \* with_cache(right_sizes)

\* Both children are called, the right one by a new thread with a copy of sizes.
Fork(k) ==
  /\ Step(k) = "written" /\ Forks(k)
  /\ LET left  == Called(LeftThreads(k), frame[k].sizes, frame[k].addresses, FALSE)
         right == Called(frame[k].threads \div 2, 2 * k + 1, RightCache(k), TRUE)
     IN  frame' = And(And(Becomes(frame, k, "forked"), 2 * k, left), 2 * k + 1, right)
  /\ UNCHANGED <<job, limit, bytes, failed>>

\* The children are called one after the other, and run on this thread alone.
Alone(k) == Called(1, frame[k].sizes, frame[k].addresses, FALSE)

CallLeft(k) ==
  /\ Step(k) = "written" /\ ~Forks(k)
  /\ frame' = And(Becomes(frame, k, "left"), 2 * k, Alone(k))
  /\ UNCHANGED <<job, limit, bytes, failed>>

\* Mutant of HasEnded: an exception does not make the future ready.
HasReturned(k) == k \in Call /\ Step(k) = "returned"
HasEnded(k)    == k \in Call /\ Step(k) \in Ended

\* Mutant of AfterLeft: the frame is left while right_work runs.
AfterLeftDetached(k) ==
  CASE Step(2 * k) = "thrown" -> "thrown"
    [] Step(2 * k) = "returned" /\ Step(k) = "forked" -> "joining"
    [] Step(2 * k) = "returned" /\ Step(k) = "left"   -> "right"

\* An exception of the left call leaves the frame: right_work is destroyed
\* first, and its destructor waits for the thread.
AfterLeft(k) ==
  CASE Step(2 * k) = "thrown" -> IF Step(k) = "forked" THEN "unwinding" ELSE "thrown"
    [] Step(2 * k) = "returned" /\ Step(k) = "forked" -> "joining"
    [] Step(2 * k) = "returned" /\ Step(k) = "left"   -> "right"

LeftEnds(k) ==
  /\ Step(k) \in {"left", "forked"}
  /\ HasEnded(2 * k)
  /\ LET f == Becomes(Without(2 * k), k, AfterLeft(k))
     IN  frame' = IF f[k].step = "right" THEN And(f, 2 * k + 1, Alone(k)) ELSE f
  /\ UNCHANGED <<job, limit, bytes, failed>>

\* Mutant of AfterRight: wait() in the place of get().
AfterWait(k) == IF Step(k) = "unwinding" THEN "thrown" ELSE "returned"
\* right_work.get() and the call on this thread both throw what the call threw.
AfterRight(k) == IF Step(k) = "unwinding" THEN "thrown" ELSE Step(2 * k + 1)

RightEnds(k) ==
  /\ Step(k) \in {"right", "joining", "unwinding"}
  /\ HasEnded(2 * k + 1)
  /\ frame' = Becomes(Without(2 * k + 1), k, AfterRight(k))
  /\ UNCHANGED <<job, limit, bytes, failed>>

Next ==
  \E k \in Call :
    \/ Write(k) \/ Throw(k) \/ Fork(k) \/ CallLeft(k) \/ LeftEnds(k) \/ RightEnds(k)

Spec == Init /\ [][Next]_vars

\* No more is assumed of the scheduler than that it lets some thread run.
FairSpec == Spec /\ WF_vars(Next)
-----------------------------------------------------------------------------
\* compress returns only the whole file: when the root's call returns, no call
\* has thrown, no thread's bits are lost to another's writes into the same
\* bytes, and nothing is still running that would write into the vector.
ReturnsWhole ==
  Step(1) = "returned" => ~failed /\ bytes = job.file /\ Call = {1}

\* A call uses what stands in its caller's frame (the child permutations, the
\* copied cache, the addresses): the caller waits for it, in all frames up to
\* the root, also while an exception unwinds them.
FramesOutliveCalls ==
  \A k \in Call :
    k # 1 =>
      /\ k \div 2 \in Call
      /\ Step(k \div 2) \in IF k % 2 = 0 THEN {"left", "forked"}
                            ELSE {"right", "forked", "joining", "unwinding"}

\* A FormatSizeCache changes on being asked and has no lock: no two calls that
\* run at the same time reach the same one.
CachesOf(k) == {frame[k].sizes, frame[k].addresses}
CachesAreApart ==
  \A j, k \in Call :
    j # k /\ {Step(j), Step(k)} \subseteq Running => CachesOf(j) \cap CachesOf(k) = {}

\* There are never more threads than compress was allowed to use, the caller's
\* among them, whether they run or wait.
ThreadsWithinLimit ==
  Cardinality({k \in Call : frame[k].async /\ Step(k) \notin Ended}) < limit

\* compress returns or throws, whichever calls fail and in whatever order the
\* threads run.
Ends == <>(Step(1) \in Ended)
=============================================================================
