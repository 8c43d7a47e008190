------------------------------ MODULE MetalLock ------------------------------
(***************************************************************************)
(* Metal has no 64-bit compare-and-exchange.  compact64_load and           *)
(* compact64_compare_exchange keep an entry in two 32-bit words under a    *)
(* lock, a third word.  All accesses are relaxed, two fences order them.   *)
(* This is one entry, its lock, and the threads using it.                  *)
(*                                                                         *)
(* A relaxed store is pending until it reaches memory, in any order with   *)
(* other stores of the thread; a fence waits for them.  A relaxed load     *)
(* finds the word in memory or an older one that the thread may know since *)
(* its last fence.  An exchange always finds the word in memory.           *)
(***************************************************************************)
EXTENDS Naturals

CONSTANTS Threads,
          Group(_),     \* the SIMD group of a thread
          Words,        \* of 32 bits
          Requests,     \* the calls made on the entry
          MaxCalls      \* how many calls are made in all

Values == [low : Words, high : Words]

ASSUME MetalAssumption ==
  /\ MaxCalls \in Nat
  /\ Requests \subseteq [op : {"load"}] \cup
                        [op : {"swap"}, expected : Values, replacement : Values]

VARIABLES
  words,        \* the two words in memory
  lock,         \* 1 when it is taken
  pending,      \* by thread: what it has stored that has not reached memory
  known,        \* by thread: the words at its last fence
  read,         \* by thread: what it has loaded
  at,
  call,
  calls         \* how many calls have been made

lockVars == <<words, lock, pending, known, read, at, call, calls>>

\* The entry when all stores have reached memory.
Settled(half) ==
  IF \E t \in Threads : half \in pending[t]
  THEN LET t == CHOOSE u \in Threads : half \in pending[u]
       IN  call[t].request.replacement[half]
  ELSE words[half]

Atomic == INSTANCE AtomicEntry
           WITH entry <- [low |-> Settled("low"), high |-> Settled("high")]

\* compact64_initialize, in a dispatch of its own.
LockInit ==
  /\ words \in Values
  /\ lock = 0
  /\ pending = [t \in Threads |-> {}]
  /\ known = [t \in Threads |-> words]
  /\ read = known
  /\ at = [t \in Threads |-> "idle"]
  /\ \E r \in Requests :
       call = [t \in Threads |-> [request |-> r, ended |-> TRUE, result |-> words]]
  /\ calls = 0

Goes(t, step) == at' = [at EXCEPT ![t] = step]

Ask(t) ==
  /\ at[t] = "idle" /\ calls < MaxCalls
  /\ \E r \in Requests :
       call' = [call EXCEPT ![t].request = r, ![t].ended = FALSE]
  /\ calls' = calls + 1
  /\ Goes(t, "spin")
  /\ UNCHANGED <<words, lock, pending, known, read>>

\* The lanes of a SIMD group share a program counter: none goes round the loop
\* while another is in the body of its if.
Reconverged(t) ==
  \A u \in Threads : Group(u) = Group(t) => at[u] \in {"idle", "spin"}

\* The exchange finds 0.  When it finds 1 the lane has changed nothing.
Acquire(t) ==
  /\ at[t] = "spin" /\ Reconverged(t)
  /\ "lock" \notin pending[t]
  /\ lock = 0
  /\ lock' = 1
  /\ Goes(t, "acquired")
  /\ UNCHANGED <<words, pending, known, read, call, calls>>

\* Mutant of Refreshed: no fence for the loads behind it.
KnownStays(t) == known
Refreshed(t)  == [known EXCEPT ![t] = words]

\* The fence behind the exchange.
Enter(t) ==
  /\ at[t] = "acquired"
  /\ pending[t] = {}
  /\ known' = Refreshed(t)
  /\ Goes(t, "load")
  /\ UNCHANGED <<words, lock, pending, read, call, calls>>

Finds(t, half) == {known[t][half], words[half]}

LoadLow(t) ==
  /\ at[t] = "load"
  /\ \E w \in Finds(t, "low") : read' = [read EXCEPT ![t].low = w]
  /\ Goes(t, "compare")
  /\ UNCHANGED <<words, lock, pending, known, call, calls>>

\* The other word is loaded; if a swap finds what it expects, both are stored.
Compare(t) ==
  /\ at[t] = "compare"
  /\ \E w \in Finds(t, "high") :
       LET actual == [read[t] EXCEPT !.high = w]
       IN  /\ read' = [read EXCEPT ![t] = actual]
           /\ call' = [call EXCEPT ![t].ended = TRUE, ![t].result = actual]
           /\ pending' = [pending EXCEPT ![t] =
                IF Atomic!Succeeds(call[t].request, actual) THEN {"low", "high"} ELSE {}]
  /\ Goes(t, "stored")
  /\ UNCHANGED <<words, lock, known, calls>>

\* Mutant of Unlocks: a swap that fails returns with the lock.
UnlocksIfStored(t) ==
  IF Atomic!Succeeds(call[t].request, call[t].result) THEN {"lock"} ELSE {}
Unlocks(t) == {"lock"}

\* The fence before the lock is given back, and the store that does it.
Leave(t) ==
  /\ at[t] = "stored"
  /\ pending[t] = {}
  /\ known' = Refreshed(t)
  /\ pending' = [pending EXCEPT ![t] = @ \cup Unlocks(t)]
  /\ Goes(t, "idle")
  /\ UNCHANGED <<words, lock, read, call, calls>>

\* A store reaches memory.
Arrive(t) ==
  \E where \in pending[t] :
    /\ pending' = [pending EXCEPT ![t] = @ \ {where}]
    /\ IF where = "lock" THEN lock' = 0 /\ UNCHANGED words
       ELSE words' = [words EXCEPT ![where] = call[t].request.replacement[where]]
            /\ UNCHANGED lock
    /\ UNCHANGED <<known, read, at, call, calls>>

Step(t) == Acquire(t) \/ Enter(t) \/ LoadLow(t) \/ Compare(t) \/ Leave(t)

LockNext == \E t \in Threads : Ask(t) \/ Step(t) \/ Arrive(t)

LockSpec == LockInit /\ [][LockNext]_lockVars

\* A lane that is not held up gets on, and what is stored reaches memory.
LockFairSpec ==
  LockSpec /\ \A t \in Threads : WF_lockVars(Step(t)) /\ WF_lockVars(Arrive(t))
-----------------------------------------------------------------------------
\* No thread sees half a swap, loses one to another, or swaps on a value that
\* is not there any more: the two words are one atomic entry.
ImplementsAtomicEntry == Atomic!Spec

\* No call spins for ever, and no lane of a group waits for one that waits for
\* the lock it holds.
CallsEnd == \A t \in Threads : ~call[t].ended ~> call[t].ended
=============================================================================
