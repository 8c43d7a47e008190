----------------------------- MODULE AtomicEntry -----------------------------
(***************************************************************************)
(* One entry of the parents array as the algorithm of the kernels wants    *)
(* it: a value that is loaded, and compared and exchanged, in one step.    *)
(* UnionFind assumes such entries, MetalLock provides them.                *)
(***************************************************************************)
CONSTANTS Threads, Values,
          Requests      \* the calls made: loads, swaps with their arguments

VARIABLES entry,
          call          \* by thread: its latest call

\* Until the call has ended its result has no meaning.
Calls == [request : Requests, ended : BOOLEAN, result : Values]

Init ==
  /\ entry \in Values
  /\ call \in [Threads -> {c \in Calls : c.ended}]

Ask(t) ==
  /\ call[t].ended
  /\ \E r \in Requests :
       call' = [call EXCEPT ![t].request = r, ![t].ended = FALSE]
  /\ UNCHANGED entry

Succeeds(r, value) == r.op = "swap" /\ r.expected = value

\* The call takes effect and ends.  A swap has succeeded if its result is the
\* value it expected.
Take(t) ==
  /\ ~call[t].ended
  /\ call' = [call EXCEPT ![t].ended = TRUE, ![t].result = entry]
  /\ entry' = IF Succeeds(call[t].request, entry)
              THEN call[t].request.replacement ELSE entry

Next == \E t \in Threads : Ask(t) \/ Take(t)

Spec == Init /\ [][Next]_<<entry, call>>
=============================================================================
