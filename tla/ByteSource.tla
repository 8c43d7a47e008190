----------------------------- MODULE ByteSource -----------------------------
(***************************************************************************)
(* What a compressed file promises the lookups that read it: a read of a   *)
(* range of the file answers with the bytes of that range, or fails; a     *)
(* range that leaves the file always fails.  Lookups of several threads    *)
(* read at the same time.                                                  *)
(***************************************************************************)
EXTENDS Naturals, Sequences

CONSTANTS Threads,      \* the callers
          Contents,     \* the file's bytes, indexed from 0
          FileSize,
          Ranges        \* the ranges asked for

VARIABLE call           \* of each thread: the read it is in or has made

NoCall == [state |-> "none", range |-> [offset |-> 0, length |-> 0], bytes |-> <<>>]

Inside(r) == r.offset <= FileSize /\ r.length <= FileSize - r.offset

Bytes(r) == [n \in 1 .. r.length |-> Contents[r.offset + n - 1]]

Init == call = [t \in Threads |-> NoCall]

Ask(t) ==
  /\ call[t].state # "reading"
  /\ \E r \in Ranges :
       call' = [call EXCEPT ![t] =
                 [state |-> "reading", range |-> r, bytes |-> <<>>]]

Answer(t) ==
  /\ call[t].state = "reading"
  /\ Inside(call[t].range)
  /\ call' = [call EXCEPT ![t].state = "read",
                          ![t].bytes = Bytes(call[t].range)]

Fail(t) ==
  /\ call[t].state = "reading"
  /\ call' = [call EXCEPT ![t].state = "failed"]

Next == \E t \in Threads : Ask(t) \/ Answer(t) \/ Fail(t)

Spec == Init /\ [][Next]_call
=============================================================================
