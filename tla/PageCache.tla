------------------------------ MODULE PageCache ------------------------------
(***************************************************************************)
(* CompressedPermutationFile::Impl: the reads of a file view go through a  *)
(* cache of at most page_limit pages, shared by all threads that look up   *)
(* values in the view.  read_cached checks the range, takes the mutex and  *)
(* copies page by page; page() finds the page, or evicts the least         *)
(* recently used one and loads it from the stream, which may fail.         *)
(***************************************************************************)
EXTENDS Naturals, Sequences, FiniteSets

CONSTANTS Threads,      \* the callers
          Contents,     \* the file's bytes, indexed from 0
          FileSize,
          Ranges,       \* the ranges asked for
          PageSize,     \* 4096 in the code
          PageLimit,    \* max(1, cache_pages)
          MaxReads,     \* bound on the number of reads, for TLC
          None          \* no thread

ASSUME CacheAssumption ==
  /\ FileSize \in Nat /\ DOMAIN Contents = 0 .. FileSize - 1
  /\ Ranges \subseteq [offset : Nat, length : Nat]
  /\ PageSize \in Nat \ {0}
  /\ PageLimit \in Nat \ {0}
  /\ MaxReads \in Nat
  /\ None \notin Threads

VARIABLES
  call,         \* of each thread: the read it is in or has made
  pages,        \* by page index: the loaded pages
  tick,
  mutex,        \* the thread that holds it
  pc,           \* of each thread: where it is in read_cached
  copied,       \* of each thread: what it has written to the destination
  reads,        \* reads begun, for the bound
  uses          \* history variable: the pages used, one after the other

cache     == <<pages, tick, uses>>
cacheVars == <<call, cache, mutex, pc, copied, reads>>

Source == INSTANCE ByteSource

Smaller(a, b) == IF a < b THEN a ELSE b

\* The bytes of page i that are in the file.
Valid(i)   == Smaller(PageSize, FileSize - i * PageSize)
Content(i) == [k \in 0 .. Valid(i) - 1 |-> Contents[i * PageSize + k]]

CacheInit ==
  /\ Source!Init
  /\ pages = [i \in {} |-> 0]
  /\ tick = 0
  /\ mutex = None
  /\ pc = [t \in Threads |-> "idle"]
  /\ copied = [t \in Threads |-> <<>>]
  /\ reads = 0
  /\ uses = <<>>

\* read_cached is called, and rejects a range outside the file.
Ask(t) ==
  /\ pc[t] = "idle"
  /\ reads < MaxReads
  /\ reads' = reads + 1
  /\ Source!Ask(t)
  /\ pc' = [pc EXCEPT ![t] =
             IF Source!Inside(call'[t].range) THEN "lock" ELSE "reject"]
  /\ UNCHANGED <<cache, mutex, copied>>

Reject(t) ==
  /\ pc[t] = "reject"
  /\ call' = [call EXCEPT ![t].state = "failed"]
  /\ pc' = [pc EXCEPT ![t] = "idle"]
  /\ UNCHANGED <<cache, mutex, copied, reads>>

\* Mutant of Lock: the cache is used without the mutex.
DoNotLock(t) ==
  /\ pc[t] = "lock"
  /\ pc' = [pc EXCEPT ![t] = "page"]
  /\ copied' = [copied EXCEPT ![t] = <<>>]
  /\ UNCHANGED <<call, cache, mutex, reads>>

Lock(t) ==
  /\ pc[t] = "lock"
  /\ mutex = None
  /\ mutex' = t
  /\ pc' = [pc EXCEPT ![t] = "page"]
  /\ copied' = [copied EXCEPT ![t] = <<>>]
  /\ UNCHANGED <<call, cache, reads>>

\* The next byte of the destination, its page, its place in the page.
Length(t)   == call[t].range.length
Absolute(t) == call[t].range.offset + Len(copied[t])
Wanted(t)   == Absolute(t) \div PageSize
\* Mutant of Within: every page is read from its start.
FromStart(t) == 0
Within(t)   == Absolute(t) % PageSize
More(t)     == Len(copied[t]) < Length(t)

\* The page becomes the most recently used one.
Use(i) ==
  /\ tick' = tick + 1
  /\ uses' = Append(uses, i)

\* Mutant of Hit: the page keeps the time of its first use.
HitWithoutUse(t) ==
  /\ pc[t] = "page" /\ More(t)
  /\ Wanted(t) \in DOMAIN pages
  /\ Use(Wanted(t))
  /\ pc' = [pc EXCEPT ![t] = "copy"]
  /\ UNCHANGED <<pages, call, mutex, copied, reads>>

\* page() finds the page.
Hit(t) ==
  /\ pc[t] = "page" /\ More(t)
  /\ Wanted(t) \in DOMAIN pages
  /\ Use(Wanted(t))
  /\ pages' = [pages EXCEPT ![Wanted(t)].lastUsed = tick']
  /\ pc' = [pc EXCEPT ![t] = "copy"]
  /\ UNCHANGED <<call, mutex, copied, reads>>

Oldest(i) ==
  /\ i \in DOMAIN pages
  /\ \A j \in DOMAIN pages : pages[i].lastUsed <= pages[j].lastUsed

\* Mutant of Full: there is room for one page more.
FullBeyond == Cardinality(DOMAIN pages) > PageLimit
Full == Cardinality(DOMAIN pages) >= PageLimit

\* page() does not find it, and makes room first.
Miss(t) ==
  /\ pc[t] = "page" /\ More(t)
  /\ Wanted(t) \notin DOMAIN pages
  /\ IF Full
     THEN \E i \in DOMAIN pages :
            /\ Oldest(i)
            /\ pages' = [j \in DOMAIN pages \ {i} |-> pages[j]]
     ELSE UNCHANGED pages
  /\ pc' = [pc EXCEPT ![t] = "load"]
  /\ UNCHANGED <<call, tick, uses, mutex, copied, reads>>

\* The stream delivers the page's bytes; emplace keeps an entry that exists.
Load(t) ==
  /\ pc[t] = "load"
  /\ LET i == Wanted(t)
         loaded == [bytes |-> Content(i), valid |-> Valid(i), lastUsed |-> tick']
     IN  /\ Use(i)
         /\ pages' = [j \in DOMAIN pages \cup {i} |->
                       IF j \in DOMAIN pages THEN pages[j] ELSE loaded]
  /\ pc' = [pc EXCEPT ![t] = "copy"]
  /\ UNCHANGED <<call, mutex, copied, reads>>

\* Mutant of LoadFails: the mutex stays locked when the read throws.
LoadFailsLocked(t) ==
  /\ pc[t] = "load"
  /\ call' = [call EXCEPT ![t].state = "failed"]
  /\ pc' = [pc EXCEPT ![t] = "idle"]
  /\ UNCHANGED <<cache, mutex, copied, reads>>

\* The stream fails, the read throws; the page evicted for it is gone.
LoadFails(t) ==
  /\ pc[t] = "load"
  /\ call' = [call EXCEPT ![t].state = "failed"]
  /\ mutex' = None
  /\ pc' = [pc EXCEPT ![t] = "idle"]
  /\ UNCHANGED <<cache, copied, reads>>

\* As much of the page as the destination takes is copied.
Copy(t) ==
  /\ pc[t] = "copy"
  /\ LET page == pages[Wanted(t)]
         from == Within(t)
         count == Smaller(Length(t) - Len(copied[t]), page.valid - from)
     IN  copied' = [copied EXCEPT ![t] =
           @ \o [n \in 1 .. count |-> page.bytes[from + n - 1]]]
  /\ pc' = [pc EXCEPT ![t] = "page"]
  /\ UNCHANGED <<call, cache, mutex, reads>>

\* The destination is full: read_cached returns and unlocks.
Return(t) ==
  /\ pc[t] = "page" /\ ~More(t)
  /\ call' = [call EXCEPT ![t].state = "read", ![t].bytes = copied[t]]
  /\ mutex' = None
  /\ pc' = [pc EXCEPT ![t] = "idle"]
  /\ UNCHANGED <<cache, copied, reads>>

Step(t) ==
  Reject(t) \/ Lock(t) \/ Hit(t) \/ Miss(t) \/ Load(t) \/ LoadFails(t)
    \/ Copy(t) \/ Return(t)

CacheNext == \E t \in Threads : Ask(t) \/ Step(t)

CacheSpec == CacheInit /\ [][CacheNext]_cacheVars

\* A thread that can take a step takes one in the end.  Of the mutex no more is
\* assumed than that it is not left free for ever while a thread waits for it:
\* std::mutex hands it out in any order.
CacheFairness == \A t \in Threads : WF_cacheVars(Step(t))

CacheFairSpec == CacheSpec /\ CacheFairness
-----------------------------------------------------------------------------
Byte == {Contents[o] : o \in DOMAIN Contents}

\* The cache never holds more pages than it was given room for, also when
\* loads fail and threads come one after the other.
WithinLimit == Cardinality(DOMAIN pages) <= PageLimit

\* page() returns a reference into the table: the page is still there when the
\* bytes are copied from it.
SourcePageStays ==
  \A t \in Threads : pc[t] = "copy" => Wanted(t) \in DOMAIN pages

\* The page that makes room is the one whose last use is the longest ago, by
\* the order in which pages were really used.
UsedBefore(i, j) ==
  \E n \in DOMAIN uses : uses[n] = j /\ \A m \in n .. Len(uses) : uses[m] # i

EvictsLeastRecent ==
  [][\A i \in DOMAIN pages \ DOMAIN pages' :
       \A j \in DOMAIN pages \ {i} : UsedBefore(i, j)]_cacheVars

\* Every read ends when threads stop asking for more: the loop over the pages
\* makes progress, and the mutex is released on every way out.
ReadsEnd == \A t \in Threads : pc[t] = "lock" ~> pc[t] = "idle"

\* A read answers with the bytes of the range asked for, whatever was evicted
\* or failed before, or it fails.
ImplementsByteSource == Source!Spec
=============================================================================
