--------------------------- MODULE EncoderProofs ---------------------------
(***************************************************************************)
(* The two ways in which the encoders divide their work, proved.           *)
(*                                                                         *)
(* ParallelEncode, for every network, every number of threads and cores,   *)
(* and whichever calls fail:                                               *)
(*   - FramesAlwaysOutlive, OnlyWholeFiles: what compress returns is whole *)
(*   - CachesAlwaysApart, ThreadsAlwaysWithinLimit                         *)
(* LevelPipeline, for every size, cluster list and place of the middle,    *)
(* every host, and every way to cut a launch:                              *)
(*   - ReadsAlwaysFresh: kernels read what was written for their level     *)
(*   - PartsAlwaysApart: a level's parts share no entries of the buffers   *)
(*   - UsedBitsAlwaysCanonical: the bits are the portable encoder's        *)
(*                                                                         *)
(* The pipeline is compared with the calls of Encoding.  build_nodes lists *)
(* the parts of a level so that the places of the next level's buffer that *)
(* a node books for its children are taken, once each (TreeIsSound).  A    *)
(* buffer holds a level when the parts in it and the level's calls are the *)
(* same, with the same orders (LevelIsHeld): the root's level holds the    *)
(* permutation, and what the kernels of a level write is the next level.   *)
(* The bits that are set are those of the calls done so far.               *)
(***************************************************************************)
EXTENDS ParallelEncode, LevelPipeline, AddressProofs, SequenceTheorems

-----------------------------------------------------------------------------
(* The frames of the calls and the bytes they set: the inductive invariant.*)

\* The step of every frame is a field of its record.
HasSteps(f) == \A c \in DOMAIN f : "step" \in DOMAIN f[c]

Shapes ==
  /\ IsJob(job)
  /\ Call \subseteq DOMAIN job.calls
  /\ 1 \in Call
  /\ HasSteps(frame)
  /\ \A k \in Call : Step(k) \notin {"called"} \cup Ended => ~IsLeaf(k)

\* FramesOutliveCalls, seen from the caller.
CallersWait ==
  \A k \in Nat \ {0} :
    /\ 2 * k \in Call =>
         k \in Call /\ Step(k) \in {"left", "forked"}
    /\ 2 * k + 1 \in Call =>
         k \in Call /\ Step(k) \in {"right", "forked", "joining", "unwinding"}

\* An exception is on its way until the root has thrown it.
FailureTravels ==
  failed => \E k \in Call : Step(k) \in {"thrown", "unwinding"}

\* The bits of a call are in the file, and those of all calls below it: of some
\* set of calls that is closed under children.
Written(k) == \A s \in DOMAIN job.file : job.calls[k].bits[s] \subseteq bytes[s]
Whole(k) ==
  \E S \in SUBSET DOMAIN job.calls :
    /\ k \in S
    /\ \A c \in S : Written(c) /\ {2 * c, 2 * c + 1} \cap DOMAIN job.calls \subseteq S

WorkIsDone ==
  /\ DOMAIN bytes = DOMAIN job.file
  /\ \A s \in DOMAIN bytes : bytes[s] \subseteq job.file[s]
  /\ bytes = [s \in DOMAIN bytes |-> bytes[s]]
  /\ \A k \in Call :
       /\ Step(k) \in {"written", "left", "right", "forked", "joining"} => Written(k)
       /\ Step(k) \in {"right", "joining"} => Whole(2 * k)
       /\ Step(k) = "returned" => Whole(k)

Inv ==
  /\ Shapes
  /\ CallersWait
  /\ FailureTravels
  /\ WorkIsDone

-----------------------------------------------------------------------------
(* Numbers of calls, and what becomes of frames. *)

LEMMA Heap ==
  ASSUME NEW k \in Nat \ {0}
  PROVE  /\ k # 1 => k \div 2 \in Nat \ {0} /\ k \div 2 < k
         /\ k = IF k % 2 = 0 THEN 2 * (k \div 2) ELSE (2 * (k \div 2)) + 1
BY SMT

LEMMA NumbersApart ==
  ASSUME NEW j \in Nat, NEW k \in Nat
  PROVE  /\ 2 * j = 2 * k => j = k
         /\ 2 * j + 1 = 2 * k + 1 => j = k
         /\ 2 * j # 2 * k + 1
BY SMT

\* A set of calls has a smallest one.
LEMMA Smallest ==
  ASSUME NEW S \in SUBSET Nat, S # {}
  PROVE  \E k \in S : \A j \in S : ~(j < k)
<1>1. PICK k \in S : \A j \in S : ~(<<j, k>> \in OpToRel(<, Nat))
  BY NatLessThanWellFounded, WFMin
<1> QED
  BY <1>1 DEF OpToRel

LEMMA StepChanges ==
  ASSUME NEW f, HasSteps(f), NEW k \in DOMAIN f, NEW step
  PROVE  /\ DOMAIN Becomes(f, k, step) = DOMAIN f
         /\ HasSteps(Becomes(f, k, step))
         /\ \A c \in DOMAIN f :
              Becomes(f, k, step)[c].step = IF c = k THEN step ELSE f[c].step
BY DEF Becomes, HasSteps

LEMMA FrameRemoved ==
  ASSUME HasSteps(frame), NEW k \in Call
  PROVE  /\ DOMAIN Without(k) = Call \ {k}
         /\ HasSteps(Without(k))
         /\ \A c \in Call \ {k} : Without(k)[c].step = Step(c)
BY DEF Without, HasSteps, Call, Step

\* What is in the file stays there.
LEMMA WholeStays ==
  ASSUME Shapes, DOMAIN bytes = DOMAIN job.file, job' = job,
         \A s \in DOMAIN job.file : bytes[s] \subseteq bytes'[s]
  PROVE  \A k : (Written(k) => Written(k)') /\ (Whole(k) => Whole(k)')
BY DEF Written, Whole

LEMMA InitInv == Init => Inv
<1> SUFFICES ASSUME Init PROVE Inv
  OBVIOUS
<1>1. IsJob(job)
  BY ParallelAssumption DEF Init, ParallelAssumption
<1>2. Call = {1} /\ HasSteps(frame) /\ Step(1) = "called"
  BY DEF Init, Call, HasSteps, Step, Called
<1>3. Shapes
  BY <1>1, <1>2 DEF Shapes, IsJob, Ended
<1>4. CallersWait
  BY <1>2 DEF CallersWait
<1>5. FailureTravels
  BY DEF Init, FailureTravels
<1>6. WorkIsDone
  BY <1>2 DEF Init, WorkIsDone
<1> QED
  BY <1>3, <1>4, <1>5, <1>6 DEF Inv

-----------------------------------------------------------------------------
(* One lemma for every step. *)

LEMMA WriteInv == ASSUME Inv, NEW k \in Call, Write(k) PROVE Inv'
<1> DEFINE step == IF IsLeaf(k) THEN "returned" ELSE "written"
           own == job.calls[k].bits
<1>1. /\ Call' = Call /\ HasSteps(frame)'
      /\ \A c \in Call : Step(c)' = IF c = k THEN step ELSE Step(c)
  BY StepChanges DEF Write, Inv, Shapes, Call, Step
<1>2. Step(k) = "called" /\ UNCHANGED <<job, failed>>
  BY DEF Write
<1>3. bytes' = [s \in DOMAIN bytes |-> bytes[s] \cup own[s]]
  BY DEF Write, Found
<1>4. k \in DOMAIN job.calls /\ k \in Nat \ {0}
  BY DEF Inv, Shapes, IsJob
<1> HIDE DEF step, own
<1>5. Shapes' /\ CallersWait' /\ FailureTravels'
  <2>1. \A c : IsLeaf(c)' = IsLeaf(c)
    BY <1>2 DEF IsLeaf
  <2>2. step \notin {"called"} \cup Ended => ~IsLeaf(k)
    BY DEF step, Ended
  <2> QED
    BY <1>1, <1>2, <2>1, <2>2 DEF Inv, Shapes, CallersWait, FailureTravels
<1>6. \A c : (Written(c) => Written(c)') /\ (Whole(c) => Whole(c)')
  BY <1>2, <1>3, WholeStays DEF Inv, WorkIsDone
<1>7. Written(k)'
  BY <1>2, <1>3 DEF Written, own, Inv, WorkIsDone
<1>8. step = "returned" => Whole(k)'
  <2> SUFFICES ASSUME step = "returned" PROVE Whole(k)'
    OBVIOUS
  <2>1. {2 * k, 2 * k + 1} \cap DOMAIN job.calls = {}
    BY <1>4 DEF step, IsLeaf, Inv, Shapes, IsJob
  <2>2. {k} \in SUBSET DOMAIN job.calls
    BY <1>4
  <2>3. \A c \in {k} : Written(c)' /\ {2 * c, 2 * c + 1} \cap DOMAIN job'.calls \subseteq {k}
    BY <1>2, <1>7, <2>1
  <2> QED
    BY <1>2, <2>2, <2>3 DEF Whole
<1>9. \A s \in DOMAIN bytes' : bytes'[s] \subseteq job.file[s]
  <2>1. \A s \in DOMAIN job.file : own[s] \subseteq job.file[s]
    BY <1>4 DEF own, Inv, Shapes, IsJob
  <2> QED
    BY <1>3, <2>1 DEF Inv, WorkIsDone
<1>10. WorkIsDone'
  <2>1. DOMAIN bytes' = DOMAIN job'.file /\ bytes' = [s \in DOMAIN bytes' |-> bytes'[s]]
    BY <1>2, <1>3 DEF Inv, WorkIsDone
  <2>2. step \in {"returned", "written"}
    BY DEF step
  <2> QED
    BY <1>1, <1>2, <1>6, <1>7, <1>8, <1>9, <2>1, <2>2 DEF Inv, WorkIsDone
<1> QED
  BY <1>5, <1>10 DEF Inv

LEMMA ThrowInv == ASSUME Inv, NEW k \in Call, Throw(k) PROVE Inv'
<1>1. /\ Call' = Call /\ HasSteps(frame)'
      /\ \A c \in Call : Step(c)' = IF c = k THEN "thrown" ELSE Step(c)
  BY StepChanges DEF Throw, Inv, Shapes, Call, Step
<1>2. Step(k) \in {"called", "written"} /\ UNCHANGED <<job, bytes>>
  BY DEF Throw
<1>3. \A c : (Written(c) <=> Written(c)') /\ (Whole(c) <=> Whole(c)')
  BY <1>2 DEF Written, Whole
<1>4. Shapes' /\ CallersWait' /\ FailureTravels'
  <2>1. \A c : IsLeaf(c)' = IsLeaf(c)
    BY <1>2 DEF IsLeaf
  <2> QED
    BY <1>1, <1>2, <2>1 DEF Inv, Shapes, CallersWait, FailureTravels, Ended
<1>5. WorkIsDone'
  BY <1>1, <1>2, <1>3 DEF Inv, WorkIsDone
<1> QED
  BY <1>4, <1>5 DEF Inv

\* The calls that a call makes are the job's, and no frame has their number.
LEMMA ChildrenAreNew ==
  ASSUME Inv, NEW k \in Call, Step(k) = "written"
  PROVE  /\ k \in Nat \ {0}
         /\ {2 * k, 2 * k + 1} \subseteq DOMAIN job.calls
         /\ 2 * k \notin Call /\ 2 * k + 1 \notin Call
BY DEF Inv, Shapes, IsJob, IsLeaf, CallersWait, Ended

LEMMA ForkInv == ASSUME Inv, NEW k \in Call, Fork(k) PROVE Inv'
<1>1. /\ Call' = Call \cup {2 * k, 2 * k + 1} /\ HasSteps(frame)'
      /\ \A c \in Call' :
           Step(c)' = CASE c = k -> "forked"
                        [] c \in {2 * k, 2 * k + 1} -> "called"
                        [] OTHER -> Step(c)
  <2> DEFINE f == Becomes(frame, k, "forked")
             left  == Called(LeftThreads(k), frame[k].sizes, frame[k].addresses, FALSE)
             right == Called(frame[k].threads \div 2, 2 * k + 1, RightCache(k), TRUE)
  <2>1. /\ DOMAIN f = Call /\ HasSteps(f)
        /\ \A c \in Call : f[c].step = IF c = k THEN "forked" ELSE Step(c)
    BY StepChanges DEF Inv, Shapes, Call, Step
  <2>2. frame' = And(And(f, 2 * k, left), 2 * k + 1, right)
    BY DEF Fork
  <2> HIDE DEF f
  <2>3. /\ "step" \in DOMAIN left /\ left.step = "called"
        /\ "step" \in DOMAIN right /\ right.step = "called"
    BY DEF Called
  <2> HIDE DEF left, right
  <2>4. /\ DOMAIN And(f, 2 * k, left) = Call \cup {2 * k} /\ HasSteps(And(f, 2 * k, left))
        /\ \A c \in Call \cup {2 * k} :
             And(f, 2 * k, left)[c].step = IF c = 2 * k THEN "called" ELSE f[c].step
    BY <2>1, <2>3 DEF And, HasSteps
  <2> DEFINE g == And(f, 2 * k, left)
  <2> HIDE DEF g
  <2>5. /\ DOMAIN frame' = DOMAIN g \cup {2 * k + 1} /\ HasSteps(frame')
        /\ \A c \in DOMAIN frame' :
             frame'[c].step = IF c = 2 * k + 1 THEN "called" ELSE g[c].step
    BY <2>2, <2>4, <2>3 DEF And, HasSteps, g
  <2>6. k \in Nat \ {0} /\ k # 2 * k /\ k # 2 * k + 1
    BY DEF Inv, Shapes, IsJob
  <2> QED
    BY <2>1, <2>4, <2>5, <2>6 DEF g, Call, Step
<1>2. Step(k) = "written" /\ UNCHANGED <<job, bytes, failed>>
  BY DEF Fork
<1>3. /\ k \in Nat \ {0} /\ {2 * k, 2 * k + 1} \subseteq DOMAIN job.calls
      /\ 2 * k \notin Call /\ 2 * k + 1 \notin Call
  BY <1>2, ChildrenAreNew
<1>4. Shapes'
  <2>1. \A c : IsLeaf(c)' = IsLeaf(c)
    BY <1>2 DEF IsLeaf
  <2> QED
    BY <1>1, <1>2, <1>3, <2>1 DEF Inv, Shapes, Ended
<1>5. CallersWait'
  <2>1. ASSUME NEW j \in Nat \ {0}, 2 * j \in Call'
        PROVE  j \in Call' /\ Step(j)' \in {"left", "forked"}
    <3>1. CASE j = k
      BY <1>1, <1>3, <3>1
    <3>2. CASE j # k
      <4>1. 2 * j \in Call
        BY <1>1, <1>3, <2>1, <3>2, NumbersApart
      <4>2. j \in Call /\ Step(j) \in {"left", "forked"}
        BY <4>1 DEF Inv, CallersWait
      <4> QED
        BY <1>1, <1>3, <3>2, <4>2
    <3> QED
      BY <3>1, <3>2
  <2>2. ASSUME NEW j \in Nat \ {0}, 2 * j + 1 \in Call'
        PROVE  /\ j \in Call'
               /\ Step(j)' \in {"right", "forked", "joining", "unwinding"}
    <3>1. CASE j = k
      BY <1>1, <1>3, <2>2, <3>1, NumbersApart
    <3>2. CASE j # k
      <4>1. 2 * j + 1 \in Call
        BY <1>1, <1>3, <2>2, <3>2, NumbersApart
      <4>2. j \in Call /\ Step(j) \in {"right", "forked", "joining", "unwinding"}
        BY <4>1 DEF Inv, CallersWait
      <4> QED
        BY <1>1, <1>3, <3>2, <4>2
    <3> QED
      BY <3>1, <3>2
  <2> QED
    BY <2>1, <2>2 DEF CallersWait
<1>6. FailureTravels'
  BY <1>1, <1>2, <1>3 DEF Inv, FailureTravels
<1>7. \A c : (Written(c) <=> Written(c)') /\ (Whole(c) <=> Whole(c)')
  BY <1>2 DEF Written, Whole
<1>8. WorkIsDone'
  BY <1>1, <1>2, <1>3, <1>7 DEF Inv, WorkIsDone
<1> QED
  BY <1>4, <1>5, <1>6, <1>8 DEF Inv

LEMMA CallLeftInv == ASSUME Inv, NEW k \in Call, CallLeft(k) PROVE Inv'
<1>1. /\ Call' = Call \cup {2 * k} /\ HasSteps(frame)'
      /\ \A c \in Call' :
           Step(c)' = CASE c = k -> "left" [] c = 2 * k -> "called" [] OTHER -> Step(c)
  <2> DEFINE f == Becomes(frame, k, "left")
  <2>1. /\ DOMAIN f = Call /\ HasSteps(f)
        /\ \A c \in Call : f[c].step = IF c = k THEN "left" ELSE Step(c)
    BY StepChanges DEF Inv, Shapes, Call, Step
  <2>2. frame' = And(f, 2 * k, Alone(k))
    BY DEF CallLeft
  <2> HIDE DEF f
  <2>3. /\ DOMAIN frame' = DOMAIN f \cup {2 * k} /\ HasSteps(frame')
        /\ \A c \in DOMAIN frame' :
             frame'[c].step = IF c = 2 * k THEN "called" ELSE f[c].step
    BY <2>1, <2>2 DEF And, HasSteps, Alone, Called
  <2>4. k \in Nat \ {0} /\ k # 2 * k
    BY DEF Inv, Shapes, IsJob
  <2> QED
    BY <2>1, <2>3, <2>4 DEF Call, Step
<1>2. Step(k) = "written" /\ UNCHANGED <<job, bytes, failed>>
  BY DEF CallLeft
<1>3. /\ k \in Nat \ {0} /\ {2 * k, 2 * k + 1} \subseteq DOMAIN job.calls
      /\ 2 * k \notin Call /\ 2 * k + 1 \notin Call
  BY <1>2, ChildrenAreNew
<1>4. Shapes'
  <2>1. \A c : IsLeaf(c)' = IsLeaf(c)
    BY <1>2 DEF IsLeaf
  <2> QED
    BY <1>1, <1>2, <1>3, <2>1 DEF Inv, Shapes, Ended
<1>5. CallersWait'
  <2>1. ASSUME NEW j \in Nat \ {0}, 2 * j \in Call'
        PROVE  j \in Call' /\ Step(j)' \in {"left", "forked"}
    <3>1. CASE j = k
      BY <1>1, <1>3, <3>1
    <3>2. CASE j # k
      <4>1. 2 * j \in Call
        BY <1>1, <1>3, <2>1, <3>2, NumbersApart
      <4>2. j \in Call /\ Step(j) \in {"left", "forked"}
        BY <4>1 DEF Inv, CallersWait
      <4> QED
        BY <1>1, <1>3, <3>2, <4>2
    <3> QED
      BY <3>1, <3>2
  <2>2. ASSUME NEW j \in Nat \ {0}, 2 * j + 1 \in Call'
        PROVE  /\ j \in Call'
               /\ Step(j)' \in {"right", "forked", "joining", "unwinding"}
    <3>1. CASE j = k
      BY <1>1, <1>3, <2>2, <3>1, NumbersApart
    <3>2. CASE j # k
      <4>1. 2 * j + 1 \in Call
        BY <1>1, <1>3, <2>2, <3>2, NumbersApart
      <4>2. j \in Call /\ Step(j) \in {"right", "forked", "joining", "unwinding"}
        BY <4>1 DEF Inv, CallersWait
      <4> QED
        BY <1>1, <1>3, <3>2, <4>2
    <3> QED
      BY <3>1, <3>2
  <2> QED
    BY <2>1, <2>2 DEF CallersWait
<1>6. FailureTravels'
  BY <1>1, <1>2, <1>3 DEF Inv, FailureTravels
<1>7. \A c : (Written(c) <=> Written(c)') /\ (Whole(c) <=> Whole(c)')
  BY <1>2 DEF Written, Whole
<1>8. WorkIsDone'
  BY <1>1, <1>2, <1>3, <1>7 DEF Inv, WorkIsDone
<1> QED
  BY <1>4, <1>5, <1>6, <1>8 DEF Inv

LEMMA LeftEndsInv == ASSUME Inv, NEW k \in Call, LeftEnds(k) PROVE Inv'
<1> DEFINE step == AfterLeft(k)
<1>1. /\ Step(k) \in {"left", "forked"} /\ 2 * k \in Call /\ Step(2 * k) \in Ended
      /\ UNCHANGED <<job, bytes, failed>>
  BY DEF LeftEnds, HasEnded
<1>2. k \in Nat \ {0} /\ k # 2 * k /\ k # 2 * k + 1 /\ 2 * k # 1 /\ 2 * k # 2 * k + 1
  BY DEF Inv, Shapes, IsJob
<1>3. /\ step = "unwinding" <=> Step(2 * k) = "thrown" /\ Step(k) = "forked"
      /\ step = "thrown" <=> Step(2 * k) = "thrown" /\ Step(k) = "left"
      /\ step = "joining" <=> Step(2 * k) = "returned" /\ Step(k) = "forked"
      /\ step = "right" <=> Step(2 * k) = "returned" /\ Step(k) = "left"
      /\ step \in {"unwinding", "thrown", "joining", "right"}
  BY <1>1 DEF AfterLeft, Ended
<1> DEFINE called == IF step = "right" THEN {2 * k + 1} ELSE {}
<1>4. /\ Call' = (Call \ {2 * k}) \cup called /\ HasSteps(frame)'
      /\ \A c \in Call' :
           Step(c)' = CASE c = k -> step [] c \in called -> "called" [] OTHER -> Step(c)
  <2> DEFINE f == Becomes(Without(2 * k), k, step)
  <2>1. /\ DOMAIN Without(2 * k) = Call \ {2 * k} /\ HasSteps(Without(2 * k))
        /\ \A c \in Call \ {2 * k} : Without(2 * k)[c].step = Step(c)
    BY <1>1, FrameRemoved DEF Inv, Shapes
  <2>2. /\ DOMAIN f = Call \ {2 * k} /\ HasSteps(f)
        /\ \A c \in Call \ {2 * k} : f[c].step = IF c = k THEN step ELSE Step(c)
    <3>1. k \in DOMAIN Without(2 * k)
      BY <1>2, <2>1
    <3> QED
      BY <2>1, <3>1, StepChanges
  <2>3. f[k].step = step
    BY <1>2, <2>2
  <2>4. frame' = IF f[k].step = "right" THEN And(f, 2 * k + 1, Alone(k)) ELSE f
    BY DEF LeftEnds
  <2> HIDE DEF f, step
  <2>5. CASE step = "right"
    <3>1. frame' = And(f, 2 * k + 1, Alone(k))
      BY <2>3, <2>4, <2>5
    <3>2. /\ DOMAIN frame' = DOMAIN f \cup {2 * k + 1} /\ HasSteps(frame')
          /\ \A c \in DOMAIN frame' :
               frame'[c].step = IF c = 2 * k + 1 THEN "called" ELSE f[c].step
      BY <2>2, <3>1 DEF And, HasSteps, Alone, Called
    <3> QED
      BY <1>2, <2>2, <2>5, <3>2 DEF Call, Step
  <2>6. CASE step # "right"
    BY <2>2, <2>3, <2>4, <2>6 DEF Call, Step
  <2> QED
    BY <2>5, <2>6
<1> HIDE DEF step
<1>5. /\ step \in {"right", "joining"} => Written(k) /\ Whole(2 * k)
      /\ step = "right" => 2 * k + 1 \notin Call /\ 2 * k + 1 \in DOMAIN job.calls
  <2>1. ~IsLeaf(k)
    BY <1>1 DEF Inv, Shapes, Ended
  <2>2. 2 * k + 1 \in DOMAIN job.calls
    BY <2>1 DEF IsLeaf, Inv, Shapes, IsJob
  <2> QED
    BY <1>1, <1>2, <1>3, <2>2 DEF Inv, WorkIsDone, CallersWait
<1>6. Shapes'
  <2>1. \A c : IsLeaf(c)' = IsLeaf(c)
    BY <1>1 DEF IsLeaf
  <2>2. ~IsLeaf(k)
    BY <1>1 DEF Inv, Shapes, Ended
  <2> QED
    BY <1>1, <1>2, <1>4, <1>5, <2>1, <2>2 DEF Inv, Shapes, Ended
<1>7. CallersWait'
  <2>1. \A j \in Nat \ {0} : 2 * j = 2 * k => j = k
    BY <1>2
  <2>2. \A j \in Nat \ {0} : 2 * j + 1 = 2 * k + 1 => j = k
    BY <1>2
  <2>3. \A j \in Nat \ {0} : 2 * j # 2 * k + 1 /\ 2 * j + 1 # 2 * k
    BY <1>2
  <2>4. 2 * (2 * k) \notin Call /\ 2 * (2 * k) + 1 \notin Call
    BY <1>1, <1>2 DEF Inv, CallersWait, Ended
  <2>5. ASSUME NEW j \in Nat \ {0}, 2 * j \in Call'
        PROVE  j \in Call' /\ Step(j)' \in {"left", "forked"}
    <3>1. 2 * j \in Call /\ j # k
      BY <1>4, <2>3, <2>5
    <3>2. j \in Call /\ Step(j) \in {"left", "forked"} /\ j # 2 * k
      BY <2>4, <2>5, <3>1 DEF Inv, CallersWait
    <3> QED
      BY <1>4, <1>5, <3>1, <3>2
  <2>6. ASSUME NEW j \in Nat \ {0}, 2 * j + 1 \in Call'
        PROVE  /\ j \in Call'
               /\ Step(j)' \in {"right", "forked", "joining", "unwinding"}
    <3>1. CASE j = k
      <4>1. step = "thrown" => 2 * k + 1 \notin Call'
        BY <1>1, <1>2, <1>3, <1>4 DEF Inv, CallersWait
      <4> QED
        BY <1>2, <1>3, <1>4, <2>6, <3>1, <4>1
    <3>2. CASE j # k
      <4>1. 2 * j + 1 \in Call /\ j # 2 * k
        BY <1>4, <2>2, <2>4, <2>6, <3>2
      <4>2. j \in Call /\ Step(j) \in {"right", "forked", "joining", "unwinding"}
        BY <4>1 DEF Inv, CallersWait
      <4> QED
        BY <1>4, <1>5, <3>2, <4>1, <4>2
    <3> QED
      BY <3>1, <3>2
  <2> QED
    BY <2>5, <2>6 DEF CallersWait
<1>8. FailureTravels'
  BY <1>1, <1>2, <1>3, <1>4, <1>5 DEF Inv, FailureTravels
<1>9. \A c : (Written(c) <=> Written(c)') /\ (Whole(c) <=> Whole(c)')
  BY <1>1 DEF Written, Whole
<1>10. WorkIsDone'
  BY <1>1, <1>3, <1>4, <1>5, <1>9 DEF Inv, WorkIsDone
<1> QED
  BY <1>6, <1>7, <1>8, <1>10 DEF Inv

\* The work of a node whose children's work is done.
LEMMA WholeNode ==
  ASSUME NEW k \in DOMAIN job.calls, Written(k), Whole(2 * k), Whole(2 * k + 1)
  PROVE  Whole(k)
<1> DEFINE Closed(S, c) ==
             Written(c) /\ {2 * c, 2 * c + 1} \cap DOMAIN job.calls \subseteq S
<1>1. PICK L \in SUBSET DOMAIN job.calls : 2 * k \in L /\ \A c \in L : Closed(L, c)
  BY DEF Whole
<1>2. PICK R \in SUBSET DOMAIN job.calls : 2 * k + 1 \in R /\ \A c \in R : Closed(R, c)
  BY DEF Whole
<1> DEFINE S == L \cup R \cup {k}
<1>3. \A c \in S : Closed(S, c)
  BY <1>1, <1>2
<1>4. S \in SUBSET DOMAIN job.calls /\ k \in S
  OBVIOUS
<1> QED
  BY <1>3, <1>4 DEF Whole

LEMMA RightEndsInv == ASSUME Inv, NEW k \in Call, RightEnds(k) PROVE Inv'
<1> DEFINE step == AfterRight(k)
           right == 2 * k + 1
<1>1. /\ Step(k) \in {"right", "joining", "unwinding"}
      /\ right \in Call /\ Step(right) \in Ended
      /\ UNCHANGED <<job, bytes, failed>>
  BY DEF RightEnds, HasEnded
<1>2. k \in Nat \ {0} /\ k # right /\ right # 1
  <2>1. k \in Nat \ {0}
    BY DEF Inv, Shapes, IsJob
  <2> QED
    BY <2>1
<1>3. step = IF Step(k) = "unwinding" THEN "thrown" ELSE Step(right)
  BY DEF AfterRight
<1>4. /\ Call' = Call \ {right} /\ HasSteps(frame)'
      /\ \A c \in Call' : Step(c)' = IF c = k THEN step ELSE Step(c)
  <2>1. /\ DOMAIN Without(right) = Call \ {right} /\ HasSteps(Without(right))
        /\ \A c \in Call \ {right} : Without(right)[c].step = Step(c)
    BY <1>1, FrameRemoved DEF Inv, Shapes
  <2>2. k \in DOMAIN Without(right)
    BY <1>2, <2>1
  <2>3. frame' = Becomes(Without(right), k, step)
    BY DEF RightEnds
  <2> HIDE DEF step, right
  <2>4. /\ DOMAIN frame' = Call \ {right} /\ HasSteps(frame')
        /\ \A c \in Call \ {right} : frame'[c].step = IF c = k THEN step ELSE Step(c)
    BY <2>1, <2>2, <2>3, StepChanges
  <2> QED
    BY <2>4 DEF Call, Step
<1> HIDE DEF step
<1>5. step \in Ended /\ 2 * k \notin Call
  BY <1>1, <1>2, <1>3 DEF Inv, CallersWait, Ended
<1>6. Shapes'
  <2>1. \A c : IsLeaf(c)' = IsLeaf(c)
    BY <1>1 DEF IsLeaf
  <2> QED
    BY <1>1, <1>2, <1>4, <1>5, <2>1 DEF Inv, Shapes
<1>7. CallersWait'
  <2>1. 2 * right \notin Call /\ 2 * right + 1 \notin Call
    BY <1>1, <1>2 DEF Inv, CallersWait, Ended
  <2>2. ASSUME NEW j \in Nat \ {0}, 2 * j \in Call'
        PROVE  j \in Call' /\ Step(j)' \in {"left", "forked"}
    <3>1. 2 * j \in Call /\ j # k /\ j # right
      BY <1>4, <1>5, <2>1, <2>2
    <3> QED
      BY <1>4, <3>1 DEF Inv, CallersWait
  <2>3. ASSUME NEW j \in Nat \ {0}, 2 * j + 1 \in Call'
        PROVE  /\ j \in Call'
               /\ Step(j)' \in {"right", "forked", "joining", "unwinding"}
    <3>1. 2 * j + 1 \in Call /\ j # k /\ j # right
      BY <1>4, <2>1, <2>3
    <3> QED
      BY <1>4, <3>1 DEF Inv, CallersWait
  <2> QED
    BY <2>2, <2>3 DEF CallersWait
<1>8. FailureTravels'
  BY <1>1, <1>2, <1>3, <1>4 DEF Inv, FailureTravels
<1>9. \A c : (Written(c) <=> Written(c)') /\ (Whole(c) <=> Whole(c)')
  BY <1>1 DEF Written, Whole
<1>10. step = "returned" => Whole(k)
  <2> SUFFICES ASSUME step = "returned" PROVE Whole(k)
    OBVIOUS
  <2>1. Step(k) \in {"right", "joining"} /\ Step(right) = "returned"
    BY <1>1, <1>3
  <2>2. Written(k) /\ Whole(2 * k) /\ Whole(2 * k + 1)
    BY <1>1, <2>1 DEF Inv, WorkIsDone
  <2> QED
    BY <2>2, WholeNode DEF Inv, Shapes
<1>11. WorkIsDone'
  BY <1>1, <1>4, <1>5, <1>9, <1>10 DEF Inv, WorkIsDone, Ended
<1> QED
  BY <1>6, <1>7, <1>8, <1>11 DEF Inv

LEMMA StepInv == Inv /\ [Next]_vars => Inv'
<1> SUFFICES ASSUME Inv, [Next]_vars PROVE Inv'
  OBVIOUS
<1>1. CASE UNCHANGED vars
  <2>1. \A c : (Written(c) <=> Written(c)') /\ (Whole(c) <=> Whole(c)')
    BY <1>1 DEF vars, Written, Whole
  <2> QED
    BY <1>1, <2>1 DEF vars, Inv, Shapes, CallersWait, FailureTravels, WorkIsDone,
                      Call, Step, IsLeaf
<1>2. CASE Next
  BY <1>2, WriteInv, ThrowInv, ForkInv, CallLeftInv, LeftEndsInv, RightEndsInv DEF Next
<1> QED
  BY <1>1, <1>2

LEMMA AlwaysInv == Spec => []Inv
BY InitInv, StepInv, PTL DEF Spec

-----------------------------------------------------------------------------

LEMMA CallersAreThere == Inv => FramesOutliveCalls
<1> SUFFICES ASSUME Inv, NEW k \in Call, k # 1
             PROVE  /\ k \div 2 \in Call
                    /\ Step(k \div 2) \in IF k % 2 = 0 THEN {"left", "forked"}
                         ELSE {"right", "forked", "joining", "unwinding"}
  BY DEF FramesOutliveCalls
<1>1. k \in Nat \ {0}
  BY DEF Inv, Shapes, IsJob
<1> DEFINE caller == k \div 2
<1>2. caller \in Nat \ {0} /\ k = IF k % 2 = 0 THEN 2 * caller ELSE 2 * caller + 1
  BY <1>1, Heap
<1> HIDE DEF caller
<1>3. CASE k % 2 = 0
  BY <1>2, <1>3 DEF Inv, CallersWait, caller
<1>4. CASE k % 2 # 0
  BY <1>2, <1>4 DEF Inv, CallersWait, caller
<1> QED
  BY <1>3, <1>4

\* When the root waits for no call there is no other: the smallest of the others
\* would have the root as its caller.
LEMMA RootIsLast == Inv /\ Step(1) \in Ended => Call = {1}
<1> SUFFICES ASSUME Inv, Step(1) \in Ended, Call \ {1} # {} PROVE FALSE
  BY DEF Inv, Shapes
<1>1. Call \subseteq Nat \ {0}
  BY DEF Inv, Shapes, IsJob
<1>2. PICK k \in Call \ {1} : \A j \in Call \ {1} : ~(j < k)
  BY <1>1, Smallest
<1>3. /\ k \div 2 \in Call
      /\ Step(k \div 2) \in {"left", "right", "forked", "joining", "unwinding"}
  BY CallersAreThere DEF FramesOutliveCalls
<1>4. k \div 2 < k
  BY <1>1, <1>2, Heap, Zenon
<1>5. k \div 2 = 1
  BY <1>2, <1>3, <1>4
<1> QED
  BY <1>3, <1>5 DEF Ended

\* A set of calls with the root that is closed under children has all calls.
LEMMA WholeRoot == Inv /\ Whole(1) => \A k \in DOMAIN job.calls : Written(k)
<1> SUFFICES ASSUME Inv, Whole(1) PROVE \A k \in DOMAIN job.calls : Written(k)
  OBVIOUS
<1>1. PICK S \in SUBSET DOMAIN job.calls :
        /\ 1 \in S
        /\ \A c \in S : Written(c) /\ {2 * c, 2 * c + 1} \cap DOMAIN job.calls \subseteq S
  BY DEF Whole
<1>2. DOMAIN job.calls \subseteq S
  <2> SUFFICES ASSUME DOMAIN job.calls \ S # {} PROVE FALSE
    OBVIOUS
  <2>1. PICK k \in DOMAIN job.calls \ S : \A j \in DOMAIN job.calls \ S : ~(j < k)
    <3>1. DOMAIN job.calls \ S \in SUBSET Nat
      BY DEF Inv, Shapes, IsJob
    <3> QED
      BY <3>1, Smallest
  <2>2. k \in Nat \ {0} /\ k # 1
    BY <1>1 DEF Inv, Shapes, IsJob
  <2> DEFINE caller == k \div 2
  <2>3. /\ caller \in Nat \ {0} /\ caller < k
        /\ k = IF k % 2 = 0 THEN 2 * caller ELSE 2 * caller + 1
    BY <2>2, Heap
  <2>4. caller \in DOMAIN job.calls
    BY <2>2 DEF Inv, Shapes, IsJob
  <2> HIDE DEF caller
  <2>5. caller \in S
    BY <2>1, <2>3, <2>4
  <2>6. k = 2 * caller \/ k = 2 * caller + 1
    BY <2>3
  <2> QED
    BY <1>1, <2>1, <2>5, <2>6
<1> QED
  BY <1>1, <1>2

LEMMA RootReturnsWhole == Inv => ReturnsWhole
<1> SUFFICES ASSUME Inv, Step(1) = "returned"
             PROVE  ~failed /\ bytes = job.file /\ Call = {1}
  BY DEF ReturnsWhole
<1>1. Call = {1}
  BY RootIsLast DEF Ended
<1>2. ~failed
  BY <1>1 DEF Inv, FailureTravels
<1>3. \A k \in DOMAIN job.calls : Written(k)
  BY WholeRoot DEF Inv, Shapes, WorkIsDone
<1>4. \A s \in DOMAIN job.file : job.file[s] \subseteq bytes[s]
  <2>1. \A s \in DOMAIN job.file :
          job.file[s] = UNION {job.calls[k].bits[s] : k \in DOMAIN job.calls}
    BY DEF Inv, Shapes, IsJob
  <2> QED
    BY <1>3, <2>1 DEF Written
<1>5. \A s \in DOMAIN job.file : bytes[s] = job.file[s]
  BY <1>4 DEF Inv, WorkIsDone
<1>6. job.file = [s \in DOMAIN job.file |-> job.file[s]]
  <2> DEFINE all(s) == UNION {job.calls[k].bits[s] : k \in DOMAIN job.calls}
  <2>1. job.file = [s \in DOMAIN job.file |-> all(s)]
    BY DEF Inv, Shapes, IsJob
  <2> HIDE DEF all
  <2> QED
    BY <2>1
<1>7. bytes = job.file
  BY <1>5, <1>6 DEF Inv, WorkIsDone
<1> QED
  BY <1>1, <1>2, <1>7

\* For every network and number of threads, whichever calls fail: a call's
\* frame, with the buffers and the cache its children use, outlives them.
THEOREM FramesAlwaysOutlive == Spec => []FramesOutliveCalls
BY AlwaysInv, CallersAreThere, PTL

\* For every network and number of threads, whichever calls fail: compress
\* returns only when all is written, and throws what any of its threads threw.
THEOREM OnlyWholeFiles == Spec => []ReturnsWhole
BY AlwaysInv, RootReturnsWhole, PTL

-----------------------------------------------------------------------------
(* Caches and threads: of some frames f.  A running call has the caches its   *)
(* arguments name, and the threads.                                           *)

HasFields(f) ==
  \A c \in DOMAIN f :
    {"step", "threads", "sizes", "addresses", "async"} \subseteq DOMAIN f[c]

\* The calls that use one cache are a line of ancestors that begins with the call
\* the cache was made for: none but the last has room for another.
CachesDescend(f) ==
  /\ DOMAIN f \subseteq Nat \ {0}
  /\ \A j \in DOMAIN f :
       /\ f[j].addresses = f[j].sizes
       /\ f[j].sizes \in DOMAIN f /\ f[j].sizes <= j
       /\ f[f[j].sizes].sizes = f[j].sizes
       /\ f[j].sizes # j => j \div 2 \in DOMAIN f /\ f[j \div 2].sizes = f[j].sizes
  /\ \A j, k \in DOMAIN f : j < k /\ f[j].sizes = f[k].sizes => j <= k \div 2

\* The threads a call may still hand out are lanes that overlap no other call's;
\* a started thread keeps the first of its lanes, and no call may hand it out.
Spreads(f, k) == f[k].step \in Running /\ f[k].threads > 1
Alive(f, k)   == f[k].async /\ f[k].step \notin Ended

HasLanes(f, all, lane) ==
  /\ \A k \in DOMAIN f : Spreads(f, k) =>
       /\ f[k].threads \in Nat
       /\ lane[k] + f[k].threads <= all
  /\ \A k \in DOMAIN f : Alive(f, k) => lane[k] > 0 /\ lane[k] < all
  /\ \A j, k \in DOMAIN f : j # k /\ Spreads(f, j) /\ Spreads(f, k) =>
       lane[j] + f[j].threads <= lane[k] \/ lane[k] + f[k].threads <= lane[j]
  /\ \A j, k \in DOMAIN f : j # k /\ Alive(f, j) /\ Alive(f, k) => lane[j] # lane[k]
  /\ \A j, k \in DOMAIN f : Alive(f, j) /\ Spreads(f, k) =>
       lane[j] <= lane[k] \/ lane[k] + f[k].threads <= lane[j]

Resources ==
  /\ HasFields(frame)
  /\ CachesDescend(frame)
  /\ limit \in Nat \ {0}
  /\ \E lane \in [Nat -> Nat] : HasLanes(frame, limit, lane)

\* A call's frame changes in its step only.
LEMMA FieldsKept ==
  ASSUME NEW f, HasFields(f), NEW k \in DOMAIN f, NEW step
  PROVE  /\ DOMAIN Becomes(f, k, step) = DOMAIN f
         /\ HasFields(Becomes(f, k, step))
         /\ \A c \in DOMAIN f :
              LET g == Becomes(f, k, step)
              IN  /\ g[c].step = IF c = k THEN step ELSE f[c].step
                  /\ g[c].threads = f[c].threads
                  /\ g[c].sizes = f[c].sizes
                  /\ g[c].addresses = f[c].addresses
                  /\ g[c].async = f[c].async
BY DEF Becomes, HasFields

LEMMA FieldsRemoved ==
  ASSUME HasFields(frame), NEW k \in Call
  PROVE  /\ DOMAIN Without(k) = Call \ {k}
         /\ HasFields(Without(k))
         /\ \A c \in Call \ {k} : Without(k)[c] = frame[c]
BY DEF Without, HasFields, Call

\* Of two calls that use one cache the first has a child.
LEMMA Elder ==
  ASSUME NEW f, CachesDescend(f), NEW j \in DOMAIN f, NEW k \in DOMAIN f,
         j < k, f[j].sizes = f[k].sizes
  PROVE  2 * j \in DOMAIN f \/ 2 * j + 1 \in DOMAIN f
<1> DEFINE Younger == {c \in DOMAIN f : j < c /\ f[c].sizes = f[j].sizes}
<1>1. DOMAIN f \in SUBSET Nat /\ DOMAIN f \subseteq Nat \ {0}
  BY DEF CachesDescend
<1>2. PICK l \in Younger : \A c \in Younger : ~(c < l)
  <2>1. Younger \in SUBSET Nat /\ k \in Younger
    BY <1>1
  <2> HIDE DEF Younger
  <2> QED
    BY <2>1, Smallest
<1>3. l \in DOMAIN f /\ j < l /\ f[l].sizes = f[j].sizes
  OBVIOUS
<1> DEFINE parent == l \div 2
<1>4. /\ j \in Nat \ {0} /\ l \in Nat \ {0}
      /\ parent \in Nat /\ parent < l
      /\ l = 2 * parent \/ l = 2 * parent + 1
  BY <1>1, <1>3, Heap
<1>5. f[l].sizes # l
  <2>1. f[j].sizes \in DOMAIN f /\ f[j].sizes <= j
    BY DEF CachesDescend
  <2> QED
    BY <1>1, <1>3, <1>4, <2>1
<1>6. parent \in DOMAIN f /\ f[parent].sizes = f[j].sizes /\ j <= parent
  BY <1>3, <1>5 DEF CachesDescend
<1> HIDE DEF parent
<1>7. parent = j
  <2>1. ~(j < parent)
    BY <1>2, <1>4, <1>6
  <2> QED
    BY <1>4, <1>6, <2>1
<1> QED
  BY <1>3, <1>4, <1>7

\* A step that changes no call's caches.
LEMMA CachesKept ==
  ASSUME NEW f, NEW g, CachesDescend(f), DOMAIN g = DOMAIN f,
         \A c \in DOMAIN f : g[c].sizes = f[c].sizes /\ g[c].addresses = f[c].addresses
  PROVE  CachesDescend(g)
BY DEF CachesDescend

\* A call without children leaves.
LEMMA CachesLeft ==
  ASSUME NEW f, NEW g, CachesDescend(f), NEW k \in DOMAIN f,
         2 * k \notin DOMAIN f, 2 * k + 1 \notin DOMAIN f,
         DOMAIN g = DOMAIN f \ {k},
         \A c \in DOMAIN g : g[c].sizes = f[c].sizes /\ g[c].addresses = f[c].addresses
  PROVE  CachesDescend(g)
<1>1. DOMAIN f \subseteq Nat \ {0}
  BY DEF CachesDescend
<1>2. ASSUME NEW j \in DOMAIN f, j # k PROVE f[j].sizes # k
  <2> SUFFICES ASSUME f[j].sizes = k PROVE FALSE
    OBVIOUS
  <2>1. f[k].sizes = k /\ k <= j
    BY DEF CachesDescend
  <2>2. k < j
    BY <1>1, <1>2, <2>1
  <2> QED
    BY <2>1, <2>2, Elder
<1>3. ASSUME NEW j \in DOMAIN f, j # k, f[j].sizes # j PROVE j \div 2 # k
  <2>1. j \in Nat \ {0}
    BY <1>1
  <2> DEFINE q == j \div 2
  <2>2. j = 2 * q \/ j = 2 * q + 1
    BY <2>1, Heap
  <2> HIDE DEF q
  <2>3. q # k
    BY <2>2
  <2> QED
    BY <2>3 DEF q
<1> QED
  BY <1>1, <1>2, <1>3 DEF CachesDescend

\* A call without children calls one with its own cache.
LEMMA CachesPassed ==
  ASSUME NEW f, NEW g, CachesDescend(f), NEW k \in DOMAIN f,
         2 * k \notin DOMAIN f, 2 * k + 1 \notin DOMAIN f,
         NEW child \in {2 * k, 2 * k + 1},
         DOMAIN g = DOMAIN f \cup {child},
         \A c \in DOMAIN f : g[c].sizes = f[c].sizes /\ g[c].addresses = f[c].addresses,
         g[child].sizes = f[k].sizes, g[child].addresses = f[k].sizes
  PROVE  CachesDescend(g)
<1>1. /\ DOMAIN f \subseteq Nat \ {0} /\ k \in Nat \ {0}
      /\ child \in Nat \ {0} /\ child \div 2 = k /\ k < child /\ child \notin DOMAIN f
  <2>1. k \in Nat \ {0}
    BY DEF CachesDescend
  <2>2. (2 * k) \div 2 = k /\ (2 * k + 1) \div 2 = k
    BY <2>1
  <2> QED
    BY <2>1, <2>2 DEF CachesDescend
<1>2. ASSUME NEW j \in DOMAIN f, f[j].sizes = f[k].sizes PROVE j <= k
  <2>1. ~(k < j)
    BY <1>2, Elder
  <2> QED
    BY <1>1, <2>1
<1>3. ASSUME NEW j \in DOMAIN f
      PROVE  /\ g[j].addresses = g[j].sizes
             /\ g[j].sizes \in DOMAIN g /\ g[j].sizes <= j
             /\ g[g[j].sizes].sizes = g[j].sizes
             /\ g[j].sizes # j => j \div 2 \in DOMAIN g /\ g[j \div 2].sizes = g[j].sizes
  BY DEF CachesDescend
<1>4. /\ g[child].addresses = g[child].sizes
      /\ g[child].sizes \in DOMAIN g /\ g[child].sizes <= child
      /\ g[g[child].sizes].sizes = g[child].sizes
      /\ child \div 2 \in DOMAIN g /\ g[child \div 2].sizes = g[child].sizes
  <2>1. f[k].sizes \in DOMAIN f /\ f[k].sizes <= k /\ f[f[k].sizes].sizes = f[k].sizes
    BY DEF CachesDescend
  <2>2. f[k].sizes <= child
    BY <1>1, <2>1
  <2> QED
    BY <1>1, <2>1, <2>2
<1>5. ASSUME NEW i \in DOMAIN g, NEW j \in DOMAIN g, i < j, g[i].sizes = g[j].sizes
      PROVE  i <= j \div 2
  <2>1. CASE i \in DOMAIN f /\ j \in DOMAIN f
    BY <1>5, <2>1 DEF CachesDescend
  <2>2. CASE i \in DOMAIN f /\ j = child
    BY <1>1, <1>2, <1>5, <2>2
  <2>3. CASE i = child
    <3>1. j \in DOMAIN f
      BY <1>1, <1>5, <2>3
    <3>2. j <= k
      BY <1>2, <1>5, <2>3, <3>1
    <3> QED
      BY <1>1, <1>5, <2>3, <3>1, <3>2
  <2> QED
    BY <2>1, <2>2, <2>3
<1>6. DOMAIN g \subseteq Nat \ {0}
  BY <1>1
<1> QED
  BY <1>3, <1>4, <1>5, <1>6 DEF CachesDescend

\* A call with a cache of its own.
LEMMA CachesMade ==
  ASSUME NEW f, NEW g, CachesDescend(f), NEW k \in Nat \ {0}, k \notin DOMAIN f,
         DOMAIN g = DOMAIN f \cup {k},
         \A c \in DOMAIN f : g[c].sizes = f[c].sizes /\ g[c].addresses = f[c].addresses,
         g[k].sizes = k, g[k].addresses = k
  PROVE  CachesDescend(g)
<1>1. \A j \in DOMAIN f : g[j].sizes # g[k].sizes
  BY DEF CachesDescend
<1>2. ASSUME NEW j \in DOMAIN f
      PROVE  /\ g[j].addresses = g[j].sizes
             /\ g[j].sizes \in DOMAIN g /\ g[j].sizes <= j
             /\ g[g[j].sizes].sizes = g[j].sizes
             /\ g[j].sizes # j => j \div 2 \in DOMAIN g /\ g[j \div 2].sizes = g[j].sizes
  BY DEF CachesDescend
<1>3. ASSUME NEW i \in DOMAIN g, NEW j \in DOMAIN g, i < j, g[i].sizes = g[j].sizes
      PROVE  i <= j \div 2
  <2>1. i \in DOMAIN f /\ j \in DOMAIN f
    BY <1>1, <1>3
  <2> QED
    BY <1>3, <2>1 DEF CachesDescend
<1>4. DOMAIN g \subseteq Nat \ {0} /\ k <= k
  BY DEF CachesDescend
<1> QED
  BY <1>2, <1>3, <1>4 DEF CachesDescend

\* A step that starts no thread and gives no call more of them.
LEMMA LanesKept ==
  ASSUME NEW f, NEW g, NEW all, NEW lane, HasLanes(f, all, lane),
         \A k \in DOMAIN g :
           /\ Spreads(g, k) => k \in DOMAIN f /\ Spreads(f, k) /\ g[k].threads = f[k].threads
           /\ Alive(g, k) => k \in DOMAIN f /\ Alive(f, k)
  PROVE  HasLanes(g, all, lane)
BY DEF HasLanes

\* Call k divides its threads between calls a and b, the second a new thread.
Divides(f, g, k, a, b, l, r) ==
  /\ DOMAIN f \subseteq Nat
  /\ k \in DOMAIN f /\ Spreads(f, k) /\ ~Spreads(g, k) /\ (Alive(g, k) => Alive(f, k))
  /\ a \in Nat \ DOMAIN f /\ b \in Nat \ DOMAIN f /\ a # b
  /\ DOMAIN g = DOMAIN f \cup {a, b}
  /\ \A c \in DOMAIN f \ {k} : g[c] = f[c]
  /\ l \in Nat \ {0} /\ r \in Nat \ {0} /\ l + r = f[k].threads
  /\ g[a].threads = l /\ ~Alive(g, a) /\ g[b].threads = r

\* The lanes are divided likewise.
LEMMA LanesSplit ==
  ASSUME NEW f, NEW g, NEW k, NEW a, NEW b, NEW l, NEW r, Divides(f, g, k, a, b, l, r),
         NEW all \in Nat, NEW lane \in [Nat -> Nat], HasLanes(f, all, lane)
  PROVE  \E other \in [Nat -> Nat] : HasLanes(g, all, other)
<1> USE DEF Divides
<1> DEFINE lane2 == [lane EXCEPT ![a] = lane[k], ![b] = lane[k] + l]
<1>1. /\ k \in Nat /\ lane[k] \in Nat /\ lane[k] + f[k].threads <= all
      /\ k # a /\ k # b
  BY DEF HasLanes
<1>2. /\ lane2 \in [Nat -> Nat]
      /\ lane2[a] = lane[k] /\ lane2[b] = lane[k] + l
      /\ \A c \in DOMAIN f : lane2[c] = lane[c]
  BY <1>1
<1> HIDE DEF lane2
<1>3. \A c \in DOMAIN f : lane[c] \in Nat /\ c # a /\ c # b
  OBVIOUS
<1>4. \A c \in DOMAIN f : /\ Spreads(g, c) => c # k /\ Spreads(f, c) /\ g[c].threads = f[c].threads
                          /\ Alive(g, c) => Alive(f, c)
  BY DEF Spreads, Alive
\* A call that spreads lies beside k; a thread's lane is outside of what k may
\* hand out.
<1>5. /\ \A c \in DOMAIN f : c # k /\ Spreads(f, c) =>
           /\ f[c].threads \in Nat
           /\ lane[c] + f[c].threads <= all
           /\ lane[c] + f[c].threads <= lane[k] \/ lane[k] + l + r <= lane[c]
      /\ \A c \in DOMAIN f : Alive(f, c) =>
           /\ lane[c] > 0 /\ lane[c] < all
           /\ lane[c] <= lane[k] \/ lane[k] + l + r <= lane[c]
  <2>1. f[k].threads = l + r
    OBVIOUS
  <2> QED
    BY <1>1, <1>3, <2>1 DEF HasLanes
<1>6. \A c \in DOMAIN g : Spreads(g, c) =>
        /\ g[c].threads \in Nat
        /\ lane2[c] + g[c].threads <= all
  BY <1>1, <1>2, <1>3, <1>4, <1>5
<1>7. \A c \in DOMAIN g : Alive(g, c) => lane2[c] > 0 /\ lane2[c] < all
  BY <1>1, <1>2, <1>3, <1>4, <1>5
<1>8. ASSUME NEW i \in DOMAIN g, NEW j \in DOMAIN g, i # j, Spreads(g, i), Spreads(g, j)
      PROVE  \/ lane2[i] + g[i].threads <= lane2[j]
             \/ lane2[j] + g[j].threads <= lane2[i]
  <2>1. CASE i \in DOMAIN f /\ j \in DOMAIN f
    <3>1. lane[i] + f[i].threads <= lane[j] \/ lane[j] + f[j].threads <= lane[i]
      BY <1>4, <1>8, <2>1 DEF HasLanes
    <3> QED
      BY <1>2, <1>4, <1>8, <2>1, <3>1
  <2>2. CASE i \in DOMAIN f /\ j \in {a, b}
    <3>1. /\ g[i].threads \in Nat /\ lane2[i] = lane[i] /\ lane[i] \in Nat
          /\ lane[i] + g[i].threads <= lane[k] \/ lane[k] + l + r <= lane[i]
      BY <1>2, <1>3, <1>4, <1>5, <1>8, <2>2
    <3> QED
      BY <1>1, <1>2, <2>2, <3>1
  <2>3. CASE j \in DOMAIN f /\ i \in {a, b}
    <3>1. /\ g[j].threads \in Nat /\ lane2[j] = lane[j] /\ lane[j] \in Nat
          /\ lane[j] + g[j].threads <= lane[k] \/ lane[k] + l + r <= lane[j]
      BY <1>2, <1>3, <1>4, <1>5, <1>8, <2>3
    <3> QED
      BY <1>1, <1>2, <2>3, <3>1
  <2>4. CASE i \in {a, b} /\ j \in {a, b}
    BY <1>1, <1>2, <1>8, <2>4
  <2> QED
    BY <2>1, <2>2, <2>3, <2>4
<1>9. ASSUME NEW i \in DOMAIN g, NEW j \in DOMAIN g, i # j, Alive(g, i), Alive(g, j)
      PROVE  lane2[i] # lane2[j]
  <2>1. CASE i \in DOMAIN f /\ j \in DOMAIN f
    BY <1>2, <1>4, <1>9, <2>1 DEF HasLanes
  <2>2. CASE i \in DOMAIN f /\ j = b
    BY <1>1, <1>2, <1>3, <1>4, <1>5, <1>9, <2>2
  <2>3. CASE j \in DOMAIN f /\ i = b
    BY <1>1, <1>2, <1>3, <1>4, <1>5, <1>9, <2>3
  <2> QED
    BY <1>9, <2>1, <2>2, <2>3
<1>10. ASSUME NEW i \in DOMAIN g, NEW j \in DOMAIN g, Alive(g, i), Spreads(g, j)
       PROVE  lane2[i] <= lane2[j] \/ lane2[j] + g[j].threads <= lane2[i]
  <2>1. CASE i \in DOMAIN f /\ j \in DOMAIN f
    <3>1. lane[i] <= lane[j] \/ lane[j] + f[j].threads <= lane[i]
      BY <1>4, <1>10, <2>1 DEF HasLanes
    <3> QED
      BY <1>2, <1>4, <1>10, <2>1, <3>1
  <2>2. CASE i \in DOMAIN f /\ j \in {a, b}
    <3>1. /\ lane2[i] = lane[i] /\ lane[i] \in Nat
          /\ lane[i] <= lane[k] \/ lane[k] + l + r <= lane[i]
      BY <1>2, <1>3, <1>4, <1>5, <1>10, <2>2
    <3> QED
      BY <1>1, <1>2, <2>2, <3>1
  <2>3. CASE j \in DOMAIN f /\ i = b
    <3>1. /\ g[j].threads \in Nat /\ lane2[j] = lane[j] /\ lane[j] \in Nat
          /\ lane[j] + g[j].threads <= lane[k] \/ lane[k] + l + r <= lane[j]
      BY <1>2, <1>3, <1>4, <1>5, <1>10, <2>3
    <3> QED
      BY <1>1, <1>2, <2>3, <3>1
  <2>4. CASE i = b /\ j \in {a, b}
    BY <1>1, <1>2, <2>4
  <2> QED
    BY <1>10, <2>1, <2>2, <2>3, <2>4
<1>11. HasLanes(g, all, lane2)
  BY <1>6, <1>7, <1>8, <1>9, <1>10 DEF HasLanes
<1> QED
  BY <1>2, <1>11

LEMMA InitResources == Init => Resources
<1> SUFFICES ASSUME Init PROVE Resources
  OBVIOUS
<1>1. limit \in Nat \ {0}
  BY ParallelAssumption DEF Init, ParallelAssumption, Granted
<1>2. /\ DOMAIN frame = {1} /\ HasFields(frame)
      /\ frame[1].step = "called" /\ frame[1].threads = limit /\ frame[1].sizes = 1
      /\ frame[1].addresses = 1 /\ frame[1].async = FALSE
  BY DEF Init, Called, HasFields
<1>3. CachesDescend(frame)
  BY <1>2 DEF CachesDescend
<1> DEFINE lane == [n \in Nat |-> 0]
<1>4. lane \in [Nat -> Nat] /\ HasLanes(frame, limit, lane)
  BY <1>1, <1>2 DEF HasLanes, Alive, Spreads
<1> HIDE DEF lane
<1> QED
  BY <1>1, <1>2, <1>3, <1>4 DEF Resources

\* A step in which calls get on and leave, or make calls without threads.
LEMMA QuietResources ==
  ASSUME Resources, limit' = limit, HasFields(frame'), CachesDescend(frame'),
         \A k \in DOMAIN frame' :
           /\ Spreads(frame', k) => /\ k \in DOMAIN frame /\ Spreads(frame, k)
                                    /\ frame'[k].threads = frame[k].threads
           /\ Alive(frame', k) => k \in DOMAIN frame /\ Alive(frame, k)
  PROVE  Resources'
<1>1. PICK lane \in [Nat -> Nat] : HasLanes(frame, limit, lane)
  BY DEF Resources
<1>2. HasLanes(frame', limit, lane)
  BY <1>1, LanesKept
<1> QED
  BY <1>2 DEF Resources

\* One call gets on.
LEMMA StepResources ==
  ASSUME Resources, NEW k \in Call, NEW step, frame' = Becomes(frame, k, step),
         limit' = limit,
         Step(k) \in Ended => step \in Ended,
         step \in Running => Step(k) \in Running
  PROVE  Resources'
<1>1. HasFields(frame) /\ CachesDescend(frame)
  BY DEF Resources
<1>2. /\ DOMAIN frame' = DOMAIN frame /\ HasFields(frame')
      /\ \A c \in DOMAIN frame :
           /\ frame'[c].step = IF c = k THEN step ELSE frame[c].step
           /\ frame'[c].threads = frame[c].threads
           /\ frame'[c].sizes = frame[c].sizes
           /\ frame'[c].addresses = frame[c].addresses
           /\ frame'[c].async = frame[c].async
  BY <1>1, FieldsKept DEF Call
<1>3. CachesDescend(frame')
  BY <1>1, <1>2, CachesKept
<1> QED
  BY <1>2, <1>3, QuietResources DEF Spreads, Alive, Step, Call

\* A call that does not wait for one has no children.
LEMMA Childless ==
  ASSUME Inv, NEW k \in Call, Step(k) \in Running \cup Ended
  PROVE  k \in Nat \ {0} /\ 2 * k \notin Call /\ 2 * k + 1 \notin Call
<1>1. k \in Nat \ {0}
  BY DEF Inv, Shapes, IsJob
<1> QED
  BY <1>1 DEF Inv, CallersWait, Running, Ended

LEMMA ForkResources == ASSUME Inv, Resources, NEW k \in Call, Fork(k) PROVE Resources'
<1> DEFINE a == 2 * k
           b == 2 * k + 1
           l == LeftThreads(k)
           r == frame[k].threads \div 2
           f == Becomes(frame, k, "forked")
           g == And(f, a, Called(l, frame[k].sizes, frame[k].addresses, FALSE))
           h == And(g, b, Called(r, b, b, TRUE))
<1>1. Step(k) = "written" /\ frame[k].threads > 1 /\ frame' = h /\ limit' = limit
  BY DEF Fork, Forks, RightCache
<1>2. k \in Nat \ {0} /\ a \notin Call /\ b \notin Call
  BY <1>1, Childless DEF Running
<1>3. HasFields(frame) /\ CachesDescend(frame) /\ Spreads(frame, k) /\ k \in DOMAIN frame
      /\ limit \in Nat /\ frame[k].addresses = frame[k].sizes
  BY <1>1 DEF Resources, Spreads, Running, Step, Call, CachesDescend
<1>4. PICK lane \in [Nat -> Nat] : HasLanes(frame, limit, lane)
  BY DEF Resources
<1>5. /\ l \in Nat \ {0} /\ r \in Nat \ {0} /\ l + r = frame[k].threads
  <2>1. frame[k].threads \in Nat
    BY <1>3, <1>4 DEF HasLanes
  <2>2. \A t \in Nat : t > 1 => /\ t \div 2 \in Nat \ {0} /\ t - (t \div 2) \in Nat \ {0}
                                /\ (t - (t \div 2)) + (t \div 2) = t
    OBVIOUS
  <2> QED
    BY <1>1, <2>1, <2>2 DEF LeftThreads
<1>6. a \in Nat \ {0} /\ b \in Nat \ {0} /\ a # b
  BY <1>2
<1> HIDE DEF l, r
<1>7. /\ DOMAIN f = DOMAIN frame /\ HasFields(f)
      /\ \A c \in DOMAIN frame :
           /\ f[c].step = IF c = k THEN "forked" ELSE frame[c].step
           /\ f[c].sizes = frame[c].sizes
           /\ f[c].addresses = frame[c].addresses
           /\ f[c].async = frame[c].async
      /\ \A c \in DOMAIN frame \ {k} : f[c] = frame[c]
  <2>1. \A c \in DOMAIN frame \ {k} : f[c] = frame[c]
    BY DEF Becomes
  <2> HIDE DEF f
  <2> QED
    BY <1>3, <2>1, FieldsKept DEF f
<1> HIDE DEF f
<1>8. /\ DOMAIN g = DOMAIN frame \cup {a} /\ HasFields(g)
      /\ g[a].step = "called" /\ g[a].threads = l /\ g[a].async = FALSE
      /\ g[a].sizes = frame[k].sizes /\ g[a].addresses = frame[k].sizes
      /\ \A c \in DOMAIN f : g[c] = f[c]
  <2> DEFINE called == Called(l, frame[k].sizes, frame[k].addresses, FALSE)
  <2>1. g = And(f, a, called)
    OBVIOUS
  <2>2. a \notin DOMAIN f
    BY <1>2, <1>7 DEF Call
  <2>3. /\ {"step", "threads", "sizes", "addresses", "async"} \subseteq DOMAIN called
        /\ called.step = "called" /\ called.threads = l /\ called.async = FALSE
        /\ called.sizes = frame[k].sizes /\ called.addresses = frame[k].addresses
    BY DEF Called
  <2> HIDE DEF g, a, called
  <2>4. /\ DOMAIN g = DOMAIN f \cup {a} /\ HasFields(g) /\ g[a] = called
        /\ \A c \in DOMAIN f : g[c] = f[c]
    BY <1>7, <2>1, <2>2, <2>3 DEF And, HasFields
  <2> QED
    BY <1>3, <1>7, <2>3, <2>4
<1> HIDE DEF g
<1>9. /\ DOMAIN h = DOMAIN frame \cup {a, b} /\ HasFields(h)
      /\ h[b].step = "called" /\ h[b].threads = r /\ h[b].async = TRUE
      /\ h[b].sizes = b /\ h[b].addresses = b
      /\ \A c \in DOMAIN g : h[c] = g[c]
  <2> DEFINE called == Called(r, b, b, TRUE)
  <2>1. h = And(g, b, called)
    OBVIOUS
  <2>2. b \notin DOMAIN g
    BY <1>2, <1>6, <1>8 DEF Call
  <2>3. /\ {"step", "threads", "sizes", "addresses", "async"} \subseteq DOMAIN called
        /\ called.step = "called" /\ called.threads = r /\ called.async = TRUE
        /\ called.sizes = b /\ called.addresses = b
    BY DEF Called
  <2> HIDE DEF h, a, b, called
  <2>4. /\ DOMAIN h = DOMAIN g \cup {b} /\ HasFields(h) /\ h[b] = called
        /\ \A c \in DOMAIN g : h[c] = g[c]
    BY <1>8, <2>1, <2>2, <2>3 DEF And, HasFields
  <2>5. DOMAIN h = DOMAIN frame \cup {a, b}
    BY <1>8, <2>4
  <2> QED
    BY <2>3, <2>4, <2>5
<1> HIDE DEF h
<1>10. CachesDescend(f)
  BY <1>3, <1>7, CachesKept
<1>11. CachesDescend(g)
  <2>1. f[k].sizes = frame[k].sizes
    BY <1>3, <1>7
  <2>2. a \in {2 * k, 2 * k + 1} /\ DOMAIN g = DOMAIN f \cup {a}
    BY <1>7, <1>8
  <2>3. k \in DOMAIN f /\ 2 * k \notin DOMAIN f /\ 2 * k + 1 \notin DOMAIN f
    BY <1>2, <1>3, <1>7 DEF Call
  <2> HIDE DEF a
  <2> QED
    BY <1>8, <1>10, <2>1, <2>2, <2>3, CachesPassed
<1> HIDE DEF a, b
<1>12. CachesDescend(h)
  BY <1>2, <1>6, <1>8, <1>9, <1>11, CachesMade DEF Call
<1>13. \E other \in [Nat -> Nat] : HasLanes(h, limit, other)
  <2>1. DOMAIN frame \subseteq Nat
    BY <1>3 DEF CachesDescend
  <2>2. ~Spreads(h, k) /\ (Alive(h, k) => Alive(frame, k))
    <3>1. h[k].step = "forked" /\ h[k].async = frame[k].async
      BY <1>3, <1>7, <1>8, <1>9
    <3> QED
      BY <1>3, <3>1 DEF Spreads, Alive, Running, Ended
  <2>3. \A c \in DOMAIN frame \ {k} : h[c] = frame[c]
    BY <1>7, <1>8, <1>9
  <2>4. h[a].threads = l /\ ~Alive(h, a) /\ h[b].threads = r
    BY <1>8, <1>9 DEF Alive
  <2>5. a \in Nat \ DOMAIN frame /\ b \in Nat \ DOMAIN frame
    BY <1>2, <1>6 DEF Call
  <2>6. DOMAIN h = DOMAIN frame \cup {a, b}
    BY <1>9
  <2>7. Divides(frame, h, k, a, b, l, r)
    BY <1>3, <1>5, <1>6, <2>1, <2>2, <2>3, <2>4, <2>5, <2>6 DEF Divides
  <2> QED
    BY <1>3, <1>4, <2>7, LanesSplit
<1>14. /\ HasFields(frame') /\ CachesDescend(frame') /\ limit' \in Nat \ {0}
       /\ \E other \in [Nat -> Nat] : HasLanes(frame', limit', other)
  BY <1>1, <1>9, <1>12, <1>13 DEF Resources
<1> QED
  BY <1>14 DEF Resources

LEMMA CallLeftResources == ASSUME Inv, Resources, NEW k \in Call, CallLeft(k) PROVE Resources'
<1> DEFINE a == 2 * k
           f == Becomes(frame, k, "left")
           g == And(f, a, Alone(k))
<1>1. Step(k) = "written" /\ frame' = g /\ limit' = limit
  BY DEF CallLeft
<1>2. k \in Nat \ {0} /\ a \notin Call /\ 2 * k + 1 \notin Call
  BY <1>1, Childless DEF Running
<1>3. HasFields(frame) /\ CachesDescend(frame) /\ k \in DOMAIN frame
      /\ frame[k].addresses = frame[k].sizes
  BY DEF Resources, Call, CachesDescend
<1>4. /\ DOMAIN f = DOMAIN frame /\ HasFields(f)
      /\ \A c \in DOMAIN frame :
           /\ f[c].step = IF c = k THEN "left" ELSE frame[c].step
           /\ f[c].threads = frame[c].threads
           /\ f[c].sizes = frame[c].sizes
           /\ f[c].addresses = frame[c].addresses
           /\ f[c].async = frame[c].async
  BY <1>3, FieldsKept
<1> HIDE DEF f
<1>5. /\ DOMAIN g = DOMAIN frame \cup {a} /\ HasFields(g)
      /\ g[a].threads = 1 /\ g[a].async = FALSE
      /\ g[a].sizes = frame[k].sizes /\ g[a].addresses = frame[k].sizes
      /\ \A c \in DOMAIN f : g[c] = f[c]
  <2> DEFINE called == Alone(k)
  <2>1. g = And(f, a, called)
    OBVIOUS
  <2>2. a \notin DOMAIN f
    BY <1>2, <1>4 DEF Call
  <2>3. /\ {"step", "threads", "sizes", "addresses", "async"} \subseteq DOMAIN called
        /\ called.threads = 1 /\ called.async = FALSE
        /\ called.sizes = frame[k].sizes /\ called.addresses = frame[k].addresses
    BY DEF Alone, Called
  <2> HIDE DEF g, a, called
  <2>4. /\ DOMAIN g = DOMAIN f \cup {a} /\ HasFields(g) /\ g[a] = called
        /\ \A c \in DOMAIN f : g[c] = f[c]
    BY <1>4, <2>1, <2>2, <2>3 DEF And, HasFields
  <2> QED
    BY <1>3, <1>4, <2>3, <2>4
<1> HIDE DEF g
<1>6. CachesDescend(f)
  BY <1>3, <1>4, CachesKept
<1>7. CachesDescend(g)
  <2>1. f[k].sizes = frame[k].sizes
    BY <1>3, <1>4
  <2>2. a \in {2 * k, 2 * k + 1} /\ DOMAIN g = DOMAIN f \cup {a}
    BY <1>4, <1>5
  <2>3. k \in DOMAIN f /\ 2 * k \notin DOMAIN f /\ 2 * k + 1 \notin DOMAIN f
    BY <1>2, <1>3, <1>4 DEF Call
  <2> HIDE DEF a
  <2> QED
    BY <1>5, <1>6, <2>1, <2>2, <2>3, CachesPassed
<1> HIDE DEF a
<1>8. ASSUME NEW c \in DOMAIN g
      PROVE  /\ Spreads(g, c) => /\ c \in DOMAIN frame /\ Spreads(frame, c)
                                 /\ g[c].threads = frame[c].threads
             /\ Alive(g, c) => c \in DOMAIN frame /\ Alive(frame, c)
  <2>1. CASE c = a
    BY <1>5, <2>1 DEF Spreads, Alive
  <2>2. CASE c \in DOMAIN frame
    BY <1>1, <1>4, <1>5, <2>2 DEF Spreads, Alive, Running, Ended, Step
  <2> QED
    BY <1>5, <2>1, <2>2
<1> QED
  BY <1>1, <1>5, <1>7, <1>8, QuietResources

\* A callee that has ended leaves, and its caller gets on.
LEMMA CalleeLeaves ==
  ASSUME Inv, Resources, NEW k \in Call, NEW callee \in Call, callee # k,
         Step(callee) \in Ended, Step(k) \notin Ended, NEW step, step \notin Running
  PROVE  LET f == Becomes(Without(callee), k, step)
         IN  /\ DOMAIN f = Call \ {callee} /\ HasFields(f) /\ CachesDescend(f)
             /\ f[k].step = step /\ f[k].sizes = frame[k].sizes
             /\ \A c \in DOMAIN f :
                  /\ Spreads(f, c) => /\ c \in Call /\ Spreads(frame, c)
                                      /\ f[c].threads = frame[c].threads
                  /\ Alive(f, c) => c \in Call /\ Alive(frame, c)
<1> DEFINE f == Becomes(Without(callee), k, step)
<1>1. HasFields(frame) /\ CachesDescend(frame)
  BY DEF Resources
<1>2. /\ DOMAIN Without(callee) = Call \ {callee} /\ HasFields(Without(callee))
      /\ \A c \in Call \ {callee} : Without(callee)[c] = frame[c]
  BY <1>1, FieldsRemoved
<1>3. CachesDescend(Without(callee))
  <2>1. 2 * callee \notin Call /\ 2 * callee + 1 \notin Call
    BY Childless
  <2> QED
    BY <1>1, <1>2, <2>1, CachesLeft DEF Call
<1>4. /\ DOMAIN f = Call \ {callee} /\ HasFields(f)
      /\ \A c \in Call \ {callee} :
           /\ f[c].step = IF c = k THEN step ELSE frame[c].step
           /\ f[c].threads = frame[c].threads
           /\ f[c].sizes = frame[c].sizes
           /\ f[c].addresses = frame[c].addresses
           /\ f[c].async = frame[c].async
  BY <1>2, FieldsKept
<1> HIDE DEF f
<1>5. CachesDescend(f)
  BY <1>2, <1>3, <1>4, CachesKept
<1>6. \A c \in DOMAIN f :
        /\ Spreads(f, c) => /\ c \in Call /\ Spreads(frame, c)
                            /\ f[c].threads = frame[c].threads
        /\ Alive(f, c) => c \in Call /\ Alive(frame, c)
  BY <1>4 DEF Spreads, Alive, Step
<1> QED
  BY <1>4, <1>5, <1>6 DEF f

LEMMA LeftEndsResources == ASSUME Inv, Resources, NEW k \in Call, LeftEnds(k) PROVE Resources'
<1> DEFINE a == 2 * k
           b == 2 * k + 1
           f == Becomes(Without(a), k, AfterLeft(k))
           g == And(f, b, Alone(k))
<1>1. /\ Step(k) \in {"left", "forked"} /\ a \in Call /\ Step(a) \in {"returned", "thrown"}
      /\ frame' = IF f[k].step = "right" THEN g ELSE f
      /\ limit' = limit
  BY DEF LeftEnds, HasEnded, Ended
<1>2. /\ AfterLeft(k) \in {"thrown", "unwinding", "joining", "right"}
      /\ AfterLeft(k) = "right" => Step(k) = "left"
  BY <1>1 DEF AfterLeft
<1>3. k \in Nat \ {0} /\ a # k /\ a # b /\ b # k
  BY DEF Inv, Shapes, IsJob
<1>4. AfterLeft(k) \notin Running /\ Step(k) \notin Ended /\ Step(a) \in Ended
  BY <1>1, <1>2 DEF Running, Ended
<1> HIDE DEF a
<1>5. /\ DOMAIN f = Call \ {a} /\ HasFields(f) /\ CachesDescend(f)
      /\ f[k].step = AfterLeft(k) /\ f[k].sizes = frame[k].sizes
      /\ \A c \in DOMAIN f :
           /\ Spreads(f, c) => /\ c \in Call /\ Spreads(frame, c)
                               /\ f[c].threads = frame[c].threads
           /\ Alive(f, c) => c \in Call /\ Alive(frame, c)
  BY <1>1, <1>3, <1>4, CalleeLeaves
<1> HIDE DEF f
<1>6. CASE f[k].step # "right"
  <2>1. frame' = f
    BY <1>1, <1>6
  <2> HIDE DEF g
  <2> QED
    BY <1>1, <1>5, <2>1, QuietResources DEF Call
<1>7. CASE f[k].step = "right"
  <2>1. frame' = g
    BY <1>1, <1>7
  <2>2. b \notin Call
    BY <1>2, <1>3, <1>5, <1>7 DEF Inv, CallersWait
  <2>3. frame[k].addresses = frame[k].sizes
    BY DEF Resources, CachesDescend, Call
  <2>4. /\ DOMAIN g = DOMAIN f \cup {b} /\ HasFields(g)
        /\ g[b].threads = 1 /\ g[b].async = FALSE
        /\ g[b].sizes = f[k].sizes /\ g[b].addresses = f[k].sizes
        /\ \A c \in DOMAIN f : g[c] = f[c]
    <3> DEFINE called == Alone(k)
    <3>1. g = And(f, b, called)
      OBVIOUS
    <3>2. b \notin DOMAIN f
      BY <1>5, <2>2
    <3>3. /\ {"step", "threads", "sizes", "addresses", "async"} \subseteq DOMAIN called
          /\ called.threads = 1 /\ called.async = FALSE
          /\ called.sizes = frame[k].sizes /\ called.addresses = frame[k].addresses
      BY DEF Alone, Called
    <3> HIDE DEF g, b, called
    <3>4. /\ DOMAIN g = DOMAIN f \cup {b} /\ HasFields(g) /\ g[b] = called
          /\ \A c \in DOMAIN f : g[c] = f[c]
      BY <1>5, <3>1, <3>2, <3>3 DEF And, HasFields
    <3> QED
      BY <1>5, <2>3, <3>3, <3>4
  <2> HIDE DEF g
  <2>5. CachesDescend(g)
    <3>1. k \in DOMAIN f /\ 2 * k \notin DOMAIN f /\ 2 * k + 1 \notin DOMAIN f
      BY <1>3, <1>5, <2>2 DEF a
    <3>2. b \in {2 * k, 2 * k + 1}
      OBVIOUS
    <3> HIDE DEF b
    <3> QED
      BY <1>5, <2>4, <3>1, <3>2, CachesPassed
  <2> HIDE DEF b
  <2>6. ASSUME NEW c \in DOMAIN g
        PROVE  /\ Spreads(g, c) => /\ c \in DOMAIN frame /\ Spreads(frame, c)
                                   /\ g[c].threads = frame[c].threads
               /\ Alive(g, c) => c \in DOMAIN frame /\ Alive(frame, c)
    <3>1. CASE c = b
      BY <2>4, <3>1 DEF Spreads, Alive
    <3>2. CASE c \in DOMAIN f
      BY <1>5, <2>4, <3>2 DEF Spreads, Alive, Call
    <3> QED
      BY <2>4, <3>1, <3>2
  <2> QED
    BY <1>1, <2>1, <2>4, <2>5, <2>6, QuietResources
<1> QED
  BY <1>6, <1>7

LEMMA RightEndsResources == ASSUME Inv, Resources, NEW k \in Call, RightEnds(k) PROVE Resources'
<1> DEFINE b == 2 * k + 1
           f == Becomes(Without(b), k, AfterRight(k))
<1>1. /\ Step(k) \in {"right", "joining", "unwinding"} /\ b \in Call /\ Step(b) \in Ended
      /\ frame' = f /\ limit' = limit
  BY DEF RightEnds, HasEnded
<1>2. AfterRight(k) \notin Running /\ Step(k) \notin Ended
  BY <1>1 DEF AfterRight, Running, Ended
<1>3. b # k
  BY DEF Inv, Shapes, IsJob
<1> HIDE DEF b
<1>4. /\ DOMAIN f = Call \ {b} /\ HasFields(f) /\ CachesDescend(f)
      /\ \A c \in DOMAIN f :
           /\ Spreads(f, c) => /\ c \in Call /\ Spreads(frame, c)
                               /\ f[c].threads = frame[c].threads
           /\ Alive(f, c) => c \in Call /\ Alive(frame, c)
  BY <1>1, <1>2, <1>3, CalleeLeaves
<1> HIDE DEF f
<1> QED
  BY <1>1, <1>4, QuietResources DEF Call

LEMMA AlwaysResources == Spec => []Resources
<1>1. Inv /\ Resources /\ [Next]_vars => Resources'
  <2> SUFFICES ASSUME Inv, Resources, [Next]_vars PROVE Resources'
    OBVIOUS
  <2>1. CASE UNCHANGED vars
    BY <2>1 DEF vars, Resources
  <2>2. ASSUME NEW k \in Call, Write(k) PROVE Resources'
    <3>1. /\ frame' = Becomes(frame, k, IF IsLeaf(k) THEN "returned" ELSE "written")
          /\ Step(k) = "called" /\ limit' = limit
      BY <2>2 DEF Write
    <3> QED
      BY <3>1, StepResources DEF Running, Ended
  <2>3. ASSUME NEW k \in Call, Throw(k) PROVE Resources'
    <3>1. frame' = Becomes(frame, k, "thrown") /\ limit' = limit
      BY <2>3 DEF Throw
    <3> QED
      BY <3>1, StepResources DEF Running, Ended
  <2> QED
    BY <2>1, <2>2, <2>3, ForkResources, CallLeftResources, LeftEndsResources, RightEndsResources
       DEF Next
<1> QED
  BY <1>1, InitResources, AlwaysInv, PTL DEF Spec

\* For every network and number of threads: calls that run at the same time reach
\* different caches.
THEOREM CachesAlwaysApart == Spec => []CachesAreApart
<1>1. Inv /\ Resources => CachesAreApart
  <2> SUFFICES ASSUME Inv, Resources, NEW j \in Call, NEW k \in Call, j # k,
                      Step(j) \in Running, Step(k) \in Running,
                      CachesOf(j) \cap CachesOf(k) # {}
               PROVE  FALSE
    BY DEF CachesAreApart
  <2>1. /\ j \in Nat \ {0} /\ k \in Nat \ {0}
        /\ 2 * j \notin Call /\ 2 * j + 1 \notin Call
        /\ 2 * k \notin Call /\ 2 * k + 1 \notin Call
    BY Childless
  <2>2. frame[j].sizes = frame[k].sizes
    BY DEF CachesOf, Resources, CachesDescend, Call
  <2>3. CASE j < k
    BY <2>1, <2>2, <2>3, Elder DEF Resources, Call
  <2>4. CASE k < j
    BY <2>1, <2>2, <2>4, Elder DEF Resources, Call
  <2> QED
    BY <2>1, <2>3, <2>4
<1> QED
  BY <1>1, AlwaysInv, AlwaysResources, PTL

\* For every network, number of threads and number of cores: the threads never
\* outnumber what compress was allowed, its caller's among them.
THEOREM ThreadsAlwaysWithinLimit == Spec => []ThreadsWithinLimit
<1>1. Resources => ThreadsWithinLimit
  <2> SUFFICES ASSUME Resources PROVE ThreadsWithinLimit
    OBVIOUS
  <2> DEFINE A == {k \in Call : frame[k].async /\ Step(k) \notin Ended}
             T == 1 .. limit - 1
  <2>1. PICK lane \in [Nat -> Nat] : HasLanes(frame, limit, lane)
    BY DEF Resources
  <2>2. limit \in Nat \ {0} /\ Call \subseteq Nat
    BY DEF Resources, CachesDescend, Call
  <2> DEFINE h == [k \in A |-> lane[k]]
  <2>3. /\ \A k \in A : lane[k] \in T
        /\ \A j, k \in A : lane[j] = lane[k] => j = k
    BY <2>1, <2>2 DEF HasLanes, Alive, Step, Call
  <2> HIDE DEF A, T
  <2>4. h \in Injection(A, T)
    BY <2>3 DEF Injection, IsInjective
  <2>5. IsFiniteSet(T) /\ Cardinality(T) = limit - 1
    BY <2>2, FS_Interval DEF T
  <2>6. Cardinality(A) <= limit - 1 /\ Cardinality(A) \in Nat
    BY <2>4, <2>5, FS_Injection, FS_CardinalityType
  <2>7. Cardinality(A) < limit
    BY <2>2, <2>6
  <2> QED
    BY <2>7 DEF ThreadsWithinLimit, A
<1> QED
  BY <1>1, AlwaysResources, PTL

-----------------------------------------------------------------------------
(* How the hosts cut their work.  Nothing is left out, and the lanes of a leaf*)
(* stay together.                                                          *)

\* A launch is cut into parts of a stride that is a multiple of unit: the parts
\* make up the work, and a unit of the work is in one of them.
Cut(work, stride, turn) == {i \in 0 .. work - 1 : i \div stride = turn}

LEMMA InOnePart ==
  ASSUME NEW unit \in Nat \ {0}, NEW b \in Nat \ {0}, NEW k \in Nat
  PROVE  \A i \in k * unit .. (k + 1) * unit - 1 :
           i \in Nat /\ i \div (b * unit) = k \div b
<1> SUFFICES ASSUME NEW i \in k * unit .. (k + 1) * unit - 1
             PROVE  i \in Nat /\ i \div (b * unit) = k \div b
  OBVIOUS
<1> DEFINE q == k \div b  r == k % b  s == i - k * unit
<1>1. q \in Nat /\ r \in 0 .. b - 1 /\ k = q * b + r
  BY DivisionFacts
<1>2. k * unit \in Nat /\ (k + 1) * unit = k * unit + unit
  OBVIOUS
<1>3. i \in Nat /\ s \in 0 .. unit - 1
  BY <1>2
<1>4. k * unit = q * (b * unit) + r * unit
  <2>1. \A x, y \in Nat : (x * b + y) * unit = x * (b * unit) + y * unit
    OBVIOUS
  <2>2. k * unit = (q * b + r) * unit /\ r \in Nat
    BY <1>1
  <2> HIDE DEF q, r
  <2> QED
    BY <1>1, <2>1, <2>2
<1>5. r * unit \in Nat /\ r * unit + unit <= b * unit
  BY <1>1, Monotone
<1>6. b * unit \in Nat \ {0}
  OBVIOUS
<1> DEFINE w == b * unit  t == r * unit
<1>7. t + s \in 0 .. w - 1
  <2> HIDE DEF s, r, q
  <2>1. t \in Nat /\ w \in Nat /\ t + unit <= w
    BY <1>5, <1>6
  <2> HIDE DEF t, w
  <2> QED
    BY <1>3, <2>1
<1>8. i = q * w + (t + s)
  BY <1>4, <1>2, SMTT(30)
<1> HIDE DEF q, w, t, s
<1>9. i \div w = q
  BY <1>1, <1>3, <1>6, <1>7, <1>8, OneQuotient DEF w
<1> QED
  BY <1>3, <1>9 DEF q, w

LEMMA FirstOfPart ==
  ASSUME NEW work \in Nat \ {0}, NEW stride \in Nat \ {0}, NEW i \in 0 .. work - 1
  PROVE  LET first == (i \div stride) * stride
         IN  /\ i \div stride \in 0 .. (work - 1) \div stride
             /\ first \in 0 .. work - 1 /\ first <= i /\ i < first + stride
             /\ first % stride = 0
             /\ \A j \in 0 .. work - 1 :
                  j \div stride = i \div stride <=> j \in first .. first + stride - 1
<1> DEFINE q == i \div stride  first == q * stride
<1>1. q \in Nat /\ i % stride \in 0 .. stride - 1 /\ i = first + (i % stride)
  BY DivisionFacts
<1>2. first \in Nat
  BY <1>1
<1>3. first <= i /\ i < first + stride /\ first \in 0 .. work - 1
  <2> HIDE DEF first
  <2> QED
    BY <1>1, <1>2
<1>4. first % stride = 0
  <2>1. 0 \in 0 .. stride - 1 /\ first = q * stride + 0
    BY <1>1, <1>2
  <2> HIDE DEF first, q
  <2> QED
    BY <1>1, <1>2, <2>1, OneQuotient
<1>5. q <= (work - 1) \div stride
  <2> DEFINE z == (work - 1) \div stride
  <2>1. z \in Nat /\ (work - 1) % stride \in 0 .. stride - 1
        /\ work - 1 = z * stride + ((work - 1) % stride)
    <3>1. work - 1 \in Nat
      OBVIOUS
    <3> QED
      BY <3>1, DivisionFacts
  <2>2. z < q => z * stride + stride <= q * stride
    BY <1>1, <2>1, Monotone
  <2>3. z * stride \in Nat
    BY <2>1
  <2> DEFINE x == z * stride
  <2>4. work - 1 < x + stride
    <3> HIDE DEF x, z
    <3> QED
      BY <2>1, <2>3 DEF x
  <2> HIDE DEF z, first
  <2> QED
    BY <1>1, <1>2, <1>3, <2>1, <2>2, <2>3, <2>4 DEF first
<1>6. ASSUME NEW j \in 0 .. work - 1
      PROVE  j \div stride = q <=> j \in first .. first + stride - 1
  <2>1. j \in Nat
    OBVIOUS
  <2>2. j \div stride = q => j \in first .. first + stride - 1
    <3>1. j \div stride \in Nat /\ j % stride \in 0 .. stride - 1
          /\ j = (j \div stride) * stride + (j % stride)
      BY <2>1, DivisionFacts
    <3> DEFINE y == j \div stride
    <3> HIDE DEF y, q
    <3> SUFFICES ASSUME y = q PROVE j \in first .. first + stride - 1
      BY DEF y
    <3>2. j = first + (j % stride)
      BY <3>1 DEF y
    <3> HIDE DEF first
    <3> QED
      BY <1>2, <2>1, <3>1, <3>2
  <2>3. j \in first .. first + stride - 1 => j \div stride = q
    <3> SUFFICES ASSUME j \in first .. first + stride - 1 PROVE j \div stride = q
      OBVIOUS
    <3>1. j - first \in 0 .. stride - 1
      <4> HIDE DEF first
      <4> QED
        BY <1>2
    <3>2. j = q * stride + (j - first)
      BY <1>1, <1>2
    <3> DEFINE t == j - first
    <3>3. t \in 0 .. stride - 1 /\ j = q * stride + t
      BY <3>1, <3>2
    <3> HIDE DEF first, t
    <3>4. q \in Nat
      BY <1>1
    <3> HIDE DEF q
    <3>5. j \div stride = q
      BY <2>1, <3>3, <3>4, OneQuotient
    <3> QED
      BY <3>5 DEF q
  <2> QED
    BY <2>2, <2>3
<1> QED
  BY <1>1, <1>3, <1>4, <1>5, <1>6

LEMMA Parameters ==
  /\ Lanes \in Nat \ {0} /\ BlockSize \in Nat \ {0} /\ MaxBlocks \in Nat \ {0}
  /\ BatchMax \in Nat \ {0} /\ UintMax \in Nat \ {0}
  /\ \E u \in Nat \ {0} : BlockSize = u * Lanes
  /\ \E u \in Nat \ {0} : (BatchMax \div Lanes) * Lanes = u * Lanes
<1>1. /\ Lanes \in Nat \ {0} /\ BlockSize \in Nat \ {0} /\ MaxBlocks \in Nat \ {0}
      /\ BatchMax \in Nat \ {0} /\ UintMax \in Nat \ {0}
  BY PipelineAssumption, DeviceAssumption
<1>2. BlockSize % Lanes = 0 /\ Lanes <= BatchMax
  BY PipelineAssumption
<1>3. /\ BlockSize \div Lanes \in Nat
      /\ BlockSize = (BlockSize \div Lanes) * Lanes + (BlockSize % Lanes)
  BY <1>1, DivisionFacts
<1>4. BlockSize \div Lanes # 0 /\ BlockSize = (BlockSize \div Lanes) * Lanes
  <2> DEFINE u == BlockSize \div Lanes
  <2>1. u * Lanes \in Nat
    BY <1>1, <1>3
  <2> DEFINE x == u * Lanes
  <2>2. BlockSize = x
    <3> HIDE DEF x, u
    <3> QED
      BY <1>1, <1>2, <1>3, <2>1 DEF u, x
  <2> HIDE DEF u
  <2> QED
    BY <1>1, <2>2 DEF u
<1>5. /\ BatchMax \div Lanes \in Nat /\ BatchMax % Lanes \in 0 .. Lanes - 1
      /\ BatchMax = (BatchMax \div Lanes) * Lanes + (BatchMax % Lanes)
  BY <1>1, DivisionFacts
<1>6. BatchMax \div Lanes # 0
  <2> SUFFICES ASSUME BatchMax \div Lanes = 0 PROVE FALSE
    OBVIOUS
  <2>1. BatchMax = BatchMax % Lanes
    BY <1>1, <1>5
  <2> QED
    BY <1>1, <1>2, <1>5, <2>1
<1> QED
  BY <1>1, <1>3, <1>4, <1>5, <1>6

LEMMA TurnsAreParts ==
  ASSUME NEW work \in Nat \ {0}
  PROVE  \E b \in Nat \ {0} :
           Turns(work) = {Cut(work, b * Lanes, turn) :
                            turn \in 0 .. (work - 1) \div (b * Lanes)}
<1> DEFINE rest == IF work % BlockSize # 0 THEN 1 ELSE 0
           blocks == Smaller((work \div BlockSize) + rest, MaxBlocks)
<1>1. PICK u \in Nat \ {0} : BlockSize = u * Lanes
  BY Parameters
<1>2. /\ work \div BlockSize \in Nat /\ work % BlockSize \in 0 .. BlockSize - 1
      /\ work = (work \div BlockSize) * BlockSize + (work % BlockSize)
  BY Parameters, DivisionFacts
<1>3. work \div BlockSize = 0 => work % BlockSize # 0
  <2> SUFFICES ASSUME work \div BlockSize = 0 PROVE work % BlockSize # 0
    OBVIOUS
  <2>1. work = work % BlockSize
    BY <1>2, Parameters
  <2> QED
    BY <2>1
<1>4. blocks \in Nat \ {0}
  BY <1>2, <1>3, Parameters DEF Smaller
<1>5. Turns(work) = {Cut(work, blocks * BlockSize, turn) :
                       turn \in 0 .. (work - 1) \div (blocks * BlockSize)}
  BY DEF Turns, Cut
<1> HIDE DEF blocks
<1>6. blocks * BlockSize = (blocks * u) * Lanes /\ blocks * u \in Nat \ {0}
  BY <1>1, <1>4, Parameters
<1> QED
  BY <1>5, <1>6

LEMMA BatchesAreParts ==
  ASSUME NEW work \in Nat \ {0}, NEW alignment \in {1, Lanes}
  PROVE  \E b \in Nat \ {0} :
           LET stride == b * alignment
           IN  Batches(work, alignment) =
                 {base .. Smaller(base + stride, work) - 1 :
                    base \in {i \in 0 .. work - 1 : i % stride = 0}}
<1>1. BatchMax \div alignment \in Nat \ {0}
  <2>1. CASE alignment = 1
    <3>1. BatchMax \div 1 = BatchMax
      <4>1. BatchMax \in Nat /\ 1 \in Nat \ {0} /\ 0 \in 0 .. 1 - 1
            /\ BatchMax = BatchMax * 1 + 0
        BY Parameters
      <4> QED
        BY <4>1, OneQuotient
    <3> QED
      BY <2>1, <3>1, Parameters
  <2>2. CASE alignment = Lanes
    <3>1. BatchMax \div Lanes \in Nat
      BY Parameters, DivisionFacts
    <3>2. BatchMax \div Lanes # 0
      <4>1. PICK u \in Nat \ {0} : (BatchMax \div Lanes) * Lanes = u * Lanes
        BY Parameters
      <4>2. u * Lanes # 0
        BY Parameters
      <4> QED
        BY <4>1, <4>2, Parameters
    <3> QED
      BY <2>2, <3>1, <3>2
  <2> QED
    BY <2>1, <2>2
<1> WITNESS BatchMax \div alignment \in Nat \ {0}
<1> QED
  BY DEF Batches

\* Every number of a launch is done.
LEMMA AllAreLaunched ==
  ASSUME host \in Hosts, NEW work \in Nat \ {0}
  PROVE  UNION Launched(work, 1) = 0 .. work - 1
<1>1. Launched(work, 1) =
        CASE host \in {"cuda", "metal"} -> {0 .. work - 1}
          [] host = "cuda64"            -> Turns(work)
          [] host = "metal64"           -> Batches(work, 1)
  BY DEF Launched
<1>2. CASE host \in {"cuda", "metal"}
  <2>1. Launched(work, 1) = {0 .. work - 1}
    BY <1>1, <1>2
  <2> QED
    BY <2>1
<1>3. CASE host = "cuda64"
  <2>1. Launched(work, 1) = Turns(work)
    BY <1>1, <1>3
  <2>2. PICK b \in Nat \ {0} : Turns(work) = {Cut(work, b * Lanes, turn) :
                                    turn \in 0 .. (work - 1) \div (b * Lanes)}
    BY TurnsAreParts
  <2> DEFINE stride == b * Lanes
  <2>3. stride \in Nat \ {0}
    BY Parameters
  <2>4. \A i \in 0 .. work - 1 : i \div stride \in 0 .. (work - 1) \div stride
    <3> HIDE DEF stride
    <3> QED
      BY <2>3, FirstOfPart
  <2> HIDE DEF stride
  <2>5. \A i \in 0 .. work - 1 : i \in Cut(work, stride, i \div stride)
    BY DEF Cut
  <2>6. \A turn : Cut(work, stride, turn) \subseteq 0 .. work - 1
    BY DEF Cut
  <2>7. UNION {Cut(work, stride, turn) : turn \in 0 .. (work - 1) \div stride} = 0 .. work - 1
    BY <2>4, <2>5, <2>6
  <2> QED
    BY <2>1, <2>2, <2>7 DEF stride
<1>4. CASE host = "metal64"
  <2>1. Launched(work, 1) = Batches(work, 1)
    BY <1>1, <1>4
  <2>2. PICK b \in Nat \ {0} : Batches(work, 1) =
                 {base .. Smaller(base + b * 1, work) - 1 :
                    base \in {i \in 0 .. work - 1 : i % (b * 1) = 0}}
    BY BatchesAreParts
  <2> DEFINE Batch(base) == base .. Smaller(base + b, work) - 1
  <2>3. Batches(work, 1) = {Batch(base) : base \in {i \in 0 .. work - 1 : i % b = 0}}
    <3>1. b * 1 = b
      OBVIOUS
    <3> QED
      BY <2>2, <3>1
  <2>4. \A i \in 0 .. work - 1 :
          LET first == (i \div b) * b
          IN  first \in 0 .. work - 1 /\ first % b = 0 /\ i \in Batch(first)
    <3> SUFFICES ASSUME NEW i \in 0 .. work - 1
                 PROVE  LET first == (i \div b) * b
                        IN  first \in 0 .. work - 1 /\ first % b = 0 /\ i \in Batch(first)
      OBVIOUS
    <3> DEFINE first == (i \div b) * b
    <3>1. first \in 0 .. work - 1 /\ first % b = 0 /\ first <= i /\ i < first + b
      BY FirstOfPart
    <3> HIDE DEF first
    <3>2. i \in Batch(first)
      BY <3>1 DEF Smaller
    <3> QED
      BY <3>1, <3>2 DEF first
  <2>5. \A base \in 0 .. work - 1 : Batch(base) \subseteq 0 .. work - 1
    BY DEF Smaller
  <2> HIDE DEF Batch
  <2>6. UNION {Batch(base) : base \in {i \in 0 .. work - 1 : i % b = 0}} = 0 .. work - 1
    BY <2>4, <2>5
  <2> QED
    BY <2>1, <2>3, <2>6
<1> QED
  BY <1>2, <1>3, <1>4, PipelineAssumption

\* The lanes of a leaf run together, and the first of those that run together is
\* the first lane of a leaf.
LEMMA LeafIsEncoded ==
  ASSUME host \in Hosts, NEW leaves \in Nat, NEW k \in 0 .. leaves - 1
  PROVE  \E together \in Launched(leaves * Lanes, Lanes) : Encodes(together, k)
<1> DEFINE work == leaves * Lanes
           lanes == k * Lanes .. (k + 1) * Lanes - 1
           Leads(first, together) == first \in together /\ \A i \in together : first <= i
<1>1. /\ leaves \in Nat \ {0} /\ k \in Nat /\ Lanes \in Nat \ {0} /\ work \in Nat \ {0}
      /\ k * Lanes \in Nat /\ (k + 1) * Lanes = k * Lanes + Lanes
  BY Parameters
<1>2. (k + 1) * Lanes <= work
  <2>1. k + 1 \in Nat /\ k + 1 <= leaves /\ Lanes \in Nat
    BY <1>1
  <2> QED
    BY <1>1, <2>1, Monotone
<1> HIDE DEF work
<1>3. lanes \subseteq 0 .. work - 1 /\ k * Lanes \in lanes
  BY <1>1, <1>2
<1>4. ASSUME NEW together, NEW q \in Nat, together \subseteq Nat, lanes \subseteq together,
             q * Lanes \in together, \A i \in together : q * Lanes <= i
      PROVE  Encodes(together, k)
  <2>1. ASSUME NEW first \in together, \A i \in together : first <= i
        PROVE  (k * Lanes - first) % Lanes = 0
    <3>1. first = q * Lanes
      <4>1. q * Lanes \in Nat /\ first \in Nat /\ first <= q * Lanes /\ q * Lanes <= first
        BY <1>1, <1>4, <2>1
      <4> QED
        BY <4>1
    <3>2. q * Lanes <= k * Lanes
      BY <1>3, <1>4
    <3>3. q <= k
      <4>1. k < q => k * Lanes + Lanes <= q * Lanes
        BY <1>1, Monotone
      <4> DEFINE x == k * Lanes  y == q * Lanes
      <4>2. x \in Nat /\ y \in Nat /\ y <= x
        BY <1>1, <3>2
      <4> HIDE DEF x, y
      <4> QED
        BY <1>1, <4>1, <4>2 DEF x, y
    <3>4. k * Lanes - first = (k - q) * Lanes + 0 /\ k - q \in Nat
          /\ k * Lanes - first \in Nat /\ 0 \in 0 .. Lanes - 1
      BY <1>1, <3>1, <3>3
    <3> QED
      BY <1>1, <3>4, OneQuotient
  <2> QED
    BY <1>4, <2>1 DEF Encodes
<1>5. Launched(work, Lanes) =
        CASE host \in {"cuda", "metal"} -> {0 .. work - 1}
          [] host = "cuda64"            -> Turns(work)
          [] host = "metal64"           -> Batches(work, Lanes)
  BY DEF Launched
\* Work is cut at multiples of b leaves.
<1>6. ASSUME NEW b \in Nat \ {0}, NEW stride, stride = b * Lanes
      PROVE  LET q == k \div b
                 first == q * stride
                 part == {i \in 0 .. work - 1 : first <= i /\ i < first + stride}
             IN  /\ Encodes(part, k)
                 /\ first \in 0 .. work - 1 /\ first % stride = 0 /\ stride \in Nat \ {0}
                 /\ q \in 0 .. (work - 1) \div stride
                 /\ \A j \in 0 .. work - 1 : j \div stride = q <=> j \in part
  <2> DEFINE q == k \div b
             first == q * stride
             part == {i \in 0 .. work - 1 : first <= i /\ i < first + stride}
  <2>1. stride \in Nat \ {0}
    BY <1>1, <1>6
  <2>2. \A i \in lanes : i \div stride = q
    <3>1. \A i \in lanes : i \in Nat /\ i \div (b * Lanes) = k \div b
      BY <1>1, InOnePart, Zenon
    <3> HIDE DEF lanes
    <3> QED
      BY <1>6, <3>1
  <2>3. /\ q \in 0 .. (work - 1) \div stride
        /\ first \in 0 .. work - 1 /\ first % stride = 0
        /\ \A j \in 0 .. work - 1 : j \div stride = q <=> j \in first .. first + stride - 1
    <3>1. (k * Lanes) \div stride = q /\ k * Lanes \in 0 .. work - 1
      BY <1>3, <2>2
    <3> HIDE DEF q
    <3> QED
      BY <1>1, <2>1, <3>1, FirstOfPart
  <2>4. \A j \in 0 .. work - 1 : j \div stride = q <=> j \in part
    <3> HIDE DEF q, first
    <3> QED
      BY <2>1, <2>3
  <2>5. lanes \subseteq part
    <3> HIDE DEF lanes, part, q
    <3> QED
      BY <1>3, <2>2, <2>4
  <2>6. q \in Nat /\ first = (q * b) * Lanes /\ q * b \in Nat
    <3>1. q \in Nat
      BY <1>1, <1>6, DivisionFacts
    <3> HIDE DEF q
    <3> QED
      BY <1>1, <1>6, <3>1
  <2>7. part \subseteq Nat /\ first \in part /\ \A i \in part : first <= i
    <3> HIDE DEF first
    <3> QED
      BY <2>1, <2>3
  <2>8. Encodes(part, k)
    <3> HIDE DEF part, first, q, lanes
    <3> QED
      BY <1>4, <2>5, <2>6, <2>7
  <2> QED
    BY <2>1, <2>3, <2>4, <2>8
<1>7. CASE host \in {"cuda", "metal"}
  <2>1. Launched(work, Lanes) = {0 .. work - 1}
    BY <1>5, <1>7
  <2>2. Encodes(0 .. work - 1, k)
    <3>1. 0 * Lanes = 0 /\ 0 \in 0 .. work - 1 /\ 0 .. work - 1 \subseteq Nat
          /\ \A i \in 0 .. work - 1 : 0 <= i
      BY <1>1
    <3> HIDE DEF lanes
    <3> QED
      BY <1>3, <1>4, <3>1
  <2> QED
    BY <2>1, <2>2 DEF work
<1>8. CASE host = "cuda64"
  <2>1. Launched(work, Lanes) = Turns(work)
    BY <1>5, <1>8
  <2>2. PICK b \in Nat \ {0} : Turns(work) = {Cut(work, b * Lanes, turn) :
                                    turn \in 0 .. (work - 1) \div (b * Lanes)}
    BY <1>1, TurnsAreParts
  <2> DEFINE stride == b * Lanes  q == k \div b  first == q * stride
             part == {i \in 0 .. work - 1 : first <= i /\ i < first + stride}
  <2>3. /\ Encodes(part, k) /\ q \in 0 .. (work - 1) \div stride
        /\ \A j \in 0 .. work - 1 : j \div stride = q <=> j \in part
    BY <1>6
  <2>4. part = Cut(work, stride, q)
    <3>1. part \subseteq 0 .. work - 1
      OBVIOUS
    <3> HIDE DEF part, q, stride
    <3> QED
      BY <2>3, <3>1 DEF Cut
  <2>5. part \in Launched(work, Lanes)
    <3> HIDE DEF part, q
    <3> QED
      BY <2>1, <2>2, <2>3, <2>4
  <2> HIDE DEF part
  <2> QED
    BY <2>3, <2>5 DEF work
<1>9. CASE host = "metal64"
  <2>1. Launched(work, Lanes) = Batches(work, Lanes)
    BY <1>5, <1>9
  <2>2. PICK b \in Nat \ {0} : Batches(work, Lanes) =
                 {base .. Smaller(base + b * Lanes, work) - 1 :
                    base \in {i \in 0 .. work - 1 : i % (b * Lanes) = 0}}
    BY <1>1, BatchesAreParts
  <2> DEFINE stride == b * Lanes  q == k \div b  first == q * stride
             part == {i \in 0 .. work - 1 : first <= i /\ i < first + stride}
  <2>3. /\ Encodes(part, k) /\ first \in 0 .. work - 1 /\ first % stride = 0
        /\ stride \in Nat \ {0}
    BY <1>6
  <2>4. part = first .. Smaller(first + stride, work) - 1
    <3> HIDE DEF first, stride
    <3> QED
      BY <1>1, <2>3 DEF Smaller
  <2>5. part \in Launched(work, Lanes)
    <3> HIDE DEF part, first
    <3> QED
      BY <2>1, <2>2, <2>3, <2>4
  <2> HIDE DEF part
  <2> QED
    BY <2>3, <2>5 DEF work
<1> QED
  BY <1>7, <1>8, <1>9, PipelineAssumption

-----------------------------------------------------------------------------
(* Lists, and what is known of the tree while it is listed.                *)

IsSeq(s) == \E S : s \in Seq(S)

LEMMA Popped ==
  ASSUME NEW s, IsSeq(s), s # <<>>
  PROVE  /\ IsSeq(Tail(s)) /\ Len(s) \in Nat \ {0} /\ Len(Tail(s)) = Len(s) - 1
         /\ 1 \in 1 .. Len(s)
         /\ \A i \in 1 .. Len(s) - 1 : i + 1 \in 1 .. Len(s) /\ Tail(s)[i] = s[i + 1]
<1>1. PICK S : s \in Seq(S)
  BY DEF IsSeq
<1>2. Tail(s) \in Seq(S)
  BY <1>1
<1>3. /\ Len(s) \in Nat \ {0} /\ Len(Tail(s)) = Len(s) - 1
      /\ \A i \in 1 .. Len(s) - 1 : Tail(s)[i] = s[i + 1]
  BY <1>1
<1> QED
  BY <1>2, <1>3 DEF IsSeq

PushedOn(a, b, s) == <<a, b>> \o s

LEMMA Pushed ==
  ASSUME NEW s, IsSeq(s), NEW a, NEW b
  PROVE  LET t == PushedOn(a, b, s)
         IN  /\ IsSeq(t) /\ Len(s) \in Nat /\ Len(t) = Len(s) + 2
             /\ t[1] = a /\ t[2] = b
             /\ \A i \in 1 .. Len(s) : i + 2 \in 1 .. Len(t) /\ t[i + 2] = s[i]
<1>1. PICK S : s \in Seq(S)
  BY DEF IsSeq
<1> DEFINE T == S \cup {a, b}  t == <<a, b>> \o s
<1>2. s \in Seq(T)
  BY <1>1
<1>3. <<a, b>> \in Seq(T)
  OBVIOUS
<1>4. t \in Seq(T) /\ Len(t) = Len(s) + 2 /\ Len(s) \in Nat
  BY <1>2, <1>3
<1>5. t[1] = a /\ t[2] = b /\ \A i \in 1 .. Len(s) : t[i + 2] = s[i]
  BY <1>2, <1>3
<1> HIDE DEF t
<1> QED
  BY <1>4, <1>5 DEF IsSeq, t, PushedOn

LEMMA Appended ==
  ASSUME NEW s, IsSeq(s), NEW a
  PROVE  LET t == Append(s, a)
         IN  /\ IsSeq(t) /\ Len(s) \in Nat /\ Len(t) = Len(s) + 1
             /\ t[Len(s) + 1] = a
             /\ \A i \in 1 .. Len(s) : t[i] = s[i]
             /\ {t[i] : i \in 1 .. Len(t)} = {s[i] : i \in 1 .. Len(s)} \cup {a}
<1>1. PICK S : s \in Seq(S)
  BY DEF IsSeq
<1> DEFINE T == S \cup {a}  t == Append(s, a)
<1>2. s \in Seq(T) /\ a \in T
  BY <1>1
<1>3. t \in Seq(T) /\ Len(t) = Len(s) + 1 /\ Len(s) \in Nat
  BY <1>2
<1>4. t[Len(s) + 1] = a /\ \A i \in 1 .. Len(s) : t[i] = s[i]
  BY <1>2
<1> HIDE DEF t
<1>5. {t[i] : i \in 1 .. Len(t)} = {s[i] : i \in 1 .. Len(s)} \cup {a}
  <2>1. \A i \in 1 .. Len(s) + 1 : i = Len(s) + 1 \/ i \in 1 .. Len(s)
    BY <1>3
  <2>2. Len(s) + 1 \in 1 .. Len(t) /\ \A i \in 1 .. Len(s) : i \in 1 .. Len(t)
    BY <1>3
  <2> QED
    BY <1>3, <1>4, <2>1, <2>2
<1> QED
  BY <1>3, <1>4, <1>5 DEF IsSeq, t

LEMMA Joined ==
  ASSUME NEW s, IsSeq(s), NEW r, IsSeq(r)
  PROVE  LET t == s \o r
         IN  /\ IsSeq(t) /\ Len(s) \in Nat /\ Len(r) \in Nat /\ Len(t) = Len(s) + Len(r)
             /\ \A i \in 1 .. Len(s) : t[i] = s[i]
             /\ \A i \in 1 .. Len(r) : t[Len(s) + i] = r[i]
<1>1. PICK S1 : s \in Seq(S1)
  BY DEF IsSeq
<1>2. PICK S2 : r \in Seq(S2)
  BY DEF IsSeq
<1> DEFINE T == S1 \cup S2  t == s \o r
<1>3. s \in Seq(T) /\ r \in Seq(T)
  BY <1>1, <1>2
<1>4. t \in Seq(T) /\ Len(t) = Len(s) + Len(r) /\ Len(s) \in Nat /\ Len(r) \in Nat
  BY <1>3
<1>5. (\A i \in 1 .. Len(s) : t[i] = s[i]) /\ \A i \in 1 .. Len(r) : t[Len(s) + i] = r[i]
  BY <1>3
<1> HIDE DEF t
<1> QED
  BY <1>4, <1>5 DEF IsSeq, t
-----------------------------------------------------------------------------
(* The tree. *)
LevelsOf(f) == 1 .. RoutingDepth(f.count) + 1

NodesAt(l, d)  == {l.nodes[d][k] : k \in 1 .. Len(l.nodes[d])}
LeavesAt(l, d) == {l.leaves[d][k] : k \in 1 .. Len(l.leaves[d])}
PartsAt(l, d)  == NodesAt(l, d) \cup LeavesAt(l, d)

\* The entries that the parts of a level share, and the least a part has.
Room(f, l, d) == IF d = 1 THEN f.count ELSE l.free[d]
Least(f, d)   == IF d = 1 THEN f.count ELSE (LeafSize + 1) \div 2

IsNodeAt(f, x, d) ==
  /\ x.count \in Nat /\ x.count > LeafSize /\ x.offset \in Nat
  /\ x.left \in Nat /\ x.right = x.left + LeftCount(x.count)
  /\ RoutingDepth(x.count) + d <= RoutingDepth(f.count) + 1

IsLeafPart(x) == x.count \in 1 .. LeafSize /\ x.offset \in Nat

AreLists(f, l) ==
  /\ l = [free |-> l.free, nodes |-> l.nodes, leaves |-> l.leaves]
  /\ l.free \in [1 .. RoutingDepth(f.count) + 2 -> Nat]
  /\ l.nodes = [d \in LevelsOf(f) |-> l.nodes[d]]
  /\ l.leaves = [d \in LevelsOf(f) |-> l.leaves[d]]
  /\ \A d \in LevelsOf(f) : IsSeq(l.nodes[d]) /\ IsSeq(l.leaves[d])

IsEntry(f, e) ==
  /\ e.depth \in LevelsOf(f) /\ e.count \in Nat \ {0} /\ e.offset \in Nat
  /\ e.count >= Least(f, e.depth)
  /\ RoutingDepth(e.count) + e.depth <= RoutingDepth(f.count) + 1

End(x) == x.offset + x.count
Apart(x, y) == End(x) <= y.offset \/ End(y) <= x.offset
BookApart(x, y) ==
  x.left + x.count <= y.left \/ y.left + y.count <= x.left

\* The places of the next level's buffer that belong to a node's children.
RootPlace(f) ==
  [count |-> f.count, offset |-> 0, middle |-> 0,
   in |-> RootOf(f, f.input, "input"), out |-> RootOf(f, f.output, "output")]
ChildPlace(x, right) ==
  [count |-> ChildCount(right, x.count), offset |-> IF right THEN x.right ELSE x.left,
   middle |-> x.middle + IF right THEN MiddleBits(LeftCount(x.count)) ELSE 0,
   in |-> Child(x.in, right, x.count), out |-> Child(x.out, right, x.count)]
Places(f, l, d) ==
  IF d = 1 THEN {RootPlace(f)}
  ELSE {ChildPlace(x, FALSE) : x \in NodesAt(l, d - 1)}
         \cup {ChildPlace(x, TRUE) : x \in NodesAt(l, d - 1)}

Takes(f, y, place) ==
  /\ y.count = place.count /\ y.offset = place.offset
  /\ IF y.count <= LeafSize
     THEN y.rank = RankStart(f, place.in, place.out, place.middle)
     ELSE y.in = place.in /\ y.out = place.out /\ y.middle = place.middle
WillTake(e, place) ==
  /\ e.count = place.count /\ e.offset = place.offset
  /\ e.in = place.in /\ e.out = place.out /\ e.middle = place.middle

PartsAreSound(f, l) ==
  \A d \in LevelsOf(f) :
    /\ \A x \in NodesAt(l, d) : IsNodeAt(f, x, d) /\ x.left + x.count <= l.free[d + 1]
    /\ \A x \in LeavesAt(l, d) : IsLeafPart(x)
    /\ \A x \in PartsAt(l, d) : End(x) <= Room(f, l, d)
    /\ \A x, y \in PartsAt(l, d) : x # y => Apart(x, y)
    /\ \A x, y \in NodesAt(l, d) : x # y => BookApart(x, y)
    /\ Len(l.leaves[d]) * Least(f, d) <= Room(f, l, d)
    /\ l.free[d + 1] <= Room(f, l, d)

EntriesAreSound(f, p, l) ==
  /\ IsSeq(p)
  /\ \A i \in 1 .. Len(p) :
       /\ IsEntry(f, p[i])
       /\ \A x \in PartsAt(l, p[i].depth) : End(x) <= p[i].offset
       /\ Len(l.leaves[p[i].depth]) * Least(f, p[i].depth) <= p[i].offset
       /\ l.free[p[i].depth + 1] <= p[i].offset
       /\ End(p[i]) <= Room(f, l, p[i].depth)
  /\ \A i, j \in 1 .. Len(p) : i < j =>
       /\ p[j].depth <= p[i].depth
       /\ p[i].depth = p[j].depth => End(p[i]) <= p[j].offset

PlacesAreTaken(f, p, l) ==
  /\ \A d \in LevelsOf(f) : \A y \in PartsAt(l, d) :
       \E place \in Places(f, l, d) : Takes(f, y, place)
  /\ \A i \in 1 .. Len(p) : \E place \in Places(f, l, p[i].depth) : WillTake(p[i], place)
  /\ \A d \in LevelsOf(f) : \A place \in Places(f, l, d) :
       \/ \E y \in PartsAt(l, d) : Takes(f, y, place)
       \/ \E i \in 1 .. Len(p) : p[i].depth = d /\ WillTake(p[i], place)

TreeIsSound(f, p, l) ==
  /\ AreLists(f, l) /\ PartsAreSound(f, l) /\ EntriesAreSound(f, p, l)
  /\ PlacesAreTaken(f, p, l)
-----------------------------------------------------------------------------
ListsLeaf(l, d, y, m) == m = [l EXCEPT !.leaves[d] = Append(@, y)]
ListsNode(l, d, y, end, m) ==
  m = [l EXCEPT !.free[d + 1] = end, !.nodes[d] = Append(@, y)]

LEMMA LeafListed ==
  ASSUME NEW f, f.count \in Nat, NEW l, AreLists(f, l), NEW d \in LevelsOf(f), NEW y, NEW m,
         ListsLeaf(l, d, y, m)
  PROVE  /\ AreLists(f, m) /\ m.free = l.free /\ m.nodes = l.nodes
         /\ \A k : NodesAt(m, k) = NodesAt(l, k)
         /\ \A k \in LevelsOf(f) : k # d => m.leaves[k] = l.leaves[k]
         /\ \A k \in LevelsOf(f) : k # d => LeavesAt(m, k) = LeavesAt(l, k)
         /\ LeavesAt(m, d) = LeavesAt(l, d) \cup {y}
         /\ Len(m.leaves[d]) = Len(l.leaves[d]) + 1 /\ Len(l.leaves[d]) \in Nat
<1>1. /\ m.free = l.free /\ m.nodes = l.nodes
      /\ m.leaves = [l.leaves EXCEPT ![d] = Append(@, y)]
      /\ m = [free |-> m.free, nodes |-> m.nodes, leaves |-> m.leaves]
  BY DEF AreLists, ListsLeaf
<1>2. m.leaves[d] = Append(l.leaves[d], y)
  BY <1>1 DEF AreLists
<1>3. \A k \in LevelsOf(f) : k # d => m.leaves[k] = l.leaves[k]
  BY <1>1 DEF AreLists
<1>4. m.leaves = [k \in LevelsOf(f) |-> m.leaves[k]]
  BY <1>1 DEF AreLists
<1>5. IsSeq(l.leaves[d])
  BY DEF AreLists
<1>6. /\ IsSeq(m.leaves[d]) /\ Len(m.leaves[d]) = Len(l.leaves[d]) + 1
      /\ Len(l.leaves[d]) \in Nat
      /\ LeavesAt(m, d) = LeavesAt(l, d) \cup {y}
  BY <1>2, <1>5, Appended DEF LeavesAt
<1>7. \A k \in LevelsOf(f) : k # d => LeavesAt(m, k) = LeavesAt(l, k)
  BY <1>3 DEF LeavesAt
<1>8. \A k : NodesAt(m, k) = NodesAt(l, k)
  BY <1>1 DEF NodesAt
<1>9. AreLists(f, m)
  <2>1. \A k \in LevelsOf(f) : IsSeq(m.leaves[k])
    BY <1>3, <1>6 DEF AreLists
  <2> QED
    BY <1>1, <1>4, <2>1 DEF AreLists
<1> QED
  BY <1>1, <1>3, <1>6, <1>7, <1>8, <1>9

LEMMA NodeListed ==
  ASSUME NEW f, f.count \in Nat, NEW l, AreLists(f, l), NEW d \in LevelsOf(f), NEW y, NEW m,
         NEW end \in Nat, ListsNode(l, d, y, end, m)
  PROVE  /\ AreLists(f, m) /\ m.leaves = l.leaves
         /\ m.free[d + 1] = end
         /\ \A k \in 1 .. RoutingDepth(f.count) + 2 : k # d + 1 => m.free[k] = l.free[k]
         /\ \A k : LeavesAt(m, k) = LeavesAt(l, k)
         /\ \A k \in LevelsOf(f) : k # d => NodesAt(m, k) = NodesAt(l, k)
         /\ NodesAt(m, d) = NodesAt(l, d) \cup {y}
<1>0. RoutingDepth(f.count) \in Nat
  BY RoutingDepthFacts
<1>1. /\ m.free = [l.free EXCEPT ![d + 1] = end] /\ m.leaves = l.leaves
      /\ m.nodes = [l.nodes EXCEPT ![d] = Append(@, y)]
      /\ m = [free |-> m.free, nodes |-> m.nodes, leaves |-> m.leaves]
  BY DEF AreLists, ListsNode
<1>2. m.nodes[d] = Append(l.nodes[d], y)
  BY <1>1 DEF AreLists
<1>3. \A k \in LevelsOf(f) : k # d => m.nodes[k] = l.nodes[k]
  BY <1>1 DEF AreLists
<1>4. m.nodes = [k \in LevelsOf(f) |-> m.nodes[k]]
  BY <1>1 DEF AreLists
<1>5. IsSeq(l.nodes[d])
  BY DEF AreLists
<1>6. IsSeq(m.nodes[d]) /\ NodesAt(m, d) = NodesAt(l, d) \cup {y}
  BY <1>2, <1>5, Appended DEF NodesAt
<1>7. \A k \in LevelsOf(f) : k # d => NodesAt(m, k) = NodesAt(l, k)
  BY <1>3 DEF NodesAt
<1>8. \A k : LeavesAt(m, k) = LeavesAt(l, k)
  BY <1>1 DEF LeavesAt
<1>9. d + 1 \in 1 .. RoutingDepth(f.count) + 2
  BY <1>0 DEF LevelsOf
<1>10. l.free \in [1 .. RoutingDepth(f.count) + 2 -> Nat]
  BY DEF AreLists
<1>11. /\ m.free \in [1 .. RoutingDepth(f.count) + 2 -> Nat] /\ m.free[d + 1] = end
       /\ \A k \in 1 .. RoutingDepth(f.count) + 2 : k # d + 1 => m.free[k] = l.free[k]
  BY <1>1, <1>9, <1>10
<1>12. AreLists(f, m)
  <2>1. \A k \in LevelsOf(f) : IsSeq(m.nodes[k])
    BY <1>3, <1>6 DEF AreLists
  <2> QED
    BY <1>1, <1>4, <1>11, <2>1 DEF AreLists
<1> QED
  BY <1>1, <1>6, <1>7, <1>8, <1>11, <1>12

LEMMA TreeFacts0 ==
  ASSUME NEW f, f.count \in Nat \ {0}, NEW p, NEW l, TreeIsSound(f, p, l)
  PROVE  /\ LeafSize \in Nat /\ RoutingDepth(f.count) \in Nat
         /\ \A d \in LevelsOf(f) : /\ d \in Nat /\ Room(f, l, d) \in Nat
                                   /\ Least(f, d) \in Nat /\ l.free[d + 1] \in Nat
                                   /\ Len(l.leaves[d]) \in Nat
                                   /\ Len(l.leaves[d]) * Least(f, d) \in Nat
         /\ \A i \in 1 .. Len(p) : /\ p[i].depth \in LevelsOf(f) /\ p[i].count \in Nat \ {0}
                                   /\ p[i].offset \in Nat /\ End(p[i]) \in Nat
                                   /\ End(p[i]) = p[i].offset + p[i].count
         /\ \A d \in LevelsOf(f) : \A x \in PartsAt(l, d) :
              /\ x.offset \in Nat /\ x.count \in Nat /\ End(x) \in Nat
              /\ End(x) = x.offset + x.count
<1>1. LeafSize \in Nat /\ RoutingDepth(f.count) \in Nat
  BY LeafSizes, RoutingDepthFacts
<1>2. ASSUME NEW d \in LevelsOf(f)
      PROVE  /\ d \in Nat /\ Room(f, l, d) \in Nat
             /\ Least(f, d) \in Nat /\ l.free[d + 1] \in Nat
             /\ Len(l.leaves[d]) \in Nat
             /\ Len(l.leaves[d]) * Least(f, d) \in Nat
  <2>1. d \in Nat /\ d \in 1 .. RoutingDepth(f.count) + 2 /\ d + 1 \in 1 .. RoutingDepth(f.count) + 2
    BY <1>1 DEF LevelsOf
  <2>2. l.free \in [1 .. RoutingDepth(f.count) + 2 -> Nat]
    BY DEF TreeIsSound, AreLists
  <2>3. l.free[d] \in Nat /\ l.free[d + 1] \in Nat
    BY <2>1, <2>2
  <2>4. Least(f, d) \in Nat
    <3>1. (LeafSize + 1) \div 2 \in Nat
      BY <1>1
    <3> QED
      BY <3>1 DEF Least
  <2>5. PICK S : l.leaves[d] \in Seq(S)
    BY DEF TreeIsSound, AreLists, IsSeq
  <2>6. Len(l.leaves[d]) \in Nat
    BY <2>5
  <2>7. Room(f, l, d) \in Nat
    BY <2>3 DEF Room
  <2> QED
    BY <2>1, <2>3, <2>4, <2>6, <2>7, SMTT(30)
<1>3. ASSUME NEW i \in 1 .. Len(p)
      PROVE  /\ p[i].depth \in LevelsOf(f) /\ p[i].count \in Nat \ {0}
             /\ p[i].offset \in Nat /\ End(p[i]) \in Nat
             /\ End(p[i]) = p[i].offset + p[i].count
  BY DEF TreeIsSound, EntriesAreSound, IsEntry, End
<1>4. ASSUME NEW d \in LevelsOf(f), NEW x \in PartsAt(l, d)
      PROVE  /\ x.offset \in Nat /\ x.count \in Nat /\ End(x) \in Nat
             /\ End(x) = x.offset + x.count
  <2>1. x \in NodesAt(l, d) \/ x \in LeavesAt(l, d)
    BY DEF PartsAt
  <2>2. IsNodeAt(f, x, d) \/ IsLeafPart(x)
    BY <2>1 DEF TreeIsSound, PartsAreSound
  <2>3. x.offset \in Nat /\ x.count \in Nat
    BY <1>1, <2>2 DEF IsNodeAt, IsLeafPart
  <2> QED
    BY <2>3 DEF End
<1> QED
  BY <1>1, <1>2, <1>3, <1>4

\* A leaf is listed.
LEMMA LeafStep ==
  ASSUME NEW f, f.count \in Nat \ {0}, NEW p, NEW l, TreeIsSound(f, p, l),
         p # <<>>, p[1].count <= LeafSize, NEW m,
         ListsLeaf(l, p[1].depth,
                   [count |-> p[1].count, offset |-> p[1].offset,
                    rank |-> RankStart(f, p[1].in, p[1].out, p[1].middle)], m)
  PROVE  TreeIsSound(f, Tail(p), m)
<1> DEFINE e == p[1]  d == e.depth  q == Tail(p)
           y == [count |-> e.count, offset |-> e.offset,
                 rank |-> RankStart(f, e.in, e.out, e.middle)]
<1>1. /\ AreLists(f, l) /\ PartsAreSound(f, l) /\ EntriesAreSound(f, p, l)
      /\ PlacesAreTaken(f, p, l)
  BY DEF TreeIsSound
<1>2. /\ IsSeq(q) /\ Len(p) \in Nat \ {0} /\ Len(q) = Len(p) - 1 /\ 1 \in 1 .. Len(p)
      /\ \A i \in 1 .. Len(q) : i + 1 \in 1 .. Len(p) /\ q[i] = p[i + 1]
  <2>1. IsSeq(p)
    BY <1>1 DEF EntriesAreSound
  <2> QED
    BY <2>1, Popped
<1>3. /\ d \in LevelsOf(f) /\ e.count \in Nat \ {0} /\ e.offset \in Nat
      /\ End(e) = e.offset + e.count /\ e.count >= Least(f, d)
      /\ \A x \in PartsAt(l, d) : End(x) <= e.offset
      /\ Len(l.leaves[d]) * Least(f, d) <= e.offset
      /\ End(e) <= Room(f, l, d)
  BY <1>1, <1>2, TreeFacts0, ZenonT(30) DEF EntriesAreSound, IsEntry
<1>4. /\ y.count = e.count /\ y.offset = e.offset /\ End(y) = End(e)
      /\ y.rank = RankStart(f, e.in, e.out, e.middle)
  BY DEF End
<1>5. ListsLeaf(l, d, y, m)
  OBVIOUS
<1> HIDE DEF y
<1>6. /\ AreLists(f, m) /\ m.free = l.free /\ m.nodes = l.nodes
      /\ \A k : NodesAt(m, k) = NodesAt(l, k)
      /\ \A k \in LevelsOf(f) : k # d => m.leaves[k] = l.leaves[k]
      /\ \A k \in LevelsOf(f) : k # d => LeavesAt(m, k) = LeavesAt(l, k)
      /\ LeavesAt(m, d) = LeavesAt(l, d) \cup {y}
      /\ Len(m.leaves[d]) = Len(l.leaves[d]) + 1 /\ Len(l.leaves[d]) \in Nat
  <2>1. f.count \in Nat
    OBVIOUS
  <2> HIDE DEF d
  <2> QED
    BY <1>1, <1>3, <1>5, <2>1, LeafListed
<1> HIDE DEF e, q, d
<1>7. /\ \A k \in LevelsOf(f) : k # d => PartsAt(m, k) = PartsAt(l, k)
      /\ PartsAt(m, d) = PartsAt(l, d) \cup {y}
      /\ \A k : Room(f, m, k) = Room(f, l, k)
      /\ \A k : Places(f, m, k) = Places(f, l, k)
  <2>1. \A k \in LevelsOf(f) : k # d => PartsAt(m, k) = PartsAt(l, k)
    BY <1>6 DEF PartsAt
  <2>2. PartsAt(m, d) = PartsAt(l, d) \cup {y}
    BY <1>6 DEF PartsAt
  <2>3. \A k : Room(f, m, k) = Room(f, l, k)
    BY <1>6 DEF Room
  <2>4. ASSUME NEW k PROVE Places(f, m, k) = Places(f, l, k)
    BY <1>6 DEF Places
  <2> QED
    BY <2>1, <2>2, <2>3, <2>4
<1>8. /\ Len(m.leaves[d]) * Least(f, d) <= End(e)
      /\ Len(m.leaves[d]) * Least(f, d) \in Nat
      /\ Room(f, l, d) \in Nat /\ End(e) \in Nat
  <2> DEFINE w == Least(f, d)  z == Len(l.leaves[d]) * w
  <2>1. w \in Nat /\ Room(f, l, d) \in Nat /\ z <= e.offset /\ e.count >= w
    BY <1>3, TreeFacts0
  <2> HIDE DEF w
  <2>2. Len(m.leaves[d]) * w = z + w
    <3>1. \A a, b \in Nat : (a + 1) * b = a * b + b
      OBVIOUS
    <3> QED
      BY <1>6, <2>1, <3>1
  <2>3. z \in Nat
    BY <1>6, <2>1
  <2> HIDE DEF z
  <2>4. z + w <= End(e) /\ z + w \in Nat /\ End(e) \in Nat
    BY <1>3, <2>1, <2>3
  <2> QED
    BY <2>1, <2>2, <2>4 DEF w
<1>9. PartsAreSound(f, m)
  <2> SUFFICES ASSUME NEW k \in LevelsOf(f)
      PROVE  /\ \A x \in NodesAt(m, k) : IsNodeAt(f, x, k) /\ x.left + x.count <= m.free[k + 1]
             /\ \A x \in LeavesAt(m, k) : IsLeafPart(x)
             /\ \A x \in PartsAt(m, k) : End(x) <= Room(f, m, k)
             /\ \A x, z \in PartsAt(m, k) : x # z => Apart(x, z)
             /\ \A x, z \in NodesAt(m, k) : x # z => BookApart(x, z)
             /\ Len(m.leaves[k]) * Least(f, k) <= Room(f, m, k)
             /\ m.free[k + 1] <= Room(f, m, k)
    BY DEF PartsAreSound
  <2>1. /\ \A x \in NodesAt(l, k) : IsNodeAt(f, x, k) /\ x.left + x.count <= l.free[k + 1]
        /\ \A x \in LeavesAt(l, k) : IsLeafPart(x)
        /\ \A x \in PartsAt(l, k) : End(x) <= Room(f, l, k)
        /\ \A x, z \in PartsAt(l, k) : x # z => Apart(x, z)
        /\ \A x, z \in NodesAt(l, k) : x # z => BookApart(x, z)
        /\ Len(l.leaves[k]) * Least(f, k) <= Room(f, l, k)
        /\ l.free[k + 1] <= Room(f, l, k)
    BY <1>1 DEF PartsAreSound
  <2>2. CASE k # d
    BY <1>6, <1>7, <2>1, <2>2
  <2>3. CASE k = d
    <3>1. IsLeafPart(y)
      BY <1>3, <1>4, TreeFacts0 DEF IsLeafPart, e
    <3>2. \A x \in PartsAt(l, d) : Apart(x, y) /\ Apart(y, x)
      BY <1>3, <1>4 DEF Apart
    <3>3. Len(m.leaves[d]) * Least(f, d) <= Room(f, l, d)
      <4> DEFINE z == Len(m.leaves[d]) * Least(f, d)
      <4>1. z <= End(e) /\ z \in Nat
        BY <1>8
      <4> HIDE DEF z
      <4> QED
        BY <1>3, <1>8, <4>1 DEF z
    <3>4. \A x \in PartsAt(m, d) : End(x) <= Room(f, m, d)
      BY <1>3, <1>4, <1>7, <2>1, <2>3
    <3>5. \A x, z \in PartsAt(m, d) : x # z => Apart(x, z)
      BY <1>7, <2>1, <2>3, <3>2
    <3>6. \A x \in LeavesAt(m, d) : IsLeafPart(x)
      BY <1>6, <2>1, <2>3, <3>1
    <3> QED
      BY <1>6, <1>7, <2>1, <2>3, <3>3, <3>4, <3>5, <3>6
  <2> QED
    BY <2>2, <2>3
<1>10. EntriesAreSound(f, q, m)
  <2>1. ASSUME NEW i \in 1 .. Len(q)
        PROVE  /\ IsEntry(f, q[i])
               /\ \A x \in PartsAt(m, q[i].depth) : End(x) <= q[i].offset
               /\ Len(m.leaves[q[i].depth]) * Least(f, q[i].depth) <= q[i].offset
               /\ m.free[q[i].depth + 1] <= q[i].offset
               /\ End(q[i]) <= Room(f, m, q[i].depth)
    <3> DEFINE g == p[i + 1]
    <3>1. i + 1 \in 1 .. Len(p) /\ q[i] = g
      BY <1>2
    <3>2. /\ IsEntry(f, g)
          /\ \A x \in PartsAt(l, g.depth) : End(x) <= g.offset
          /\ Len(l.leaves[g.depth]) * Least(f, g.depth) <= g.offset
          /\ l.free[g.depth + 1] <= g.offset
          /\ End(g) <= Room(f, l, g.depth)
      BY <1>1, <3>1 DEF EntriesAreSound
    <3>3. g.depth = d => End(e) <= g.offset
      <4>1. 1 < i + 1
        BY <1>2
      <4> QED
        BY <1>1, <1>2, <3>1, <4>1 DEF EntriesAreSound, e, d
    <3>4. g.depth \in LevelsOf(f) /\ g.offset \in Nat
      BY <3>1, TreeFacts0
    <3> HIDE DEF g
    <3>5. CASE g.depth # d
      BY <1>6, <1>7, <3>1, <3>2, <3>4, <3>5
    <3>6. CASE g.depth = d
      <4>1. \A x \in PartsAt(m, d) : End(x) <= g.offset
        BY <1>4, <1>7, <3>2, <3>3, <3>6
      <4>2. Len(m.leaves[d]) * Least(f, d) <= g.offset
        <5> DEFINE z == Len(m.leaves[d]) * Least(f, d)
        <5>1. z <= End(e) /\ z \in Nat
          BY <1>8
        <5> HIDE DEF z
        <5> QED
          BY <1>8, <3>3, <3>4, <3>6, <5>1 DEF z
      <4> QED
        BY <1>6, <1>7, <3>1, <3>2, <3>6, <4>1, <4>2
    <3> QED
      BY <3>5, <3>6
  <2>2. ASSUME NEW i \in 1 .. Len(q), NEW j \in 1 .. Len(q), i < j
        PROVE  /\ q[j].depth <= q[i].depth
               /\ q[i].depth = q[j].depth => End(q[i]) <= q[j].offset
    <3>1. i + 1 \in 1 .. Len(p) /\ j + 1 \in 1 .. Len(p) /\ i + 1 < j + 1
          /\ q[i] = p[i + 1] /\ q[j] = p[j + 1]
      BY <1>2, <2>2
    <3> QED
      BY <1>1, <3>1 DEF EntriesAreSound
  <2> QED
    BY <1>2, <2>1, <2>2 DEF EntriesAreSound
<1>11. PlacesAreTaken(f, q, m)
  <2>1. \A place : WillTake(e, place) => Takes(f, y, place)
    BY <1>4 DEF WillTake, Takes, e
  <2>2. \A i \in 1 .. Len(p) : \E place \in Places(f, l, p[i].depth) : WillTake(p[i], place)
    BY <1>1 DEF PlacesAreTaken
  <2>3. \A k \in LevelsOf(f) : \A x \in PartsAt(m, k) :
          \E place \in Places(f, m, k) : Takes(f, x, place)
    <3> SUFFICES ASSUME NEW k \in LevelsOf(f), NEW x \in PartsAt(m, k)
                 PROVE  \E place \in Places(f, m, k) : Takes(f, x, place)
      OBVIOUS
    <3>1. CASE x \in PartsAt(l, k)
      BY <1>1, <1>7, <3>1 DEF PlacesAreTaken
    <3>2. CASE x \notin PartsAt(l, k)
      <4>1. k = d /\ x = y
        BY <1>7, <3>2
      <4> QED
        BY <1>2, <1>7, <2>1, <2>2, <4>1 DEF e, d
    <3> QED
      BY <3>1, <3>2
  <2>4. \A i \in 1 .. Len(q) : \E place \in Places(f, m, q[i].depth) : WillTake(q[i], place)
    BY <1>2, <1>7, <2>2
  <2>5. \A k \in LevelsOf(f) : \A place \in Places(f, m, k) :
          \/ \E x \in PartsAt(m, k) : Takes(f, x, place)
          \/ \E i \in 1 .. Len(q) : q[i].depth = k /\ WillTake(q[i], place)
    <3> SUFFICES ASSUME NEW k \in LevelsOf(f), NEW place \in Places(f, m, k)
          PROVE  \/ \E x \in PartsAt(m, k) : Takes(f, x, place)
                 \/ \E i \in 1 .. Len(q) : q[i].depth = k /\ WillTake(q[i], place)
      OBVIOUS
    <3>1. \/ \E x \in PartsAt(l, k) : Takes(f, x, place)
          \/ \E i \in 1 .. Len(p) : p[i].depth = k /\ WillTake(p[i], place)
      BY <1>1, <1>7 DEF PlacesAreTaken
    <3>2. PartsAt(l, k) \subseteq PartsAt(m, k)
      BY <1>7
    <3>3. CASE \E x \in PartsAt(l, k) : Takes(f, x, place)
      BY <3>2, <3>3
    <3>4. ASSUME NEW i \in 1 .. Len(p), p[i].depth = k, WillTake(p[i], place)
          PROVE  \/ \E x \in PartsAt(m, k) : Takes(f, x, place)
                 \/ \E j \in 1 .. Len(q) : q[j].depth = k /\ WillTake(q[j], place)
      <4>1. CASE i = 1
        <5>1. k = d /\ Takes(f, y, place)
          BY <2>1, <3>4, <4>1 DEF e, d
        <5> QED
          BY <1>7, <5>1
      <4>2. CASE i # 1
        <5>1. i - 1 \in 1 .. Len(q) /\ (i - 1) + 1 = i
          BY <1>2, <4>2
        <5>2. q[i - 1] = p[i]
          BY <1>2, <5>1
        <5> QED
          BY <3>4, <5>1, <5>2
      <4> QED
        BY <4>1, <4>2
    <3> QED
      BY <3>1, <3>3, <3>4
  <2> QED
    BY <2>3, <2>4, <2>5 DEF PlacesAreTaken
<1> QED
  BY <1>6, <1>9, <1>10, <1>11 DEF TreeIsSound, q

\* What a node's record has, and the entries for its children.
NodeFor(e, from) ==
  [count |-> e.count, offset |-> e.offset, left |-> BookedFor(e.count, from).left,
   right |-> BookedFor(e.count, from).right, in |-> e.in, out |-> e.out,
   middle |-> e.middle]

LEMMA NodeFields ==
  ASSUME NEW e, NEW from, NEW y, y = NodeFor(e, from)
  PROVE  /\ y.count = e.count /\ y.offset = e.offset /\ y.in = e.in /\ y.out = e.out
         /\ y.middle = e.middle /\ y.left = from
         /\ y.right = from + LeftCount(e.count) /\ End(y) = End(e)
         /\ \A f, place : e.count > LeafSize /\ e.count \in Nat /\ WillTake(e, place)
                            => Takes(f, y, place)
<1> DEFINE b == BookedFor(e.count, from)
<1>1. b.left = from /\ b.right = from + LeftCount(e.count)
  BY DEF BookedFor
<1>2. /\ y.count = e.count /\ y.offset = e.offset /\ y.in = e.in /\ y.out = e.out
      /\ y.middle = e.middle /\ y.left = b.left /\ y.right = b.right
  BY DEF NodeFor
<1>3. End(y) = End(e)
  BY <1>2 DEF End
<1> HIDE DEF b
<1>4. ASSUME NEW f, NEW place, e.count > LeafSize, e.count \in Nat, WillTake(e, place)
      PROVE  Takes(f, y, place)
  <2>1. ~(e.count <= LeafSize)
    BY <1>4, LeafSizes
  <2> QED
    BY <1>2, <1>4, <2>1 DEF WillTake, Takes
<1> QED
  BY <1>1, <1>2, <1>3, <1>4

LEMMA ChildFields ==
  ASSUME NEW e, NEW from, NEW right \in BOOLEAN, NEW y, y = NodeFor(e, from),
         NEW c, c = ChildEntry(e, right, BookedFor(e.count, from))
  PROVE  /\ c.depth = e.depth + 1 /\ c.count = ChildCount(right, e.count)
         /\ c.offset = IF right THEN from + LeftCount(e.count) ELSE from
         /\ WillTake(c, ChildPlace(y, right))
<1> DEFINE b == BookedFor(e.count, from)
<1>1. b.left = from /\ b.right = from + LeftCount(e.count)
  BY DEF BookedFor
<1>2. /\ y.count = e.count /\ y.in = e.in /\ y.out = e.out
      /\ y.middle = e.middle /\ y.left = b.left /\ y.right = b.right
  BY DEF NodeFor
<1>4. /\ c.depth = e.depth + 1 /\ c.count = ChildCount(right, e.count)
      /\ c.offset = (IF right THEN b.right ELSE b.left)
      /\ c.in = Child(e.in, right, e.count) /\ c.out = Child(e.out, right, e.count)
      /\ c.middle = e.middle + IF right THEN MiddleBits(LeftCount(e.count)) ELSE 0
  BY DEF ChildEntry
<1> DEFINE z == ChildPlace(y, right)
<1>5. /\ z.count = ChildCount(right, y.count)
      /\ z.offset = (IF right THEN y.right ELSE y.left)
      /\ z.in = Child(y.in, right, y.count) /\ z.out = Child(y.out, right, y.count)
      /\ z.middle = y.middle + IF right THEN MiddleBits(LeftCount(y.count)) ELSE 0
  BY DEF ChildPlace
<1> HIDE DEF b, z
<1>6. WillTake(c, z)
  BY <1>2, <1>4, <1>5 DEF WillTake
<1> QED
  BY <1>1, <1>4, <1>6 DEF z

LEMMA NodeNumbers ==
  ASSUME NEW n \in Nat, n > LeafSize
  PROVE  /\ LeftCount(n) \in 1 .. n - 1 /\ RightCount(n) \in 1 .. n - 1
         /\ LeftCount(n) + RightCount(n) = n
         /\ (LeafSize + 1) \div 2 \in Nat
         /\ LeftCount(n) >= (LeafSize + 1) \div 2 /\ RightCount(n) >= (LeafSize + 1) \div 2
         /\ RoutingDepth(n) \in Nat \ {0}
         /\ \A right \in BOOLEAN :
              /\ ChildCount(right, n) = IF right THEN RightCount(n) ELSE LeftCount(n)
              /\ RoutingDepth(ChildCount(right, n)) \in Nat
              /\ RoutingDepth(ChildCount(right, n)) + 1 <= RoutingDepth(n)
<1>1. LeafSize \in 2 .. 32
  BY LeafSizes
<1>2. \A right \in BOOLEAN :
        /\ RoutingDepth(n) \in Nat /\ RoutingDepth(ChildCount(right, n)) \in Nat
        /\ RoutingDepth(ChildCount(right, n)) + 1 <= RoutingDepth(n)
  BY ChildDepth
<1>3. n \div 2 \in Nat /\ n = 2 * (n \div 2) + (n % 2) /\ n % 2 \in 0 .. 1
  OBVIOUS
<1>4. (LeafSize + 1) \div 2 \in Nat /\ 2 * ((LeafSize + 1) \div 2) <= LeafSize + 1
  BY <1>1
<1> DEFINE h == n \div 2  r == n % 2  s == (LeafSize + 1) \div 2
<1> HIDE DEF h, r, s
<1>5. h \in Nat /\ r \in 0 .. 1 /\ n = 2 * h + r /\ s \in Nat /\ 2 * s <= LeafSize + 1
  BY <1>3, <1>4 DEF h, r, s
<1>6. LeftCount(n) = h + r /\ RightCount(n) = h
  BY DEF LeftCount, RightCount, h, r
<1>7. h \in 1 .. n - 1 /\ h + r \in 1 .. n - 1 /\ (h + r) + h = n /\ h >= s /\ h + r >= s
  BY <1>1, <1>5
<1>8. RoutingDepth(n) \in Nat \ {0}
  <2>1. RoutingDepth(n) \in Nat /\ RoutingDepth(ChildCount(TRUE, n)) \in Nat
        /\ RoutingDepth(ChildCount(TRUE, n)) + 1 <= RoutingDepth(n)
    BY <1>2, Zenon
  <2> DEFINE a == RoutingDepth(n)  c == RoutingDepth(ChildCount(TRUE, n))
  <2> HIDE DEF a, c
  <2>2. a \in Nat \ {0}
    <3>1. a \in Nat /\ c \in Nat /\ c + 1 <= a
      BY <2>1 DEF a, c
    <3> QED
      BY <3>1
  <2> QED
    BY <2>2 DEF a
<1> QED
  BY <1>2, <1>5, <1>6, <1>7, <1>8 DEF s, ChildCount

\* A node is listed.
LEMMA NodeStep ==
  ASSUME NEW f, f.count \in Nat \ {0}, NEW p, NEW l, TreeIsSound(f, p, l),
         p # <<>>, p[1].count > LeafSize, NEW from, from = l.free[p[1].depth + 1],
         NEW m, ListsNode(l, p[1].depth, NodeFor(p[1], from), from + p[1].count, m)
  PROVE  LET b == BookedFor(p[1].count, from)
         IN  TreeIsSound(f, <<ChildEntry(p[1], FALSE, b), ChildEntry(p[1], TRUE, b)>> \o Tail(p), m)
<1> DEFINE e == p[1]  d == e.depth  n == e.count  y == NodeFor(e, from)
           b == BookedFor(n, from)
           cl == ChildEntry(e, FALSE, b)  cr == ChildEntry(e, TRUE, b)
           q == <<cl, cr>> \o Tail(p)
           D == RoutingDepth(f.count)  end == from + n
<1>1. /\ AreLists(f, l) /\ PartsAreSound(f, l) /\ EntriesAreSound(f, p, l)
      /\ PlacesAreTaken(f, p, l)
  BY DEF TreeIsSound
<1>2. /\ IsSeq(q) /\ Len(p) \in Nat \ {0} /\ Len(q) = Len(p) + 1 /\ 1 \in 1 .. Len(p)
      /\ q[1] = cl /\ q[2] = cr
      /\ \A i \in 2 .. Len(p) : i \in 1 .. Len(p) /\ i + 1 \in 1 .. Len(q) /\ q[i + 1] = p[i]
  <2>1. IsSeq(p)
    BY <1>1 DEF EntriesAreSound
  <2> DEFINE t == Tail(p)
  <2>2. /\ IsSeq(t) /\ Len(p) \in Nat \ {0} /\ Len(t) = Len(p) - 1 /\ 1 \in 1 .. Len(p)
        /\ \A i \in 1 .. Len(p) - 1 : t[i] = p[i + 1]
    BY <2>1, Popped
  <2> HIDE DEF cl, cr, t
  <2>3. /\ IsSeq(q) /\ Len(q) = Len(t) + 2 /\ q[1] = cl /\ q[2] = cr
        /\ \A i \in 1 .. Len(t) : q[i + 2] = t[i]
    <3>1. q = PushedOn(cl, cr, t)
      BY DEF PushedOn, t
    <3>2. IsSeq(t)
      BY <2>2
    <3> HIDE DEF q
    <3>3. /\ IsSeq(PushedOn(cl, cr, t)) /\ Len(PushedOn(cl, cr, t)) = Len(t) + 2
          /\ PushedOn(cl, cr, t)[1] = cl /\ PushedOn(cl, cr, t)[2] = cr
          /\ \A i \in 1 .. Len(t) : PushedOn(cl, cr, t)[i + 2] = t[i]
      BY <3>2, Pushed
    <3> QED
      BY <3>1, <3>3
  <2>4. ASSUME NEW i \in 2 .. Len(p)
        PROVE  i \in 1 .. Len(p) /\ i + 1 \in 1 .. Len(q) /\ q[i + 1] = p[i]
    <3>1. i - 1 \in 1 .. Len(t) /\ (i - 1) + 2 = i + 1 /\ (i - 1) + 1 = i
      BY <2>2
    <3>2. q[i + 1] = t[i - 1] /\ t[i - 1] = p[i]
      BY <2>2, <2>3, <3>1, SMTT(30) DEF t
    <3> QED
      BY <2>2, <2>3, <3>2 DEF t
  <2> QED
    BY <2>2, <2>3, <2>4 DEF t
<1>3. /\ d \in LevelsOf(f) /\ n \in Nat \ {0} /\ e.offset \in Nat
      /\ End(e) = e.offset + n
      /\ \A x \in PartsAt(l, d) : End(x) <= e.offset
      /\ l.free[d + 1] <= e.offset
      /\ End(e) <= Room(f, l, d) /\ RoutingDepth(n) + d <= D + 1
  BY <1>1, <1>2, TreeFacts0 DEF EntriesAreSound, IsEntry
<1>4. /\ LeftCount(n) \in 1 .. n - 1 /\ RightCount(n) \in 1 .. n - 1
      /\ LeftCount(n) + RightCount(n) = n
      /\ (LeafSize + 1) \div 2 \in Nat
      /\ LeftCount(n) >= (LeafSize + 1) \div 2 /\ RightCount(n) >= (LeafSize + 1) \div 2
      /\ RoutingDepth(n) \in Nat \ {0}
      /\ \A right \in BOOLEAN :
           /\ ChildCount(right, n) = IF right THEN RightCount(n) ELSE LeftCount(n)
           /\ RoutingDepth(ChildCount(right, n)) \in Nat
           /\ RoutingDepth(ChildCount(right, n)) + 1 <= RoutingDepth(n)
  <2>1. n \in Nat
    BY <1>3
  <2> HIDE DEF n
  <2> QED
    BY <2>1, NodeNumbers DEF n
<1>5. /\ D \in Nat /\ d \in Nat \ {0} /\ d + 1 \in LevelsOf(f) /\ d + 2 \in 1 .. D + 2
      /\ (d + 1) + 1 = d + 2 /\ d + 1 # 1 /\ d + 1 # d /\ d + 2 # d + 1
  <2>1. D \in Nat
    BY TreeFacts0
  <2>2. d \in 1 .. D + 1 /\ RoutingDepth(n) + d <= D + 1 /\ RoutingDepth(n) \in Nat \ {0}
    BY <1>3, <1>4 DEF LevelsOf
  <2> DEFINE z == RoutingDepth(n)
  <2> HIDE DEF d, D, z
  <2>3. /\ d \in Nat \ {0} /\ d + 1 \in 1 .. D + 1 /\ d + 2 \in 1 .. D + 2
        /\ (d + 1) + 1 = d + 2 /\ d + 1 # 1 /\ d + 1 # d /\ d + 2 # d + 1
    BY <2>1, <2>2 DEF z
  <2> QED
    BY <2>1, <2>3 DEF LevelsOf, D
<1>6. /\ y.count = n /\ y.offset = e.offset /\ y.in = e.in /\ y.out = e.out
      /\ y.middle = e.middle /\ y.left = from
      /\ y.right = from + LeftCount(n) /\ End(y) = End(e)
      /\ \A place : WillTake(e, place) => Takes(f, y, place)
      /\ cl.depth = d + 1 /\ cl.count = LeftCount(n) /\ cl.offset = from
      /\ cr.depth = d + 1 /\ cr.count = RightCount(n) /\ cr.offset = from + LeftCount(n)
      /\ WillTake(cl, ChildPlace(y, FALSE)) /\ WillTake(cr, ChildPlace(y, TRUE))
  <2>1. n \in Nat /\ n > LeafSize
    BY <1>3
  <2>2. /\ y.count = n /\ y.offset = e.offset /\ y.in = e.in /\ y.out = e.out
        /\ y.middle = e.middle /\ y.left = from
        /\ y.right = from + LeftCount(n) /\ End(y) = End(e)
        /\ \A place : n > LeafSize /\ n \in Nat /\ WillTake(e, place) => Takes(f, y, place)
    <3>1. y = NodeFor(e, from)
      OBVIOUS
    <3> HIDE DEF e, y
    <3> QED
      BY <3>1, NodeFields
  <2>3. /\ cl.depth = d + 1 /\ cl.count = ChildCount(FALSE, n) /\ cl.offset = from
        /\ WillTake(cl, ChildPlace(y, FALSE))
        /\ cr.depth = d + 1 /\ cr.count = ChildCount(TRUE, n)
        /\ cr.offset = from + LeftCount(n)
        /\ WillTake(cr, ChildPlace(y, TRUE))
    <3>1. y = NodeFor(e, from)
      OBVIOUS
    <3>2. cl = ChildEntry(e, FALSE, BookedFor(e.count, from))
          /\ cr = ChildEntry(e, TRUE, BookedFor(e.count, from))
      OBVIOUS
    <3> HIDE DEF e, y, cl, cr
    <3>3. ASSUME NEW right \in BOOLEAN, NEW c,
                 c = ChildEntry(e, right, BookedFor(e.count, from))
          PROVE  /\ c.depth = e.depth + 1 /\ c.count = ChildCount(right, e.count)
                 /\ c.offset = IF right THEN from + LeftCount(e.count) ELSE from
                 /\ WillTake(c, ChildPlace(y, right))
      BY <3>1, <3>3, ChildFields
    <3>4. FALSE \in BOOLEAN /\ TRUE \in BOOLEAN
      OBVIOUS
    <3>5. /\ cl.depth = e.depth + 1 /\ cl.count = ChildCount(FALSE, e.count)
          /\ cl.offset = from
          /\ WillTake(cl, ChildPlace(y, FALSE))
      BY <3>2, <3>3, <3>4
    <3>6. /\ cr.depth = e.depth + 1 /\ cr.count = ChildCount(TRUE, e.count)
          /\ cr.offset = from + LeftCount(e.count)
          /\ WillTake(cr, ChildPlace(y, TRUE))
      BY <3>2, <3>3, <3>4
    <3> QED
      BY <3>5, <3>6
  <2>4. ChildCount(FALSE, n) = LeftCount(n) /\ ChildCount(TRUE, n) = RightCount(n)
    BY DEF ChildCount
  <2> HIDE DEF e, d, n, y, cl, cr
  <2> QED
    BY <2>1, <2>2, <2>3, <2>4
<1>7. from \in Nat /\ end \in Nat /\ end <= End(e) /\ from <= end /\ Room(f, l, d + 1) = from
  <2>1. from \in Nat
    BY <1>3, TreeFacts0
  <2>2. Room(f, l, d + 1) = from
    BY <1>5 DEF Room
  <2> HIDE DEF e, d, n
  <2> QED
    BY <1>3, <2>1, <2>2, SMTT(30) DEF n, e, d
<1>8. ListsNode(l, d, y, end, m)
  OBVIOUS
<1>9. from = l.free[d + 1]
  OBVIOUS
<1> HIDE DEF e, d, n, y, b, cl, cr, q, D, end
<1>10. /\ AreLists(f, m) /\ m.leaves = l.leaves
       /\ m.free[d + 1] = end
       /\ \A k \in 1 .. D + 2 : k # d + 1 => m.free[k] = l.free[k]
       /\ \A k : LeavesAt(m, k) = LeavesAt(l, k)
       /\ \A k \in LevelsOf(f) : k # d => NodesAt(m, k) = NodesAt(l, k)
       /\ NodesAt(m, d) = NodesAt(l, d) \cup {y}
  <2>1. f.count \in Nat
    OBVIOUS
  <2> QED
    BY <1>1, <1>3, <1>7, <1>8, <2>1, NodeListed DEF D
<1>11. \A k \in LevelsOf(f) : /\ k # d => PartsAt(m, k) = PartsAt(l, k)
                              /\ k \in 1 .. D + 2 /\ k + 1 \in 1 .. D + 2
                              /\ k # d => k + 1 # d + 1
                              /\ k # d => m.free[k + 1] = l.free[k + 1]
                              /\ k # d + 1 => Room(f, m, k) = Room(f, l, k)
  <2> SUFFICES ASSUME NEW k \in LevelsOf(f)
               PROVE  /\ k # d => PartsAt(m, k) = PartsAt(l, k)
                      /\ k \in 1 .. D + 2 /\ k + 1 \in 1 .. D + 2
                      /\ k # d => k + 1 # d + 1
                      /\ k # d => m.free[k + 1] = l.free[k + 1]
                      /\ k # d + 1 => Room(f, m, k) = Room(f, l, k)
    OBVIOUS
  <2>1. k \in 1 .. D + 2 /\ k + 1 \in 1 .. D + 2 /\ (k # d => k + 1 # d + 1)
    BY <1>5, SMTT(30) DEF LevelsOf, D
  <2>2. k # d => PartsAt(m, k) = PartsAt(l, k)
    BY <1>10 DEF PartsAt
  <2>3. k # d => m.free[k + 1] = l.free[k + 1]
    BY <1>10, <2>1
  <2>4. k # d + 1 => Room(f, m, k) = Room(f, l, k)
    BY <1>10, <2>1 DEF Room
  <2> QED
    BY <2>1, <2>2, <2>3, <2>4
<1>12. PartsAt(m, d) = PartsAt(l, d) \cup {y}
  BY <1>10 DEF PartsAt
<1>13. Room(f, m, d + 1) = end
  BY <1>5, <1>10 DEF Room
<1>14. /\ \A k \in LevelsOf(f) : k # d + 1 => Places(f, m, k) = Places(f, l, k)
       /\ Places(f, m, d + 1) = Places(f, l, d + 1) \cup {ChildPlace(y, FALSE), ChildPlace(y, TRUE)}
  <2>1. ASSUME NEW k \in LevelsOf(f), k # d + 1
        PROVE  Places(f, m, k) = Places(f, l, k)
    <3>1. CASE k = 1
      BY <3>1 DEF Places
    <3>2. CASE k # 1
      <4>1. k - 1 \in LevelsOf(f) /\ k - 1 # d
        BY <1>5, <2>1, <3>2 DEF LevelsOf, D
      <4>2. NodesAt(m, k - 1) = NodesAt(l, k - 1)
        BY <1>10, <4>1
      <4> QED
        BY <3>2, <4>2 DEF Places
    <3> QED
      BY <3>1, <3>2
  <2>2. (d + 1) - 1 = d
    BY <1>5
  <2>3. /\ Places(f, m, d + 1) = {ChildPlace(x, FALSE) : x \in NodesAt(m, d)}
                                    \cup {ChildPlace(x, TRUE) : x \in NodesAt(m, d)}
        /\ Places(f, l, d + 1) = {ChildPlace(x, FALSE) : x \in NodesAt(l, d)}
                                    \cup {ChildPlace(x, TRUE) : x \in NodesAt(l, d)}
    BY <1>5, <2>2 DEF Places
  <2>4. Places(f, m, d + 1) =
          Places(f, l, d + 1) \cup {ChildPlace(y, FALSE), ChildPlace(y, TRUE)}
    BY <1>10, <2>3
  <2> QED
    BY <2>1, <2>4
<1>15. PartsAreSound(f, m)
  <2> SUFFICES ASSUME NEW k \in LevelsOf(f)
      PROVE  /\ \A x \in NodesAt(m, k) : IsNodeAt(f, x, k) /\ x.left + x.count <= m.free[k + 1]
             /\ \A x \in LeavesAt(m, k) : IsLeafPart(x)
             /\ \A x \in PartsAt(m, k) : End(x) <= Room(f, m, k)
             /\ \A x, z \in PartsAt(m, k) : x # z => Apart(x, z)
             /\ \A x, z \in NodesAt(m, k) : x # z => BookApart(x, z)
             /\ Len(m.leaves[k]) * Least(f, k) <= Room(f, m, k)
             /\ m.free[k + 1] <= Room(f, m, k)
    BY DEF PartsAreSound
  <2>1. /\ \A x \in NodesAt(l, k) : IsNodeAt(f, x, k) /\ x.left + x.count <= l.free[k + 1]
        /\ \A x \in LeavesAt(l, k) : IsLeafPart(x)
        /\ \A x \in PartsAt(l, k) : End(x) <= Room(f, l, k)
        /\ \A x, z \in PartsAt(l, k) : x # z => Apart(x, z)
        /\ \A x, z \in NodesAt(l, k) : x # z => BookApart(x, z)
        /\ Len(l.leaves[k]) * Least(f, k) <= Room(f, l, k)
        /\ l.free[k + 1] <= Room(f, l, k)
    BY <1>1 DEF PartsAreSound
  <2>2. CASE k # d /\ k # d + 1
    BY <1>10, <1>11, <2>1, <2>2
  <2>3. CASE k = d + 1
    <3>1. /\ NodesAt(m, k) = NodesAt(l, k) /\ LeavesAt(m, k) = LeavesAt(l, k)
          /\ PartsAt(m, k) = PartsAt(l, k) /\ m.free[k + 1] = l.free[k + 1]
          /\ m.leaves[k] = l.leaves[k]
      BY <1>5, <1>10, <1>11, <2>3
    <3>2. Room(f, l, k) <= Room(f, m, k)
      BY <1>7, <1>13, <2>3
    <3>3. /\ Room(f, l, k) \in Nat /\ Room(f, m, k) \in Nat
          /\ Len(l.leaves[k]) * Least(f, k) \in Nat /\ l.free[k + 1] \in Nat
          /\ \A x \in PartsAt(l, k) : End(x) \in Nat
      BY <1>7, <1>13, <2>3, TreeFacts0
    <3> DEFINE z == Len(l.leaves[k]) * Least(f, k)
    <3>4. z <= Room(f, m, k) /\ l.free[k + 1] <= Room(f, m, k)
      <4>1. z \in Nat /\ z <= Room(f, l, k)
        BY <2>1, <3>3
      <4> HIDE DEF z
      <4> QED
        BY <2>1, <3>2, <3>3, <4>1
    <3>5. \A x \in PartsAt(l, k) : End(x) <= Room(f, m, k)
      BY <2>1, <3>2, <3>3
    <3> QED
      BY <2>1, <3>1, <3>4, <3>5
  <2>4. CASE k = d
    <3>1. IsNodeAt(f, y, d) /\ y.left + y.count = end
      <4>1. y.count \in Nat /\ y.count > LeafSize /\ y.offset \in Nat
        BY <1>3, <1>6 DEF n, e
      <4> QED
        BY <1>3, <1>6, <1>7, <4>1 DEF IsNodeAt, end, D
    <3>2. \A x \in NodesAt(l, d) : x.left + x.count <= from /\ x.left + x.count \in Nat
      <4>1. \A x \in NodesAt(l, d) : x.left \in Nat /\ x.count \in Nat
        BY <2>1, <2>4 DEF IsNodeAt
      <4> QED
        BY <1>9, <2>1, <2>4, <4>1
    <3>3. \A x \in NodesAt(m, d) : IsNodeAt(f, x, d) /\ x.left + x.count <= m.free[d + 1]
      <4>1. \A x \in NodesAt(l, d) : x.left + x.count <= end
        BY <1>7, <3>2
      <4> QED
        BY <1>7, <1>10, <2>1, <2>4, <3>1, <4>1
    <3>4. \A x \in PartsAt(l, d) : Apart(x, y) /\ Apart(y, x)
      BY <1>3, <1>6 DEF Apart
    <3>5. \A x \in NodesAt(l, d) : BookApart(x, y) /\ BookApart(y, x)
      BY <1>6, <3>2 DEF BookApart
    <3>6. Room(f, m, d) = Room(f, l, d)
      BY <1>3, <1>5, <1>11
    <3>7. \A x \in PartsAt(m, d) : End(x) <= Room(f, m, d)
      BY <1>3, <1>6, <1>12, <2>1, <2>4, <3>6
    <3>8. \A x, z \in PartsAt(m, d) : x # z => Apart(x, z)
      BY <1>12, <2>1, <2>4, <3>4
    <3>9. \A x, z \in NodesAt(m, d) : x # z => BookApart(x, z)
      BY <1>10, <2>1, <2>4, <3>5
    <3>10. m.free[d + 1] <= Room(f, m, d)
      <4>1. Room(f, l, d) \in Nat /\ End(e) \in Nat
        BY <1>3, TreeFacts0, SMTT(30)
      <4> QED
        BY <1>3, <1>7, <1>10, <3>6, <4>1
    <3> QED
      BY <1>10, <2>1, <2>4, <3>3, <3>6, <3>7, <3>8, <3>9, <3>10
  <2> QED
    BY <2>2, <2>3, <2>4
<1>16. EntriesAreSound(f, q, m)
  <2>0. ASSUME NEW i \in 1 .. Len(q)
        PROVE  i = 1 \/ i = 2 \/ (i - 1 \in 2 .. Len(p) /\ (i - 1) + 1 = i)
    BY <1>2, <2>0
  <2>1. ASSUME NEW c \in {cl, cr}
        PROVE  /\ IsEntry(f, c)
               /\ \A x \in PartsAt(m, c.depth) : End(x) <= c.offset
               /\ Len(m.leaves[c.depth]) * Least(f, c.depth) <= c.offset
               /\ m.free[c.depth + 1] <= c.offset
               /\ End(c) <= Room(f, m, c.depth)
    <3>1. /\ c.depth = d + 1 /\ c.offset \in Nat /\ from <= c.offset
          /\ c.count \in Nat \ {0} /\ c.offset + c.count <= end
          /\ c.count >= (LeafSize + 1) \div 2
          /\ RoutingDepth(c.count) + (d + 1) <= D + 1
      <4>1. CASE c = cl
        <5>1. c.depth = d + 1 /\ c.offset = from /\ c.count = LeftCount(n)
          BY <1>6, <4>1
        <5>2. RoutingDepth(c.count) \in Nat /\ RoutingDepth(c.count) + 1 <= RoutingDepth(n)
          BY <1>4, <5>1
        <5>3. RoutingDepth(c.count) + (d + 1) <= D + 1
          BY <1>3, <1>4, <1>5, <5>2, SMTT(30)
        <5>4. c.offset \in Nat /\ from <= c.offset /\ c.offset + c.count <= end
          <6>1. LeftCount(n) \in Nat /\ RightCount(n) \in Nat /\ n \in Nat
                /\ LeftCount(n) + RightCount(n) = n /\ from \in Nat /\ end = from + n
            BY <1>3, <1>4, <1>7, SMTT(30) DEF end
          <6> QED
            BY <5>1, <6>1
        <5> QED
          BY <1>3, <1>4, <5>1, <5>3, <5>4
      <4>2. CASE c = cr
        <5>1. c.depth = d + 1 /\ c.offset = from + LeftCount(n) /\ c.count = RightCount(n)
          BY <1>6, <4>2
        <5>2. RoutingDepth(c.count) \in Nat /\ RoutingDepth(c.count) + 1 <= RoutingDepth(n)
          BY <1>4, <5>1
        <5>3. RoutingDepth(c.count) + (d + 1) <= D + 1
          BY <1>3, <1>4, <1>5, <5>2
        <5>4. c.offset \in Nat /\ from <= c.offset /\ c.offset + c.count <= end
          <6>1. LeftCount(n) \in Nat /\ RightCount(n) \in Nat /\ n \in Nat
                /\ LeftCount(n) + RightCount(n) = n /\ from \in Nat /\ end = from + n
            BY <1>3, <1>4, <1>7 DEF end
          <6> QED
            BY <5>1, <6>1, SMTT(30)
        <5> QED
          BY <1>3, <1>4, <5>1, <5>3, <5>4
      <4> QED
        BY <4>1, <4>2
    <3>2. Least(f, d + 1) = (LeafSize + 1) \div 2
      BY <1>5 DEF Least
    <3>3. IsEntry(f, c)
      BY <1>5, <3>1, <3>2 DEF IsEntry, D
    <3>4. /\ \A x \in PartsAt(l, d + 1) : End(x) <= from /\ End(x) \in Nat
          /\ Len(l.leaves[d + 1]) * Least(f, d + 1) <= from
          /\ Len(l.leaves[d + 1]) * Least(f, d + 1) \in Nat
          /\ l.free[d + 2] <= from /\ l.free[d + 2] \in Nat
      BY <1>1, <1>5, <1>7, TreeFacts0 DEF PartsAreSound
    <3>5. /\ PartsAt(m, d + 1) = PartsAt(l, d + 1) /\ m.leaves = l.leaves
          /\ m.free[d + 2] = l.free[d + 2]
      BY <1>5, <1>10, <1>11
    <3>6. \A x \in PartsAt(m, d + 1) : End(x) <= c.offset
      BY <1>7, <3>1, <3>4, <3>5
    <3>7. Len(m.leaves[d + 1]) * Least(f, d + 1) <= c.offset
      <4> DEFINE z == Len(l.leaves[d + 1]) * Least(f, d + 1)
      <4>1. z \in Nat /\ z <= from
        BY <3>4
      <4> HIDE DEF z
      <4>2. z <= c.offset
        BY <1>7, <3>1, <4>1
      <4> QED
        BY <3>5, <4>2 DEF z
    <3>8. m.free[(d + 1) + 1] <= c.offset
      <4>1. m.free[(d + 1) + 1] = l.free[d + 2]
        BY <1>5, <3>5
      <4> QED
        BY <1>7, <3>1, <3>4, <4>1, SMTT(30)
    <3>9. End(c) <= Room(f, m, d + 1)
      BY <1>13, <3>1 DEF End
    <3> QED
      BY <3>1, <3>3, <3>6, <3>7, <3>8, <3>9
  <2>2. ASSUME NEW i \in 2 .. Len(p)
        PROVE  /\ p[i].depth <= d /\ p[i].depth # d + 1 /\ p[i].depth \in LevelsOf(f)
               /\ p[i].depth \in Nat
               /\ IsEntry(f, p[i])
               /\ \A x \in PartsAt(m, p[i].depth) : End(x) <= p[i].offset
               /\ Len(m.leaves[p[i].depth]) * Least(f, p[i].depth) <= p[i].offset
               /\ m.free[p[i].depth + 1] <= p[i].offset
               /\ End(p[i]) <= Room(f, m, p[i].depth)
    <3> DEFINE g == p[i]
    <3>1. i \in 1 .. Len(p) /\ 1 < i
      BY <1>2
    <3>2. /\ IsEntry(f, g)
          /\ \A x \in PartsAt(l, g.depth) : End(x) <= g.offset
          /\ Len(l.leaves[g.depth]) * Least(f, g.depth) <= g.offset
          /\ l.free[g.depth + 1] <= g.offset
          /\ End(g) <= Room(f, l, g.depth)
      BY <1>1, <3>1 DEF EntriesAreSound
    <3>3. g.depth <= d /\ (g.depth = d => End(e) <= g.offset)
      BY <1>1, <1>2, <3>1 DEF EntriesAreSound, e, d
    <3>4. g.depth \in LevelsOf(f) /\ g.offset \in Nat
      BY <3>1, TreeFacts0
    <3> HIDE DEF g
    <3>5. g.depth \in Nat /\ g.depth # d + 1
      BY <1>5, <3>3, <3>4 DEF LevelsOf
    <3>6. Room(f, m, g.depth) = Room(f, l, g.depth) /\ m.leaves = l.leaves
      BY <1>10, <1>11, <3>4, <3>5
    <3>7. CASE g.depth # d
      <4>1. PartsAt(m, g.depth) = PartsAt(l, g.depth) /\ m.free[g.depth + 1] = l.free[g.depth + 1]
        BY <1>11, <3>4, <3>7
      <4> QED
        BY <3>2, <3>3, <3>4, <3>5, <3>6, <4>1 DEF g
    <3>8. CASE g.depth = d
      <4>1. \A x \in PartsAt(m, d) : End(x) <= g.offset
        BY <1>6, <1>12, <3>2, <3>3, <3>8
      <4>2. m.free[d + 1] <= g.offset
        <5>1. End(e) \in Nat
          BY <1>3
        <5> QED
          BY <1>7, <1>10, <3>3, <3>4, <3>8, <5>1
      <4>3. m.free[g.depth + 1] <= g.offset
        BY <3>8, <4>2
      <4> QED
        BY <3>2, <3>3, <3>4, <3>5, <3>6, <3>8, <4>1, <4>3 DEF g
    <3> QED
      BY <3>7, <3>8
  <2>3. ASSUME NEW i \in 1 .. Len(q)
        PROVE  /\ IsEntry(f, q[i])
               /\ \A x \in PartsAt(m, q[i].depth) : End(x) <= q[i].offset
               /\ Len(m.leaves[q[i].depth]) * Least(f, q[i].depth) <= q[i].offset
               /\ m.free[q[i].depth + 1] <= q[i].offset
               /\ End(q[i]) <= Room(f, m, q[i].depth)
    <3>1. CASE i = 1 \/ i = 2
      <4>1. q[i] \in {cl, cr}
        BY <1>2, <3>1
      <4> QED
        BY <2>1, <4>1
    <3>2. CASE ~(i = 1 \/ i = 2)
      <4>1. i - 1 \in 2 .. Len(p) /\ (i - 1) + 1 = i
        BY <2>0, <3>2
      <4>2. q[i] = p[i - 1]
        BY <1>2, <4>1
      <4> QED
        BY <2>2, <4>1, <4>2
    <3> QED
      BY <3>1, <3>2
  <2>4. ASSUME NEW i \in 1 .. Len(q), NEW j \in 1 .. Len(q), i < j
        PROVE  /\ q[j].depth <= q[i].depth
               /\ q[i].depth = q[j].depth => End(q[i]) <= q[j].offset
    <3>1. CASE j = 2
      <4>1. i = 1
        BY <2>4, <3>1
      <4>2. End(cl) = from + LeftCount(n)
        BY <1>6 DEF End
      <4>3. from + LeftCount(n) \in Nat
        <5>1. LeftCount(n) \in 1 .. n - 1 /\ n \in Nat /\ from \in Nat
          BY <1>3, <1>4, <1>7
        <5> DEFINE z == LeftCount(n)
        <5>2. z \in 1 .. n - 1
          BY <5>1
        <5> HIDE DEF n, z
        <5>3. z \in Nat
          BY <5>1, <5>2
        <5>4. from \in Nat
          BY <1>7
        <5>5. from + z \in Nat
          BY <5>3, <5>4
        <5> QED
          BY <5>5 DEF z
      <4> QED
        BY <1>2, <1>5, <1>6, <3>1, <4>1, <4>2, <4>3
    <3>2. CASE j # 2
      <4>1. j - 1 \in 2 .. Len(p) /\ (j - 1) + 1 = j
        BY <2>0, <2>4, <3>2
      <4>2. q[j] = p[j - 1]
        BY <1>2, <4>1
      <4>3. CASE i = 1 \/ i = 2
        <5>1. q[i].depth = d + 1
          BY <1>2, <1>6, <4>3
        <5>2. q[j].depth <= d /\ q[j].depth # d + 1 /\ q[j].depth \in Nat
          BY <2>2, <4>1, <4>2
        <5>3. q[j].depth <= d + 1
          BY <1>5, <5>2
        <5> QED
          BY <5>1, <5>2, <5>3
      <4>4. CASE ~(i = 1 \/ i = 2)
        <5>1. i - 1 \in 2 .. Len(p) /\ (i - 1) + 1 = i
          BY <2>0, <4>4
        <5>3. q[i] = p[i - 1] /\ i - 1 \in 1 .. Len(p) /\ j - 1 \in 1 .. Len(p)
          BY <1>2, <4>1, <5>1
        <5>4. i - 1 < j - 1
          BY <2>4
        <5>2. q[i] = p[i - 1] /\ i - 1 \in 1 .. Len(p) /\ j - 1 \in 1 .. Len(p) /\ i - 1 < j - 1
          BY <5>3, <5>4
        <5> QED
          BY <1>1, <4>2, <5>2 DEF EntriesAreSound
      <4> QED
        BY <4>3, <4>4
    <3> QED
      BY <3>1, <3>2
  <2> QED
    BY <1>2, <2>3, <2>4 DEF EntriesAreSound
<1>17. PlacesAreTaken(f, q, m)
  <2>1. \A i \in 1 .. Len(p) : \E place \in Places(f, l, p[i].depth) : WillTake(p[i], place)
    BY <1>1 DEF PlacesAreTaken
  <2>2. \A k \in LevelsOf(f) : /\ Places(f, l, k) \subseteq Places(f, m, k)
                               /\ PartsAt(l, k) \subseteq PartsAt(m, k)
    BY <1>11, <1>12, <1>14
  <2>3. ASSUME NEW k \in LevelsOf(f), NEW x \in PartsAt(m, k)
        PROVE  \E place \in Places(f, m, k) : Takes(f, x, place)
    <3>1. CASE x \in PartsAt(l, k)
      BY <1>1, <2>2, <3>1 DEF PlacesAreTaken
    <3>2. CASE x \notin PartsAt(l, k)
      <4>1. k = d /\ x = y
        BY <1>11, <1>12, <3>2
      <4>2. PICK place \in Places(f, l, d) : WillTake(e, place)
        BY <1>2, <2>1 DEF e, d
      <4> QED
        BY <1>6, <2>2, <4>1, <4>2
    <3> QED
      BY <3>1, <3>2
  <2>4. ASSUME NEW i \in 1 .. Len(q)
        PROVE  \E place \in Places(f, m, q[i].depth) : WillTake(q[i], place)
    <3>1. CASE i = 1
      BY <1>2, <1>6, <1>14, <3>1
    <3>2. CASE i = 2
      BY <1>2, <1>6, <1>14, <3>2
    <3>3. CASE i # 1 /\ i # 2
      <4>1. i - 1 \in 2 .. Len(p) /\ (i - 1) + 1 = i
        BY <1>2, <3>3
      <4>2. q[i] = p[i - 1] /\ i - 1 \in 1 .. Len(p)
        BY <1>2, <4>1
      <4>3. p[i - 1].depth \in LevelsOf(f)
        BY <4>2, TreeFacts0
      <4> QED
        BY <2>1, <2>2, <4>2, <4>3
    <3> QED
      BY <3>1, <3>2, <3>3
  <2>5. ASSUME NEW k \in LevelsOf(f), NEW place \in Places(f, m, k)
        PROVE  \/ \E x \in PartsAt(m, k) : Takes(f, x, place)
               \/ \E i \in 1 .. Len(q) : q[i].depth = k /\ WillTake(q[i], place)
    <3>1. 1 \in 1 .. Len(q) /\ 2 \in 1 .. Len(q)
      BY <1>2
    <3>2. CASE k = d + 1 /\ place = ChildPlace(y, FALSE)
      BY <1>2, <1>6, <3>1, <3>2
    <3>3. CASE k = d + 1 /\ place = ChildPlace(y, TRUE)
      BY <1>2, <1>6, <3>1, <3>3
    <3>4. CASE place \in Places(f, l, k)
      <4>1. \/ \E x \in PartsAt(l, k) : Takes(f, x, place)
            \/ \E i \in 1 .. Len(p) : p[i].depth = k /\ WillTake(p[i], place)
        BY <1>1, <3>4 DEF PlacesAreTaken
      <4>2. CASE \E x \in PartsAt(l, k) : Takes(f, x, place)
        BY <2>2, <4>2
      <4>3. ASSUME NEW i \in 1 .. Len(p), p[i].depth = k, WillTake(p[i], place)
            PROVE  \/ \E x \in PartsAt(m, k) : Takes(f, x, place)
                   \/ \E j \in 1 .. Len(q) : q[j].depth = k /\ WillTake(q[j], place)
        <5>1. CASE i = 1
          <6>1. k = d /\ Takes(f, y, place)
            BY <1>6, <4>3, <5>1 DEF e, d
          <6> QED
            BY <1>12, <6>1
        <5>2. CASE i # 1
          <6>1. i \in 2 .. Len(p)
            BY <1>2, <5>2
          <6>2. i + 1 \in 1 .. Len(q) /\ q[i + 1] = p[i]
            BY <1>2, <6>1
          <6> QED
            BY <4>3, <6>2
        <5> QED
          BY <5>1, <5>2
      <4> QED
        BY <4>1, <4>2, <4>3
    <3> QED
      BY <1>14, <3>2, <3>3, <3>4
  <2> QED
    BY <2>3, <2>4, <2>5 DEF PlacesAreTaken
<1>18. TreeIsSound(f, q, m)
  BY <1>10, <1>15, <1>16, <1>17 DEF TreeIsSound
<1> QED
  BY <1>18 DEF q, cl, cr, b, e, n

-----------------------------------------------------------------------------
(* The calls of a level, and the places of its parts.                      *)

\* The parts of a level all lie within the buffers.
LEMMA RoomShrinks ==
  ASSUME NEW f, f.count \in Nat \ {0}, NEW p, NEW l, TreeIsSound(f, p, l)
  PROVE  \A d \in LevelsOf(f) : Room(f, l, d) \in Nat /\ Room(f, l, d) <= f.count
<1> DEFINE D == RoutingDepth(f.count)
           S == {n \in Nat : n + 1 <= D + 1 => Room(f, l, n + 1) <= f.count}
<1>1. D \in Nat /\ LevelsOf(f) = 1 .. D + 1
  BY TreeFacts0 DEF LevelsOf
<1> HIDE DEF D
<1>2. \A d \in LevelsOf(f) : /\ Room(f, l, d) \in Nat
                             /\ l.free[d + 1] \in Nat /\ l.free[d + 1] <= Room(f, l, d)
  BY TreeFacts0 DEF TreeIsSound, PartsAreSound
<1>3. 0 \in S
  <2>1. Room(f, l, 0 + 1) = f.count
    BY DEF Room
  <2> QED
    BY <2>1
<1>4. ASSUME NEW n \in Nat, n \in S
      PROVE  n + 1 \in S
  <2> SUFFICES ASSUME (n + 1) + 1 <= D + 1 PROVE Room(f, l, (n + 1) + 1) <= f.count
    OBVIOUS
  <2>1. n + 1 \in LevelsOf(f) /\ (n + 1) + 1 # 1 /\ n + 1 <= D + 1
    BY <1>1
  <2>2. Room(f, l, (n + 1) + 1) = l.free[(n + 1) + 1]
    BY <2>1 DEF Room
  <2> DEFINE a == Room(f, l, n + 1)  b == l.free[(n + 1) + 1]
  <2>3. a \in Nat /\ b \in Nat /\ b <= a /\ a <= f.count
    BY <1>2, <1>4, <2>1
  <2> HIDE DEF a, b
  <2>4. b <= f.count
    BY <2>3
  <2> QED
    BY <2>2, <2>4 DEF b
<1> HIDE DEF S
<1>5. Nat \subseteq S
  BY <1>3, <1>4, Induction
<1> SUFFICES ASSUME NEW d \in LevelsOf(f) PROVE Room(f, l, d) <= f.count
  BY <1>2
<1>6. d - 1 \in Nat /\ (d - 1) + 1 = d /\ d <= D + 1
  BY <1>1
<1>7. d - 1 \in S
  BY <1>5, <1>6
<1> QED
  BY <1>6, <1>7 DEF S

-----------------------------------------------------------------------------
\* The calls of a level: 2^(d-1) is the number of its first.
CallsAt(c, d) == {k \in DOMAIN c : PowerOfTwo[d - 1] <= k /\ k < PowerOfTwo[d]}
ChildNumber(k, right) == 2 * k + IF right THEN 1 ELSE 0

AreCalls(f, c, p) ==
  /\ IsTree(c, f) /\ 1 \in DOMAIN c /\ c[1] = RootCall(p, f)
  /\ \A k \in DOMAIN c : ~Waits(c, k)

LEMMA CallsBelow ==
  ASSUME NEW f, NEW c, NEW p, AreCalls(f, c, p), NEW d \in Nat \ {0}
  PROVE  /\ \A k \in CallsAt(c, d) : c[k].count > LeafSize => \A right \in BOOLEAN :
              /\ ChildNumber(k, right) \in CallsAt(c, d + 1)
              /\ c[ChildNumber(k, right)] = ChildCall(c[k], right)
         /\ \A j \in CallsAt(c, d + 1) : \E k \in CallsAt(c, d), right \in BOOLEAN :
              c[k].count > LeafSize /\ j = ChildNumber(k, right)
<1>1. /\ d - 1 \in Nat /\ (d - 1) + 1 = d /\ (d + 1) - 1 = d /\ d \in Nat
      /\ PowerOfTwo[d - 1] \in Nat \ {0}
      /\ PowerOfTwo[d] = 2 * PowerOfTwo[d - 1] /\ PowerOfTwo[d + 1] = 2 * PowerOfTwo[d]
  <2>1. d - 1 \in Nat /\ (d - 1) + 1 = d /\ (d + 1) - 1 = d /\ d \in Nat
    OBVIOUS
  <2>2. PowerOfTwo[(d - 1) + 1] = 2 * PowerOfTwo[d - 1] /\ PowerOfTwo[d - 1] \in Nat \ {0}
    BY <2>1, PowerFacts
  <2>3. PowerOfTwo[d + 1] = 2 * PowerOfTwo[d]
    BY <2>1, PowerFacts
  <2> QED
    BY <2>1, <2>2, <2>3
<1> DEFINE w == PowerOfTwo[d - 1]
<1>2. /\ w \in Nat \ {0}
      /\ \A k : k \in CallsAt(c, d) <=> k \in DOMAIN c /\ w <= k /\ k < 2 * w
      /\ \A k : k \in CallsAt(c, d + 1) <=> k \in DOMAIN c /\ 2 * w <= k /\ k < 4 * w
  <2>1. PowerOfTwo[d] = 2 * w /\ PowerOfTwo[d + 1] = 4 * w /\ w \in Nat \ {0}
    BY <1>1
  <2> HIDE DEF w
  <2>2. CallsAt(c, d) = {k \in DOMAIN c : w <= k /\ k < PowerOfTwo[d]}
    BY DEF CallsAt, w
  <2>3. CallsAt(c, d + 1) = {k \in DOMAIN c : PowerOfTwo[d] <= k /\ k < PowerOfTwo[d + 1]}
    BY <1>1 DEF CallsAt
  <2> QED
    BY <2>1, <2>2, <2>3
<1> HIDE DEF w
<1>3. IsTree(c, f) /\ \A k \in DOMAIN c : ~Waits(c, k)
  BY DEF AreCalls
<1>4. DOMAIN c \subseteq Nat \ {0}
  BY <1>3 DEF IsTree
<1>5. ASSUME NEW k \in CallsAt(c, d), c[k].count > LeafSize, NEW right \in BOOLEAN
      PROVE  /\ ChildNumber(k, right) \in CallsAt(c, d + 1)
             /\ c[ChildNumber(k, right)] = ChildCall(c[k], right)
  <2>1. k \in DOMAIN c /\ k \in Nat /\ w <= k /\ k < 2 * w
    BY <1>2, <1>4
  <2>2. /\ 2 * k \in DOMAIN c /\ c[2 * k] = ChildCall(c[k], FALSE)
        /\ 2 * k + 1 \in DOMAIN c /\ c[2 * k + 1] = ChildCall(c[k], TRUE)
    BY <1>3, <1>5, <2>1, TreeFacts
  <2>3. CASE right = FALSE
    <3>1. ChildNumber(k, right) = 2 * k
      BY <2>1, <2>3 DEF ChildNumber
    <3>2. 2 * w <= 2 * k /\ 2 * k < 4 * w
      BY <1>2, <2>1
    <3> QED
      BY <1>2, <2>2, <2>3, <3>1, <3>2
  <2>4. CASE right = TRUE
    <3>1. ChildNumber(k, right) = 2 * k + 1
      BY <2>1, <2>4 DEF ChildNumber
    <3>2. 2 * w <= 2 * k + 1 /\ 2 * k + 1 < 4 * w
      BY <1>2, <2>1
    <3> QED
      BY <1>2, <2>2, <2>4, <3>1, <3>2
  <2> QED
    BY <2>3, <2>4
<1>6. ASSUME NEW j \in CallsAt(c, d + 1)
      PROVE  \E k \in CallsAt(c, d), right \in BOOLEAN :
               c[k].count > LeafSize /\ j = ChildNumber(k, right)
  <2>1. j \in DOMAIN c /\ j \in Nat \ {0} /\ 2 * w <= j /\ j < 4 * w
    BY <1>2, <1>4
  <2> DEFINE k == j \div 2
  <2>2. k \in Nat /\ (j = 2 * k \/ j = 2 * k + 1) /\ w <= k /\ k < 2 * w /\ j # 1
    BY <1>2, <2>1
  <2> HIDE DEF k
  <2>3. k \in DOMAIN c /\ 2 * k \in DOMAIN c
    <3>1. k \in DOMAIN c
      BY <1>3, <2>1, <2>2 DEF IsTree, k
    <3>2. 2 * k \in DOMAIN c <=> 2 * k + 1 \in DOMAIN c
      BY <1>3, <3>1 DEF IsTree
    <3> QED
      BY <2>1, <2>2, <3>1, <3>2
  <2>4. c[k].count > LeafSize
    BY <1>3, <2>3 DEF IsTree
  <2>5. k \in CallsAt(c, d)
    BY <1>2, <2>2, <2>3
  <2>6. CASE j = 2 * k
    <3>1. j = ChildNumber(k, FALSE)
      BY <2>2, <2>6 DEF ChildNumber
    <3> QED
      BY <2>4, <2>5, <3>1
  <2>7. CASE j = 2 * k + 1
    <3>1. j = ChildNumber(k, TRUE)
      BY <2>2, <2>7 DEF ChildNumber
    <3> QED
      BY <2>4, <2>5, <3>1
  <2> QED
    BY <2>2, <2>6, <2>7
<1> QED
  BY <1>5, <1>6

-----------------------------------------------------------------------------
(* A level is held by a buffer: its parts and the calls of the encoding are  *)
(* the same, and the entries of a part, and no others, are this level's.     *)
Answers(f, x, call) ==
  /\ x.count = call.count
  /\ IF x.count <= LeafSize
     THEN x.rank = RankStart(f, call.in, call.out, call.middle)
     ELSE x.in = call.in /\ x.out = call.out /\ x.middle = call.middle
Holds(b, x, g, d) ==
  \A i \in 0 .. x.count - 1 : b[x.offset + i] = [value |-> g[i], level |-> d]
Carries(f, b, x, call, d) == Answers(f, x, call) /\ Holds(b, x, call.order, d)

LevelIsHeld(f, l, c, b, d) ==
  /\ \A x \in PartsAt(l, d) : \E k \in CallsAt(c, d) : Carries(f, b, x, c[k], d)
  /\ \A k \in CallsAt(c, d) : \E x \in PartsAt(l, d) : Carries(f, b, x, c[k], d)
  /\ \A y \in 0 .. f.count - 1 :
       /\ b[y].level \in 0 .. d
       /\ b[y].level = d <=> \E x \in PartsAt(l, d) : y \in x.offset .. x.offset + x.count - 1

\* After, for a format.
WrittenTo(f, buffer, writes, level) ==
  [x \in 0 .. f.count - 1 |->
     IF \E w \in writes : w[1] = x
     THEN [value |-> (CHOOSE w \in writes : w[1] = x)[2], level |-> level]
     ELSE buffer[x]]

LEMMA WrittenIs ==
  ASSUME NEW f, NEW b, NEW writes, NEW level, NEW y \in 0 .. f.count - 1
  PROVE  /\ \A v : (\E w \in writes : w[1] = y) /\ (\A w \in writes : w[1] = y => w[2] = v)
                     => WrittenTo(f, b, writes, level)[y] = [value |-> v, level |-> level]
         /\ (\A w \in writes : w[1] # y) => WrittenTo(f, b, writes, level)[y] = b[y]
<1>1. WrittenTo(f, b, writes, level)[y] =
        IF \E w \in writes : w[1] = y
        THEN [value |-> (CHOOSE w \in writes : w[1] = y)[2], level |-> level]
        ELSE b[y]
  BY DEF WrittenTo
<1>2. ASSUME NEW v, \E w \in writes : w[1] = y, \A w \in writes : w[1] = y => w[2] = v
      PROVE  (CHOOSE w \in writes : w[1] = y)[2] = v
  BY <1>2
<1> QED
  BY <1>1, <1>2

\* The elements of a level's nodes.
ElementsAt(l, d) ==
  UNION {{[node |-> x, index |-> i] : i \in 0 .. x.count - 1} : x \in NodesAt(l, d)}

LEMMA PartFacts ==
  ASSUME NEW f, f.count \in Nat \ {0}, NEW p, NEW l, TreeIsSound(f, p, l),
         NEW d \in LevelsOf(f)
  PROVE  /\ d \in Nat \ {0}
         /\ \A x \in PartsAt(l, d) : /\ x.offset \in Nat /\ x.count \in Nat \ {0}
                                     /\ x.offset + x.count <= f.count
                                     /\ \A i \in 0 .. x.count - 1 :
                                          x.offset + i \in 0 .. f.count - 1
         /\ \A x, y \in PartsAt(l, d) : x # y =>
              \A i \in 0 .. x.count - 1, j \in 0 .. y.count - 1 : x.offset + i # y.offset + j
         /\ \A x \in NodesAt(l, d) :
              /\ x \in PartsAt(l, d) /\ x.count > LeafSize /\ ~(x.count <= LeafSize)
              /\ x.left \in Nat /\ x.right = x.left + LeftCount(x.count)
              /\ x.left + x.count <= Room(f, l, d + 1) /\ d + 1 \in LevelsOf(f)
              /\ d + 1 \in Nat \ {0, 1}
         /\ \A x \in LeavesAt(l, d) : x \in PartsAt(l, d) /\ x.count <= LeafSize
         /\ \A x \in PartsAt(l, d) : x \in NodesAt(l, d) \/ x \in LeavesAt(l, d)
<1>0. /\ LeafSize \in Nat /\ RoutingDepth(f.count) \in Nat
      /\ d \in Nat \ {0} /\ d <= RoutingDepth(f.count) + 1
      /\ Room(f, l, d) \in Nat /\ Room(f, l, d) <= f.count
  BY TreeFacts0, RoomShrinks DEF LevelsOf
<1>1. /\ \A x \in NodesAt(l, d) : IsNodeAt(f, x, d) /\ x.left + x.count <= l.free[d + 1]
      /\ \A x \in LeavesAt(l, d) : IsLeafPart(x)
      /\ \A x \in PartsAt(l, d) : End(x) <= Room(f, l, d)
      /\ \A x, y \in PartsAt(l, d) : x # y => Apart(x, y)
  BY DEF TreeIsSound, PartsAreSound
<1>2. \A x \in PartsAt(l, d) : x \in NodesAt(l, d) \/ x \in LeavesAt(l, d)
  BY DEF PartsAt
<1>3. ASSUME NEW x \in PartsAt(l, d)
      PROVE  /\ x.offset \in Nat /\ x.count \in Nat \ {0}
             /\ x.offset + x.count <= f.count
             /\ \A i \in 0 .. x.count - 1 : x.offset + i \in 0 .. f.count - 1
  <2>1. x.offset \in Nat /\ x.count \in Nat \ {0}
    BY <1>0, <1>1, <1>2 DEF IsNodeAt, IsLeafPart
  <2>2. x.offset + x.count <= f.count
    BY <1>0, <1>1, <2>1 DEF End
  <2> QED
    BY <2>1, <2>2
<1>4. ASSUME NEW x \in PartsAt(l, d), NEW y \in PartsAt(l, d), x # y,
             NEW i \in 0 .. x.count - 1, NEW j \in 0 .. y.count - 1
      PROVE  x.offset + i # y.offset + j
  <2>1. x.offset + x.count <= y.offset \/ y.offset + y.count <= x.offset
    BY <1>1, <1>4 DEF Apart, End
  <2>2. /\ x.offset \in Nat /\ x.count \in Nat /\ y.offset \in Nat /\ y.count \in Nat
    BY <1>3
  <2> QED
    BY <2>1, <2>2
<1>5. ASSUME NEW x \in NodesAt(l, d)
      PROVE  /\ x \in PartsAt(l, d) /\ x.count > LeafSize /\ ~(x.count <= LeafSize)
             /\ x.left \in Nat /\ x.right = x.left + LeftCount(x.count)
             /\ x.left + x.count <= Room(f, l, d + 1) /\ d + 1 \in LevelsOf(f)
             /\ d + 1 \in Nat \ {0, 1}
  <2>1. IsNodeAt(f, x, d) /\ x.left + x.count <= l.free[d + 1]
    BY <1>1
  <2>2. x.count \in Nat /\ x.count > LeafSize
    BY <2>1 DEF IsNodeAt
  <2>3. RoutingDepth(x.count) \in Nat \ {0}
    BY <2>2, NodeNumbers
  <2>4. RoutingDepth(x.count) + d <= RoutingDepth(f.count) + 1
    BY <2>1 DEF IsNodeAt
  <2> DEFINE a == RoutingDepth(x.count)  D == RoutingDepth(f.count)
  <2>5. d + 1 \in 1 .. D + 1
    <3> HIDE DEF a, D
    <3>1. D \in Nat /\ a \in Nat \ {0} /\ a + d <= D + 1
      BY <1>0, <2>3, <2>4 DEF a, D
    <3> QED
      BY <1>0, <3>1
  <2>6. Room(f, l, d + 1) = l.free[d + 1] /\ d + 1 \in Nat \ {0, 1}
    BY <1>0 DEF Room
  <2>7. ~(x.count <= LeafSize)
    BY <1>0, <2>2
  <2> QED
    BY <2>1, <2>2, <2>5, <2>6, <2>7 DEF PartsAt, LevelsOf, IsNodeAt
<1>6. \A x \in LeavesAt(l, d) : x \in PartsAt(l, d) /\ x.count <= LeafSize
  BY <1>1 DEF PartsAt, IsLeafPart
<1> QED
  BY <1>0, <1>2, <1>3, <1>4, <1>5, <1>6

\* The entries of the children of a level's nodes.
LEMMA ChildEntries ==
  ASSUME NEW f, f.count \in Nat \ {0}, NEW p, NEW l, TreeIsSound(f, p, l),
         NEW d \in LevelsOf(f), NEW x \in NodesAt(l, d), NEW right \in BOOLEAN
  PROVE  LET n == ChildCount(right, x.count)
             at == ChildPlace(x, right).offset
         IN  /\ at \in Nat /\ n \in Nat \ {0}
             /\ \A s \in 0 .. n - 1 : at + s \in 0 .. f.count - 1
             /\ \A s \in 0 .. n - 1 : at + s \in x.left .. x.left + x.count - 1
             /\ \A t \in BOOLEAN : \A s \in 0 .. n - 1, r \in 0 .. ChildCount(t, x.count) - 1 :
                  at + s = ChildPlace(x, t).offset + r => t = right /\ r = s
<1>1. /\ d \in Nat \ {0} /\ x.count \in Nat /\ x.count > LeafSize
      /\ x.left \in Nat /\ x.right = x.left + LeftCount(x.count)
      /\ x.left + x.count <= Room(f, l, d + 1) /\ d + 1 \in LevelsOf(f)
  BY PartFacts
<1>2. Room(f, l, d + 1) \in Nat /\ Room(f, l, d + 1) <= f.count
  BY <1>1, RoomShrinks
<1> DEFINE L == LeftCount(x.count)  R == RightCount(x.count)
<1>3. L \in 1 .. x.count - 1 /\ R \in 1 .. x.count - 1 /\ L + R = x.count
  BY <1>1, NodeNumbers
<1> HIDE DEF L, R
<1>4. /\ ChildCount(TRUE, x.count) = R /\ ChildCount(FALSE, x.count) = L
      /\ ChildPlace(x, TRUE).offset = x.left + L /\ ChildPlace(x, FALSE).offset = x.left
  BY <1>1 DEF ChildCount, ChildPlace, L, R
<1> DEFINE n == ChildCount(right, x.count)  at == ChildPlace(x, right).offset
<1> HIDE DEF n, at
<1>5. CASE right = TRUE
  <2>1. n = R /\ at = x.left + L
    BY <1>4, <1>5 DEF n, at
  <2>2. \A s \in 0 .. R - 1 : /\ x.left + L + s \in 0 .. f.count - 1
                              /\ x.left + L + s \in x.left .. x.left + x.count - 1
    BY <1>1, <1>2, <1>3
  <2>3. \A s \in 0 .. R - 1 : \A r \in 0 .. L - 1 : x.left + L + s # x.left + r
    BY <1>1, <1>3
  <2>4. \A s \in 0 .. R - 1 : \A r \in 0 .. R - 1 : x.left + L + s = x.left + L + r => r = s
    BY <1>1, <1>3
  <2>5. ASSUME NEW t \in BOOLEAN, NEW s \in 0 .. n - 1, NEW r \in 0 .. ChildCount(t, x.count) - 1,
               at + s = ChildPlace(x, t).offset + r
        PROVE  t = right /\ r = s
    <3>1. CASE t = TRUE
      <4>1. ChildCount(t, x.count) = R /\ ChildPlace(x, t).offset = x.left + L
        BY <1>4, <3>1
      <4> QED
        BY <1>5, <2>1, <2>4, <2>5, <3>1, <4>1
    <3>2. CASE t = FALSE
      <4>1. ChildCount(t, x.count) = L /\ ChildPlace(x, t).offset = x.left
        BY <1>4, <3>2
      <4> QED
        BY <2>1, <2>3, <2>5, <4>1
    <3> QED
      BY <3>1, <3>2
  <2>6. at \in Nat /\ n \in Nat \ {0}
    BY <1>1, <1>3, <2>1
  <2> QED
    BY <2>1, <2>2, <2>5, <2>6 DEF n, at
<1>6. CASE right = FALSE
  <2>1. n = L /\ at = x.left
    BY <1>4, <1>6 DEF n, at
  <2>2. \A s \in 0 .. L - 1 : /\ x.left + s \in 0 .. f.count - 1
                              /\ x.left + s \in x.left .. x.left + x.count - 1
    BY <1>1, <1>2, <1>3
  <2>3. \A s \in 0 .. L - 1 : \A r \in 0 .. R - 1 : x.left + s # x.left + L + r
    BY <1>1, <1>3
  <2>4. \A s \in 0 .. L - 1 : \A r \in 0 .. L - 1 : x.left + s = x.left + r => r = s
    BY <1>1, <1>3
  <2>5. ASSUME NEW t \in BOOLEAN, NEW s \in 0 .. n - 1, NEW r \in 0 .. ChildCount(t, x.count) - 1,
               at + s = ChildPlace(x, t).offset + r
        PROVE  t = right /\ r = s
    <3>1. CASE t = FALSE
      <4>1. ChildCount(t, x.count) = L /\ ChildPlace(x, t).offset = x.left
        BY <1>4, <3>1
      <4> QED
        BY <1>6, <2>1, <2>4, <2>5, <3>1, <4>1
    <3>2. CASE t = TRUE
      <4>1. ChildCount(t, x.count) = R /\ ChildPlace(x, t).offset = x.left + L
        BY <1>4, <3>2
      <4> QED
        BY <2>1, <2>3, <2>5, <4>1
    <3> QED
      BY <3>1, <3>2
  <2>6. at \in Nat /\ n \in Nat \ {0}
    BY <1>1, <1>3, <2>1
  <2> QED
    BY <2>1, <2>2, <2>5, <2>6 DEF n, at
<1> QED
  BY <1>5, <1>6

LEMMA ChildrenApart ==
  ASSUME NEW f, f.count \in Nat \ {0}, NEW p, NEW l, TreeIsSound(f, p, l),
         NEW d \in LevelsOf(f), NEW x \in NodesAt(l, d), NEW y \in NodesAt(l, d),
         NEW a \in BOOLEAN, NEW b \in BOOLEAN,
         NEW s \in 0 .. ChildCount(a, x.count) - 1, NEW r \in 0 .. ChildCount(b, y.count) - 1,
         ChildPlace(x, a).offset + s = ChildPlace(y, b).offset + r
  PROVE  x = y /\ a = b /\ s = r
<1> DEFINE u == ChildPlace(x, a).offset + s
<1>1. u \in x.left .. x.left + x.count - 1
  BY ChildEntries
<1>2. u \in y.left .. y.left + y.count - 1
  <2>1. ChildPlace(y, b).offset + r \in y.left .. y.left + y.count - 1
    BY ChildEntries
  <2> QED
    BY <2>1
<1> HIDE DEF u
<1>3. x = y
  <2> SUFFICES ASSUME x # y PROVE FALSE
    OBVIOUS
  <2>1. x.left + x.count <= y.left \/ y.left + y.count <= x.left
    BY DEF TreeIsSound, PartsAreSound, BookApart
  <2>2. x.left \in Nat /\ x.count \in Nat /\ y.left \in Nat /\ y.count \in Nat
    BY PartFacts
  <2> QED
    BY <1>1, <1>2, <2>1, <2>2
<1> QED
  BY <1>3, ChildEntries

\* Each slot of a child is written.
LEMMA EverySlot ==
  ASSUME NEW n \in Nat \ {0}, NEW p \in Orders(n), NEW right \in BOOLEAN,
         NEW s \in 0 .. ChildCount(right, n) - 1
  PROVE  \E i \in 0 .. n - 1 :
           Coloring(p, n)[i] = (IF right THEN 1 ELSE 0) /\ i \div 2 = s
<1> DEFINE c == Coloring(p, n)
           child == IF right THEN 1 ELSE 0
           mine == {w \in Node(n)!Writes(p, c) : w[1] = child}
<1>1. Node(n)!IsSplit(Node(n)!Writes(p, c))
  BY ColoringFacts
<1>2. 0 .. ChildCount(right, n) - 1 = 0 .. Node(n)!ChildSize(child) - 1 /\ child \in {0, 1}
  BY DEF ChildCount, LeftCount, RightCount, Node!ChildSize
<1> HIDE DEF c
<1>3. \E w \in mine : w[2] = s
  BY <1>1, <1>2, Zenon DEF Node!IsSplit, Node!Bit
<1>4. PICK w \in Node(n)!Writes(p, c) : w[1] = child /\ w[2] = s
  BY <1>3
<1>5. PICK i \in Node(n)!Index : w = <<c[i], i \div 2, p[i] \div 2>>
  BY Zenon DEF Node!Writes
<1>6. i \in 0 .. n - 1
  BY DEF Node!Index
<1> QED
  BY <1>4, <1>5, <1>6 DEF c

\* Where the router sends an element.
Target(ch, x, i) ==
  (IF ch[x.offset + i].value # 0 THEN x.right ELSE x.left) + i \div 2
RouteWrites(b, ch, elements) ==
  {<<Target(ch, e.node, e.index), b[e.node.offset + e.index].value \div 2>> : e \in elements}

HasColors(ch, x, call) == \A i \in 0 .. x.count - 1 : ch[x.offset + i].value = call.colors[i]

\* A node's elements go to its children's entries, with the values they have
\* there, and each of the entries gets one.
ElementsGoTo(b, ch, x, call) ==
  \A i \in 0 .. x.count - 1 : \E right \in BOOLEAN :
    \E s \in 0 .. ChildCount(right, x.count) - 1 :
      /\ Target(ch, x, i) = ChildPlace(x, right).offset + s
      /\ b[x.offset + i].value \div 2 = ChildCall(call, right).order[s]
EntriesGet(ch, x) ==
  \A right \in BOOLEAN : \A s \in 0 .. ChildCount(right, x.count) - 1 :
    \E i \in 0 .. x.count - 1 : Target(ch, x, i) = ChildPlace(x, right).offset + s

LEMMA ElementRouted ==
  ASSUME NEW f, IsFormat(f), NEW call, GoodCall(call, f), call.count > LeafSize,
         NEW x, x.count = call.count, NEW b, NEW d, Holds(b, x, call.order, d),
         NEW ch, HasColors(ch, x, call)
  PROVE  ElementsGoTo(b, ch, x, call) /\ EntriesGet(ch, x)
<1> DEFINE n == call.count  p == call.order  c == Coloring(p, n)
<1>1. n \in Nat \ {0} /\ p \in Orders(n) /\ call.colors = c
  BY DEF GoodCall
<1>2. c \in [0 .. n - 1 -> {0, 1}]
  BY <1>1, ColoringFacts
<1>3. \A right \in BOOLEAN :
        /\ \A i \in 0 .. n - 1 : c[i] = (IF right THEN 1 ELSE 0) =>
             /\ i \div 2 \in 0 .. ChildCount(right, n) - 1
             /\ ChildOrder(p, n, c, right)[i \div 2] = p[i] \div 2
        /\ \A s \in 0 .. ChildCount(right, n) - 1 :
             \E i \in 0 .. n - 1 : c[i] = (IF right THEN 1 ELSE 0) /\ i \div 2 = s
  BY <1>1, ChildOrderFacts, EverySlot
<1>4. \A right \in BOOLEAN : ChildCall(call, right).order = ChildOrder(p, n, c, right)
  BY <1>1, ChildIsGood
<1>5. \A i \in 0 .. n - 1 : ch[x.offset + i].value = c[i] /\ b[x.offset + i].value = p[i]
  <2>1. \A i \in 0 .. n - 1 : b[x.offset + i] = [value |-> p[i], level |-> d]
    BY DEF Holds
  <2>2. \A i \in 0 .. n - 1 : ch[x.offset + i].value = call.colors[i]
    BY DEF HasColors
  <2> HIDE DEF c, p
  <2>3. ASSUME NEW i \in 0 .. n - 1 PROVE b[x.offset + i].value = p[i]
    <3>1. b[x.offset + i] = [value |-> p[i], level |-> d]
      BY <2>1, Zenon
    <3> QED
      BY <3>1
  <2> QED
    BY <1>1, <2>2, <2>3
<1>6. /\ ChildPlace(x, TRUE).offset = x.right /\ ChildPlace(x, FALSE).offset = x.left
  BY DEF ChildPlace
<1> HIDE DEF c
<1>7. \A right \in BOOLEAN : \A i \in 0 .. n - 1 : c[i] = (IF right THEN 1 ELSE 0) =>
        Target(ch, x, i) = ChildPlace(x, right).offset + i \div 2
  <2> SUFFICES ASSUME NEW right \in BOOLEAN, NEW i \in 0 .. n - 1,
                      c[i] = (IF right THEN 1 ELSE 0)
               PROVE  Target(ch, x, i) = ChildPlace(x, right).offset + i \div 2
    OBVIOUS
  <2>1. CASE right = TRUE
    <3>1. c[i] # 0
      BY <2>1
    <3> QED
      BY <1>5, <1>6, <2>1, <3>1 DEF Target
  <2>2. CASE right = FALSE
    <3>1. c[i] = 0
      BY <2>2
    <3> QED
      BY <1>5, <1>6, <2>2, <3>1 DEF Target
  <2> QED
    BY <2>1, <2>2
<1>8. \A i \in 0 .. n - 1 : \E right \in BOOLEAN : c[i] = (IF right THEN 1 ELSE 0)
  <2> SUFFICES ASSUME NEW i \in 0 .. n - 1
               PROVE  \E right \in BOOLEAN : c[i] = (IF right THEN 1 ELSE 0)
    OBVIOUS
  <2>1. c[i] = 1 \/ c[i] = 0
    BY <1>2
  <2>2. c[i] = 1 => c[i] = (IF TRUE THEN 1 ELSE 0)
    OBVIOUS
  <2>3. c[i] = 0 => c[i] = (IF FALSE THEN 1 ELSE 0)
    OBVIOUS
  <2> QED
    BY <2>1, <2>2, <2>3
<1>9. ASSUME NEW i \in 0 .. n - 1
      PROVE  \E right \in BOOLEAN : \E s \in 0 .. ChildCount(right, n) - 1 :
                /\ Target(ch, x, i) = ChildPlace(x, right).offset + s
                /\ b[x.offset + i].value \div 2 = ChildCall(call, right).order[s]
  <2>1. PICK right \in BOOLEAN : c[i] = (IF right THEN 1 ELSE 0)
    BY <1>8
  <2>2. /\ i \div 2 \in 0 .. ChildCount(right, n) - 1
        /\ ChildOrder(p, n, c, right)[i \div 2] = p[i] \div 2
        /\ Target(ch, x, i) = ChildPlace(x, right).offset + i \div 2
    BY <1>3, <1>7, <2>1
  <2> HIDE DEF n
  <2> QED
    BY <1>4, <1>5, <2>2
<1>10. ASSUME NEW right \in BOOLEAN, NEW s \in 0 .. ChildCount(right, n) - 1
       PROVE  \E i \in 0 .. n - 1 : Target(ch, x, i) = ChildPlace(x, right).offset + s
  <2>1. PICK i \in 0 .. n - 1 : c[i] = (IF right THEN 1 ELSE 0) /\ i \div 2 = s
    BY <1>3
  <2>2. Target(ch, x, i) = ChildPlace(x, right).offset + i \div 2
    BY <1>7, <2>1
  <2> QED
    BY <2>1, <2>2
<1> QED
  BY <1>9, <1>10 DEF ElementsGoTo, EntriesGet

\* What a level's nodes write is the next level.
LEMMA LevelRouted ==
  ASSUME NEW f, IsFormat(f), NEW l, TreeIsSound(f, <<>>, l), NEW p, NEW c, AreCalls(f, c, p),
         NEW d \in LevelsOf(f), NEW b, LevelIsHeld(f, l, c, b, d),
         NEW ch, \A x \in NodesAt(l, d) : \A k \in CallsAt(c, d) :
                   Carries(f, b, x, c[k], d) => HasColors(ch, x, c[k]),
         NEW old, \A y \in 0 .. f.count - 1 : old[y].level \in 0 .. d,
         NEW new, new = WrittenTo(f, old, RouteWrites(b, ch, ElementsAt(l, d)), d + 1)
  PROVE  \A x \in NodesAt(l, d) : \A k \in CallsAt(c, d) : Carries(f, b, x, c[k], d) =>
           \A right \in BOOLEAN : \A s \in 0 .. ChildCount(right, x.count) - 1 :
             new[ChildPlace(x, right).offset + s] =
               [value |-> c[ChildNumber(k, right)].order[s], level |-> d + 1]
<1> DEFINE writes == RouteWrites(b, ch, ElementsAt(l, d))
<1>1. f.count \in Nat \ {0}
  BY DEF IsFormat
<1>2. /\ d \in Nat \ {0}
      /\ \A k \in CallsAt(c, d) : c[k].count > LeafSize => \A right \in BOOLEAN :
              c[ChildNumber(k, right)] = ChildCall(c[k], right)
      /\ \A k \in CallsAt(c, d) : GoodCall(c[k], f)
  <2>1. d \in Nat \ {0}
    BY <1>1, PartFacts
  <2>2. \A k \in CallsAt(c, d) : GoodCall(c[k], f)
    BY DEF CallsAt, AreCalls, IsTree
  <2> QED
    BY <2>1, <2>2, CallsBelow
\* A node's element goes to an entry of a child, with the value it has there.
<1>3. ASSUME NEW x \in NodesAt(l, d), NEW k \in CallsAt(c, d), Carries(f, b, x, c[k], d)
      PROVE  /\ \A i \in 0 .. x.count - 1 : \E right \in BOOLEAN :
                  \E s \in 0 .. ChildCount(right, x.count) - 1 :
                    /\ Target(ch, x, i) = ChildPlace(x, right).offset + s
                    /\ b[x.offset + i].value \div 2 = c[ChildNumber(k, right)].order[s]
             /\ \A right \in BOOLEAN : \A s \in 0 .. ChildCount(right, x.count) - 1 :
                  \E i \in 0 .. x.count - 1 : Target(ch, x, i) = ChildPlace(x, right).offset + s
  <2>1. x.count = c[k].count /\ Holds(b, x, c[k].order, d) /\ HasColors(ch, x, c[k])
    BY <1>3 DEF Carries, Answers
  <2>2. x.count > LeafSize
    BY <1>1, PartFacts
  <2>3. \A right \in BOOLEAN : c[ChildNumber(k, right)] = ChildCall(c[k], right)
    BY <1>2, <2>1, <2>2
  <2>4. GoodCall(c[k], f) /\ c[k].count > LeafSize
    BY <1>2, <2>1, <2>2
  <2>5. ElementsGoTo(b, ch, x, c[k]) /\ EntriesGet(ch, x)
    BY <2>1, <2>4, ElementRouted
  <2> QED
    BY <2>3, <2>5 DEF ElementsGoTo, EntriesGet
<1>4. \A x \in NodesAt(l, d) : \E k \in CallsAt(c, d) : Carries(f, b, x, c[k], d)
  BY DEF LevelIsHeld, PartsAt
<1>5. ASSUME NEW x \in NodesAt(l, d), NEW k \in CallsAt(c, d), Carries(f, b, x, c[k], d),
             NEW right \in BOOLEAN, NEW s \in 0 .. ChildCount(right, x.count) - 1
      PROVE  new[ChildPlace(x, right).offset + s] =
               [value |-> c[ChildNumber(k, right)].order[s], level |-> d + 1]
  <2> DEFINE y == ChildPlace(x, right).offset + s
             v == c[ChildNumber(k, right)].order[s]
  <2>1. y \in 0 .. f.count - 1
    BY <1>1, ChildEntries
  <2>2. \E w \in writes : w[1] = y
    <3>1. PICK i \in 0 .. x.count - 1 : Target(ch, x, i) = y
      BY <1>3, <1>5
    <3> DEFINE e == [node |-> x, index |-> i]
    <3>2. e \in ElementsAt(l, d) /\ e.node = x /\ e.index = i
      BY DEF ElementsAt
    <3> HIDE DEF e
    <3>3. <<Target(ch, e.node, e.index), b[e.node.offset + e.index].value \div 2>> \in writes
      BY <3>2 DEF RouteWrites
    <3> HIDE DEF writes
    <3> QED
      BY <3>1, <3>2, <3>3
  <2>3. ASSUME NEW w \in writes, w[1] = y
        PROVE  w[2] = v
    <3>1. PICK e \in ElementsAt(l, d) :
            w = <<Target(ch, e.node, e.index), b[e.node.offset + e.index].value \div 2>>
      BY DEF RouteWrites
    <3>2. PICK z \in NodesAt(l, d) : \E i \in 0 .. z.count - 1 : e = [node |-> z, index |-> i]
      BY DEF ElementsAt
    <3>3. PICK i \in 0 .. z.count - 1 : e = [node |-> z, index |-> i]
      BY <3>2
    <3>4. w[1] = Target(ch, z, i) /\ w[2] = b[z.offset + i].value \div 2
      BY <3>1, <3>3
    <3>5. PICK m \in CallsAt(c, d) : Carries(f, b, z, c[m], d)
      BY <1>4
    <3>6. z = x
      <4>1. PICK t \in BOOLEAN : \E r \in 0 .. ChildCount(t, z.count) - 1 :
                 Target(ch, z, i) = ChildPlace(z, t).offset + r
        BY <1>3, <3>5
      <4>2. PICK r \in 0 .. ChildCount(t, z.count) - 1 :
                 Target(ch, z, i) = ChildPlace(z, t).offset + r
        BY <4>1
      <4>3. ChildPlace(z, t).offset + r = ChildPlace(x, right).offset + s
        BY <2>3, <3>4, <4>2
      <4> QED
        BY <1>1, <4>3, ChildrenApart
    <3>7. PICK t \in BOOLEAN : \E r \in 0 .. ChildCount(t, x.count) - 1 :
               /\ Target(ch, x, i) = ChildPlace(x, t).offset + r
               /\ b[x.offset + i].value \div 2 = c[ChildNumber(k, t)].order[r]
      BY <1>3, <1>5, <3>6
    <3>8. PICK r \in 0 .. ChildCount(t, x.count) - 1 :
               /\ Target(ch, x, i) = ChildPlace(x, t).offset + r
               /\ b[x.offset + i].value \div 2 = c[ChildNumber(k, t)].order[r]
      BY <3>7
    <3>9. ChildPlace(x, t).offset + r = ChildPlace(x, right).offset + s
      BY <2>3, <3>4, <3>6, <3>8
    <3>10. t = right /\ r = s
      BY <1>1, <3>9, ChildrenApart
    <3> QED
      BY <3>4, <3>6, <3>8, <3>10
  <2> HIDE DEF y, v, writes
  <2>4. WrittenTo(f, old, writes, d + 1)[y] = [value |-> v, level |-> d + 1]
    BY <2>1, <2>2, <2>3, WrittenIs
  <2> QED
    BY <2>4 DEF y, v, writes
<1> QED
  BY <1>5

IsRouted(f, l, c, b, new, d) ==
  \A x \in NodesAt(l, d) : \A k \in CallsAt(c, d) : Carries(f, b, x, c[k], d) =>
     \A right \in BOOLEAN : \A s \in 0 .. ChildCount(right, x.count) - 1 :
       new[ChildPlace(x, right).offset + s] =
         [value |-> c[ChildNumber(k, right)].order[s], level |-> d + 1]

\* A call of a level is one of the encoding.
LEMMA CallOfLevel ==
  ASSUME NEW f, NEW c, NEW p, AreCalls(f, c, p), NEW d, NEW k \in CallsAt(c, d)
  PROVE  /\ k \in DOMAIN c /\ k \in Nat \ {0} /\ LeafSize \in Nat
         /\ GoodCall(c[k], f) /\ c[k].count \in Nat \ {0}
<1>1. k \in DOMAIN c /\ IsTree(c, f)
  BY DEF CallsAt, AreCalls
<1> QED
  BY <1>1, TreeFacts

\* What takes the place of a node's child carries the child.
LEMMA ChildCarried ==
  ASSUME NEW f, IsFormat(f), NEW l, NEW p, NEW c, AreCalls(f, c, p),
         NEW d \in Nat \ {0}, NEW b, NEW new, IsRouted(f, l, c, b, new, d),
         NEW x \in NodesAt(l, d), x.count > LeafSize, NEW k \in CallsAt(c, d), Carries(f, b, x, c[k], d),
         NEW right \in BOOLEAN, NEW z, Takes(f, z, ChildPlace(x, right))
  PROVE  /\ ChildNumber(k, right) \in CallsAt(c, d + 1)
         /\ Carries(f, new, z, c[ChildNumber(k, right)], d + 1)
<1> DEFINE j == ChildNumber(k, right)  place == ChildPlace(x, right)
<1>1. x.count = c[k].count /\ LeafSize \in Nat /\ GoodCall(c[k], f) /\ c[k].count \in Nat
  BY CallOfLevel DEF Carries, Answers
<1>2. ~(x.count <= LeafSize) /\ c[k].count > LeafSize
  BY <1>1
<1>3. x.in = c[k].in /\ x.out = c[k].out /\ x.middle = c[k].middle
  BY <1>2 DEF Carries, Answers
<1>4. j \in CallsAt(c, d + 1) /\ c[j] = ChildCall(c[k], right)
  BY <1>2, CallsBelow
<1>5. /\ c[j].count = ChildCount(right, c[k].count)
      /\ c[j].in = Child(c[k].in, right, c[k].count)
      /\ c[j].out = Child(c[k].out, right, c[k].count)
      /\ c[j].middle = c[k].middle + (IF right THEN MiddleBits(LeftCount(c[k].count)) ELSE 0)
  BY <1>1, <1>2, <1>4, ChildIsGood
<1>6. /\ place.count = c[j].count /\ place.in = c[j].in /\ place.out = c[j].out
      /\ place.middle = c[j].middle
  BY <1>1, <1>3, <1>5 DEF ChildPlace
<1> HIDE DEF place
<1>7. Takes(f, z, place)
  BY DEF place
<1> HIDE DEF j
<1>8. Answers(f, z, c[j])
  BY <1>6, <1>7 DEF Takes, Answers
<1>9. z.count = ChildCount(right, x.count) /\ z.offset = place.offset
  BY <1>1, <1>5, <1>6, <1>7 DEF Takes
<1>10. \A s \in 0 .. ChildCount(right, x.count) - 1 :
         new[place.offset + s] = [value |-> c[j].order[s], level |-> d + 1]
  BY DEF IsRouted, place, j
<1>11. Holds(new, z, c[j].order, d + 1)
  BY <1>9, <1>10 DEF Holds
<1> QED
  BY <1>4, <1>8, <1>11 DEF Carries, j

\* The next level is held by what the nodes have written.
LEMMA LevelStep ==
  ASSUME NEW f, IsFormat(f), NEW l, TreeIsSound(f, <<>>, l), NEW p, NEW c, AreCalls(f, c, p),
         NEW d \in LevelsOf(f), d + 1 \in LevelsOf(f), NEW b, LevelIsHeld(f, l, c, b, d),
         NEW ch, \A x \in NodesAt(l, d) : \A k \in CallsAt(c, d) :
                   Carries(f, b, x, c[k], d) => HasColors(ch, x, c[k]),
         NEW old, \A y \in 0 .. f.count - 1 : old[y].level \in 0 .. d,
         NEW new, new = WrittenTo(f, old, RouteWrites(b, ch, ElementsAt(l, d)), d + 1)
  PROVE  LevelIsHeld(f, l, c, new, d + 1)
<1> DEFINE writes == RouteWrites(b, ch, ElementsAt(l, d))
<1>1. f.count \in Nat \ {0} /\ d \in Nat \ {0} /\ d + 1 # 1 /\ (d + 1) - 1 = d
  BY DEF IsFormat, LevelsOf
<1>2. IsRouted(f, l, c, b, new, d)
  BY LevelRouted DEF IsRouted
<1>3. \A x \in NodesAt(l, d) : x.count > LeafSize /\ x \in PartsAt(l, d)
  BY <1>1, PartFacts
<1>4. Places(f, l, d + 1) = {ChildPlace(x, FALSE) : x \in NodesAt(l, d)}
                              \cup {ChildPlace(x, TRUE) : x \in NodesAt(l, d)}
  BY <1>1 DEF Places
<1>5. ASSUME NEW z \in PartsAt(l, d + 1)
      PROVE  \E x \in NodesAt(l, d), right \in BOOLEAN : Takes(f, z, ChildPlace(x, right))
  <2>1. \E place \in Places(f, l, d + 1) : Takes(f, z, place)
    BY DEF TreeIsSound, PlacesAreTaken
  <2> QED
    BY <1>4, <2>1
<1>6. ASSUME NEW x \in NodesAt(l, d), NEW right \in BOOLEAN
      PROVE  \E z \in PartsAt(l, d + 1) : Takes(f, z, ChildPlace(x, right))
  <2>1. ChildPlace(x, right) \in Places(f, l, d + 1)
    <3>1. CASE right = TRUE
      BY <1>4, <3>1
    <3>2. CASE right = FALSE
      BY <1>4, <3>2
    <3> QED
      BY <3>1, <3>2
  <2> DEFINE place == ChildPlace(x, right)
  <2> HIDE DEF place
  <2>2. \/ \E z \in PartsAt(l, d + 1) : Takes(f, z, place)
        \/ \E i \in 1 .. Len(<<>>) : <<>>[i].depth = d + 1 /\ WillTake(<<>>[i], place)
    BY <2>1 DEF TreeIsSound, PlacesAreTaken, place
  <2>3. 1 .. Len(<<>>) = {}
    OBVIOUS
  <2> QED
    BY <2>2, <2>3 DEF place
<1>7. ASSUME NEW z \in PartsAt(l, d + 1)
      PROVE  \E j \in CallsAt(c, d + 1) : Carries(f, new, z, c[j], d + 1)
  <2>1. PICK x \in NodesAt(l, d), right \in BOOLEAN : Takes(f, z, ChildPlace(x, right))
    BY <1>5
  <2>2. PICK k \in CallsAt(c, d) : Carries(f, b, x, c[k], d)
    BY <1>3 DEF LevelIsHeld
  <2> QED
    BY <1>1, <1>2, <1>3, <2>1, <2>2, ChildCarried, ZenonT(30)
<1>8. ASSUME NEW j \in CallsAt(c, d + 1)
      PROVE  \E z \in PartsAt(l, d + 1) : Carries(f, new, z, c[j], d + 1)
  <2>1. PICK k \in CallsAt(c, d), right \in BOOLEAN :
               c[k].count > LeafSize /\ j = ChildNumber(k, right)
    BY <1>1, CallsBelow
  <2>2. PICK x \in PartsAt(l, d) : Carries(f, b, x, c[k], d)
    BY DEF LevelIsHeld
  <2>3. x \in NodesAt(l, d)
    <3>1. x.count = c[k].count
      BY <2>2 DEF Carries, Answers
    <3>2. \A y \in LeavesAt(l, d) : y.count <= LeafSize
      BY <1>1, PartFacts
    <3>3. c[k].count \in Nat /\ LeafSize \in Nat
      BY CallOfLevel
    <3>4. ~(x.count <= LeafSize)
      BY <2>1, <3>1, <3>3
    <3> QED
      BY <3>2, <3>4 DEF PartsAt
  <2>4. PICK z \in PartsAt(l, d + 1) : Takes(f, z, ChildPlace(x, right))
    BY <1>6, <2>3
  <2> QED
    BY <1>1, <1>2, <1>3, <2>1, <2>2, <2>3, <2>4, ChildCarried
<1>9. ASSUME NEW y \in 0 .. f.count - 1
      PROVE  /\ new[y].level \in 0 .. d + 1
             /\ new[y].level = d + 1
                  <=> \E z \in PartsAt(l, d + 1) : y \in z.offset .. z.offset + z.count - 1
  <2>1. ASSUME NEW z \in PartsAt(l, d + 1), y \in z.offset .. z.offset + z.count - 1
        PROVE  new[y].level = d + 1
    <3>1. PICK j \in CallsAt(c, d + 1) : Carries(f, new, z, c[j], d + 1)
      BY <1>7
    <3>2. z.offset \in Nat /\ z.count \in Nat
      BY <1>1, PartFacts
    <3>3. y - z.offset \in 0 .. z.count - 1 /\ z.offset + (y - z.offset) = y
      BY <2>1, <3>2
    <3>4. \A i \in 0 .. z.count - 1 :
             new[z.offset + i] = [value |-> c[j].order[i], level |-> d + 1]
      BY <3>1 DEF Carries, Holds
    <3>5. new[y] = [value |-> c[j].order[y - z.offset], level |-> d + 1]
      BY <3>3, <3>4
    <3> QED
      BY <3>5
  <2>2. CASE \E w \in writes : w[1] = y
    <3>1. PICK w \in writes : w[1] = y
      BY <2>2
    <3>2. PICK e \in ElementsAt(l, d) :
            w = <<Target(ch, e.node, e.index), b[e.node.offset + e.index].value \div 2>>
      BY DEF RouteWrites
    <3>3. PICK x \in NodesAt(l, d) : \E i \in 0 .. x.count - 1 : e = [node |-> x, index |-> i]
      BY <3>2 DEF ElementsAt
    <3>4. PICK i \in 0 .. x.count - 1 : e = [node |-> x, index |-> i]
      BY <3>3
    <3>5. y = Target(ch, x, i)
      BY <3>1, <3>2, <3>4
    <3>6. PICK k \in CallsAt(c, d) : Carries(f, b, x, c[k], d)
      BY <1>3 DEF LevelIsHeld
    <3>7. ElementsGoTo(b, ch, x, c[k])
      <4>1. x.count = c[k].count /\ Holds(b, x, c[k].order, d) /\ HasColors(ch, x, c[k])
        BY <3>6 DEF Carries, Answers
      <4>2. GoodCall(c[k], f) /\ c[k].count > LeafSize
        BY <1>3, <4>1 DEF CallsAt, AreCalls, IsTree
      <4> QED
        BY <4>1, <4>2, ElementRouted
    <3>8. PICK right \in BOOLEAN : \E s \in 0 .. ChildCount(right, x.count) - 1 :
             Target(ch, x, i) = ChildPlace(x, right).offset + s
      BY <3>7 DEF ElementsGoTo
    <3>9. PICK s \in 0 .. ChildCount(right, x.count) - 1 :
             y = ChildPlace(x, right).offset + s
      BY <3>5, <3>8
    <3>10. new[ChildPlace(x, right).offset + s] =
             [value |-> c[ChildNumber(k, right)].order[s], level |-> d + 1]
      BY <1>2, <3>6 DEF IsRouted
    <3>11. new[y].level = d + 1
      BY <3>9, <3>10
    <3>12. PICK z \in PartsAt(l, d + 1) : Takes(f, z, ChildPlace(x, right))
      BY <1>6
    <3>13. z.offset = ChildPlace(x, right).offset /\ z.count = ChildCount(right, x.count)
      BY <3>12 DEF Takes, ChildPlace
    <3>14. z.offset \in Nat /\ z.count \in Nat
      BY <1>1, PartFacts
    <3>15. y \in z.offset .. z.offset + z.count - 1
      BY <3>9, <3>13, <3>14
    <3> QED
      BY <1>1, <3>11, <3>15
  <2>3. CASE ~\E w \in writes : w[1] = y
    <3>1. new[y] = old[y]
      BY <2>3, WrittenIs
    <3>2. old[y].level \in 0 .. d
      OBVIOUS
    <3>3. new[y].level \in 0 .. d + 1 /\ new[y].level # d + 1
      BY <1>1, <3>1, <3>2
    <3> QED
      BY <2>1, <3>3
  <2> QED
    BY <2>2, <2>3
<1> QED
  BY <1>7, <1>8, <1>9 DEF LevelIsHeld

\* The first level is the permutation itself.
LEMMA RootHeld ==
  ASSUME NEW f, IsFormat(f), NEW l, TreeIsSound(f, <<>>, l), NEW p \in Orders(f.count), NEW c,
         AreCalls(f, c, p),
         NEW b, b = [x \in 0 .. f.count - 1 |-> [value |-> p[x], level |-> 1]]
  PROVE  LevelIsHeld(f, l, c, b, 1)
<1>1. f.count \in Nat \ {0} /\ 1 \in LevelsOf(f)
  BY RoutingDepthFacts DEF IsFormat, LevelsOf
<1>2. CallsAt(c, 1) = {1}
  <2>1. PowerOfTwo[0] = 1 /\ PowerOfTwo[1] = 2
    <3>1. PowerOfTwo[0] = 1 /\ PowerOfTwo[0 + 1] = 2 * PowerOfTwo[0]
      BY PowerFacts
    <3> QED
      BY <3>1
  <2>2. DOMAIN c \subseteq Nat \ {0} /\ 1 \in DOMAIN c
    BY DEF AreCalls, IsTree
  <2>3. CallsAt(c, 1) = {k \in DOMAIN c : 1 <= k /\ k < 2}
    BY <2>1 DEF CallsAt
  <2> QED
    BY <2>2, <2>3
<1>3. c[1] = RootCall(p, f)
  BY DEF AreCalls
<1> DEFINE call == c[1]  place == RootPlace(f)
<1>4. /\ call.order = p /\ call.count = f.count /\ call.middle = 0
      /\ call.in = RootOf(f, f.input, "input") /\ call.out = RootOf(f, f.output, "output")
  BY <1>3, CallIs DEF RootCall
<1>5. /\ place.count = f.count /\ place.offset = 0 /\ place.middle = 0
      /\ place.in = RootOf(f, f.input, "input") /\ place.out = RootOf(f, f.output, "output")
  BY DEF RootPlace
<1>6. Places(f, l, 1) = {place}
  BY DEF Places
<1> HIDE DEF call, place
<1>7. ASSUME NEW z, Takes(f, z, place)
      PROVE  Carries(f, b, z, call, 1) /\ z.offset = 0 /\ z.count = f.count
  <2>1. z.offset = 0 /\ z.count = f.count
    BY <1>5, <1>7 DEF Takes
  <2>2. Answers(f, z, call)
    BY <1>4, <1>5, <1>7 DEF Takes, Answers
  <2>3. Holds(b, z, call.order, 1)
    <3>1. \A i \in 0 .. f.count - 1 : 0 + i = i
      OBVIOUS
    <3> QED
      BY <1>4, <2>1, <3>1 DEF Holds
  <2> QED
    BY <2>1, <2>2, <2>3 DEF Carries
<1>8. \A z \in PartsAt(l, 1) : Takes(f, z, place)
  <2>1. \A z \in PartsAt(l, 1) : \E q \in Places(f, l, 1) : Takes(f, z, q)
    BY <1>1 DEF TreeIsSound, PlacesAreTaken
  <2> QED
    BY <1>6, <2>1
<1>9. \E z \in PartsAt(l, 1) : Takes(f, z, place)
  <2>1. place \in Places(f, l, 1)
    BY <1>6
  <2>2. \/ \E z \in PartsAt(l, 1) : Takes(f, z, place)
        \/ \E i \in 1 .. Len(<<>>) : <<>>[i].depth = 1 /\ WillTake(<<>>[i], place)
    BY <1>1, <2>1 DEF TreeIsSound, PlacesAreTaken
  <2>3. 1 .. Len(<<>>) = {}
    OBVIOUS
  <2> QED
    BY <2>2, <2>3
<1>10. \A z \in PartsAt(l, 1) : \E k \in CallsAt(c, 1) : Carries(f, b, z, c[k], 1)
  BY <1>2, <1>7, <1>8 DEF call
<1>11. \A k \in CallsAt(c, 1) : \E z \in PartsAt(l, 1) : Carries(f, b, z, c[k], 1)
  BY <1>2, <1>7, <1>9 DEF call
<1>12. ASSUME NEW y \in 0 .. f.count - 1
       PROVE  /\ b[y].level \in 0 .. 1
              /\ b[y].level = 1
                   <=> \E z \in PartsAt(l, 1) : y \in z.offset .. z.offset + z.count - 1
  <2>1. b[y].level = 1
    OBVIOUS
  <2>2. PICK z \in PartsAt(l, 1) : Takes(f, z, place)
    BY <1>9
  <2>3. z.offset = 0 /\ z.count = f.count
    BY <1>7, <2>2
  <2>4. y \in z.offset .. z.offset + z.count - 1
    BY <1>1, <2>3
  <2> QED
    BY <2>1, <2>4
<1> QED
  BY <1>10, <1>11, <1>12 DEF LevelIsHeld

\* Below a level of leaves there is nothing.
LEMMA NothingBelow ==
  ASSUME NEW f, IsFormat(f), NEW l, TreeIsSound(f, <<>>, l), NEW p, NEW c, AreCalls(f, c, p),
         NEW d \in LevelsOf(f), NodesAt(l, d) = {}, NEW b, LevelIsHeld(f, l, c, b, d)
  PROVE  /\ CallsAt(c, d + 1) = {}
         /\ \A k \in CallsAt(c, d) : c[k].count <= LeafSize
         /\ d + 1 \in LevelsOf(f) => LevelIsHeld(f, l, c, b, d + 1)
<1>1. f.count \in Nat \ {0} /\ d \in Nat \ {0} /\ d + 1 # 1 /\ (d + 1) - 1 = d
  BY DEF IsFormat, LevelsOf
<1>2. \A y \in LeavesAt(l, d) : y.count <= LeafSize
  BY <1>1, PartFacts
<1>3. ASSUME NEW k \in CallsAt(c, d) PROVE c[k].count <= LeafSize
  <2>1. PICK x \in PartsAt(l, d) : Carries(f, b, x, c[k], d)
    BY DEF LevelIsHeld
  <2>2. x \in LeavesAt(l, d) /\ x.count = c[k].count
    BY <2>1 DEF PartsAt, Carries, Answers
  <2> QED
    BY <1>2, <2>2
<1>4. CallsAt(c, d + 1) = {}
  <2> SUFFICES ASSUME NEW j \in CallsAt(c, d + 1) PROVE FALSE
    OBVIOUS
  <2>1. PICK k \in CallsAt(c, d), right \in BOOLEAN :
               c[k].count > LeafSize /\ j = ChildNumber(k, right)
    BY <1>1, CallsBelow
  <2>2. c[k].count \in Nat /\ LeafSize \in Nat
    BY CallOfLevel
  <2> QED
    BY <1>3, <2>1, <2>2
<1>5. ASSUME d + 1 \in LevelsOf(f) PROVE LevelIsHeld(f, l, c, b, d + 1)
  <2>1. Places(f, l, d + 1) = {}
    BY <1>1 DEF Places
  <2>2. PartsAt(l, d + 1) = {}
    BY <1>5, <2>1 DEF TreeIsSound, PlacesAreTaken
  <2>3. \A y \in 0 .. f.count - 1 : b[y].level \in 0 .. d
    BY DEF LevelIsHeld
  <2>4. \A y \in 0 .. f.count - 1 : b[y].level \in 0 .. d + 1 /\ b[y].level # d + 1
    BY <1>1, <2>3
  <2> QED
    BY <1>4, <2>2, <2>4 DEF LevelIsHeld
<1> QED
  BY <1>3, <1>4, <1>5

-----------------------------------------------------------------------------
(* The levels are strung together.                                         *)

\* A list of nodes has a largest count.
LEMMA LargestFacts ==
  ASSUME NEW list, IsSeq(list), \A k \in 1 .. Len(list) : list[k].count \in Nat
  PROVE  /\ Largest(list) \in Nat
         /\ \A k \in 1 .. Len(list) : list[k].count <= Largest(list)
<1>1. PICK S : list \in Seq(S)
  BY DEF IsSeq
<1>2. Len(list) \in Nat /\ DOMAIN list = 1 .. Len(list)
  BY <1>1
<1> DEFINE N == Len(list)
           IsMost(m, n) == /\ m \in {0} \cup {list[k].count : k \in 1 .. n}
                           /\ \A k \in 1 .. n : list[k].count <= m
           T == {n \in Nat : n <= N => \E m : IsMost(m, n)}
<1> HIDE DEF N
<1>3. 0 \in T
  <2>1. IsMost(0, 0)
    OBVIOUS
  <2> QED
    BY <2>1
<1>4. ASSUME NEW n \in Nat, n \in T PROVE n + 1 \in T
  <2> HIDE DEF IsMost
  <2> SUFFICES ASSUME n + 1 <= N PROVE \E m : IsMost(m, n + 1)
    OBVIOUS
  <2> USE DEF IsMost
  <2>1. N \in Nat
    BY <1>2 DEF N
  <2>2. PICK m : IsMost(m, n)
    BY <1>4, <2>1
  <2> DEFINE v == list[n + 1].count
  <2>3. v \in Nat /\ \A k \in 1 .. n : list[k].count \in Nat /\ k \in 1 .. n + 1
    BY <2>1 DEF N
  <2>4. m \in Nat
    BY <2>2, <2>3
  <2>5. n + 1 \in 1 .. n + 1 /\ \A k \in 1 .. n + 1 : k \in 1 .. n \/ k = n + 1
    OBVIOUS
  <2> HIDE DEF v
  <2>6. CASE v <= m
    <3>1. m \in {0} \cup {list[k].count : k \in 1 .. n + 1}
      BY <2>2, <2>3
    <3>2. \A k \in 1 .. n + 1 : list[k].count <= m
      BY <2>2, <2>5, <2>6 DEF v
    <3> QED
      BY <3>1, <3>2
  <2>7. CASE m <= v
    <3>1. v \in {0} \cup {list[k].count : k \in 1 .. n + 1}
      BY <2>5 DEF v
    <3>2. \A k \in 1 .. n : list[k].count <= v
      BY <2>2, <2>3, <2>4, <2>7
    <3>3. list[n + 1].count <= v
      BY <2>3 DEF v
    <3>4. \A k \in 1 .. n + 1 : list[k].count <= v
      BY <2>5, <3>2, <3>3
    <3> QED
      BY <3>1, <3>4
  <2> QED
    BY <2>3, <2>4, <2>6, <2>7
<1>5. Nat \subseteq T
  <2> HIDE DEF T
  <2> QED
    BY <1>3, <1>4, Induction
<1>6. \E m : IsMost(m, N)
  <2> HIDE DEF IsMost
  <2>0. N \in Nat
    BY <1>2 DEF N
  <2>1. N <= N => \E m : IsMost(m, N)
    BY <1>5, <2>0
  <2> QED
    BY <2>0, <2>1
<1>7. \E m \in {0} \cup {list[k].count : k \in DOMAIN list} : \A k \in DOMAIN list : list[k].count <= m
  BY <1>2, <1>6 DEF N
<1> DEFINE L == Largest(list)
<1>8. L \in {0} \cup {list[k].count : k \in DOMAIN list} /\ \A k \in DOMAIN list : list[k].count <= L
  BY <1>7, Zenon DEF Largest
<1> HIDE DEF L
<1>9. L \in Nat
  BY <1>2, <1>8
<1> QED
  BY <1>2, <1>8, <1>9 DEF L

\* The tree before the first call of build_nodes.
LEMMA FirstTree ==
  ASSUME NEW f, IsFormat(f),
         NEW p, p = <<[depth |-> 1, count |-> f.count, offset |-> 0, middle |-> 0,
                       in |-> RootOf(f, f.input, "input"),
                       out |-> RootOf(f, f.output, "output")]>>,
         NEW l, l = [free |-> [d \in LevelsOf(f) \cup {RoutingDepth(f.count) + 2} |-> 0],
                     nodes |-> [d \in LevelsOf(f) |-> <<>>],
                     leaves |-> [d \in LevelsOf(f) |-> <<>>]]
  PROVE  TreeIsSound(f, p, l)
<1> DEFINE D == RoutingDepth(f.count)
<1>1. f.count \in Nat \ {0} /\ D \in Nat /\ LeafSize \in Nat
  BY RoutingDepthFacts, LeafSizes DEF IsFormat
<1>2. /\ l.free = [d \in LevelsOf(f) \cup {D + 2} |-> 0]
      /\ l.nodes = [d \in LevelsOf(f) |-> <<>>] /\ l.leaves = [d \in LevelsOf(f) |-> <<>>]
      /\ l = [free |-> l.free, nodes |-> l.nodes, leaves |-> l.leaves]
  OBVIOUS
<1> HIDE DEF D
<1>3. LevelsOf(f) = 1 .. D + 1 /\ LevelsOf(f) \cup {D + 2} = 1 .. D + 2 /\ 1 \in LevelsOf(f)
  BY <1>1 DEF LevelsOf, D
<1>4. l.free = [d \in 1 .. D + 2 |-> 0]
  BY <1>2, <1>3
<1>5. IsSeq(<<>>) /\ Len(<<>>) = 0 /\ 1 .. 0 = {}
  <2>1. <<>> \in Seq({})
    OBVIOUS
  <2> QED
    BY <2>1 DEF IsSeq
<1>6. AreLists(f, l)
  <2>1. l.free \in [1 .. D + 2 -> Nat]
    BY <1>4
  <2>2. \A d \in LevelsOf(f) : l.nodes[d] = <<>> /\ l.leaves[d] = <<>>
    BY <1>2
  <2>3. l.nodes = [d \in LevelsOf(f) |-> l.nodes[d]] /\ l.leaves = [d \in LevelsOf(f) |-> l.leaves[d]]
    BY <1>2
  <2>4. \A d \in LevelsOf(f) : IsSeq(l.nodes[d]) /\ IsSeq(l.leaves[d])
    BY <1>5, <2>2
  <2> QED
    BY <1>2, <2>1, <2>3, <2>4 DEF AreLists, D
<1>7. \A d \in LevelsOf(f) : /\ NodesAt(l, d) = {} /\ LeavesAt(l, d) = {} /\ PartsAt(l, d) = {}
                             /\ Len(l.leaves[d]) = 0
  <2> SUFFICES ASSUME NEW d \in LevelsOf(f)
               PROVE  /\ NodesAt(l, d) = {} /\ LeavesAt(l, d) = {} /\ PartsAt(l, d) = {}
                      /\ Len(l.leaves[d]) = 0
    OBVIOUS
  <2>1. l.nodes[d] = <<>> /\ l.leaves[d] = <<>>
    BY <1>2
  <2>2. 1 .. Len(l.nodes[d]) = {} /\ 1 .. Len(l.leaves[d]) = {} /\ Len(l.leaves[d]) = 0
    BY <1>5, <2>1
  <2>3. NodesAt(l, d) = {} /\ LeavesAt(l, d) = {}
    BY <2>2 DEF NodesAt, LeavesAt
  <2> QED
    BY <2>2, <2>3 DEF PartsAt
<1>8. \A d \in LevelsOf(f) : /\ Room(f, l, d) \in Nat /\ l.free[d + 1] = 0
                             /\ Least(f, d) \in Nat
  <2> SUFFICES ASSUME NEW d \in LevelsOf(f)
               PROVE  Room(f, l, d) \in Nat /\ l.free[d + 1] = 0 /\ Least(f, d) \in Nat
    OBVIOUS
  <2>1. d \in 1 .. D + 2 /\ d + 1 \in 1 .. D + 2
    BY <1>1, <1>3
  <2>2. l.free[d] = 0 /\ l.free[d + 1] = 0
    BY <1>4, <2>1
  <2>3. (LeafSize + 1) \div 2 \in Nat
    BY <1>1
  <2> QED
    BY <1>1, <2>2, <2>3 DEF Room, Least
<1>9. PartsAreSound(f, l)
  <2>1. \A d \in LevelsOf(f) : Len(l.leaves[d]) * Least(f, d) = 0
    <3>1. \A n \in Nat : 0 * n = 0
      OBVIOUS
    <3> QED
      BY <1>7, <1>8, <3>1
  <2>2. \A d \in LevelsOf(f) : /\ Len(l.leaves[d]) * Least(f, d) <= Room(f, l, d)
                               /\ l.free[d + 1] <= Room(f, l, d)
    <3> SUFFICES ASSUME NEW d \in LevelsOf(f)
                 PROVE  /\ Len(l.leaves[d]) * Least(f, d) <= Room(f, l, d)
                        /\ l.free[d + 1] <= Room(f, l, d)
      OBVIOUS
    <3>1. Len(l.leaves[d]) * Least(f, d) = 0 /\ l.free[d + 1] = 0
      BY <1>8, <2>1
    <3>2. 0 <= Room(f, l, d)
      BY <1>8
    <3> QED
      BY <3>1, <3>2
  <2> QED
    BY <1>7, <2>2 DEF PartsAreSound
<1> DEFINE e == p[1]
<1>10. /\ IsSeq(p) /\ Len(p) = 1 /\ 1 .. Len(p) = {1}
       /\ e.depth = 1 /\ e.count = f.count /\ e.offset = 0 /\ e.middle = 0
       /\ e.in = RootOf(f, f.input, "input") /\ e.out = RootOf(f, f.output, "output")
  <2> DEFINE r == [depth |-> 1, count |-> f.count, offset |-> 0, middle |-> 0,
                   in |-> RootOf(f, f.input, "input"),
                   out |-> RootOf(f, f.output, "output")]
  <2>1. /\ r.depth = 1 /\ r.count = f.count /\ r.offset = 0 /\ r.middle = 0
        /\ r.in = RootOf(f, f.input, "input") /\ r.out = RootOf(f, f.output, "output")
    OBVIOUS
  <2>2. p = <<r>>
    OBVIOUS
  <2> HIDE DEF r
  <2>3. p \in Seq({r}) /\ Len(p) = 1 /\ p[1] = r
    BY <2>2
  <2>4. IsSeq(p)
    BY <2>3 DEF IsSeq
  <2>5. 1 .. Len(p) = {1}
    <3>1. 1 .. 1 = {1}
      OBVIOUS
    <3> QED
      BY <2>3, <3>1
  <2> QED
    BY <2>1, <2>3, <2>4, <2>5
<1> HIDE DEF e
<1>11. Room(f, l, 1) = f.count /\ Least(f, 1) = f.count /\ Places(f, l, 1) = {RootPlace(f)}
  BY DEF Room, Least, Places
<1>12. EntriesAreSound(f, p, l)
  <2>1. IsEntry(f, e)
    BY <1>1, <1>3, <1>10, <1>11 DEF IsEntry, D
  <2>2. End(e) <= Room(f, l, e.depth)
    BY <1>1, <1>10, <1>11 DEF End
  <2>3. \A x \in PartsAt(l, e.depth) : End(x) <= e.offset
    BY <1>3, <1>7, <1>10
  <2>4. Len(l.leaves[e.depth]) * Least(f, e.depth) <= e.offset /\ l.free[e.depth + 1] <= e.offset
    <3>1. e.depth = 1 /\ e.offset = 0 /\ Least(f, e.depth) \in Nat /\ Len(l.leaves[e.depth]) = 0
      BY <1>3, <1>7, <1>8, <1>10
    <3>2. \A n \in Nat : 0 * n = 0
      OBVIOUS
    <3>3. l.free[e.depth + 1] = 0
      BY <1>3, <1>8, <3>1
    <3> QED
      BY <3>1, <3>2, <3>3
  <2>5. \A i, j \in 1 .. Len(p) : ~(i < j)
    BY <1>10
  <2> QED
    BY <1>10, <2>1, <2>2, <2>3, <2>4, <2>5 DEF EntriesAreSound, e
<1>13. PlacesAreTaken(f, p, l)
  <2>1. WillTake(e, RootPlace(f))
    BY <1>10 DEF WillTake, RootPlace
  <2>2. \A d \in LevelsOf(f) : d # 1 => Places(f, l, d) = {}
    <3> SUFFICES ASSUME NEW d \in LevelsOf(f), d # 1 PROVE Places(f, l, d) = {}
      OBVIOUS
    <3>1. d - 1 \in LevelsOf(f)
      BY <1>1, <1>3
    <3> QED
      BY <1>7, <3>1 DEF Places
  <2>3. \A i \in 1 .. Len(p) : \E place \in Places(f, l, p[i].depth) : WillTake(p[i], place)
    BY <1>10, <1>11, <2>1 DEF e
  <2>4. \A d \in LevelsOf(f) : \A place \in Places(f, l, d) :
          \E i \in 1 .. Len(p) : p[i].depth = d /\ WillTake(p[i], place)
    <3> SUFFICES ASSUME NEW d \in LevelsOf(f), NEW place \in Places(f, l, d)
                 PROVE  \E i \in 1 .. Len(p) : p[i].depth = d /\ WillTake(p[i], place)
      OBVIOUS
    <3>1. d = 1 /\ place = RootPlace(f)
      BY <1>11, <2>2
    <3> QED
      BY <1>10, <2>1, <3>1 DEF e
  <2> QED
    BY <1>7, <2>3, <2>4 DEF PlacesAreTaken
<1> QED
  BY <1>6, <1>9, <1>12, <1>13 DEF TreeIsSound
-----------------------------------------------------------------------------
\* A level of the tree is the level of the lists, strung into the tree.
LevelIsLinked(l, t, d) ==
  LET v == t.levels[d]
  IN  /\ v.nodeBase \in Nat /\ v.nodeCount = Len(l.nodes[d])
      /\ v.nodeBase + v.nodeCount <= Len(t.nodes)
      /\ \A k \in 1 .. v.nodeCount : t.nodes[v.nodeBase + k] = l.nodes[d][k]
      /\ v.leafBase \in Nat /\ v.leafCount = Len(l.leaves[d])
      /\ v.leafBase + v.leafCount <= Len(t.leaves)
      /\ \A k \in 1 .. v.leafCount : t.leaves[v.leafBase + k] = l.leaves[d][k]
      /\ v.maximumCount = Largest(l.nodes[d])
      /\ v.maximumPairs = Largest(l.nodes[d]) \div 2

IsLinked(f, l, t) ==
  /\ IsSeq(t.nodes) /\ IsSeq(t.leaves) /\ IsSeq(t.levels)
  /\ Len(t.levels) <= RoutingDepth(f.count) + 1
  /\ \A d \in 1 .. Len(t.levels) : LevelIsLinked(l, t, d)

NewLevel(l, t, d) ==
  [nodeBase |-> Len(t.nodes), nodeCount |-> Len(l.nodes[d]),
   leafBase |-> Len(t.leaves), leafCount |-> Len(l.leaves[d]),
   maximumCount |-> Largest(l.nodes[d]), maximumPairs |-> Largest(l.nodes[d]) \div 2]

NewTree(l, t, d) ==
  [nodes |-> t.nodes \o l.nodes[d], leaves |-> t.leaves \o l.leaves[d],
   levels |-> Append(t.levels, NewLevel(l, t, d))]

AreStrung(s, r, t) ==
  /\ IsSeq(t) /\ Len(s) \in Nat /\ Len(r) \in Nat /\ Len(t) = Len(s) + Len(r)
  /\ \A i \in 1 .. Len(s) : t[i] = s[i]
  /\ \A i \in 1 .. Len(r) : t[Len(s) + i] = r[i]

LEMMA Strung ==
  ASSUME NEW s, IsSeq(s), NEW r, IsSeq(r)
  PROVE  AreStrung(s, r, s \o r)
<1> DEFINE t == s \o r
<1>1. IsSeq(t) /\ Len(s) \in Nat /\ Len(r) \in Nat /\ Len(t) = Len(s) + Len(r)
  BY Joined
<1>2. \A i \in 1 .. Len(s) : t[i] = s[i]
  BY Joined
<1>3. \A i \in 1 .. Len(r) : t[Len(s) + i] = r[i]
  BY Joined
<1> HIDE DEF t
<1>4. AreStrung(s, r, t)
  BY <1>1, <1>2, <1>3 DEF AreStrung
<1> QED
  BY <1>4 DEF t

LEMMA LevelLinked ==
  ASSUME NEW f, f.count \in Nat \ {0}, NEW l, AreLists(f, l), NEW t, IsLinked(f, l, t),
         NEW d, d = Len(t.levels) + 1, d \in LevelsOf(f),
         NEW u, u = NewTree(l, t, d)
  PROVE  IsLinked(f, l, u) /\ Len(u.levels) = d
<1> DEFINE v == NewLevel(l, t, d)
<1>1. /\ u.nodes = t.nodes \o l.nodes[d] /\ u.leaves = t.leaves \o l.leaves[d]
      /\ u.levels = Append(t.levels, v)
  BY DEF NewTree
<1>2. IsSeq(l.nodes[d]) /\ IsSeq(l.leaves[d]) /\ IsSeq(t.nodes) /\ IsSeq(t.leaves) /\ IsSeq(t.levels)
  BY DEF AreLists, IsLinked
<1> HIDE DEF v
<1>3. /\ IsSeq(u.nodes) /\ Len(t.nodes) \in Nat /\ Len(l.nodes[d]) \in Nat
      /\ Len(u.nodes) = Len(t.nodes) + Len(l.nodes[d])
      /\ \A i \in 1 .. Len(t.nodes) : u.nodes[i] = t.nodes[i]
      /\ \A i \in 1 .. Len(l.nodes[d]) : u.nodes[Len(t.nodes) + i] = l.nodes[d][i]
  <2>1. AreStrung(t.nodes, l.nodes[d], t.nodes \o l.nodes[d])
    BY <1>2, Strung
  <2>2. AreStrung(t.nodes, l.nodes[d], u.nodes)
    BY <1>1, <2>1
  <2> QED
    BY <2>2 DEF AreStrung
<1>4. /\ IsSeq(u.leaves) /\ Len(t.leaves) \in Nat /\ Len(l.leaves[d]) \in Nat
      /\ Len(u.leaves) = Len(t.leaves) + Len(l.leaves[d])
      /\ \A i \in 1 .. Len(t.leaves) : u.leaves[i] = t.leaves[i]
      /\ \A i \in 1 .. Len(l.leaves[d]) : u.leaves[Len(t.leaves) + i] = l.leaves[d][i]
  <2>1. AreStrung(t.leaves, l.leaves[d], t.leaves \o l.leaves[d])
    BY <1>2, Strung
  <2>2. AreStrung(t.leaves, l.leaves[d], u.leaves)
    BY <1>1, <2>1
  <2> QED
    BY <2>2 DEF AreStrung
<1>5. /\ IsSeq(u.levels) /\ Len(t.levels) \in Nat /\ Len(u.levels) = d
      /\ u.levels[d] = v /\ \A i \in 1 .. Len(t.levels) : u.levels[i] = t.levels[i]
  <2> DEFINE s == t.levels  a == Append(s, v)
  <2>1. IsSeq(s) /\ u.levels = a /\ d = Len(s) + 1
    BY <1>1, <1>2
  <2> HIDE DEF s
  <2>2. /\ IsSeq(a) /\ Len(s) \in Nat /\ Len(a) = Len(s) + 1 /\ a[Len(s) + 1] = v
        /\ \A i \in 1 .. Len(s) : a[i] = s[i]
    BY <2>1, Appended
  <2> HIDE DEF a
  <2> QED
    BY <2>1, <2>2 DEF s
<1>6. /\ v.nodeBase = Len(t.nodes) /\ v.nodeCount = Len(l.nodes[d])
      /\ v.leafBase = Len(t.leaves) /\ v.leafCount = Len(l.leaves[d])
      /\ v.maximumCount = Largest(l.nodes[d]) /\ v.maximumPairs = Largest(l.nodes[d]) \div 2
  BY SMTT(30) DEF v, NewLevel
<1>7. LevelIsLinked(l, u, d)
  <2>1. /\ v.nodeBase \in Nat /\ v.nodeBase + v.nodeCount <= Len(u.nodes)
        /\ v.leafBase \in Nat /\ v.leafBase + v.leafCount <= Len(u.leaves)
    <3>1. \A a, b \in Nat : a + b <= a + b
      OBVIOUS
    <3> QED
      BY <1>3, <1>4, <1>6, <3>1, ZenonT(30)
  <2>2. /\ \A k \in 1 .. v.nodeCount : u.nodes[v.nodeBase + k] = l.nodes[d][k]
        /\ \A k \in 1 .. v.leafCount : u.leaves[v.leafBase + k] = l.leaves[d][k]
    BY <1>3, <1>4, <1>6, SMTT(30)
  <2> QED
    BY <1>5, <1>6, <2>1, <2>2 DEF LevelIsLinked
<1>8. ASSUME NEW j \in 1 .. Len(t.levels)
      PROVE  LevelIsLinked(l, u, j)
  <2> DEFINE w == t.levels[j]
  <2>1. u.levels[j] = w
    BY <1>5
  <2> HIDE DEF w
  <2>2. /\ w.nodeBase \in Nat /\ w.nodeCount = Len(l.nodes[j])
        /\ w.nodeBase + w.nodeCount <= Len(t.nodes)
        /\ \A k \in 1 .. w.nodeCount : t.nodes[w.nodeBase + k] = l.nodes[j][k]
        /\ w.leafBase \in Nat /\ w.leafCount = Len(l.leaves[j])
        /\ w.leafBase + w.leafCount <= Len(t.leaves)
        /\ \A k \in 1 .. w.leafCount : t.leaves[w.leafBase + k] = l.leaves[j][k]
        /\ w.maximumCount = Largest(l.nodes[j])
        /\ w.maximumPairs = Largest(l.nodes[j]) \div 2
    BY DEF w, IsLinked, LevelIsLinked
  <2>3. IsSeq(l.nodes[j]) /\ IsSeq(l.leaves[j])
    <3>1. j \in LevelsOf(f)
      <4>1. d \in 1 .. RoutingDepth(f.count) + 1 /\ RoutingDepth(f.count) \in Nat
        BY RoutingDepthFacts DEF LevelsOf
      <4> QED
        BY <1>5, <4>1 DEF LevelsOf
    <3> QED
      BY <3>1 DEF AreLists
  <2>4. w.nodeCount \in Nat /\ w.leafCount \in Nat
    BY <2>2, <2>3, Appended, SMTT(30)
  <2> DEFINE nb == w.nodeBase  nc == w.nodeCount  lb == w.leafBase  lc == w.leafCount
             tn == Len(t.nodes)  tl == Len(t.leaves)
  <2>5. /\ nb \in Nat /\ nc \in Nat /\ nb + nc <= tn /\ tn \in Nat
        /\ lb \in Nat /\ lc \in Nat /\ lb + lc <= tl /\ tl \in Nat
    BY <1>3, <1>4, <2>2, <2>4
  <2>6. /\ \A k \in 1 .. nc : nb + k \in 1 .. tn
        /\ \A k \in 1 .. lc : lb + k \in 1 .. tl
    <3> HIDE DEF nb, nc, lb, lc, tn, tl
    <3> QED
      BY <2>5
  <2>7. \A k \in 1 .. w.nodeCount : u.nodes[w.nodeBase + k] = l.nodes[j][k]
    BY <1>3, <2>2, <2>6
  <2>8. \A k \in 1 .. w.leafCount : u.leaves[w.leafBase + k] = l.leaves[j][k]
    BY <1>4, <2>2, <2>6
  <2>9. w.nodeBase + w.nodeCount <= Len(u.nodes) /\ w.leafBase + w.leafCount <= Len(u.leaves)
    <3> DEFINE dn == Len(l.nodes[d])  dl == Len(l.leaves[d])
    <3>1. Len(u.nodes) = tn + dn /\ dn \in Nat /\ Len(u.leaves) = tl + dl /\ dl \in Nat
      BY <1>3, <1>4
    <3> HIDE DEF nb, nc, lb, lc, tn, tl, dn, dl
    <3>2. nb + nc <= tn + dn /\ lb + lc <= tl + dl
      BY <2>5, <3>1
    <3> QED
      BY <3>1, <3>2 DEF nb, nc, lb, lc
  <2> QED
    BY <2>1, <2>2, <2>7, <2>8, <2>9 DEF LevelIsLinked
<1>9. \A j \in 1 .. Len(u.levels) : LevelIsLinked(l, u, j)
  <2>1. \A j \in 1 .. d : j = d \/ j \in 1 .. Len(t.levels)
    BY <1>5
  <2> QED
    BY <1>5, <1>7, <1>8, <2>1
<1>10. Len(u.levels) <= RoutingDepth(f.count) + 1
  BY <1>5 DEF LevelsOf
<1> QED
  BY <1>3, <1>4, <1>5, <1>9, <1>10 DEF IsLinked

-----------------------------------------------------------------------------
(* The tree is sound at every step.                                        *)

(* What no step changes. *)
CallIsValid ==
  /\ host \in Hosts /\ IsFormat(format) /\ format.count \in Counts
  /\ source \in Orders(format.count)
  /\ host \in {"cuda", "metal"} => format.count <= UintMax \div 2

(* The tree while it is listed and linked. *)
TreeInv ==
  /\ TreeIsSound(format, pending, lists)
  /\ IsLinked(format, lists, tree)
  /\ Len(tree.levels) # 0 => pending = <<>>
  /\ phase = "tree" => Len(tree.levels) <= RoutingDepth(format.count)
  /\ phase # "tree" => /\ pending = <<>>
                       /\ Len(tree.levels) = RoutingDepth(format.count) + 1

LEMMA ValidPipelineFormat ==
  ASSUME NEW form \in Formats(Counts, Placements)
  PROVE  IsFormat(form) /\ form.count \in Counts
<1>1. PICK n \in Counts :
        form \in [count : {n}, input : ClusterLists(RoutingDepth(n)),
                  output : ClusterLists(RoutingDepth(n)),
                  placement : IF RoutingDepth(n) = 0 THEN {"separate"} ELSE Placements]
  BY DEF Formats
<1>2. form.placement \in {"separate", "input", "output"}
  <2>1. form.placement \in (IF RoutingDepth(n) = 0 THEN {"separate"} ELSE Placements)
    BY <1>1
  <2> QED
    BY <2>1, PipelineAssumption
<1> QED
  BY <1>1, <1>2, PipelineAssumption DEF IsFormat

LEMMA FirstState == PipelineInit => CallIsValid /\ TreeInv
<1> SUFFICES ASSUME PipelineInit PROVE CallIsValid /\ TreeInv
  OBVIOUS
<1>1. IsFormat(format) /\ format.count \in Counts
  BY ValidPipelineFormat DEF PipelineInit
<1>2. CallIsValid
  BY <1>1, PipelineAssumption DEF PipelineInit, CallIsValid
<1>3. TreeIsSound(format, pending, lists)
  <2>1. Levels = LevelsOf(format)
    BY DEF Levels, LevelsOf
  <2>2. pending = <<[depth |-> 1, count |-> format.count, offset |-> 0, middle |-> 0,
                     in |-> RootOf(format, format.input, "input"),
                     out |-> RootOf(format, format.output, "output")]>>
    BY DEF PipelineInit
  <2>3. lists = [free |-> [d \in LevelsOf(format) \cup {RoutingDepth(format.count) + 2} |-> 0],
                 nodes |-> [d \in LevelsOf(format) |-> <<>>],
                 leaves |-> [d \in LevelsOf(format) |-> <<>>]]
    BY <2>1 DEF PipelineInit
  <2> QED
    BY <1>1, <2>2, <2>3, FirstTree
<1>4. tree.nodes = <<>> /\ tree.leaves = <<>> /\ tree.levels = <<>> /\ phase = "tree"
  BY DEF PipelineInit
<1>5. IsSeq(<<>>) /\ Len(<<>>) = 0 /\ 1 .. 0 = {}
  <2>1. <<>> \in Seq({})
    OBVIOUS
  <2> QED
    BY <2>1 DEF IsSeq
<1>6. RoutingDepth(format.count) \in Nat
  BY <1>1, RoutingDepthFacts DEF IsFormat
<1>7. IsLinked(format, lists, tree)
  BY <1>4, <1>5, <1>6 DEF IsLinked
<1> QED
  BY <1>2, <1>3, <1>4, <1>5, <1>6, <1>7 DEF TreeInv

LEMMA LinkedEmpty ==
  ASSUME NEW f, NEW l, NEW m, NEW t, IsLinked(f, l, t), Len(t.levels) = 0
  PROVE  IsLinked(f, m, t)
<1>1. 1 .. Len(t.levels) = {}
  <2>1. 1 .. 0 = {}
    OBVIOUS
  <2> QED
    BY <2>1
<1> QED
  BY <1>1 DEF IsLinked

LEMMA ListLeafTree == ASSUME CallIsValid, TreeInv, ListLeaf PROVE TreeInv'
<1> DEFINE e == pending[1]
           y == [count |-> e.count, offset |-> e.offset,
                 rank |-> RankStart(format, e.in, e.out, e.middle)]
<1>1. /\ pending # <<>> /\ e.count <= LeafSize /\ phase = "tree" /\ phase' = "tree"
      /\ tree' = tree /\ format' = format /\ pending' = Tail(pending)
  BY DEF ListLeaf, lastingVars
<1>2. lists' = [lists EXCEPT !.leaves[e.depth] = Append(@, y)]
  BY DEF ListLeaf
<1> HIDE DEF e
<1>3. ListsLeaf(lists, e.depth, y, lists')
  BY <1>2 DEF ListsLeaf
<1>4. TreeIsSound(format, Tail(pending), lists')
  BY <1>1, <1>3, LeafStep DEF e, TreeInv, CallIsValid, IsFormat
<1>5. Len(tree.levels) = 0
  BY <1>1 DEF TreeInv
<1>6. IsLinked(format, lists', tree)
  BY <1>5, LinkedEmpty DEF TreeInv
<1> QED
  BY <1>1, <1>4, <1>5, <1>6 DEF TreeInv

LEMMA ListNodeTree == ASSUME CallIsValid, TreeInv, ListNode PROVE TreeInv'
<1> DEFINE e == pending[1]
           from == lists.free[e.depth + 1]
           b == BookedFor(e.count, from)
           y == [count |-> e.count, offset |-> e.offset, left |-> b.left, right |-> b.right,
                 in |-> e.in, out |-> e.out, middle |-> e.middle]
<1>1. /\ pending # <<>> /\ e.count > LeafSize /\ phase = "tree" /\ phase' = "tree"
      /\ tree' = tree /\ format' = format
      /\ pending' = <<ChildEntry(e, FALSE, b), ChildEntry(e, TRUE, b)>> \o Tail(pending)
  BY DEF ListNode, lastingVars
<1>2. lists' = [lists EXCEPT !.free[e.depth + 1] = b.end,
                             !.nodes[e.depth] = Append(@, y)]
  BY DEF ListNode
<1>3. y = NodeFor(e, from) /\ b.end = from + e.count
  BY DEF NodeFor, BookedFor
<1> HIDE DEF e, from, b, y
<1>4. ListsNode(lists, e.depth, NodeFor(e, from), from + e.count, lists')
  BY <1>2, <1>3 DEF ListsNode
<1>5. TreeIsSound(format, pending', lists')
  BY <1>1, <1>4, NodeStep DEF e, from, b, TreeInv, CallIsValid, IsFormat
<1>6. Len(tree.levels) = 0
  BY <1>1 DEF TreeInv
<1>7. IsLinked(format, lists', tree)
  BY <1>6, LinkedEmpty DEF TreeInv
<1> QED
  BY <1>1, <1>5, <1>6, <1>7, SMTT(30) DEF TreeInv

LEMMA LinkLevelTree == ASSUME CallIsValid, TreeInv, LinkLevel PROVE TreeInv'
<1> DEFINE d == Len(tree.levels) + 1  D == RoutingDepth(format.count)
<1>1. /\ phase = "tree" /\ pending = <<>> /\ pending' = <<>> /\ lists' = lists
      /\ format' = format
      /\ phase' = IF d + 1 \in Levels THEN "tree" ELSE "leaves"
      /\ tree' = [nodes |-> tree.nodes \o lists.nodes[d], leaves |-> tree.leaves \o lists.leaves[d],
                  levels |-> Append(tree.levels, NewLevel(lists, tree, d))]
  BY DEF LinkLevel, lastingVars, NewLevel
<1>2. /\ D \in Nat /\ format.count \in Nat \ {0} /\ Len(tree.levels) <= D
      /\ IsLinked(format, lists, tree) /\ TreeIsSound(format, <<>>, lists)
  BY <1>1, RoutingDepthFacts DEF TreeInv, CallIsValid, IsFormat
<1>3. Len(tree.levels) \in Nat
  BY <1>2, Appended DEF IsLinked
<1>4. d \in LevelsOf(format)
  BY <1>2, <1>3 DEF LevelsOf
<1> HIDE DEF d, D
<1>5. AreLists(format, lists)
  BY <1>2 DEF TreeIsSound
<1>6. IsLinked(format, lists, tree') /\ Len(tree'.levels) = d
  <2> DEFINE u == tree'
  <2>1. u = NewTree(lists, tree, d)
    BY <1>1 DEF NewTree
  <2>2. d = Len(tree.levels) + 1
    BY DEF d
  <2> HIDE DEF u
  <2>3. IsLinked(format, lists, u) /\ Len(u.levels) = d
    BY <1>2, <1>4, <1>5, <2>1, <2>2, LevelLinked
  <2> QED
    BY <2>3 DEF u
<1>7. d \in Nat \ {0} /\ d <= D + 1 /\ (d + 1 \in Levels <=> d <= D)
  BY <1>2, <1>4 DEF LevelsOf, Levels, D
<1>8. phase' = IF d <= D THEN "tree" ELSE "leaves"
  BY <1>1, <1>7
<1>9. CASE d <= D
  <2>1. phase' = "tree" /\ d # 0
    BY <1>7, <1>8, <1>9
  <2> QED
    BY <1>1, <1>2, <1>6, <1>9, <2>1 DEF TreeInv, D
<1>10. CASE ~(d <= D)
  <2>1. phase' = "leaves" /\ d = D + 1
    BY <1>2, <1>7, <1>8, <1>10
  <2> QED
    BY <1>1, <1>2, <1>6, <2>1 DEF TreeInv, D
<1> QED
  BY <1>9, <1>10

LEMMA NoTree ==
  ASSUME TreeInv, phase # "tree", phase' # "tree", UNCHANGED <<lastingVars, treeVars>>
  PROVE  TreeInv'
BY DEF TreeInv, lastingVars, treeVars

LEMMA CallStays == CallIsValid /\ [PipelineNext]_pipelineVars => CallIsValid'
<1> SUFFICES ASSUME CallIsValid, [PipelineNext]_pipelineVars PROVE CallIsValid'
  OBVIOUS
<1>1. UNCHANGED lastingVars
  <2>1. CASE ListLeaf \/ ListNode \/ LinkLevel
    BY <2>1, Zenon DEF ListLeaf, ListNode, LinkLevel
  <2>2. CASE EncodeLeaves
    BY <2>2 DEF EncodeLeaves
  <2>3. CASE Invert \/ Unite
    BY <2>3 DEF Invert, Unite
  <2>4. CASE Route
    BY <2>4 DEF Route
  <2>5. CASE Pack
    BY <2>5 DEF Pack
  <2>6. CASE Copy
    BY <2>6 DEF Copy
  <2>7. CASE UNCHANGED pipelineVars
    BY <2>7 DEF pipelineVars
  <2> QED
    BY <2>1, <2>2, <2>3, <2>4, <2>5, <2>6, <2>7 DEF PipelineNext
<1> QED
  BY <1>1 DEF lastingVars, CallIsValid

LEMMA TreeStays == CallIsValid /\ TreeInv /\ [PipelineNext]_pipelineVars => TreeInv'
<1> SUFFICES ASSUME CallIsValid, TreeInv, [PipelineNext]_pipelineVars PROVE TreeInv'
  OBVIOUS
<1>1. CASE ListLeaf
  BY <1>1, ListLeafTree
<1>2. CASE ListNode
  BY <1>2, ListNodeTree
<1>3. CASE LinkLevel
  BY <1>3, LinkLevelTree
<1>4. CASE EncodeLeaves \/ Invert \/ Unite \/ Route \/ Pack \/ Copy
  <2>1. phase # "tree" /\ phase' # "tree" /\ UNCHANGED <<lastingVars, treeVars>>
    <3>1. CASE EncodeLeaves
      BY <3>1 DEF EncodeLeaves
    <3>2. CASE Invert
      BY <3>2 DEF Invert
    <3>3. CASE Unite
      BY <3>3 DEF Unite
    <3>4. CASE Route
      BY <3>4, SMTT(30) DEF Route
    <3>5. CASE Pack
      BY <3>5 DEF Pack
    <3>6. CASE Copy
      BY <3>6 DEF Copy
    <3> QED
      BY <1>4, <3>1, <3>2, <3>3, <3>4, <3>5, <3>6
  <2> QED
    BY <2>1, NoTree
<1>5. CASE UNCHANGED pipelineVars
  BY <1>5 DEF TreeInv, pipelineVars, lastingVars, treeVars
<1> QED
  BY <1>1, <1>2, <1>3, <1>4, <1>5 DEF PipelineNext

-----------------------------------------------------------------------------
(* What a launch handles.                                                  *)

\* The level the host is at is the level of the lists.
LEMMA TheLevel ==
  ASSUME CallIsValid, TreeInv, phase # "tree", depth \in LevelsOf(format)
  PROVE  /\ TreeIsSound(format, <<>>, lists) /\ format.count \in Nat \ {0}
         /\ LevelNodes = NodesAt(lists, depth) /\ LevelLeaves = LeavesAt(lists, depth)
         /\ Level.nodeCount \in Nat /\ (Level.nodeCount = 0 <=> NodesAt(lists, depth) = {})
         /\ Level.leafCount \in Nat /\ Level.leafCount = Len(lists.leaves[depth])
         /\ Level.maximumCount \in Nat /\ Level.maximumPairs = Level.maximumCount \div 2
         /\ \A x \in NodesAt(lists, depth) : /\ x.count \in Nat /\ x.count > LeafSize
                                             /\ x.count >= 3
                                             /\ x.count <= Level.maximumCount
<1>1. /\ TreeIsSound(format, <<>>, lists) /\ format.count \in Nat \ {0}
      /\ IsLinked(format, lists, tree)
      /\ Len(tree.levels) = RoutingDepth(format.count) + 1
  BY DEF TreeInv, CallIsValid, IsFormat
<1>2. depth \in 1 .. Len(tree.levels)
  BY <1>1 DEF LevelsOf
<1> DEFINE v == Level  ns == lists.nodes[depth]  ls == lists.leaves[depth]
<1>3. /\ v.nodeBase \in Nat /\ v.nodeCount = Len(ns)
      /\ \A k \in 1 .. v.nodeCount : tree.nodes[v.nodeBase + k] = ns[k]
      /\ v.leafBase \in Nat /\ v.leafCount = Len(ls)
      /\ \A k \in 1 .. v.leafCount : tree.leaves[v.leafBase + k] = ls[k]
      /\ v.maximumCount = Largest(ns) /\ v.maximumPairs = Largest(ns) \div 2
  BY <1>1, <1>2 DEF Level, IsLinked, LevelIsLinked
<1>4. IsSeq(ns) /\ IsSeq(ls)
  BY <1>1 DEF TreeIsSound, AreLists
<1> HIDE DEF v
<1>5. Len(ns) \in Nat /\ Len(ls) \in Nat
  BY <1>4, Appended
<1>6. \A n \in Nat : /\ \A k \in 0 .. n - 1 : k + 1 \in 1 .. n
                     /\ \A k \in 1 .. n : k - 1 \in 0 .. n - 1 /\ (k - 1) + 1 = k
  OBVIOUS
<1>7. \A a \in Nat : \A k \in Nat : a + k + 1 = a + (k + 1)
  OBVIOUS
<1>8. \A k \in 0 .. v.nodeCount - 1 : Node1(k) = ns[k + 1]
  <2> SUFFICES ASSUME NEW k \in 0 .. v.nodeCount - 1 PROVE Node1(k) = ns[k + 1]
    OBVIOUS
  <2>1. Node1(k) = tree.nodes[v.nodeBase + k + 1]
    BY DEF Node1, v
  <2>2. k \in Nat /\ k + 1 \in 1 .. v.nodeCount
    BY <1>3, <1>5
  <2>3. v.nodeBase + k + 1 = v.nodeBase + (k + 1)
    <3> DEFINE a == v.nodeBase
    <3>1. a \in Nat /\ k \in Nat
      BY <1>3, <2>2
    <3> HIDE DEF a
    <3>2. a + k + 1 = a + (k + 1)
      BY <3>1
    <3> QED
      BY <3>2 DEF a
  <2> HIDE DEF ns
  <2> QED
    BY <1>3, <2>1, <2>2, <2>3
<1>9. \A k \in 0 .. v.leafCount - 1 : Leaf(k) = ls[k + 1]
  <2> SUFFICES ASSUME NEW k \in 0 .. v.leafCount - 1 PROVE Leaf(k) = ls[k + 1]
    OBVIOUS
  <2>1. Leaf(k) = tree.leaves[v.leafBase + k + 1]
    BY DEF Leaf, v
  <2>2. k \in Nat /\ k + 1 \in 1 .. v.leafCount
    BY <1>3, <1>5
  <2>3. v.leafBase + k + 1 = v.leafBase + (k + 1)
    <3> DEFINE a == v.leafBase
    <3>1. a \in Nat /\ k \in Nat
      BY <1>3, <2>2
    <3> HIDE DEF a
    <3>2. a + k + 1 = a + (k + 1)
      BY <3>1
    <3> QED
      BY <3>2 DEF a
  <2> HIDE DEF ls
  <2> QED
    BY <1>3, <2>1, <2>2, <2>3
<1>10. LevelNodes = NodesAt(lists, depth)
  <2>1. LevelNodes = {Node1(k) : k \in 0 .. v.nodeCount - 1}
    BY DEF LevelNodes, v
  <2>2. NodesAt(lists, depth) = {ns[k] : k \in 1 .. Len(ns)}
    BY DEF NodesAt
  <2> DEFINE n == Len(ns)
  <2>3. n \in Nat /\ v.nodeCount = n
    BY <1>3, <1>5
  <2> HIDE DEF n, ns
  <2>4. \A x \in LevelNodes : x \in NodesAt(lists, depth)
    <3> SUFFICES ASSUME NEW k \in 0 .. n - 1 PROVE Node1(k) \in NodesAt(lists, depth)
      BY <2>1, <2>3
    <3> QED
      BY <1>6, <1>8, <2>2, <2>3 DEF n
  <2>5. \A x \in NodesAt(lists, depth) : x \in LevelNodes
    <3> SUFFICES ASSUME NEW k \in 1 .. n PROVE ns[k] \in LevelNodes
      BY <2>2 DEF n
    <3>1. k - 1 \in 0 .. n - 1 /\ (k - 1) + 1 = k
      BY <2>3
    <3>2. Node1(k - 1) = ns[k]
      BY <1>8, <2>3, <3>1
    <3> QED
      BY <2>1, <2>3, <3>1, <3>2
  <2> QED
    BY <2>4, <2>5
<1>11. LevelLeaves = LeavesAt(lists, depth)
  <2>1. LevelLeaves = {Leaf(k) : k \in 0 .. v.leafCount - 1}
    BY DEF LevelLeaves, v
  <2>2. LeavesAt(lists, depth) = {ls[k] : k \in 1 .. Len(ls)}
    BY DEF LeavesAt
  <2> DEFINE n == Len(ls)
  <2>3. n \in Nat /\ v.leafCount = n
    BY <1>3, <1>5
  <2> HIDE DEF n, ls
  <2>4. \A x \in LevelLeaves : x \in LeavesAt(lists, depth)
    <3> SUFFICES ASSUME NEW k \in 0 .. n - 1 PROVE Leaf(k) \in LeavesAt(lists, depth)
      BY <2>1, <2>3
    <3> QED
      BY <1>6, <1>9, <2>2, <2>3 DEF n
  <2>5. \A x \in LeavesAt(lists, depth) : x \in LevelLeaves
    <3> SUFFICES ASSUME NEW k \in 1 .. n PROVE ls[k] \in LevelLeaves
      BY <2>2 DEF n
    <3>1. k - 1 \in 0 .. n - 1 /\ (k - 1) + 1 = k
      BY <2>3
    <3>2. Leaf(k - 1) = ls[k]
      BY <1>9, <2>3, <3>1
    <3> QED
      BY <2>1, <2>3, <3>1, <3>2
  <2> QED
    BY <2>4, <2>5
<1>12. Level.nodeCount = 0 <=> NodesAt(lists, depth) = {}
  <2> DEFINE n == Len(ns)
  <2>1. NodesAt(lists, depth) = {ns[k] : k \in 1 .. n} /\ n \in Nat /\ Level.nodeCount = n
    BY <1>3, <1>5 DEF NodesAt, v
  <2> HIDE DEF n, ns
  <2>2. n = 0 => 1 .. n = {}
    OBVIOUS
  <2>3. n # 0 => 1 \in 1 .. n
    BY <2>1
  <2> QED
    BY <2>1, <2>2, <2>3
<1>13. \A x \in NodesAt(lists, depth) : x.count \in Nat /\ x.count > LeafSize /\ x.count >= 3
  <2>1. \A x \in NodesAt(lists, depth) : x \in PartsAt(lists, depth) /\ x.count > LeafSize
    BY <1>1, PartFacts
  <2>2. \A x \in NodesAt(lists, depth) : x.count \in Nat
    BY <1>1, <2>1, PartFacts
  <2>3. LeafSize \in Nat /\ LeafSize >= 2
    BY LeafSizes
  <2> QED
    BY <2>1, <2>2, <2>3
<1>14. \A k \in 1 .. Len(ns) : ns[k] \in NodesAt(lists, depth)
  BY DEF NodesAt
<1>15. Largest(ns) \in Nat /\ \A k \in 1 .. Len(ns) : ns[k].count <= Largest(ns)
  <2> HIDE DEF ns
  <2> QED
    BY <1>4, <1>13, <1>14, LargestFacts
<1>16. \A x \in NodesAt(lists, depth) : x.count <= v.maximumCount
  BY <1>3, <1>15 DEF NodesAt
<1> QED
  BY <1>1, <1>3, <1>5, <1>10, <1>11, <1>12, <1>13, <1>15, <1>16 DEF v

HandledAt(l, d, w) ==
  UNION {{[node |-> x, index |-> i] : i \in {j \in 0 .. w - 1 : j < x.count}} : x \in NodesAt(l, d)}

\* However the work is cut, every element below the width is handled, and no other.
LEMMA HandledIs ==
  ASSUME CallIsValid, TreeInv, phase # "tree", depth \in LevelsOf(format),
         Level.nodeCount # 0, NEW width \in Nat \ {0}
  PROVE  Handled(width) = HandledAt(lists, depth, width)
<1> DEFINE n == Level.nodeCount  work == width * n
<1>1. /\ n \in Nat \ {0} /\ LevelNodes = NodesAt(lists, depth)
      /\ host \in Hosts
  BY TheLevel DEF CallIsValid
<1>2. work \in Nat \ {0}
  <2> HIDE DEF n
  <2>1. \A a, b \in Nat \ {0} : a * b \in Nat \ {0}
    OBVIOUS
  <2> QED
    BY <1>1, <2>1
<1>3. UNION Launched(work, 1) = 0 .. work - 1
  BY <1>1, <1>2, AllAreLaunched
<1>4. LevelNodes = {Node1(k) : k \in 0 .. n - 1}
  BY DEF LevelNodes
<1>5. Handled(width) = {e \in {[node |-> Node1(i \div width), index |-> i % width] :
                                 i \in UNION Launched(work, 1)} : e.index < e.node.count}
  BY DEF Handled
<1> HIDE DEF n
<1>6. ASSUME NEW e \in Handled(width) PROVE e \in HandledAt(lists, depth, width)
  <2>1. PICK i \in 0 .. work - 1 : e = [node |-> Node1(i \div width), index |-> i % width]
    BY <1>3, <1>5
  <2>2. e.index < e.node.count
    BY <1>5
  <2>3. i \div width \in 0 .. n - 1 /\ i % width \in 0 .. width - 1
    BY <1>1, Quotient
  <2> DEFINE x == Node1(i \div width)
  <2>4. x \in NodesAt(lists, depth)
    BY <1>1, <1>4, <2>3
  <2>5. e.index = i % width /\ e.node = x /\ e = [node |-> x, index |-> i % width]
    BY <2>1
  <2> HIDE DEF x
  <2>6. i % width \in {j \in 0 .. width - 1 : j < x.count}
    BY <2>2, <2>3, <2>5
  <2> QED
    BY <2>4, <2>5, <2>6 DEF HandledAt
<1>7. ASSUME NEW e \in HandledAt(lists, depth, width) PROVE e \in Handled(width)
  <2>1. PICK x \in NodesAt(lists, depth) :
          e \in {[node |-> x, index |-> i] : i \in {j \in 0 .. width - 1 : j < x.count}}
    BY DEF HandledAt
  <2>2. PICK i \in 0 .. width - 1 : i < x.count /\ e = [node |-> x, index |-> i]
    BY <2>1
  <2>3. PICK k \in 0 .. n - 1 : x = Node1(k)
    BY <1>1, <1>4
  <2> DEFINE t == k * width + i
  <2>4. k \in Nat /\ i \in Nat /\ k < n /\ k * width \in Nat /\ i < width /\ n \in Nat
    BY <1>1, <2>2, <2>3
  <2>5. k * width + width <= n * width /\ n * width = work
    BY <2>4, Monotone
  <2>6. t \in Nat /\ t < work
    <3> DEFINE m == k * width
    <3>1. m + width <= work /\ m \in Nat
      BY <2>4, <2>5
    <3> HIDE DEF m, work
    <3>2. m + i \in Nat /\ m + i < work
      BY <1>2, <2>4, <3>1
    <3> QED
      BY <3>2 DEF m
  <2>7. t \div width = k /\ t % width = i
    <3>1. t = k * width + i
      OBVIOUS
    <3> HIDE DEF t
    <3> QED
      BY <2>4, <2>6, <3>1, OneQuotient
  <2> HIDE DEF t, work
  <2>8. t \in UNION Launched(work, 1)
    <3>1. t \in 0 .. work - 1
      BY <1>2, <2>6
    <3> QED
      BY <1>3, <3>1
  <2>9. e = [node |-> Node1(t \div width), index |-> t % width]
    BY <2>2, <2>3, <2>7
  <2>10. e.index < e.node.count
    BY <2>2
  <2> QED
    BY <1>5, <2>8, <2>9, <2>10
<1> QED
  BY <1>6, <1>7

\* What a launch over all elements, and one over all pairs, handles.
LEMMA AllElements ==
  ASSUME CallIsValid, TreeInv, phase # "tree", depth \in LevelsOf(format),
         Level.nodeCount # 0
  PROVE  /\ Handled(Level.maximumCount) = ElementsAt(lists, depth)
         /\ \A x \in NodesAt(lists, depth) : \A i \in 0 .. x.count \div 2 - 1 :
              [node |-> x, index |-> i] \in Handled(Level.maximumPairs)
         /\ \A e \in Handled(Level.maximumPairs) : e.node \in NodesAt(lists, depth) /\ e.index \in Nat
<1> DEFINE m == Level.maximumCount
<1>1. /\ m \in Nat /\ Level.maximumPairs = m \div 2 /\ NodesAt(lists, depth) # {}
      /\ \A x \in NodesAt(lists, depth) : x.count \in Nat /\ x.count >= 3 /\ x.count <= m
  BY TheLevel
<1> HIDE DEF m
<1>2. m >= 3 /\ m \div 2 \in Nat \ {0}
  <2>1. PICK x \in NodesAt(lists, depth) : TRUE
    BY <1>1
  <2>2. x.count \in Nat /\ x.count >= 3 /\ x.count <= m
    BY <1>1
  <2> QED
    BY <1>1, <2>2
<1>3. Handled(m) = HandledAt(lists, depth, m)
      /\ Handled(m \div 2) = HandledAt(lists, depth, m \div 2)
  <2>1. m \in Nat \ {0}
    BY <1>1, <1>2
  <2> QED
    BY <1>2, <2>1, HandledIs
<1>4. HandledAt(lists, depth, m) = ElementsAt(lists, depth)
  <2>1. \A x \in NodesAt(lists, depth) : {j \in 0 .. m - 1 : j < x.count} = 0 .. x.count - 1
    BY <1>1
  <2> QED
    BY <2>1 DEF HandledAt, ElementsAt
<1>5. ASSUME NEW x \in NodesAt(lists, depth), NEW i \in 0 .. x.count \div 2 - 1
      PROVE  [node |-> x, index |-> i] \in HandledAt(lists, depth, m \div 2)
  <2>1. x.count \in Nat /\ x.count <= m
    BY <1>1
  <2>2. i \in 0 .. (m \div 2) - 1 /\ i < x.count
    BY <1>1, <2>1
  <2>3. i \in {j \in 0 .. (m \div 2) - 1 : j < x.count}
    BY <2>2
  <2> QED
    BY <2>3 DEF HandledAt
<1>6. ASSUME NEW e \in HandledAt(lists, depth, m \div 2)
      PROVE  e.node \in NodesAt(lists, depth) /\ e.index \in Nat
  <2>1. PICK x \in NodesAt(lists, depth) :
          e \in {[node |-> x, index |-> i] : i \in {j \in 0 .. (m \div 2) - 1 : j < x.count}}
    BY DEF HandledAt
  <2>2. PICK i \in 0 .. (m \div 2) - 1 : e = [node |-> x, index |-> i]
    BY <2>1
  <2> QED
    BY <2>2
<1> QED
  BY <1>1, <1>3, <1>4, <1>5, <1>6 DEF m

\* 32-bit Metal counts the lanes of a level in 32 bits.  A level has no more leaves
\* than values divided by the least that a part below the root has.
LeavesFit ==
  "metal" \in Hosts =>
    \A n \in Counts : n <= UintMax \div 2 =>
      /\ Lanes <= UintMax
      /\ (n \div ((LeafSize + 1) \div 2)) * Lanes <= UintMax

\* With the leaves of 32 values that are the default, they can always be counted.
LEMMA DefaultLeavesFit ==
  ASSUME MiddleGroupLog2 = 5, Lanes = 32, UintMax >= 32
  PROVE  LeavesFit
<1> SUFFICES ASSUME NEW n \in Counts, n <= UintMax \div 2
             PROVE  (n \div ((LeafSize + 1) \div 2)) * Lanes <= UintMax
  BY DEF LeavesFit
<1>1. n \in Nat /\ UintMax \in Nat
  BY PipelineAssumption, DeviceAssumption
<1>2. (LeafSize + 1) \div 2 = 16
  BY DEF LeafSize
<1>3. (n \div 16) * 32 <= 2 * n
  BY <1>1
<1> QED
  BY <1>1, <1>2, <1>3

LEMMA AllLeaves ==
  ASSUME LeavesFit, CallIsValid, TreeInv, phase # "tree", depth \in LevelsOf(format)
  PROVE  EncodedLeaves = LeavesAt(lists, depth)
<1> DEFINE n == Level.leafCount  half == (LeafSize + 1) \div 2
<1>1. /\ n \in Nat /\ n = Len(lists.leaves[depth]) /\ LevelLeaves = LeavesAt(lists, depth)
      /\ TreeIsSound(format, <<>>, lists) /\ format.count \in Nat \ {0} /\ host \in Hosts
      /\ LevelLeaves = {Leaf(k) : k \in 0 .. n - 1}
  BY TheLevel DEF CallIsValid, LevelLeaves
<1>2. /\ Lanes \in Nat \ {0} /\ UintMax \in Nat \ {0}
      /\ LeafSize \in Nat /\ half \in Nat \ {0}
  <2>1. LeafSize \in 2 .. 32
    BY LeafSizes
  <2> QED
    BY <2>1, Parameters
<1> HIDE DEF n, half
<1>3. LeafWork = n * Lanes
  <2>1. CASE host = "metal"
    <3>1. /\ format.count \in Counts /\ format.count <= UintMax \div 2
          /\ Lanes <= UintMax /\ (format.count \div half) * Lanes <= UintMax
      BY <1>1, <2>1 DEF CallIsValid, LeavesFit, half
    <3>2. n * Lanes <= UintMax /\ n * Lanes \in Nat
      <4>1. n * Lanes \in Nat
        BY <1>1, <1>2
      <4>2. n * Least(format, depth) <= Room(format, lists, depth)
        BY <1>1 DEF TreeIsSound, PartsAreSound
      <4>3. Room(format, lists, depth) \in Nat /\ Room(format, lists, depth) <= format.count
        BY <1>1, RoomShrinks
      <4>4. CASE depth = 1
        <5>1. n * format.count <= format.count
          BY <4>2, <4>4 DEF Least, Room
        <5>2. n <= 1
          <6>1. \A a, b \in Nat : b # 0 /\ a * b <= b => a <= 1
            <7> SUFFICES ASSUME NEW a \in Nat, NEW b \in Nat, b # 0, a * b <= b, a >= 2
                         PROVE  FALSE
              OBVIOUS
            <7>1. 2 * b <= a * b
              BY Monotone
            <7> QED
              BY <7>1
          <6> QED
            BY <1>1, <5>1, <6>1
        <5>3. n = 0 \/ n = 1
          <6>1. \A a \in Nat : a <= 1 => a = 0 \/ a = 1
            OBVIOUS
          <6>2. n \in Nat
            BY <1>1
          <6> QED
            BY <5>2, <6>1, <6>2
        <5>4. 0 * Lanes = 0 /\ 1 * Lanes = Lanes
          BY <1>2
        <5> QED
          BY <1>2, <3>1, <4>1, <5>3, <5>4
      <4>5. CASE depth # 1
        <5> DEFINE c == format.count
        <5>1. n * half \in Nat /\ n * half <= c
          <6>1. n * half \in Nat
            BY <1>1, <1>2
          <6>2. n * half <= Room(format, lists, depth)
            BY <4>2, <4>5 DEF Least, half
          <6> DEFINE a == n * half  r == Room(format, lists, depth)
          <6>3. a \in Nat /\ r \in Nat /\ a <= r /\ r <= c /\ c \in Nat
            BY <1>1, <4>3, <6>1, <6>2
          <6> HIDE DEF a, r, c
          <6>4. a \in Nat /\ a <= c
            BY <6>3
          <6> QED
            BY <6>4 DEF a
        <5> DEFINE q == c \div half
        <5>2. q \in Nat /\ n <= q
          <6>1. c \in Nat
            BY <1>1
          <6> HIDE DEF c
          <6>2. q \in Nat /\ c % half \in 0 .. half - 1 /\ c = q * half + (c % half)
            BY <1>2, <6>1, DivisionFacts
          <6>3. SUFFICES ASSUME q < n PROVE FALSE
            BY <1>1, <6>2
          <6>4. q * half + half <= n * half /\ q * half \in Nat
            <7>1. q \in Nat /\ n \in Nat /\ half \in Nat /\ q < n
              BY <1>1, <1>2, <6>2, <6>3
            <7> HIDE DEF q
            <7>2. q * half \in Nat
              BY <7>1
            <7>3. \A a, b, d \in Nat : a < b => a * d + d <= b * d
              BY Monotone
            <7> QED
              BY <7>1, <7>2, <7>3
          <6> DEFINE u == q * half  w == n * half  r == c % half
          <6>5. /\ u \in Nat /\ w \in Nat /\ w <= c /\ r \in 0 .. half - 1
                /\ c = u + r /\ u + half <= w
            BY <5>1, <6>2, <6>4
          <6> HIDE DEF u, w, r
          <6> QED
            BY <1>2, <6>1, <6>5
        <5>3. n * Lanes <= q * Lanes
          <6> HIDE DEF q
          <6> QED
            BY <1>1, <1>2, <5>2, Monotone
        <5> DEFINE z == q * Lanes  y == n * Lanes
        <5>4. z <= UintMax /\ z \in Nat
          <6>1. z <= UintMax
            BY <3>1
          <6> HIDE DEF q
          <6> QED
            BY <1>2, <5>2, <6>1
        <5>5. y \in Nat /\ y <= z
          BY <4>1, <5>3
        <5> HIDE DEF z, y
        <5>6. y <= UintMax
          BY <1>2, <5>4, <5>5
        <5> QED
          BY <4>1, <5>6 DEF y
      <4> QED
        BY <4>4, <4>5
    <3> DEFINE w == n * Lanes
    <3>3. LeafWork = w % (UintMax + 1)
      BY <2>1 DEF LeafWork, n
    <3>4. w \in Nat /\ w <= UintMax
      BY <3>2
    <3> HIDE DEF w
    <3>5. w % (UintMax + 1) = w
      <4>1. w = 0 * (UintMax + 1) + w /\ w \in 0 .. (UintMax + 1) - 1 /\ UintMax + 1 \in Nat \ {0}
        BY <1>2, <3>4
      <4> QED
        BY <3>4, <4>1, OneQuotient
    <3> QED
      BY <3>3, <3>5 DEF w
  <2>2. CASE host # "metal"
    BY <2>2 DEF LeafWork, n
  <2> QED
    BY <2>1, <2>2
<1>4. \A k \in 0 .. n - 1 : \E together \in Launched(LeafWork, Lanes) : Encodes(together, k)
  BY <1>1, <1>3, LeafIsEncoded
<1>5. EncodedLeaves = {Leaf(k) : k \in 0 .. n - 1}
  <2>1. EncodedLeaves = {Leaf(k) : k \in {j \in 0 .. n - 1 :
           \E together \in Launched(LeafWork, Lanes) : Encodes(together, j)}}
    BY DEF EncodedLeaves, n
  <2>2. {j \in 0 .. n - 1 :
           \E together \in Launched(LeafWork, Lanes) : Encodes(together, j)} = 0 .. n - 1
    BY <1>4
  <2> QED
    BY <2>1, <2>2
<1> QED
  BY <1>1, <1>5

-----------------------------------------------------------------------------
(* What the kernels of a level leave in the buffers.                       *)

\* Writes that give every entry of a part its value, and no other.
GiveAll(writes, x, g) ==
  \A i \in 0 .. x.count - 1 :
    /\ \E w \in writes : w[1] = x.offset + i
    /\ \A w \in writes : w[1] = x.offset + i => w[2] = g[i]

LEMMA HoldsWritten ==
  ASSUME NEW f, NEW old, NEW writes, NEW d, NEW x, NEW g, GiveAll(writes, x, g),
         \A i \in 0 .. x.count - 1 : x.offset + i \in 0 .. f.count - 1
  PROVE  Holds(WrittenTo(f, old, writes, d), x, g, d)
<1> SUFFICES ASSUME NEW i \in 0 .. x.count - 1
             PROVE  WrittenTo(f, old, writes, d)[x.offset + i] = [value |-> g[i], level |-> d]
  BY DEF Holds
<1> DEFINE y == x.offset + i
<1>1. y \in 0 .. f.count - 1
  OBVIOUS
<1>2. (\E w \in writes : w[1] = y) /\ \A w \in writes : w[1] = y => w[2] = g[i]
  BY DEF GiveAll
<1> HIDE DEF y
<1>3. WrittenTo(f, old, writes, d)[y] = [value |-> g[i], level |-> d]
  BY <1>1, <1>2, WrittenIs
<1> QED
  BY <1>3 DEF y

LEMMA ElementWrites ==
  ASSUME NEW l, NEW d, NEW e \in ElementsAt(l, d)
  PROVE  \E x \in NodesAt(l, d) : \E i \in 0 .. x.count - 1 :
           e = [node |-> x, index |-> i] /\ e.node = x /\ e.index = i
<1>1. PICK x \in NodesAt(l, d) : e \in {[node |-> x, index |-> i] : i \in 0 .. x.count - 1}
  BY DEF ElementsAt
<1>2. PICK i \in 0 .. x.count - 1 : e = [node |-> x, index |-> i]
  BY <1>1
<1> QED
  BY <1>2

LEMMA IsElement ==
  ASSUME NEW l, NEW d, NEW x \in NodesAt(l, d), NEW i \in 0 .. x.count - 1
  PROVE  \E e \in ElementsAt(l, d) : e.node = x /\ e.index = i
<1> DEFINE e == [node |-> x, index |-> i]
<1>1. e \in {[node |-> x, index |-> j] : j \in 0 .. x.count - 1}
  OBVIOUS
<1>2. e \in ElementsAt(l, d)
  BY <1>1, Zenon DEF ElementsAt
<1> QED
  BY <1>2

InverseWrites(b, elements) ==
  {<<e.node.offset + b[e.node.offset + e.index].value, e.index>> : e \in elements}

\* What compact_inverse leaves of a node is the inverse of its order.
LEMMA InverseIsHeld ==
  ASSUME NEW f, IsFormat(f), NEW l, TreeIsSound(f, <<>>, l), NEW p, NEW c, AreCalls(f, c, p),
         NEW d \in LevelsOf(f), NEW b, LevelIsHeld(f, l, c, b, d), NEW old,
         NEW x \in NodesAt(l, d), NEW k \in CallsAt(c, d), Carries(f, b, x, c[k], d)
  PROVE  Holds(WrittenTo(f, old, InverseWrites(b, ElementsAt(l, d)), d), x,
               Node(c[k].count)!InverseOf(c[k].order), d)
<1> DEFINE writes == InverseWrites(b, ElementsAt(l, d))
           n == c[k].count  q == c[k].order  inv == Node(n)!InverseOf(q)
<1>1. f.count \in Nat \ {0}
  BY DEF IsFormat
<1>2. x.count = n /\ Holds(b, x, q, d) /\ n \in Nat \ {0} /\ q \in Orders(n)
  BY CallOfLevel DEF Carries, Answers, GoodCall
<1>3. /\ inv \in [0 .. n - 1 -> 0 .. n - 1] /\ \A o \in 0 .. n - 1 : q[inv[o]] = o
      /\ \A i \in 0 .. n - 1 : inv[q[i]] = i /\ q[i] \in 0 .. n - 1
  <2> HIDE DEF n, q
  <2>1. inv \in [0 .. n - 1 -> 0 .. n - 1] /\ \A o \in 0 .. n - 1 : q[inv[o]] = o
    BY <1>2, NodePermutations
  <2>2. \A i \in 0 .. n - 1 : inv[q[i]] = i
    BY <1>2, NodePermutations
  <2>3. \A i \in 0 .. n - 1 : q[i] \in 0 .. n - 1
    BY <1>2 DEF Orders
  <2> QED
    BY <2>1, <2>2, <2>3
<1> HIDE DEF n, q, inv
<1>4. x \in PartsAt(l, d) /\ \A i \in 0 .. x.count - 1 : x.offset + i \in 0 .. f.count - 1
  BY <1>1, PartFacts
<1>5. \A z \in NodesAt(l, d) : z \in PartsAt(l, d)
  BY <1>1, PartFacts
\* The values of a node are those of a permutation.
<1>6. ASSUME NEW z \in NodesAt(l, d), NEW i \in 0 .. z.count - 1
      PROVE  b[z.offset + i].value \in 0 .. z.count - 1
  <2>1. PICK m \in CallsAt(c, d) : Carries(f, b, z, c[m], d)
    BY <1>5 DEF LevelIsHeld
  <2>2. z.count = c[m].count /\ c[m].order \in Orders(c[m].count)
    BY <2>1, CallOfLevel DEF Carries, Answers, GoodCall
  <2>3. c[m].order[i] \in 0 .. z.count - 1
    BY <2>2 DEF Orders
  <2>4. b[z.offset + i] = [value |-> c[m].order[i], level |-> d]
    BY <2>1 DEF Carries, Holds
  <2> QED
    BY <2>3, <2>4
<1>7. \A i \in 0 .. n - 1 : b[x.offset + i].value = q[i]
  <2>1. \A i \in 0 .. n - 1 : b[x.offset + i] = [value |-> q[i], level |-> d]
    BY <1>2 DEF Holds
  <2>2. ASSUME NEW i \in 0 .. n - 1 PROVE b[x.offset + i].value = q[i]
    <3>1. b[x.offset + i] = [value |-> q[i], level |-> d]
      BY <2>1, Zenon
    <3> QED
      BY <3>1
  <2> QED
    BY <2>2
<1>8. ASSUME NEW v \in 0 .. x.count - 1
      PROVE  /\ \E w \in writes : w[1] = x.offset + v
             /\ \A w \in writes : w[1] = x.offset + v => w[2] = inv[v]
  <2>1. inv[v] \in 0 .. n - 1 /\ q[inv[v]] = v
    BY <1>2, <1>3
  <2>2. \E w \in writes : w[1] = x.offset + v
    <3>1. PICK e \in ElementsAt(l, d) : e.node = x /\ e.index = inv[v]
      BY <1>2, <2>1, IsElement
    <3>2. <<e.node.offset + b[e.node.offset + e.index].value, e.index>> \in writes
      BY Zenon DEF InverseWrites
    <3>3. e.node.offset + b[e.node.offset + e.index].value = x.offset + v
      BY <1>7, <2>1, <3>1
    <3> HIDE DEF writes
    <3> QED
      BY <3>2, <3>3
  <2>3. ASSUME NEW w \in writes, w[1] = x.offset + v PROVE w[2] = inv[v]
    <3>1. PICK e \in ElementsAt(l, d) :
            w = <<e.node.offset + b[e.node.offset + e.index].value, e.index>>
      BY Zenon DEF InverseWrites
    <3>2. PICK z \in NodesAt(l, d) : \E i \in 0 .. z.count - 1 : e.node = z /\ e.index = i
      BY ElementWrites
    <3>3. PICK i \in 0 .. z.count - 1 : e.node = z /\ e.index = i
      BY <3>2
    <3>4. w[1] = z.offset + b[z.offset + i].value /\ w[2] = i
      BY <3>1, <3>3
    <3>5. z = x
      <4> SUFFICES ASSUME z # x PROVE FALSE
        OBVIOUS
      <4> DEFINE r == b[z.offset + i].value
      <4>1. r \in 0 .. z.count - 1
        BY <1>6
      <4>2. z.offset + r = x.offset + v
        BY <2>3, <3>4
      <4> HIDE DEF r
      <4>3. z \in PartsAt(l, d) /\ x \in PartsAt(l, d)
        BY DEF PartsAt
      <4>4. \A i1 \in 0 .. z.count - 1, j1 \in 0 .. x.count - 1 : z.offset + i1 # x.offset + j1
        BY <1>1, <4>3, PartFacts
      <4> QED
        BY <4>1, <4>2, <4>4
    <3>6. i \in 0 .. n - 1 /\ x.offset + q[i] = x.offset + v
      BY <1>2, <1>7, <2>3, <3>4, <3>5
    <3>7. q[i] = v
      <4>1. x.offset \in Nat /\ q[i] \in Nat /\ v \in Nat
        <5>1. x.offset \in Nat
          BY <1>1, <1>4, PartFacts
        <5>2. q[i] \in 0 .. n - 1
          BY <1>3, <3>6
        <5> QED
          BY <5>1, <5>2
      <4> QED
        BY <3>6, <4>1
    <3>8. inv[q[i]] = i
      BY <1>3, <3>6
    <3> QED
      BY <3>4, <3>7, <3>8
  <2> QED
    BY <2>2, <2>3
<1> HIDE DEF writes
<1>9. GiveAll(writes, x, inv)
  BY <1>8 DEF GiveAll
<1>10. Holds(WrittenTo(f, old, writes, d), x, inv, d)
  BY <1>4, <1>9, HoldsWritten
<1> QED
  BY <1>10 DEF writes, inv, n, q

\* Pairs of the entries of a level's nodes and of values.
NodeWrites(g, x) == {<<x.offset + i, g[i]>> : i \in 0 .. x.count - 1}

LEMMA NodesHeld ==
  ASSUME NEW f, f.count \in Nat \ {0}, NEW p, NEW l, TreeIsSound(f, p, l), NEW d \in LevelsOf(f),
         NEW G, NEW writes, writes = UNION {NodeWrites(G[z], z) : z \in NodesAt(l, d)},
         NEW old, NEW x \in NodesAt(l, d)
  PROVE  Holds(WrittenTo(f, old, writes, d), x, G[x], d)
<1>1. x \in PartsAt(l, d) /\ \A i \in 0 .. x.count - 1 : x.offset + i \in 0 .. f.count - 1
  BY PartFacts
<1>2. x.offset \in Nat /\ \A z \in NodesAt(l, d) : z \in PartsAt(l, d)
  BY <1>1, PartFacts
<1>3. ASSUME NEW i \in 0 .. x.count - 1
      PROVE  /\ \E w \in writes : w[1] = x.offset + i
             /\ \A w \in writes : w[1] = x.offset + i => w[2] = G[x][i]
  <2>1. <<x.offset + i, G[x][i]>> \in writes
    BY DEF NodeWrites
  <2>2. ASSUME NEW w \in writes, w[1] = x.offset + i PROVE w[2] = G[x][i]
    <3>1. PICK z \in NodesAt(l, d) : w \in NodeWrites(G[z], z)
      OBVIOUS
    <3>2. PICK j \in 0 .. z.count - 1 : w = <<z.offset + j, G[z][j]>>
      BY <3>1 DEF NodeWrites
    <3>3. z.offset + j = x.offset + i /\ w[2] = G[z][j]
      BY <2>2, <3>2
    <3>4. z = x
      BY <1>1, <1>2, <3>3, PartFacts
    <3>5. j = i
      BY <1>2, <3>3, <3>4
    <3> QED
      BY <3>3, <3>4, <3>5
  <2> QED
    BY <2>1, <2>2
<1>4. GiveAll(writes, x, G[x])
  BY <1>3 DEF GiveAll
<1> QED
  BY <1>1, <1>4, HoldsWritten

-----------------------------------------------------------------------------
(* The buffers hold the level the host is at.                              *)

TheCalls == Calls(source, format)

InLevel == phase \in {"leaves", "invert", "unite", "route", "pack"}

\* What is known of the buffers that hold a level's inverse and its colours.
InverseKnown ==
  \A x \in NodesAt(lists, depth) : \A k \in CallsAt(TheCalls, depth) :
    Carries(format, current, x, TheCalls[k], depth) =>
      Holds(inverse, x, Node(TheCalls[k].count)!InverseOf(TheCalls[k].order), depth)
ColorsKnown(b) ==
  \A x \in NodesAt(lists, depth) : \A k \in CallsAt(TheCalls, depth) :
    Carries(format, current, x, TheCalls[k], depth) =>
      Holds(b, x, TheCalls[k].colors, depth)

AtFirst ==
  /\ depth = 1
  /\ current = [x \in 0 .. format.count - 1 |-> [value |-> source[x], level |-> 1]]
  /\ next = [x \in 0 .. format.count - 1 |-> Unwritten]

\* The level the host is at is held by the buffers.
LevelInv ==
  /\ phase \in {"tree", "leaves", "invert", "unite", "route", "pack", "copy", "done"}
  /\ phase = "tree" => AtFirst
  /\ InLevel => /\ depth \in LevelsOf(format)
                /\ LevelIsHeld(format, lists, TheCalls, current, depth)
  /\ InLevel /\ phase # "pack" => \A y \in 0 .. format.count - 1 : next[y].level \in 0 .. depth
  /\ InLevel /\ phase # "leaves" => NodesAt(lists, depth) # {}
  /\ phase \in {"unite", "route", "pack"} => InverseKnown
  /\ phase = "route" => ColorsKnown(chosen)
  /\ phase = "pack" => /\ ColorsKnown(colors)
                       /\ depth + 1 \in LevelsOf(format)
                       /\ LevelIsHeld(format, lists, TheCalls, next, depth + 1)
  /\ phase = "copy" => depth \in LevelsOf(format) /\ CallsAt(TheCalls, depth + 1) = {}

LEMMA TheCallsAre ==
  ASSUME CallIsValid
  PROVE  AreCalls(format, TheCalls, source)
BY CallsFacts DEF CallIsValid, AreCalls, TheCalls

LEMMA AfterIs ==
  ASSUME NEW b, NEW writes, NEW d
  PROVE  After(b, writes, d) = WrittenTo(format, b, writes, d)
BY DEF After, WrittenTo, Positions

LEMMA FirstLevelInv == PipelineInit => LevelInv
<1> SUFFICES ASSUME PipelineInit PROVE LevelInv
  OBVIOUS
<1>1. phase = "tree" /\ AtFirst
  BY DEF PipelineInit, AtFirst, Positions
<1> QED
  BY <1>1 DEF LevelInv, InLevel

LEMMA ListLevelInv ==
  ASSUME LevelInv, ListLeaf \/ ListNode
  PROVE  LevelInv'
<1>1. /\ phase = "tree" /\ phase' = "tree"
      /\ UNCHANGED <<format, source, depth, current, next>>
  <2>1. CASE ListLeaf
    BY <2>1, SMTT(30) DEF ListLeaf, lastingVars
  <2>2. CASE ListNode
    BY <2>2 DEF ListNode, lastingVars
  <2> QED
    BY <2>1, <2>2
<1>2. AtFirst'
  BY <1>1 DEF LevelInv, AtFirst
<1> QED
  BY <1>1, <1>2 DEF LevelInv, InLevel

LEMMA LinkLevelInv ==
  ASSUME CallIsValid, TreeInv, LevelInv, LinkLevel
  PROVE  LevelInv'
<1>1. /\ phase = "tree" /\ pending = <<>> /\ phase' \in {"tree", "leaves"}
      /\ UNCHANGED <<format, source, lists, depth, current, next>>
  BY DEF LinkLevel, lastingVars
<1>2. AtFirst
  BY <1>1 DEF LevelInv
<1>3. CASE phase' = "tree"
  <2>1. AtFirst'
    BY <1>1, <1>2 DEF AtFirst
  <2> QED
    BY <1>3, <2>1 DEF LevelInv, InLevel
<1>4. CASE phase' = "leaves"
  <2>1. TreeIsSound(format, <<>>, lists) /\ IsFormat(format) /\ source \in Orders(format.count)
    BY <1>1 DEF TreeInv, CallIsValid
  <2>2. AreCalls(format, TheCalls, source)
    BY TheCallsAre
  <2>3. LevelIsHeld(format, lists, TheCalls, current, 1)
    BY <1>2, <2>1, <2>2, RootHeld DEF AtFirst
  <2>4. 1 \in LevelsOf(format)
    BY <2>1, RoutingDepthFacts DEF IsFormat, LevelsOf
  <2>5. \A y \in 0 .. format.count - 1 : next[y].level \in 0 .. 1
    BY <1>2 DEF AtFirst, Unwritten
  <2>6. TheCalls' = TheCalls /\ depth' = 1 /\ depth = 1
    BY <1>1, <1>2 DEF TheCalls, AtFirst
  <2>7. depth' \in LevelsOf(format') /\ LevelIsHeld(format', lists', TheCalls', current', depth')
    BY <1>1, <2>3, <2>4, <2>6
  <2>8. \A y \in 0 .. format'.count - 1 : next'[y].level \in 0 .. depth'
    BY <1>1, <2>5, <2>6
  <2> QED
    BY <1>4, <2>7, <2>8 DEF LevelInv, InLevel
<1> QED
  BY <1>1, <1>3, <1>4

LEMMA EncodeLeavesInv ==
  ASSUME CallIsValid, TreeInv, LevelInv, EncodeLeaves
  PROVE  LevelInv'
<1>1. /\ phase = "leaves" /\ UNCHANGED <<format, source, lists, tree, current, next>>
      /\ phase' = CASE Level.nodeCount # 0 -> "invert"
                    [] Level.nodeCount = 0 /\ depth < Len(tree.levels) -> "leaves"
                    [] OTHER -> "copy"
      /\ depth' = IF phase' = "leaves" THEN depth + 1 ELSE depth
  BY DEF EncodeLeaves, lastingVars, treeVars
<1>2. /\ depth \in LevelsOf(format) /\ LevelIsHeld(format, lists, TheCalls, current, depth)
      /\ \A y \in 0 .. format.count - 1 : next[y].level \in 0 .. depth
      /\ AreCalls(format, TheCalls, source) /\ TheCalls' = TheCalls /\ IsFormat(format)
  BY <1>1, TheCallsAre DEF LevelInv, InLevel, TheCalls, CallIsValid
<1>3. /\ TreeIsSound(format, <<>>, lists)
      /\ (Level.nodeCount = 0 <=> NodesAt(lists, depth) = {})
      /\ Len(tree.levels) = RoutingDepth(format.count) + 1
  BY <1>1, <1>2, TheLevel DEF TreeInv
<1>4. RoutingDepth(format.count) \in Nat /\ depth \in Nat /\ depth <= RoutingDepth(format.count) + 1
  BY <1>2, RoutingDepthFacts DEF LevelsOf, IsFormat
<1>5. CASE Level.nodeCount # 0
  <2>1. phase' = "invert" /\ depth' = depth
    BY <1>1, <1>5
  <2>2. NodesAt(lists, depth) # {}
    BY <1>3, <1>5
  <2>3. /\ depth' \in LevelsOf(format') /\ LevelIsHeld(format', lists', TheCalls', current', depth')
        /\ NodesAt(lists', depth') # {}
    BY <1>1, <1>2, <2>1, <2>2
  <2>4. \A y \in 0 .. format'.count - 1 : next'[y].level \in 0 .. depth'
    BY <1>1, <1>2, <2>1
  <2> QED
    BY <2>1, <2>3, <2>4 DEF LevelInv, InLevel
<1>6. CASE Level.nodeCount = 0 /\ depth < Len(tree.levels)
  <2>1. phase' = "leaves" /\ depth' = depth + 1
    BY <1>1, <1>6
  <2>2. depth + 1 \in LevelsOf(format)
    BY <1>3, <1>4, <1>6 DEF LevelsOf
  <2>3. LevelIsHeld(format, lists, TheCalls, current, depth + 1)
    BY <1>2, <1>3, <1>6, <2>2, NothingBelow
  <2>4. \A y \in 0 .. format.count - 1 : next[y].level \in 0 .. depth + 1
    BY <1>2, <1>4
  <2>5. /\ depth' \in LevelsOf(format') /\ LevelIsHeld(format', lists', TheCalls', current', depth')
    BY <1>1, <1>2, <2>1, <2>2, <2>3
  <2>6. \A y \in 0 .. format'.count - 1 : next'[y].level \in 0 .. depth'
    BY <1>1, <2>1, <2>4
  <2> QED
    BY <2>1, <2>5, <2>6 DEF LevelInv, InLevel
<1>7. CASE Level.nodeCount = 0 /\ ~(depth < Len(tree.levels))
  <2>1. phase' = "copy" /\ depth' = depth
    BY <1>1, <1>7
  <2>2. CallsAt(TheCalls, depth + 1) = {}
    BY <1>2, <1>3, <1>7, NothingBelow
  <2>3. depth' \in LevelsOf(format') /\ CallsAt(TheCalls', depth' + 1) = {}
    BY <1>1, <1>2, <2>1, <2>2
  <2> QED
    BY <2>1, <2>3 DEF LevelInv, InLevel
<1> QED
  BY <1>5, <1>6, <1>7

\* What every step from invert to route finds.
LEMMA InsideLevel ==
  ASSUME CallIsValid, TreeInv, LevelInv, phase \in {"invert", "unite", "route", "pack"}
  PROVE  /\ depth \in LevelsOf(format) /\ LevelIsHeld(format, lists, TheCalls, current, depth)
         /\ AreCalls(format, TheCalls, source) /\ IsFormat(format)
         /\ format.count \in Nat \ {0}
         /\ TreeIsSound(format, <<>>, lists)
         /\ NodesAt(lists, depth) # {} /\ LevelNodes = NodesAt(lists, depth)
         /\ Handled(Level.maximumCount) = ElementsAt(lists, depth)
         /\ \A x \in NodesAt(lists, depth) : \A i \in 0 .. x.count \div 2 - 1 :
              [node |-> x, index |-> i] \in Handled(Level.maximumPairs)
         /\ \A e \in Handled(Level.maximumPairs) : e.node \in NodesAt(lists, depth) /\ e.index \in Nat
         /\ phase # "pack" => \A y \in 0 .. format.count - 1 : next[y].level \in 0 .. depth
<1>1. /\ depth \in LevelsOf(format) /\ LevelIsHeld(format, lists, TheCalls, current, depth)
      /\ NodesAt(lists, depth) # {} /\ phase # "tree"
      /\ phase # "pack" => \A y \in 0 .. format.count - 1 : next[y].level \in 0 .. depth
  BY DEF LevelInv, InLevel
<1>2. Level.nodeCount # 0
  BY <1>1, TheLevel
<1>3. /\ Handled(Level.maximumCount) = ElementsAt(lists, depth)
      /\ \A x \in NodesAt(lists, depth) : \A i \in 0 .. x.count \div 2 - 1 :
              [node |-> x, index |-> i] \in Handled(Level.maximumPairs)
      /\ \A e \in Handled(Level.maximumPairs) : e.node \in NodesAt(lists, depth) /\ e.index \in Nat
  BY <1>1, <1>2, AllElements
<1>4. TreeIsSound(format, <<>>, lists) /\ LevelNodes = NodesAt(lists, depth)
      /\ format.count \in Nat \ {0}
  BY <1>1, TheLevel
<1>5. AreCalls(format, TheCalls, source) /\ IsFormat(format)
  BY TheCallsAre DEF CallIsValid
<1> QED
  BY <1>1, <1>3, <1>4, <1>5

LEMMA InvertInv ==
  ASSUME CallIsValid, TreeInv, LevelInv, Invert
  PROVE  LevelInv'
<1>1. /\ phase = "invert" /\ phase' = "unite"
      /\ UNCHANGED <<format, source, lists, depth, current, next>>
      /\ inverse' = After(inverse, InverseWrites(current, Handled(Level.maximumCount)), depth)
  BY DEF Invert, lastingVars, treeVars, InverseWrites
<1>2. /\ depth \in LevelsOf(format) /\ LevelIsHeld(format, lists, TheCalls, current, depth)
      /\ AreCalls(format, TheCalls, source) /\ IsFormat(format)
      /\ TreeIsSound(format, <<>>, lists)
      /\ NodesAt(lists, depth) # {}
      /\ Handled(Level.maximumCount) = ElementsAt(lists, depth)
      /\ \A y \in 0 .. format.count - 1 : next[y].level \in 0 .. depth
  BY <1>1, InsideLevel
<1>3. inverse' = WrittenTo(format, inverse, InverseWrites(current, ElementsAt(lists, depth)), depth)
  BY <1>1, <1>2, AfterIs
<1>4. ASSUME NEW x \in NodesAt(lists, depth), NEW k \in CallsAt(TheCalls, depth),
             Carries(format, current, x, TheCalls[k], depth)
      PROVE  Holds(inverse', x, Node(TheCalls[k].count)!InverseOf(TheCalls[k].order), depth)
  BY <1>2, <1>3, <1>4, InverseIsHeld
<1>5. TheCalls' = TheCalls
  BY <1>1 DEF TheCalls
<1>6. InverseKnown'
  BY <1>1, <1>4, <1>5 DEF InverseKnown
<1>7. /\ depth' \in LevelsOf(format') /\ LevelIsHeld(format', lists', TheCalls', current', depth')
      /\ NodesAt(lists', depth') # {}
  BY <1>1, <1>2, <1>5
<1>8. \A y \in 0 .. format'.count - 1 : next'[y].level \in 0 .. depth'
  BY <1>1, <1>2
<1> QED
  BY <1>1, <1>6, <1>7, <1>8 DEF LevelInv, InLevel

LEMMA ReadHeld ==
  ASSUME NEW b, NEW x, NEW n, n = x.count, NEW S, NEW g \in [0 .. n - 1 -> S], NEW d,
         Holds(b, x, g, d)
  PROVE  Read(b, x) = g
<1>1. \A i \in 0 .. n - 1 : b[x.offset + i] = [value |-> g[i], level |-> d]
  BY DEF Holds
<1>2. ASSUME NEW i \in 0 .. n - 1 PROVE b[x.offset + i].value = g[i]
  <2>1. b[x.offset + i] = [value |-> g[i], level |-> d]
    BY <1>1, Zenon
  <2> QED
    BY <2>1
<1>3. Read(b, x) = [i \in 0 .. n - 1 |-> b[x.offset + i].value]
  BY DEF Read
<1> QED
  BY <1>2, <1>3

LEMMA UniteInv ==
  ASSUME CallIsValid, TreeInv, LevelInv, Unite
  PROVE  LevelInv'
<1> DEFINE Nodes == NodesAt(lists, depth)
           G == [z \in Nodes |-> CanonicalColoring(Read(inverse, z), z.count)]
           whole == {n \in LevelNodes :
             /\ \A i \in 0 .. n.count - 1 :
                  [node |-> n, index |-> i] \in Handled(Level.maximumCount)
             /\ \A i \in 0 .. n.count \div 2 - 1 :
                  [node |-> n, index |-> i] \in Handled(Level.maximumPairs)}
           Colored(n) == LET c == CanonicalColoring(Read(inverse, n), n.count)
                         IN  {<<n.offset + i, c[i]>> : i \in 0 .. n.count - 1}
           writes == UNION {Colored(n) : n \in whole}
<1>1. /\ phase = "unite" /\ phase' = "route"
      /\ UNCHANGED <<format, source, lists, depth, current, next, inverse>>
      /\ chosen' = After(chosen, writes, depth)
  BY DEF Unite, lastingVars, treeVars
<1>2. /\ depth \in LevelsOf(format) /\ LevelIsHeld(format, lists, TheCalls, current, depth)
      /\ AreCalls(format, TheCalls, source) /\ IsFormat(format)
      /\ TreeIsSound(format, <<>>, lists) /\ format.count \in Nat \ {0}
      /\ Nodes # {} /\ LevelNodes = Nodes
      /\ Handled(Level.maximumCount) = ElementsAt(lists, depth)
      /\ \A x \in Nodes : \A i \in 0 .. x.count \div 2 - 1 :
              [node |-> x, index |-> i] \in Handled(Level.maximumPairs)
      /\ \A y \in 0 .. format.count - 1 : next[y].level \in 0 .. depth
  BY <1>1, InsideLevel
<1>3. whole = Nodes
  <2>1. \A n \in Nodes : \A i \in 0 .. n.count - 1 : [node |-> n, index |-> i] \in ElementsAt(lists, depth)
    BY DEF ElementsAt
  <2> HIDE DEF Nodes
  <2> QED
    BY <1>2, <2>1
<1>4. \A z \in Nodes : Colored(z) = NodeWrites(G[z], z)
  BY DEF NodeWrites
<1> HIDE DEF whole
<1>5. writes = UNION {NodeWrites(G[z], z) : z \in Nodes}
  <2> HIDE DEF Colored, G, Nodes
  <2> QED
    BY <1>3, <1>4
<1>6. \A x \in Nodes : Holds(chosen', x, G[x], depth)
  <2> SUFFICES ASSUME NEW x \in Nodes PROVE Holds(chosen', x, G[x], depth)
    OBVIOUS
  <2>1. chosen' = WrittenTo(format, chosen, writes, depth)
    BY <1>1, AfterIs
  <2> HIDE DEF writes, G
  <2>2. Holds(WrittenTo(format, chosen, writes, depth), x, G[x], depth)
    BY <1>2, <1>5, NodesHeld
  <2> QED
    BY <2>1, <2>2
<1>7. ASSUME NEW x \in Nodes, NEW k \in CallsAt(TheCalls, depth),
             Carries(format, current, x, TheCalls[k], depth)
      PROVE  Holds(chosen', x, TheCalls[k].colors, depth)
  <2> DEFINE call == TheCalls[k]  n == call.count  inv == Node(n)!InverseOf(call.order)
  <2>1. /\ x.count = n /\ n \in Nat \ {0} /\ call.order \in Orders(n) /\ GoodCall(call, format)
    BY <1>2, <1>7, CallOfLevel DEF Carries, Answers, GoodCall
  <2>2. Holds(inverse, x, inv, depth)
    BY <1>1, <1>7 DEF LevelInv, InverseKnown
  <2>3. inv \in [0 .. n - 1 -> 0 .. n - 1]
    BY <2>1, NodePermutations
  <2>4. Read(inverse, x) = inv
    <3> HIDE DEF inv, n
    <3> QED
      BY <2>1, <2>2, <2>3, ReadHeld
  <2>5. n > LeafSize
    BY <1>2, <2>1, PartFacts
  <2>6. call.colors = Coloring(call.order, n)
    BY <2>1, <2>5 DEF GoodCall
  <2>7. Coloring(call.order, n) = CanonicalColoring(inv, n)
    BY DEF Coloring
  <2>8. G[x] = CanonicalColoring(Read(inverse, x), x.count)
    OBVIOUS
  <2>9. G[x] = call.colors
    <3> HIDE DEF G, inv, n, call
    <3> QED
      BY <2>1, <2>4, <2>6, <2>7, <2>8
  <2> HIDE DEF G
  <2> QED
    BY <1>6, <2>9
<1>8. TheCalls' = TheCalls
  BY <1>1 DEF TheCalls
<1>9. ColorsKnown(chosen)'
  BY <1>1, <1>7, <1>8 DEF ColorsKnown
<1>10. InverseKnown'
  BY <1>1, <1>8 DEF LevelInv, InverseKnown
<1>11. /\ depth' \in LevelsOf(format') /\ LevelIsHeld(format', lists', TheCalls', current', depth')
       /\ NodesAt(lists', depth') # {}
  BY <1>1, <1>2, <1>8
<1>12. \A y \in 0 .. format'.count - 1 : next'[y].level \in 0 .. depth'
  BY <1>1, <1>2
<1> QED
  BY <1>1, <1>9, <1>10, <1>11, <1>12 DEF LevelInv, InLevel

ColorWrites(ch, elements) ==
  {<<e.node.offset + e.index, ch[e.node.offset + e.index].value>> : e \in elements}

\* compact_route stores the colours of the elements as they are.
LEMMA ColorsStored ==
  ASSUME NEW f, f.count \in Nat \ {0}, NEW p, NEW l, TreeIsSound(f, p, l), NEW d \in LevelsOf(f),
         NEW ch, NEW old, NEW x \in NodesAt(l, d), NEW g, Holds(ch, x, g, d)
  PROVE  Holds(WrittenTo(f, old, ColorWrites(ch, ElementsAt(l, d)), d), x, g, d)
<1> DEFINE G == [z \in NodesAt(l, d) |-> [i \in 0 .. z.count - 1 |-> ch[z.offset + i].value]]
           writes == UNION {NodeWrites(G[z], z) : z \in NodesAt(l, d)}
           given == ColorWrites(ch, ElementsAt(l, d))
<1>1. \A z \in NodesAt(l, d) : \A i \in 0 .. z.count - 1 : G[z][i] = ch[z.offset + i].value
  OBVIOUS
<1> HIDE DEF G
<1>2. ASSUME NEW w \in given PROVE w \in writes
  <2>1. PICK e \in ElementsAt(l, d) :
          w = <<e.node.offset + e.index, ch[e.node.offset + e.index].value>>
    BY DEF ColorWrites
  <2>2. PICK z \in NodesAt(l, d) : \E i \in 0 .. z.count - 1 : e.node = z /\ e.index = i
    BY ElementWrites
  <2>3. PICK i \in 0 .. z.count - 1 : e.node = z /\ e.index = i
    BY <2>2
  <2>4. w = <<z.offset + i, G[z][i]>>
    BY <1>1, <2>1, <2>3
  <2> QED
    BY <2>4 DEF NodeWrites
<1>3. ASSUME NEW w \in writes PROVE w \in given
  <2>1. PICK z \in NodesAt(l, d) : w \in NodeWrites(G[z], z)
    OBVIOUS
  <2>2. PICK i \in 0 .. z.count - 1 : w = <<z.offset + i, G[z][i]>>
    BY <2>1 DEF NodeWrites
  <2>3. PICK e \in ElementsAt(l, d) : e.node = z /\ e.index = i
    BY IsElement
  <2>4. w = <<e.node.offset + e.index, ch[e.node.offset + e.index].value>>
    BY <1>1, <2>2, <2>3
  <2> QED
    BY <2>4 DEF ColorWrites
<1>4. given = writes
  BY <1>2, <1>3
<1> HIDE DEF given
<1>5. Holds(WrittenTo(f, old, given, d), x, G[x], d)
  <2>1. given = UNION {NodeWrites(G[z], z) : z \in NodesAt(l, d)}
    BY <1>4
  <2> HIDE DEF writes
  <2> QED
    BY <2>1, NodesHeld
<1>6. \A i \in 0 .. x.count - 1 : G[x][i] = g[i]
  <2> SUFFICES ASSUME NEW i \in 0 .. x.count - 1 PROVE G[x][i] = g[i]
    OBVIOUS
  <2>1. ch[x.offset + i] = [value |-> g[i], level |-> d]
    BY Zenon DEF Holds
  <2>2. G[x][i] = ch[x.offset + i].value
    BY <1>1
  <2> QED
    BY <2>1, <2>2
<1>7. Holds(WrittenTo(f, old, given, d), x, g, d)
  BY <1>5, <1>6 DEF Holds
<1> QED
  BY <1>7 DEF given

LEMMA RouteInv ==
  ASSUME CallIsValid, TreeInv, LevelInv, Route
  PROVE  LevelInv'
<1> DEFINE elements == Handled(Level.maximumCount)  Nodes == NodesAt(lists, depth)
<1>1. /\ phase = "route" /\ phase' = "pack"
      /\ UNCHANGED <<format, source, lists, depth, current, inverse, chosen>>
      /\ colors' = After(colors, ColorWrites(chosen, elements), depth)
      /\ next' = After(next, RouteWrites(current, chosen, elements), depth + 1)
  BY DEF Route, lastingVars, treeVars, ColorWrites, RouteWrites, Target
<1>2. /\ depth \in LevelsOf(format) /\ LevelIsHeld(format, lists, TheCalls, current, depth)
      /\ AreCalls(format, TheCalls, source) /\ IsFormat(format)
      /\ TreeIsSound(format, <<>>, lists) /\ format.count \in Nat \ {0}
      /\ Nodes # {}
      /\ elements = ElementsAt(lists, depth)
      /\ \A y \in 0 .. format.count - 1 : next[y].level \in 0 .. depth
  BY <1>1, InsideLevel
<1>3. /\ colors' = WrittenTo(format, colors, ColorWrites(chosen, ElementsAt(lists, depth)), depth)
      /\ next' = WrittenTo(format, next, RouteWrites(current, chosen, ElementsAt(lists, depth)), depth + 1)
  BY <1>1, <1>2, AfterIs
<1> HIDE DEF elements
<1>4. \A x \in Nodes : \A k \in CallsAt(TheCalls, depth) :
        Carries(format, current, x, TheCalls[k], depth) => Holds(chosen, x, TheCalls[k].colors, depth)
  BY <1>1 DEF LevelInv, ColorsKnown
<1>5. \A x \in Nodes : \A k \in CallsAt(TheCalls, depth) :
        Carries(format, current, x, TheCalls[k], depth) => HasColors(chosen, x, TheCalls[k])
  <2> SUFFICES ASSUME NEW x \in Nodes, NEW k \in CallsAt(TheCalls, depth),
                      Carries(format, current, x, TheCalls[k], depth),
                      NEW i \in 0 .. x.count - 1
               PROVE  chosen[x.offset + i].value = TheCalls[k].colors[i]
    BY DEF HasColors
  <2>1. Holds(chosen, x, TheCalls[k].colors, depth)
    BY <1>4
  <2>2. chosen[x.offset + i] = [value |-> TheCalls[k].colors[i], level |-> depth]
    BY <2>1, Zenon DEF Holds
  <2> QED
    BY <2>2
<1>6. depth + 1 \in LevelsOf(format)
  <2>1. PICK x \in Nodes : TRUE
    BY <1>2
  <2> QED
    BY <1>2, <2>1, PartFacts
<1>7. LevelIsHeld(format, lists, TheCalls, next', depth + 1)
  BY <1>2, <1>3, <1>5, <1>6, LevelStep
<1>8. ASSUME NEW x \in Nodes, NEW k \in CallsAt(TheCalls, depth),
             Carries(format, current, x, TheCalls[k], depth)
      PROVE  Holds(colors', x, TheCalls[k].colors, depth)
  <2>1. Holds(chosen, x, TheCalls[k].colors, depth)
    BY <1>4, <1>8
  <2> QED
    BY <1>2, <1>3, <2>1, ColorsStored
<1>9. TheCalls' = TheCalls
  BY <1>1 DEF TheCalls
<1>10. ColorsKnown(colors)'
  BY <1>1, <1>8, <1>9 DEF ColorsKnown
<1>11. InverseKnown'
  BY <1>1, <1>9 DEF LevelInv, InverseKnown
<1>12. /\ depth' \in LevelsOf(format') /\ LevelIsHeld(format', lists', TheCalls', current', depth')
       /\ NodesAt(lists', depth') # {}
       /\ depth' + 1 \in LevelsOf(format')
       /\ LevelIsHeld(format', lists', TheCalls', next', depth' + 1)
  BY <1>1, <1>2, <1>6, <1>7, <1>9
<1> QED
  BY <1>1, <1>10, <1>11, <1>12 DEF LevelInv, InLevel

LEMMA PackInv ==
  ASSUME CallIsValid, TreeInv, LevelInv, Pack
  PROVE  LevelInv'
<1>1. /\ phase = "pack" /\ phase' = "leaves" /\ depth' = depth + 1
      /\ UNCHANGED <<format, source, lists>>
      /\ current' = next /\ next' = current
  BY DEF Pack, SwapBuffers, lastingVars, treeVars
<1>2. /\ depth + 1 \in LevelsOf(format)
      /\ LevelIsHeld(format, lists, TheCalls, next, depth + 1)
      /\ depth \in LevelsOf(format) /\ LevelIsHeld(format, lists, TheCalls, current, depth)
  BY <1>1 DEF LevelInv, InLevel
<1>3. TheCalls' = TheCalls
  BY <1>1 DEF TheCalls
<1>4. depth \in Nat
  BY <1>2 DEF LevelsOf
<1>5. \A y \in 0 .. format.count - 1 : current[y].level \in 0 .. depth
  BY <1>2 DEF LevelIsHeld
<1>6. \A y \in 0 .. format.count - 1 : current[y].level \in 0 .. depth + 1
  BY <1>4, <1>5
<1>7. /\ depth' \in LevelsOf(format') /\ LevelIsHeld(format', lists', TheCalls', current', depth')
  BY <1>1, <1>2, <1>3
<1>8. \A y \in 0 .. format'.count - 1 : next'[y].level \in 0 .. depth'
  BY <1>1, <1>6
<1> QED
  BY <1>1, <1>7, <1>8 DEF LevelInv, InLevel

LEMMA LevelStays ==
  CallIsValid /\ TreeInv /\ LevelInv /\ [PipelineNext]_pipelineVars => LevelInv'
<1> SUFFICES ASSUME CallIsValid, TreeInv, LevelInv, [PipelineNext]_pipelineVars
             PROVE  LevelInv'
  OBVIOUS
<1>1. CASE ListLeaf \/ ListNode
  BY <1>1, ListLevelInv
<1>2. CASE LinkLevel
  BY <1>2, LinkLevelInv
<1>3. CASE EncodeLeaves
  BY <1>3, EncodeLeavesInv
<1>4. CASE Invert
  BY <1>4, InvertInv
<1>5. CASE Unite
  BY <1>5, UniteInv
<1>6. CASE Route
  BY <1>6, RouteInv
<1>7. CASE Pack
  BY <1>7, PackInv
<1>8. CASE Copy
  <2>1. phase' = "done"
    BY <1>8 DEF Copy
  <2> QED
    BY <2>1 DEF LevelInv, InLevel
<1>9. CASE UNCHANGED pipelineVars
  <2>1. UNCHANGED <<phase, format, source, lists, depth, current, next, inverse, chosen, colors>>
    BY <1>9 DEF pipelineVars, lastingVars, treeVars
  <2>2. TheCalls' = TheCalls
    BY <2>1 DEF TheCalls
  <2>3. /\ AtFirst' = AtFirst /\ InverseKnown' = InverseKnown
        /\ ColorsKnown(chosen)' = ColorsKnown(chosen) /\ ColorsKnown(colors)' = ColorsKnown(colors)
        /\ InLevel' = InLevel
    BY <2>1, <2>2 DEF AtFirst, InverseKnown, ColorsKnown, InLevel
  <2> QED
    BY <2>1, <2>2, <2>3 DEF LevelInv
<1> QED
  BY <1>1, <1>2, <1>3, <1>4, <1>5, <1>6, <1>7, <1>8, <1>9 DEF PipelineNext

-----------------------------------------------------------------------------
PipelineInv == CallIsValid /\ TreeInv /\ LevelInv

LEMMA PipelineInvHolds == PipelineSpec => []PipelineInv
<1>1. PipelineInit => PipelineInv
  BY FirstState, FirstLevelInv DEF PipelineInv
<1>2. PipelineInv /\ [PipelineNext]_pipelineVars => PipelineInv'
  BY CallStays, TreeStays, LevelStays DEF PipelineInv
<1> QED
  BY <1>1, <1>2, PTL DEF PipelineSpec

-----------------------------------------------------------------------------
(* What the runs check of the buffers.                                     *)

LEMMA HeldIsFresh ==
  ASSUME NEW b, NEW x, NEW g, Holds(b, x, g, depth)
  PROVE  IsFresh(b, x)
<1> SUFFICES ASSUME NEW i \in 0 .. x.count - 1 PROVE b[x.offset + i].level = depth
  BY DEF IsFresh
<1>1. b[x.offset + i] = [value |-> g[i], level |-> depth]
  BY Zenon DEF Holds
<1> QED
  BY <1>1

LEMMA CarriedAtLevel ==
  ASSUME CallIsValid, TreeInv, LevelInv, InLevel
  PROVE  /\ LevelNodes = NodesAt(lists, depth) /\ LevelLeaves = LeavesAt(lists, depth)
         /\ LevelNodes \cup LevelLeaves = PartsAt(lists, depth)
         /\ \A x \in PartsAt(lists, depth) : \E k \in CallsAt(TheCalls, depth) :
              Carries(format, current, x, TheCalls[k], depth)
<1>1. depth \in LevelsOf(format) /\ LevelIsHeld(format, lists, TheCalls, current, depth)
      /\ phase # "tree"
  BY DEF LevelInv, InLevel
<1>2. LevelNodes = NodesAt(lists, depth) /\ LevelLeaves = LeavesAt(lists, depth)
  BY <1>1, TheLevel
<1> QED
  BY <1>1, <1>2 DEF LevelIsHeld, PartsAt

LEMMA FreshReads ==
  ASSUME CallIsValid, TreeInv, LevelInv
  PROVE  ReadsAreFresh
<1>1. ASSUME phase \in {"leaves", "invert", "unite", "route"}
      PROVE  \A part \in LevelNodes \cup LevelLeaves : IsFresh(current, part)
  <2>1. InLevel
    BY <1>1 DEF InLevel
  <2> SUFFICES ASSUME NEW x \in PartsAt(lists, depth) PROVE IsFresh(current, x)
    BY <2>1, CarriedAtLevel
  <2>2. PICK k \in CallsAt(TheCalls, depth) : Carries(format, current, x, TheCalls[k], depth)
    BY <2>1, CarriedAtLevel
  <2> QED
    BY <2>2, HeldIsFresh DEF Carries
<1>2. ASSUME InLevel, NEW x \in LevelNodes
      PROVE  /\ x \in NodesAt(lists, depth)
             /\ \E k \in CallsAt(TheCalls, depth) : Carries(format, current, x, TheCalls[k], depth)
  BY <1>2, CarriedAtLevel DEF PartsAt
<1>3. ASSUME NEW b, ColorsKnown(b), InLevel, NEW x \in LevelNodes
      PROVE  IsFresh(b, x)
  <2>1. PICK k \in CallsAt(TheCalls, depth) : Carries(format, current, x, TheCalls[k], depth)
    BY <1>3, <1>2
  <2>2. Holds(b, x, TheCalls[k].colors, depth)
    BY <1>3, <1>2, <2>1 DEF ColorsKnown
  <2> QED
    BY <2>2, HeldIsFresh
<1>4. ASSUME phase \in {"unite", "route", "pack"}, NEW x \in LevelNodes
      PROVE  IsFresh(inverse, x)
  <2>1. InLevel /\ InverseKnown
    BY <1>4 DEF LevelInv, InLevel
  <2>2. PICK k \in CallsAt(TheCalls, depth) : Carries(format, current, x, TheCalls[k], depth)
    BY <1>4, <2>1, <1>2
  <2>3. Holds(inverse, x, Node(TheCalls[k].count)!InverseOf(TheCalls[k].order), depth)
    BY <1>2, <1>4, <2>1, <2>2 DEF InverseKnown
  <2> QED
    BY <2>3, HeldIsFresh
<1>5. phase = "route" => \A n \in LevelNodes : IsFresh(chosen, n)
  BY <1>3 DEF LevelInv, InLevel
<1>6. phase = "pack" => \A n \in LevelNodes : IsFresh(colors, n)
  BY <1>3 DEF LevelInv, InLevel
<1> QED
  BY <1>1, <1>4, <1>5, <1>6 DEF ReadsAreFresh

LEMMA ApartParts ==
  ASSUME CallIsValid, TreeInv, LevelInv
  PROVE  PartsAreApart
<1> SUFFICES ASSUME phase = "leaves" PROVE PartsAreApart
  BY DEF PartsAreApart
<1>1. /\ InLevel /\ depth \in LevelsOf(format) /\ phase # "tree"
      /\ LevelIsHeld(format, lists, TheCalls, current, depth)
  BY DEF LevelInv, InLevel
<1>2. /\ TreeIsSound(format, <<>>, lists) /\ format.count \in Nat \ {0}
      /\ LevelNodes \cup LevelLeaves = PartsAt(lists, depth)
  BY <1>1, TheLevel, CarriedAtLevel
<1>3. /\ \A x \in PartsAt(lists, depth) : /\ x.offset \in Nat /\ x.count \in Nat \ {0}
                                          /\ x.offset + x.count <= format.count
      /\ \A x, y \in PartsAt(lists, depth) : x # y =>
           \A i \in 0 .. x.count - 1, j \in 0 .. y.count - 1 : x.offset + i # y.offset + j
  BY <1>1, <1>2, PartFacts
<1>4. ASSUME NEW x \in PartsAt(lists, depth), NEW y \in PartsAt(lists, depth), x # y
      PROVE  Entries(x) \cap Entries(y) = {}
  <2> SUFFICES ASSUME NEW e \in Entries(x), e \in Entries(y) PROVE FALSE
    OBVIOUS
  <2>1. e - x.offset \in 0 .. x.count - 1 /\ e - y.offset \in 0 .. y.count - 1
        /\ x.offset + (e - x.offset) = e /\ y.offset + (e - y.offset) = e
    BY <1>3 DEF Entries
  <2> QED
    BY <1>3, <1>4, <2>1
<1>5. ASSUME NEW x \in PartsAt(lists, depth) PROVE Entries(x) \subseteq Positions
  BY <1>3, <1>2 DEF Entries, Positions
<1>6. CASE depth = 1
  <2>1. RootPlace(format) \in Places(format, lists, depth)
    BY <1>6 DEF Places
  <2>2. PICK y \in PartsAt(lists, depth) : Takes(format, y, RootPlace(format))
    <3>1. PlacesAreTaken(format, <<>>, lists)
      BY <1>2 DEF TreeIsSound
    <3>2. \/ \E y \in PartsAt(lists, depth) : Takes(format, y, RootPlace(format))
          \/ \E i \in 1 .. Len(<<>>) : TRUE
      BY <3>1, <2>1, <1>1 DEF PlacesAreTaken
    <3>3. 1 .. Len(<<>>) = {}
      OBVIOUS
    <3> QED
      BY <3>2, <3>3
  <2>3. y.offset = 0 /\ y.count = format.count
    BY <2>2 DEF Takes, RootPlace
  <2>4. Entries(y) = Positions
    BY <2>3, <1>2 DEF Entries, Positions
  <2>5. UNION {Entries(p) : p \in PartsAt(lists, depth)} = Positions
    BY <1>5, <2>4
  <2> QED
    BY <1>2, <1>4, <1>6, <2>5 DEF PartsAreApart
<1>7. CASE depth # 1
  <2>1. \A z \in 0 .. format.count - 1 : current[z].level = depth
           <=> \E x \in PartsAt(lists, depth) : z \in x.offset .. x.offset + x.count - 1
    BY <1>1 DEF LevelIsHeld
  <2>2. \A z \in Positions : current[z].level = depth
           <=> \E x \in PartsAt(lists, depth) : z \in Entries(x)
    BY <2>1 DEF Entries, Positions
  <2>3. UNION {Entries(p) : p \in PartsAt(lists, depth)}
          = {x \in Positions : current[x].level = depth}
    BY <2>2, <1>5
  <2> QED
    BY <1>2, <1>4, <1>7, <2>3 DEF PartsAreApart
<1> QED
  BY <1>6, <1>7

\* For every size, format, permutation and host: no kernel reads an entry that was
\* not written for the level it works on.
THEOREM ReadsAlwaysFresh == PipelineSpec => []ReadsAreFresh
<1>1. PipelineInv => ReadsAreFresh
  BY FreshReads DEF PipelineInv
<1> QED
  BY <1>1, PipelineInvHolds, PTL

\* For every size, format, permutation and host: the nodes and leaves of a level
\* share no entries of the buffers, and have all that was written for it.
THEOREM PartsAlwaysApart == PipelineSpec => []PartsAreApart
<1>1. PipelineInv => PartsAreApart
  BY ApartParts DEF PipelineInv
<1> QED
  BY <1>1, PipelineInvHolds, PTL

-----------------------------------------------------------------------------
(* The bits of the sections are those of the calls done so far.            *)

\* The bits of some calls, in a section.
BitsOf(K, s) == UNION {CallBits(TheCalls[k], format)[s] : k \in K}

\* What a leaf's lanes write.
RankBits(b, x) ==
  {x.rank + i : i \in {d \in 0 .. FactoradicBitCount(x.count) - 1 :
                         (Rank(Read(b, x), x.count) \div PowerOfTwo[d]) % 2 = 1}}

LeafCallsAt(d) == {k \in CallsAt(TheCalls, d) : TheCalls[k].count <= LeafSize}
NodeCallsAt(d) == {k \in CallsAt(TheCalls, d) : TheCalls[k].count > LeafSize}

LEMMA OtherSections ==
  ASSUME NEW form, IsFormat(form), NEW call, GoodCall(call, form), call.count <= LeafSize,
         NEW s \in Sides, s # RankSection(form)
  PROVE  CallBits(call, form)[s] = {}
<1> DEFINE sec == RankSection(form)
           set == {RankStart(form, call.in, call.out, call.middle) + b :
                     b \in {d \in 0 .. FactoradicBitCount(call.count) - 1 :
                              (Rank(call.order, call.count) \div PowerOfTwo[d]) % 2 = 1}}
<1>1. CallBits(call, form) = [Blank EXCEPT ![sec] = set]
  BY Zenon DEF CallBits, LeafBits
<1>2. Blank \in [Sides -> {{}}]
  BY DEF Blank, Sides
<1> HIDE DEF set
<1> QED
  BY <1>1, <1>2

\* The lanes of a leaf write the bits of its call.
LEMMA LeafWrites ==
  ASSUME NEW form, IsFormat(form), NEW call, GoodCall(call, form), call.count <= LeafSize,
         NEW b, NEW x, NEW d, Carries(form, b, x, call, d)
  PROVE  RankBits(b, x) = CallBits(call, form)[RankSection(form)]
<1>1. /\ x.count = call.count /\ x.count <= LeafSize
      /\ x.rank = RankStart(form, call.in, call.out, call.middle)
      /\ Holds(b, x, call.order, d)
      /\ call.order \in Orders(call.count) /\ call.count \in Nat \ {0}
  BY DEF Carries, Answers, GoodCall
<1>2. call.order \in [0 .. call.count - 1 -> 0 .. call.count - 1]
  BY <1>1 DEF Orders
<1>3. Read(b, x) = call.order
  BY <1>1, <1>2, ReadHeld
<1>4. CallBits(call, form)[RankSection(form)] =
        {RankStart(form, call.in, call.out, call.middle) + i :
           i \in {e \in 0 .. FactoradicBitCount(call.count) - 1 :
                    (Rank(call.order, call.count) \div PowerOfTwo[e]) % 2 = 1}}
  BY LeafCall
<1> QED
  BY <1>1, <1>3, <1>4 DEF RankBits

LEMMA LevelRanks ==
  ASSUME CallIsValid, TreeInv, LevelInv, phase = "leaves"
  PROVE  UNION {RankBits(current, x) : x \in LeavesAt(lists, depth)}
           = BitsOf(LeafCallsAt(depth), RankSection(format))
<1>1. /\ depth \in LevelsOf(format) /\ IsFormat(format)
      /\ LevelIsHeld(format, lists, TheCalls, current, depth)
      /\ AreCalls(format, TheCalls, source)
      /\ TreeIsSound(format, <<>>, lists) /\ format.count \in Nat \ {0}
  <2>1. InLevel /\ phase # "tree"
    BY DEF InLevel
  <2>2. depth \in LevelsOf(format) /\ LevelIsHeld(format, lists, TheCalls, current, depth)
    BY <2>1 DEF LevelInv
  <2> QED
    BY <2>1, <2>2, TheLevel, TheCallsAre DEF CallIsValid
<1>2. ASSUME NEW x \in PartsAt(lists, depth), NEW k \in CallsAt(TheCalls, depth),
             Carries(format, current, x, TheCalls[k], depth)
      PROVE  /\ x \in LeavesAt(lists, depth) <=> k \in LeafCallsAt(depth)
             /\ x \in LeavesAt(lists, depth) =>
                  RankBits(current, x) = CallBits(TheCalls[k], format)[RankSection(format)]
  <2>1. /\ GoodCall(TheCalls[k], format) /\ TheCalls[k].count \in Nat /\ LeafSize \in Nat
        /\ x.count = TheCalls[k].count
    BY <1>1, <1>2, CallOfLevel DEF Carries, Answers
  <2>2. x \in LeavesAt(lists, depth) <=> x.count <= LeafSize
    BY <1>1, PartFacts
  <2> QED
    BY <1>1, <1>2, <2>1, <2>2, LeafWrites DEF LeafCallsAt
<1>3. \A x \in LeavesAt(lists, depth) : \E k \in LeafCallsAt(depth) :
        RankBits(current, x) = CallBits(TheCalls[k], format)[RankSection(format)]
  BY <1>1, <1>2 DEF LevelIsHeld, PartsAt
<1>4. \A k \in LeafCallsAt(depth) : \E x \in LeavesAt(lists, depth) :
        RankBits(current, x) = CallBits(TheCalls[k], format)[RankSection(format)]
  <2> SUFFICES ASSUME NEW k \in LeafCallsAt(depth)
               PROVE  \E x \in LeavesAt(lists, depth) :
                        RankBits(current, x) = CallBits(TheCalls[k], format)[RankSection(format)]
    OBVIOUS
  <2>1. k \in CallsAt(TheCalls, depth)
    BY DEF LeafCallsAt
  <2>2. PICK x \in PartsAt(lists, depth) : Carries(format, current, x, TheCalls[k], depth)
    BY <1>1, <2>1 DEF LevelIsHeld
  <2> QED
    BY <1>2, <2>1, <2>2
<1> QED
  BY <1>3, <1>4 DEF BitsOf

\* compact_encode_leaves adds the bits of the level's leaf calls.
LEMMA LeavesAdd ==
  ASSUME LeavesFit, CallIsValid, TreeInv, LevelInv, EncodeLeaves,
         bits = [s \in Sides |-> bits[s]]
  PROVE  /\ bits' = [s \in Sides |-> bits'[s]]
         /\ \A s \in Sides : bits'[s] = bits[s] \cup BitsOf(LeafCallsAt(depth), s)
<1> DEFINE set == UNION {RankBits(current, x) : x \in LeavesAt(lists, depth)}
           sec == RankSection(format)
<1>1. phase = "leaves" /\ phase # "tree" /\ InLevel /\ depth \in LevelsOf(format) /\ IsFormat(format)
      /\ AreCalls(format, TheCalls, source)
  BY TheCallsAre DEF EncodeLeaves, LevelInv, InLevel, CallIsValid
<1>2. EncodedLeaves = LeavesAt(lists, depth)
  BY <1>1, AllLeaves
<1>3. bits' = [bits EXCEPT ![sec] = @ \cup set]
  BY <1>2 DEF EncodeLeaves, RankBits
<1>4. set = BitsOf(LeafCallsAt(depth), sec)
  BY <1>1, LevelRanks
<1>5. sec \in Sides
  BY <1>1 DEF IsFormat, RankSection, Sides
<1>6. ASSUME NEW s \in Sides, s # sec PROVE BitsOf(LeafCallsAt(depth), s) = {}
  <2>1. ASSUME NEW k \in LeafCallsAt(depth) PROVE CallBits(TheCalls[k], format)[s] = {}
    <3>1. k \in CallsAt(TheCalls, depth) /\ TheCalls[k].count <= LeafSize
      BY DEF LeafCallsAt
    <3>2. GoodCall(TheCalls[k], format)
      BY <1>1, <3>1, CallOfLevel
    <3> QED
      BY <1>1, <1>6, <3>1, <3>2, OtherSections
  <2> QED
    BY <2>1 DEF BitsOf
<1> HIDE DEF set, sec
<1> DEFINE old == [s \in Sides |-> bits[s]]
<1>7. bits' = [old EXCEPT ![sec] = @ \cup set]
  BY <1>3
<1>8. DOMAIN old = Sides /\ \A s \in Sides : old[s] = bits[s]
  OBVIOUS
<1> HIDE DEF old
<1>9. bits'[sec] = bits[sec] \cup set /\ \A s \in Sides : s # sec => bits'[s] = bits[s]
  BY <1>5, <1>7, <1>8
<1>10. bits' = [s \in Sides |-> bits'[s]]
  BY <1>7, <1>8
<1> QED
  BY <1>4, <1>6, <1>9, <1>10

\* The bits that a node's threads set for its input and its output switches.
AsksAt(ch, x) == {j \in 0 .. x.count \div 2 - 1 : ch[x.offset + 2 * j].value # 0}
TellsAt(ch, inv, x) ==
  {j \in 0 .. x.count \div 2 - 1 : ch[x.offset + inv[x.offset + 2 * j].value].value # 0}
SetsIn(ch, x) == {DeviceSwitchBit(x.in, j, Wide) : j \in AsksAt(ch, x)}
SetsOut(ch, inv, x) == {DeviceSwitchBit(x.out, j, Wide) : j \in TellsAt(ch, inv, x)}

LEMMA ValueHeld ==
  ASSUME NEW b, NEW x, NEW g, NEW d, Holds(b, x, g, d), NEW i \in 0 .. x.count - 1
  PROVE  b[x.offset + i].value = g[i]
<1>1. b[x.offset + i] = [value |-> g[i], level |-> d]
  BY Zenon DEF Holds
<1> QED
  BY <1>1

\* A node's threads write the bits of its call.
LEMMA NodeSets ==
  ASSUME NEW form, IsFormat(form), NEW call, GoodCall(call, form), call.count > LeafSize,
         NEW b, NEW x, NEW d, Carries(form, b, x, call, d),
         NEW ch, Holds(ch, x, call.colors, d), NEW inv,
         Holds(inv, x, Node(call.count)!InverseOf(call.order), d),
         Wide \/ form.count <= UintMax \div 2
  PROVE  /\ SetsIn(ch, x) = CallBits(call, form).input
         /\ SetsOut(ch, inv, x) = CallBits(call, form).output
         /\ CallBits(call, form).middle = {}
<1> DEFINE n == call.count  I == Node(n)!InverseOf(call.order)  c == call.colors
           pairs == 0 .. n \div 2 - 1
<1>1. /\ n \in Nat \ {0} /\ call.order \in Orders(n) /\ c = Coloring(call.order, n)
      /\ x.count = n /\ LeafSize \in Nat
      /\ call.in.node = n /\ call.out.node = n /\ n \in Nat
  BY LeafSizes DEF Carries, Answers, GoodCall
<1>2. x.in = call.in /\ x.out = call.out
  <2>1. ~(x.count <= LeafSize)
    BY <1>1
  <2> QED
    BY <2>1 DEF Carries, Answers
<1>3. c \in [0 .. n - 1 -> {0, 1}]
  BY <1>1, ColoringFacts
<1>4. I \in [0 .. n - 1 -> 0 .. n - 1]
  BY <1>1, NodePermutations
<1>5. /\ CallBits(call, form).input = {SwitchBit(call.in, k) : k \in {j \in pairs : c[2 * j] = 1}}
      /\ CallBits(call, form).output = {SwitchBit(call.out, k) : k \in {j \in pairs : c[I[2 * j]] = 1}}
      /\ CallBits(call, form)["middle"] \subseteq Mine(call, "middle")
  BY NodeCall DEF Sides
<1>6. CallBits(call, form).middle = {}
  BY <1>5 DEF Mine
<1> HIDE DEF c, I
<1>7. \A j \in pairs : 2 * j \in 0 .. n - 1
  BY <1>1
<1>8. /\ \A i \in 0 .. n - 1 : ch[x.offset + i].value = c[i]
      /\ \A i \in 0 .. n - 1 : inv[x.offset + i].value = I[i]
  BY <1>1, ValueHeld DEF c, I
<1> HIDE DEF n
<1>9. AsksAt(ch, x) = {j \in pairs : c[2 * j] = 1}
  <2>1. AsksAt(ch, x) = {j \in pairs : ch[x.offset + 2 * j].value # 0}
    BY <1>1 DEF AsksAt
  <2>2. \A j \in pairs : ch[x.offset + 2 * j].value = c[2 * j] /\ c[2 * j] \in {0, 1}
    BY <1>3, <1>7, <1>8
  <2> HIDE DEF pairs
  <2> QED
    BY <2>1, <2>2
<1>10. TellsAt(ch, inv, x) = {j \in pairs : c[I[2 * j]] = 1}
  <2>1. TellsAt(ch, inv, x) =
          {j \in pairs : ch[x.offset + inv[x.offset + 2 * j].value].value # 0}
    BY <1>1 DEF TellsAt
  <2>2. ASSUME NEW j \in pairs
        PROVE  /\ ch[x.offset + inv[x.offset + 2 * j].value].value = c[I[2 * j]]
               /\ c[I[2 * j]] \in {0, 1}
    <3>1. 2 * j \in 0 .. n - 1
      BY <1>7
    <3>2. inv[x.offset + 2 * j].value = I[2 * j] /\ I[2 * j] \in 0 .. n - 1
      BY <1>4, <1>8, <3>1
    <3> QED
      BY <1>3, <1>8, <3>2
  <2> HIDE DEF pairs
  <2> QED
    BY <2>1, <2>2
<1>11. \A k \in pairs : /\ DeviceSwitchBit(call.in, k, Wide) = SwitchBit(call.in, k)
                      /\ DeviceSwitchBit(call.out, k, Wide) = SwitchBit(call.out, k)
  <2>1. /\ Fits(call.in, form.input) /\ Within(call.in, form.count) /\ call.in.node > LeafSize
        /\ Fits(call.out, form.output) /\ Within(call.out, form.count)
        /\ call.out.node > LeafSize
    BY <1>1 DEF GoodCall, n
  <2>2. /\ form.count \in Nat \ {0} /\ Wide \in BOOLEAN
        /\ ValidList(form.input) /\ SumOf(form.input) = RoutingDepth(form.count)
        /\ ValidList(form.output) /\ SumOf(form.output) = RoutingDepth(form.count)
    BY FormatLists DEF IsFormat, ClusterLists, Wide
  <2>3. HasRoom(call.in, Wide) /\ HasRoom(call.out, Wide)
    BY <2>1, <2>2, RoomForAll
  <2>4. IsAddress(call.in) /\ IsAddress(call.out) /\ \A k \in pairs : k \in Nat
    BY <2>1 DEF Fits
  <2> HIDE DEF pairs
  <2> QED
    BY <2>1, <2>2, <2>3, <2>4, DeviceBit
<1>14. AsksAt(ch, x) \subseteq pairs /\ TellsAt(ch, inv, x) \subseteq pairs
  BY <1>9, <1>10
<1> HIDE DEF pairs
<1>12. SetsIn(ch, x) = CallBits(call, form).input
  BY <1>2, <1>5, <1>9, <1>11, <1>14 DEF SetsIn
<1>13. SetsOut(ch, inv, x) = CallBits(call, form).output
  BY <1>2, <1>5, <1>10, <1>11, <1>14 DEF SetsOut
<1> QED
  BY <1>6, <1>12, <1>13

\* The threads of the level's nodes write the bits of its node calls.
LEMMA LevelSets ==
  ASSUME CallIsValid, TreeInv, LevelInv, phase = "pack"
  PROVE  /\ UNION {SetsIn(colors, x) : x \in NodesAt(lists, depth)}
              = BitsOf(NodeCallsAt(depth), "input")
         /\ UNION {SetsOut(colors, inverse, x) : x \in NodesAt(lists, depth)}
              = BitsOf(NodeCallsAt(depth), "output")
         /\ BitsOf(NodeCallsAt(depth), "middle") = {}
<1>1. /\ depth \in LevelsOf(format) /\ IsFormat(format)
      /\ LevelIsHeld(format, lists, TheCalls, current, depth)
      /\ AreCalls(format, TheCalls, source)
      /\ TreeIsSound(format, <<>>, lists) /\ format.count \in Nat \ {0}
      /\ InverseKnown /\ ColorsKnown(colors)
  <2>1. InLevel /\ phase # "tree"
    BY DEF InLevel
  <2>2. depth \in LevelsOf(format) /\ LevelIsHeld(format, lists, TheCalls, current, depth)
        /\ InverseKnown /\ ColorsKnown(colors)
    BY <2>1 DEF LevelInv
  <2> QED
    BY <2>1, <2>2, TheLevel, TheCallsAre DEF CallIsValid
<1>2. ASSUME NEW x \in PartsAt(lists, depth), NEW k \in CallsAt(TheCalls, depth),
             Carries(format, current, x, TheCalls[k], depth)
      PROVE  /\ x \in NodesAt(lists, depth) <=> k \in NodeCallsAt(depth)
             /\ x \in NodesAt(lists, depth) =>
                  /\ SetsIn(colors, x) = CallBits(TheCalls[k], format).input
                  /\ SetsOut(colors, inverse, x) = CallBits(TheCalls[k], format).output
                  /\ CallBits(TheCalls[k], format).middle = {}
  <2>1. /\ GoodCall(TheCalls[k], format) /\ TheCalls[k].count \in Nat /\ LeafSize \in Nat
        /\ x.count = TheCalls[k].count
    BY <1>1, <1>2, CallOfLevel DEF Carries, Answers
  <2>2. x \in NodesAt(lists, depth) <=> x.count > LeafSize
    <3>1. /\ x \in NodesAt(lists, depth) => x.count > LeafSize
          /\ x \in LeavesAt(lists, depth) => x.count <= LeafSize
          /\ x \in NodesAt(lists, depth) \/ x \in LeavesAt(lists, depth)
      BY <1>1, PartFacts
    <3> QED
      BY <2>1, <3>1
  <2>3. ASSUME x \in NodesAt(lists, depth)
        PROVE  /\ SetsIn(colors, x) = CallBits(TheCalls[k], format).input
               /\ SetsOut(colors, inverse, x) = CallBits(TheCalls[k], format).output
               /\ CallBits(TheCalls[k], format).middle = {}
    <3>1. Holds(colors, x, TheCalls[k].colors, depth)
      BY <1>1, <1>2, <2>3 DEF ColorsKnown
    <3>2. Holds(inverse, x, Node(TheCalls[k].count)!InverseOf(TheCalls[k].order), depth)
      BY <1>1, <1>2, <2>3 DEF InverseKnown
    <3>3. Wide \/ format.count <= UintMax \div 2
      BY PipelineAssumption DEF CallIsValid, Wide
    <3> QED
      BY <1>1, <1>2, <2>1, <2>2, <2>3, <3>1, <3>2, <3>3, NodeSets
  <2> QED
    BY <2>1, <2>2, <2>3 DEF NodeCallsAt
<1>3. \A x \in NodesAt(lists, depth) : \E k \in NodeCallsAt(depth) :
        /\ SetsIn(colors, x) = CallBits(TheCalls[k], format).input
        /\ SetsOut(colors, inverse, x) = CallBits(TheCalls[k], format).output
  BY <1>1, <1>2 DEF LevelIsHeld, PartsAt
<1>4. \A k \in NodeCallsAt(depth) :
        /\ CallBits(TheCalls[k], format).middle = {}
        /\ \E x \in NodesAt(lists, depth) :
             /\ SetsIn(colors, x) = CallBits(TheCalls[k], format).input
             /\ SetsOut(colors, inverse, x) = CallBits(TheCalls[k], format).output
  <2> SUFFICES ASSUME NEW k \in NodeCallsAt(depth)
               PROVE  /\ CallBits(TheCalls[k], format).middle = {}
                      /\ \E x \in NodesAt(lists, depth) :
                           /\ SetsIn(colors, x) = CallBits(TheCalls[k], format).input
                           /\ SetsOut(colors, inverse, x) = CallBits(TheCalls[k], format).output
    OBVIOUS
  <2>1. k \in CallsAt(TheCalls, depth)
    BY DEF NodeCallsAt
  <2>2. PICK x \in PartsAt(lists, depth) : Carries(format, current, x, TheCalls[k], depth)
    BY <1>1, <2>1 DEF LevelIsHeld
  <2> QED
    BY <1>2, <2>1, <2>2
<1>5. BitsOf(NodeCallsAt(depth), "middle") = {}
  BY <1>4 DEF BitsOf
<1>6. UNION {SetsIn(colors, x) : x \in NodesAt(lists, depth)} = BitsOf(NodeCallsAt(depth), "input")
  BY <1>3, <1>4 DEF BitsOf
<1>7. UNION {SetsOut(colors, inverse, x) : x \in NodesAt(lists, depth)}
        = BitsOf(NodeCallsAt(depth), "output")
  BY <1>3, <1>4 DEF BitsOf
<1> QED
  BY <1>5, <1>6, <1>7

\* compact_pack_switches adds the bits of the level's node calls.
LEMMA NodesAdd ==
  ASSUME CallIsValid, TreeInv, LevelInv, Pack, bits = [s \in Sides |-> bits[s]]
  PROVE  /\ bits' = [s \in Sides |-> bits'[s]]
         /\ \A s \in Sides : bits'[s] = bits[s] \cup BitsOf(NodeCallsAt(depth), s)
<1> DEFINE H == Handled(Level.maximumPairs)
           Nodes == NodesAt(lists, depth)
           handled == {e \in H : e.index < e.node.count \div 2}
           Even(e) == e.node.offset + 2 * e.index
           From(e) == e.node.offset + inverse[Even(e)].value
           ins == {DeviceSwitchBit(e.node.in, e.index, Wide) :
                     e \in {h \in handled : colors[Even(h)].value # 0}}
           outs == {DeviceSwitchBit(e.node.out, e.index, Wide) :
                      e \in {h \in handled : colors[From(h)].value # 0}}
<1>1. phase = "pack" /\ bits' = [bits EXCEPT !.input = @ \cup ins, !.output = @ \cup outs]
  BY SMTT(30) DEF Pack
<1>2. /\ TreeIsSound(format, <<>>, lists) /\ format.count \in Nat \ {0} /\ Nodes # {}
      /\ depth \in LevelsOf(format)
      /\ \A x \in Nodes : \A i \in 0 .. x.count \div 2 - 1 :
           [node |-> x, index |-> i] \in H
      /\ \A e \in H : e.node \in Nodes /\ e.index \in Nat
  BY <1>1, InsideLevel
<1>3. \A x \in Nodes : x.count \in Nat
  BY <1>2, PartFacts
<1> HIDE DEF H, Nodes
<1>4. \A e \in handled : e.node \in Nodes /\ e.index \in 0 .. e.node.count \div 2 - 1
  BY <1>2, <1>3
<1>5. \A x \in Nodes : \A i \in 0 .. x.count \div 2 - 1 : \E e \in handled : e.node = x /\ e.index = i
  <2> SUFFICES ASSUME NEW x \in Nodes, NEW i \in 0 .. x.count \div 2 - 1
               PROVE  \E e \in handled : e.node = x /\ e.index = i
    OBVIOUS
  <2> DEFINE e == [node |-> x, index |-> i]
  <2>1. e \in H /\ e.node = x /\ e.index = i
    BY <1>2
  <2>2. i < x.count \div 2
    BY <1>3
  <2> HIDE DEF e
  <2> QED
    BY <2>1, <2>2
<1> HIDE DEF handled
<1>6. ins = UNION {SetsIn(colors, x) : x \in Nodes}
  BY <1>4, <1>5 DEF SetsIn, AsksAt
<1>7. outs = UNION {SetsOut(colors, inverse, x) : x \in Nodes}
  BY <1>4, <1>5 DEF SetsOut, TellsAt
<1> HIDE DEF ins, outs
<1>8. /\ ins = BitsOf(NodeCallsAt(depth), "input") /\ outs = BitsOf(NodeCallsAt(depth), "output")
      /\ BitsOf(NodeCallsAt(depth), "middle") = {}
  BY <1>1, <1>6, <1>7, LevelSets DEF Nodes
<1> DEFINE old == [s \in Sides |-> bits[s]]
<1>9. bits' = [old EXCEPT !.input = @ \cup ins, !.output = @ \cup outs]
  BY <1>1
<1>10. DOMAIN old = Sides /\ \A s \in Sides : old[s] = bits[s]
  OBVIOUS
<1> HIDE DEF old
<1>11. /\ bits'["input"] = bits["input"] \cup ins /\ bits'["output"] = bits["output"] \cup outs
       /\ bits'["middle"] = bits["middle"]
  BY <1>9, <1>10 DEF Sides
<1>12. bits' = [s \in Sides |-> bits'[s]]
  BY <1>9, <1>10
<1> QED
  BY <1>8, <1>11, <1>12, SMTT(30) DEF Sides

\* The calls of the levels down to one.
Down(d) == {k \in DOMAIN TheCalls : k < PowerOfTwo[d]}

\* The calls whose bits are in the buffers.
DoneCalls ==
  CASE phase \in {"copy", "done"} -> DOMAIN TheCalls
    [] phase \in {"invert", "unite", "route", "pack"} ->
         Down(depth - 1) \cup LeafCallsAt(depth)
    [] phase \in {"tree", "leaves"} -> Down(depth - 1)

BitsInv ==
  /\ bits = [s \in Sides |-> bits[s]]
  /\ \A s \in Sides : bits[s] = BitsOf(DoneCalls, s)

FileInv ==
  phase = "done" =>
    \A s \in Sides : file[s] \cap (0 .. UsedBits(s) - 1) = bits[s] \cap (0 .. UsedBits(s) - 1)

LEMMA DownNext ==
  ASSUME CallIsValid, NEW d \in Nat \ {0}
  PROVE  /\ Down(d) = Down(d - 1) \cup CallsAt(TheCalls, d)
         /\ CallsAt(TheCalls, d) = LeafCallsAt(d) \cup NodeCallsAt(d)
         /\ Down(0) = {} /\ DOMAIN TheCalls \subseteq Nat \ {0}
<1>1. AreCalls(format, TheCalls, source)
  BY TheCallsAre
<1>2. DOMAIN TheCalls \subseteq Nat \ {0}
  BY <1>1 DEF AreCalls, IsTree
<1>3. /\ d - 1 \in Nat /\ PowerOfTwo[d - 1] \in Nat \ {0}
      /\ PowerOfTwo[(d - 1) + 1] = 2 * PowerOfTwo[d - 1] /\ (d - 1) + 1 = d
  BY PowerFacts
<1>4. PowerOfTwo[d] = 2 * PowerOfTwo[d - 1]
  BY <1>3
<1> DEFINE w == PowerOfTwo[d - 1]
<1>5. /\ Down(d) = {k \in DOMAIN TheCalls : k < 2 * w}
      /\ Down(d - 1) = {k \in DOMAIN TheCalls : k < w}
      /\ CallsAt(TheCalls, d) = {k \in DOMAIN TheCalls : w <= k /\ k < 2 * w}
      /\ w \in Nat \ {0}
  BY <1>3, <1>4 DEF Down, CallsAt
<1> HIDE DEF w
<1>6. Down(d) = Down(d - 1) \cup CallsAt(TheCalls, d)
  BY <1>2, <1>5
<1>7. ASSUME NEW k \in CallsAt(TheCalls, d)
      PROVE  k \in LeafCallsAt(d) \/ k \in NodeCallsAt(d)
  <2>1. TheCalls[k].count \in Nat /\ LeafSize \in Nat
    BY <1>1, CallOfLevel
  <2> QED
    BY <2>1 DEF LeafCallsAt, NodeCallsAt
<1>8. CallsAt(TheCalls, d) = LeafCallsAt(d) \cup NodeCallsAt(d)
  BY <1>7 DEF LeafCallsAt, NodeCallsAt
<1>9. Down(0) = {}
  BY <1>2, PowerFacts DEF Down
<1> QED
  BY <1>2, <1>6, <1>8, <1>9

\* When a level has no calls, no deeper one has.
LEMMA NoDeeper ==
  ASSUME CallIsValid, NEW d \in Nat \ {0}, CallsAt(TheCalls, d + 1) = {}
  PROVE  DOMAIN TheCalls = Down(d)
<1> DEFINE D == DOMAIN TheCalls  w == PowerOfTwo[d]
           S == {n \in Nat : \A k \in D : k <= n => k < w}
<1>1. AreCalls(format, TheCalls, source)
  BY TheCallsAre
<1>2. D \subseteq Nat \ {0} /\ \A k \in D : k = 1 \/ k \div 2 \in D
  BY <1>1 DEF AreCalls, IsTree
<1>3. w \in Nat \ {0} /\ w > 1 /\ PowerOfTwo[d + 1] = 2 * w
  <2>1. d - 1 \in Nat /\ (d - 1) + 1 = d /\ d \in Nat
    OBVIOUS
  <2>2. PowerOfTwo[(d - 1) + 1] = 2 * PowerOfTwo[d - 1] /\ PowerOfTwo[d - 1] \in Nat \ {0}
    BY <2>1, PowerFacts
  <2>3. PowerOfTwo[d + 1] = 2 * PowerOfTwo[d] /\ PowerOfTwo[d] \in Nat \ {0}
    BY <2>1, PowerFacts
  <2> QED
    BY <2>1, <2>2, <2>3
<1>4. \A k \in D : ~(w <= k /\ k < 2 * w)
  BY <1>3 DEF CallsAt
<1> HIDE DEF D, w
<1>5. 0 \in S
  BY <1>2
<1>6. \A n \in Nat : n \in S => n + 1 \in S
  <2> SUFFICES ASSUME NEW n \in Nat, n \in S, NEW k \in D, k <= n + 1
               PROVE  k < w
    OBVIOUS
  <2>1. CASE k = 1
    BY <1>3, <2>1
  <2>2. CASE k # 1
    <3>1. k \div 2 \in D /\ k \in Nat \ {0, 1}
      BY <1>2, <2>2
    <3>2. k \div 2 <= n
      BY <3>1
    <3>3. k \div 2 < w
      BY <3>1, <3>2
    <3>4. k < 2 * w
      BY <1>3, <3>1, <3>3
    <3> QED
      BY <1>3, <1>4, <3>1, <3>4
  <2> QED
    BY <2>1, <2>2
<1> HIDE DEF S
<1>7. Nat \subseteq S
  BY <1>5, <1>6, Induction
<1>8. \A k \in D : k < w
  BY <1>2, <1>7 DEF S
<1> QED
  BY <1>8 DEF Down, D, w

LEMMA JoinedBits ==
  ASSUME NEW K, NEW M, NEW s
  PROVE  BitsOf(K \cup M, s) = BitsOf(K, s) \cup BitsOf(M, s)
BY DEF BitsOf

LEMMA BitsSame ==
  ASSUME BitsInv, UNCHANGED <<format, source, bits>>, DoneCalls' = DoneCalls
  PROVE  BitsInv'
<1>1. TheCalls' = TheCalls
  BY DEF TheCalls
<1>2. \A s : BitsOf(DoneCalls, s)' = BitsOf(DoneCalls, s)
  BY <1>1 DEF BitsOf
<1> QED
  BY <1>2 DEF BitsInv

LEMMA BitsMore ==
  ASSUME BitsInv, UNCHANGED <<format, source>>, NEW K, DoneCalls' = DoneCalls \cup K,
         bits' = [s \in Sides |-> bits'[s]],
         \A s \in Sides : bits'[s] = bits[s] \cup BitsOf(K, s)
  PROVE  BitsInv'
<1>1. TheCalls' = TheCalls
  BY DEF TheCalls
<1>2. ASSUME NEW s \in Sides PROVE bits'[s] = BitsOf(DoneCalls, s)'
  <2>1. bits'[s] = BitsOf(DoneCalls \cup K, s)
    <3>1. bits[s] = BitsOf(DoneCalls, s)
      BY DEF BitsInv
    <3>2. bits'[s] = bits[s] \cup BitsOf(K, s)
      BY Zenon
    <3>3. BitsOf(DoneCalls \cup K, s) = BitsOf(DoneCalls, s) \cup BitsOf(K, s)
      BY JoinedBits
    <3> QED
      BY <3>1, <3>2, <3>3
  <2>2. BitsOf(DoneCalls, s)' = BitsOf(DoneCalls \cup K, s)
    BY <1>1 DEF BitsOf
  <2> QED
    BY <2>1, <2>2
<1> QED
  BY <1>2 DEF BitsInv

LEMMA FirstBits ==
  ASSUME PipelineInit, CallIsValid
  PROVE  BitsInv /\ FileInv
<1>1. phase = "tree" /\ depth = 1 /\ bits = Blank
  BY DEF PipelineInit
<1>2. DoneCalls = {}
  <2>1. DoneCalls = Down(0)
    BY <1>1 DEF DoneCalls
  <2>2. 1 \in Nat \ {0}
    OBVIOUS
  <2> QED
    BY <2>1, <2>2, DownNext
<1>3. \A s : BitsOf(DoneCalls, s) = {}
  BY <1>2 DEF BitsOf
<1>4. bits = [s \in Sides |-> {}]
  BY <1>1 DEF Blank, Sides
<1> QED
  BY <1>1, <1>3, <1>4 DEF BitsInv, FileInv

LEMMA EncodeLeavesBits ==
  ASSUME LeavesFit, CallIsValid, TreeInv, LevelInv, BitsInv, EncodeLeaves
  PROVE  BitsInv'
<1>1. /\ phase = "leaves" /\ UNCHANGED <<format, source>> /\ UNCHANGED <<lists, current, next>>
      /\ phase' = CASE Level.nodeCount # 0 -> "invert"
                    [] Level.nodeCount = 0 /\ depth < Len(tree.levels) -> "leaves"
                    [] OTHER -> "copy"
      /\ depth' = IF phase' = "leaves" THEN depth + 1 ELSE depth
  BY DEF EncodeLeaves, lastingVars, treeVars
<1>2. /\ depth \in LevelsOf(format) /\ LevelIsHeld(format, lists, TheCalls, current, depth)
      /\ AreCalls(format, TheCalls, source) /\ TheCalls' = TheCalls /\ IsFormat(format)
  BY <1>1, TheCallsAre DEF LevelInv, InLevel, TheCalls, CallIsValid
<1>3. /\ TreeIsSound(format, <<>>, lists)
      /\ (Level.nodeCount = 0 <=> NodesAt(lists, depth) = {})
  BY <1>1, <1>2, TheLevel
<1>4. depth \in Nat \ {0}
  BY <1>2 DEF LevelsOf
<1>5. /\ Down(depth) = Down(depth - 1) \cup CallsAt(TheCalls, depth)
      /\ CallsAt(TheCalls, depth) = LeafCallsAt(depth) \cup NodeCallsAt(depth)
  BY <1>4, DownNext
<1>6. DoneCalls = Down(depth - 1)
  BY <1>1 DEF DoneCalls
<1>7. \A d : Down(d)' = {k \in DOMAIN TheCalls : k < PowerOfTwo[d']}
  BY <1>2 DEF Down
<1>8. ASSUME Level.nodeCount = 0 PROVE CallsAt(TheCalls, depth) = LeafCallsAt(depth)
  <2>1. \A k \in CallsAt(TheCalls, depth) : TheCalls[k].count <= LeafSize
    BY <1>2, <1>3, <1>8, NothingBelow
  <2> QED
    BY <2>1 DEF LeafCallsAt
<1>9. DoneCalls' = DoneCalls \cup LeafCallsAt(depth)
  <2>1. CASE Level.nodeCount # 0
    <3>1. phase' = "invert" /\ depth' = depth
      BY <1>1, <2>1
    <3>2. DoneCalls' = Down(depth - 1)' \cup LeafCallsAt(depth)'
      BY <3>1 DEF DoneCalls
    <3>3. Down(depth - 1)' = Down(depth - 1) /\ LeafCallsAt(depth)' = LeafCallsAt(depth)
      BY <1>2, <3>1 DEF Down, LeafCallsAt
    <3> QED
      BY <1>6, <3>2, <3>3
  <2>2. CASE Level.nodeCount = 0 /\ depth < Len(tree.levels)
    <3>1. phase' = "leaves" /\ depth' = depth + 1
      BY <1>1, <2>2
    <3>2. DoneCalls' = Down(depth - 1)'
      BY <3>1 DEF DoneCalls
    <3>3. Down(depth - 1)' = Down(depth)
      <4>1. depth' - 1 = depth
        BY <1>4, <3>1
      <4> QED
        BY <1>2, <4>1 DEF Down
    <3> QED
      BY <1>5, <1>6, <1>8, <2>2, <3>2, <3>3
  <2>3. CASE Level.nodeCount = 0 /\ ~(depth < Len(tree.levels))
    <3>1. phase' = "copy" /\ depth' = depth
      BY <1>1, <2>3
    <3>2. DoneCalls' = DOMAIN TheCalls
      BY <1>2, <3>1 DEF DoneCalls
    <3>3. CallsAt(TheCalls, depth + 1) = {}
      BY <1>2, <1>3, <2>3, NothingBelow
    <3>4. DOMAIN TheCalls = Down(depth)
      BY <1>4, <3>3, NoDeeper
    <3> QED
      BY <1>5, <1>6, <1>8, <2>3, <3>2, <3>4
  <2> QED
    BY <2>1, <2>2, <2>3
<1>10. bits = [s \in Sides |-> bits[s]]
  BY DEF BitsInv
<1>11. /\ bits' = [s \in Sides |-> bits'[s]]
       /\ \A s \in Sides : bits'[s] = bits[s] \cup BitsOf(LeafCallsAt(depth), s)
  BY <1>10, LeavesAdd
<1> QED
  BY <1>1, <1>9, <1>11, BitsMore

LEMMA PackBits ==
  ASSUME CallIsValid, TreeInv, LevelInv, BitsInv, Pack
  PROVE  BitsInv'
<1>1. /\ phase = "pack" /\ UNCHANGED <<format, source>>
      /\ phase' = "leaves" /\ depth' = depth + 1
  BY DEF Pack, lastingVars
<1>2. depth \in Nat \ {0} /\ TheCalls' = TheCalls
  BY <1>1 DEF LevelInv, InLevel, LevelsOf, TheCalls
<1>3. /\ Down(depth) = Down(depth - 1) \cup CallsAt(TheCalls, depth)
      /\ CallsAt(TheCalls, depth) = LeafCallsAt(depth) \cup NodeCallsAt(depth)
  BY <1>2, DownNext
<1>4. DoneCalls = Down(depth - 1) \cup LeafCallsAt(depth)
  BY <1>1 DEF DoneCalls
<1>5. DoneCalls' = Down(depth)
  <2>1. DoneCalls' = Down(depth - 1)'
    BY <1>1 DEF DoneCalls
  <2>2. depth' - 1 = depth
    BY <1>1, <1>2
  <2> QED
    BY <1>2, <2>1, <2>2 DEF Down
<1>6. DoneCalls' = DoneCalls \cup NodeCallsAt(depth)
  BY <1>3, <1>4, <1>5
<1>7. bits = [s \in Sides |-> bits[s]]
  BY DEF BitsInv
<1>8. /\ bits' = [s \in Sides |-> bits'[s]]
      /\ \A s \in Sides : bits'[s] = bits[s] \cup BitsOf(NodeCallsAt(depth), s)
  BY <1>7, NodesAdd
<1> QED
  BY <1>1, <1>6, <1>8, BitsMore

LEMMA OtherBits ==
  ASSUME CallIsValid, TreeInv, LevelInv, BitsInv,
         ListLeaf \/ ListNode \/ LinkLevel \/ Invert \/ Unite \/ Route \/ Copy
           \/ UNCHANGED pipelineVars
  PROVE  BitsInv'
<1>1. UNCHANGED <<format, source, bits>> /\ UNCHANGED depth
  <2>1. CASE ListLeaf BY <2>1, SMTT(30) DEF ListLeaf, lastingVars
  <2>2. CASE ListNode BY <2>2 DEF ListNode, lastingVars
  <2>3. CASE LinkLevel BY <2>3 DEF LinkLevel, lastingVars
  <2>4. CASE Invert BY <2>4 DEF Invert, lastingVars
  <2>5. CASE Unite BY <2>5 DEF Unite, lastingVars
  <2>6. CASE Route BY <2>6 DEF Route, lastingVars
  <2>7. CASE Copy BY <2>7 DEF Copy, lastingVars
  <2>8. CASE UNCHANGED pipelineVars BY <2>8 DEF pipelineVars, lastingVars
  <2> QED
    BY <2>1, <2>2, <2>3, <2>4, <2>5, <2>6, <2>7, <2>8
<1>2. \/ phase \in {"tree", "leaves"} /\ phase' \in {"tree", "leaves"}
      \/ phase \in {"invert", "unite", "route", "pack"}
           /\ phase' \in {"invert", "unite", "route", "pack"}
      \/ phase \in {"copy", "done"} /\ phase' \in {"copy", "done"}
  <2>1. CASE ListLeaf BY <2>1 DEF ListLeaf
  <2>2. CASE ListNode BY <2>2 DEF ListNode
  <2>3. CASE LinkLevel BY <2>3 DEF LinkLevel
  <2>4. CASE Invert BY <2>4 DEF Invert
  <2>5. CASE Unite BY <2>5 DEF Unite
  <2>6. CASE Route BY <2>6 DEF Route
  <2>7. CASE Copy BY <2>7 DEF Copy
  <2>8. CASE UNCHANGED pipelineVars BY <2>8 DEF pipelineVars, LevelInv
  <2> QED
    BY <2>1, <2>2, <2>3, <2>4, <2>5, <2>6, <2>7, <2>8
<1>3. TheCalls' = TheCalls
  BY <1>1 DEF TheCalls
<1>4. /\ Down(depth - 1)' = Down(depth - 1) /\ LeafCallsAt(depth)' = LeafCallsAt(depth)
      /\ (DOMAIN TheCalls)' = DOMAIN TheCalls
  BY <1>1, <1>3 DEF Down, LeafCallsAt
<1>5. DoneCalls' = DoneCalls
  <2>1. CASE phase \in {"tree", "leaves"} /\ phase' \in {"tree", "leaves"}
    <3>1. DoneCalls = Down(depth - 1) /\ DoneCalls' = Down(depth - 1)'
      BY <2>1 DEF DoneCalls
    <3> QED BY <3>1, <1>4
  <2>2. CASE phase \in {"invert", "unite", "route", "pack"}
               /\ phase' \in {"invert", "unite", "route", "pack"}
    <3>1. /\ DoneCalls = Down(depth - 1) \cup LeafCallsAt(depth)
          /\ DoneCalls' = Down(depth - 1)' \cup LeafCallsAt(depth)'
      BY <2>2 DEF DoneCalls
    <3> QED BY <3>1, <1>4
  <2>3. CASE phase \in {"copy", "done"} /\ phase' \in {"copy", "done"}
    <3>1. DoneCalls = DOMAIN TheCalls /\ DoneCalls' = (DOMAIN TheCalls)'
      BY <2>3 DEF DoneCalls
    <3> QED BY <3>1, <1>4
  <2> QED
    BY <1>2, <2>1, <2>2, <2>3
<1> QED
  BY <1>1, <1>5, BitsSame

LEMMA BitsStay ==
  LeavesFit /\ PipelineInv /\ BitsInv /\ [PipelineNext]_pipelineVars => BitsInv'
<1> SUFFICES ASSUME LeavesFit, CallIsValid, TreeInv, LevelInv, BitsInv,
                    [PipelineNext]_pipelineVars
             PROVE  BitsInv'
  BY DEF PipelineInv
<1>1. CASE EncodeLeaves
  BY <1>1, EncodeLeavesBits
<1>2. CASE Pack
  BY <1>2, PackBits
<1>3. CASE ListLeaf \/ ListNode \/ LinkLevel \/ Invert \/ Unite \/ Route \/ Copy
           \/ UNCHANGED pipelineVars
  BY <1>3, OtherBits
<1> QED
  BY <1>1, <1>2, <1>3 DEF PipelineNext

\* What a section uses is both in its buffer and copied.
LEMMA SectionSizes ==
  ASSUME CallIsValid, NEW s \in Sides
  PROVE  /\ UsedBits(s) \in Nat /\ BufferBits(s) \in Nat /\ CopiedBits(s) \in Nat
         /\ UsedBits(s) <= BufferBits(s) /\ UsedBits(s) <= CopiedBits(s)
<1> DEFINE S == SwitchBits(format.count)  M == MiddleBits(format.count)
           X == IF RankSection(format) = s THEN M ELSE 0
<1>1. format.count \in Nat
  BY DEF CallIsValid, IsFormat
<1>2. S \in Nat /\ M \in Nat
  BY <1>1, SwitchBitsFacts, MiddleBitsFacts
<1>3. \A n \in Nat : /\ ((n + 31) \div 32) * 32 \in Nat /\ n <= ((n + 31) \div 32) * 32
                     /\ Rounded(n) \in Nat /\ n <= Rounded(n)
  BY DEF Rounded
<1>4. /\ UsedBits(s) = (IF s = "middle" THEN 0 ELSE S) + X
      /\ CopiedBits(s) = (IF s = "middle" THEN 0 ELSE Rounded(S))
                           + IF RankSection(format) = s THEN Rounded(M) ELSE 0
  BY <1>2 DEF UsedBits, CopiedBits
<1>5. BufferBits(s) = ((UsedBits(s) + 31) \div 32) * 32
  BY DEF BufferBits
<1> HIDE DEF S, M
<1>6. UsedBits(s) \in Nat
  BY <1>2, <1>4
<1>7. BufferBits(s) \in Nat /\ UsedBits(s) <= BufferBits(s)
  BY <1>3, <1>5, <1>6
<1>8. Rounded(S) \in Nat /\ S <= Rounded(S) /\ Rounded(M) \in Nat /\ M <= Rounded(M)
  BY <1>2, <1>3
<1>9. CopiedBits(s) \in Nat /\ UsedBits(s) <= CopiedBits(s)
  BY <1>2, <1>4, <1>8
<1> QED
  BY <1>6, <1>7, <1>9

\* The copy keeps what the sections use.
LEMMA CopyFile ==
  ASSUME CallIsValid, Copy
  PROVE  FileInv'
<1>1. UNCHANGED <<format, bits>>
  BY DEF Copy, lastingVars
<1>2. PICK beyond \in {<<>>} \cup {<<s, b>> : s \in SectionNames, b \in 0 .. 7} :
        file' = [s \in SectionNames |->
            {b \in bits[s] : b < CopiedBits(s)} \cup
            IF beyond # <<>> /\ beyond[1] = s
            THEN {BufferBits(s) + beyond[2]} ELSE {}]
  BY DEF Copy
<1>3. beyond # <<>> => beyond[2] \in 0 .. 7
  BY <1>2
<1>4. ASSUME NEW s \in Sides
      PROVE  file'[s] \cap (0 .. UsedBits(s) - 1) = bits[s] \cap (0 .. UsedBits(s) - 1)
  <2> DEFINE extra == IF beyond # <<>> /\ beyond[1] = s
                      THEN {BufferBits(s) + beyond[2]} ELSE {}
  <2>1. s \in SectionNames
    BY DEF Sides, SectionNames
  <2>2. file'[s] = {b \in bits[s] : b < CopiedBits(s)} \cup extra
    BY <1>2, <2>1
  <2>3. /\ UsedBits(s) \in Nat /\ BufferBits(s) \in Nat /\ CopiedBits(s) \in Nat
        /\ UsedBits(s) <= BufferBits(s) /\ UsedBits(s) <= CopiedBits(s)
    BY SectionSizes
  <2>4. extra \cap (0 .. UsedBits(s) - 1) = {}
    BY <1>3, <2>3
  <2> HIDE DEF extra
  <2> QED
    BY <2>2, <2>3, <2>4
<1>5. \A s : UsedBits(s)' = UsedBits(s)
  BY <1>1 DEF UsedBits
<1> QED
  BY <1>1, <1>4, <1>5 DEF FileInv

LEMMA FileStays ==
  PipelineInv /\ FileInv /\ [PipelineNext]_pipelineVars => FileInv'
<1> SUFFICES ASSUME PipelineInv, FileInv, [PipelineNext]_pipelineVars PROVE FileInv'
  OBVIOUS
<1>1. CASE Copy
  BY <1>1, CopyFile DEF PipelineInv
<1>2. CASE UNCHANGED pipelineVars
  <2>1. UNCHANGED <<phase, format, bits, file>>
    BY <1>2 DEF pipelineVars, lastingVars
  <2>2. \A s : UsedBits(s)' = UsedBits(s)
    BY <2>1 DEF UsedBits
  <2> QED
    BY <2>1, <2>2 DEF FileInv
<1>3. ASSUME ListLeaf \/ ListNode \/ LinkLevel \/ EncodeLeaves \/ Invert \/ Unite \/ Route \/ Pack
      PROVE  FileInv'
  <2>1. phase' # "done"
    <3>1. CASE ListLeaf BY <3>1 DEF ListLeaf
    <3>2. CASE ListNode BY <3>2 DEF ListNode
    <3>3. CASE LinkLevel BY <3>3 DEF LinkLevel
    <3>4. CASE EncodeLeaves BY <3>4 DEF EncodeLeaves
    <3>5. CASE Invert BY <3>5 DEF Invert
    <3>6. CASE Unite BY <3>6 DEF Unite
    <3>7. CASE Route BY <3>7 DEF Route
    <3>8. CASE Pack BY <3>8 DEF Pack
    <3> QED
      BY <1>3, <3>1, <3>2, <3>3, <3>4, <3>5, <3>6, <3>7, <3>8
  <2> QED
    BY <2>1 DEF FileInv
<1> QED
  BY <1>1, <1>2, <1>3 DEF PipelineNext

\* All calls write within what belongs to the first.
LEMMA CallsWithin ==
  ASSUME CallIsValid, NEW s \in Sides, NEW k \in DOMAIN TheCalls
  PROVE  Space(TheCalls[k], s) \subseteq Space(TheCalls[1], s)
<1> DEFINE D == DOMAIN TheCalls  Of(j) == Space(TheCalls[j], s)
           S == {n \in Nat : \A j \in D : j <= n => Of(j) \subseteq Of(1)}
<1>1. IsTree(TheCalls, format) /\ IsFormat(format)
  BY TheCallsAre DEF AreCalls, CallIsValid
<1>2. D \subseteq Nat \ {0} /\ \A j \in D : j = 1 \/ j \div 2 \in D
  BY <1>1 DEF IsTree
<1>3. ASSUME NEW j \in D, j # 1 PROVE j \div 2 \in D /\ Of(j) \subseteq Of(j \div 2)
  <2> DEFINE i == j \div 2
  <2>1. i \in D /\ j \in Nat /\ i \in Nat
    BY <1>2, <1>3
  <2>2. j = 2 * i \/ j = 2 * i + 1
    BY <2>1
  <2> HIDE DEF i
  <2>3. 2 * i \in D
    BY <1>1, <1>3, <2>1, <2>2 DEF IsTree
  <2>4. /\ GoodCall(TheCalls[i], format) /\ TheCalls[i].count > LeafSize
        /\ TheCalls[2 * i] = ChildCall(TheCalls[i], FALSE)
        /\ TheCalls[2 * i + 1] = ChildCall(TheCalls[i], TRUE)
    BY <1>1, <2>1, <2>3 DEF IsTree
  <2>5. InThree(Space(TheCalls[i], s), Mine(TheCalls[i], s),
                Space(ChildCall(TheCalls[i], FALSE), s), Space(ChildCall(TheCalls[i], TRUE), s))
    BY <1>1, <2>4, SpaceSplits
  <2>6. Of(2 * i) \subseteq Of(i) /\ Of(2 * i + 1) \subseteq Of(i)
    BY <2>4, <2>5 DEF InThree
  <2>7. Of(j) \subseteq Of(i)
    BY <2>2, <2>6
  <2> QED
    BY <2>1, <2>7 DEF i
<1> HIDE DEF D, Of
<1>4. 0 \in S
  BY <1>2
<1>5. \A n \in Nat : n \in S => n + 1 \in S
  <2> SUFFICES ASSUME NEW n \in Nat, n \in S, NEW j \in D, j <= n + 1
               PROVE  Of(j) \subseteq Of(1)
    OBVIOUS
  <2>1. CASE j = 1
    BY <2>1
  <2>2. CASE j # 1
    <3>1. j \div 2 \in D /\ Of(j) \subseteq Of(j \div 2) /\ j \in Nat \ {0, 1}
      BY <1>2, <1>3, <2>2
    <3>2. j \div 2 <= n
      BY <3>1
    <3> QED
      BY <3>1, <3>2
  <2> QED
    BY <2>1, <2>2
<1> HIDE DEF S
<1>6. Nat \subseteq S
  BY <1>4, <1>5, Induction
<1> QED
  BY <1>2, <1>6 DEF S, D, Of

LEMMA CallWithin ==
  ASSUME CallIsValid, NEW s \in Sides, NEW k \in DOMAIN TheCalls
  PROVE  /\ CallBits(TheCalls[k], format)[s] \subseteq Space(TheCalls[k], s)
         /\ s = "middle" /\ RankSection(format) # "middle"
              => CallBits(TheCalls[k], format)[s] = {}
<1>1. IsTree(TheCalls, format) /\ IsFormat(format)
  BY TheCallsAre DEF AreCalls, CallIsValid
<1>2. /\ GoodCall(TheCalls[k], format) /\ TheCalls[k].count \in Nat /\ LeafSize \in Nat
  BY <1>1, TreeFacts
<1> DEFINE call == TheCalls[k]
<1>3. CASE call.count <= LeafSize
  BY <1>1, <1>2, <1>3, LeafCall, OtherSections
<1>4. CASE call.count > LeafSize
  <2>1. /\ CallBits(call, format)[s] \subseteq Mine(call, s)
        /\ InThree(Space(call, s), Mine(call, s),
                   Space(ChildCall(call, FALSE), s), Space(ChildCall(call, TRUE), s))
    BY <1>1, <1>2, <1>4, NodeCall, SpaceSplits
  <2>2. s = "middle" => Mine(call, s) = {}
    BY DEF Mine
  <2> QED
    BY <2>1, <2>2 DEF InThree
<1> QED
  BY <1>2, <1>3, <1>4

\* The first call's space is what the section uses.
LEMMA RootSpace ==
  ASSUME CallIsValid, NEW s \in Sides, s # "middle" \/ RankSection(format) = "middle"
  PROVE  Space(TheCalls[1], s) = 0 .. UsedBits(s) - 1
<1> DEFINE call == TheCalls[1]  n == format.count
<1>1. call = RootCall(source, format) /\ IsFormat(format)
  BY TheCallsAre DEF AreCalls, CallIsValid
<1>2. /\ call.count = n /\ call.in = RootOf(format, format.input, "input")
      /\ call.out = RootOf(format, format.output, "output") /\ call.middle = 0
  BY <1>1, CallIs DEF RootCall
<1>3. n \in Nat
  BY <1>1 DEF IsFormat
<1>4. MiddleBits(n) \in Nat /\ SwitchBits(n) \in Nat
  BY <1>3, SwitchBitsFacts, MiddleBitsFacts
<1>5. ASSUME NEW list \in ClusterLists(RoutingDepth(n)), NEW side \in {"input", "output"}
      PROVE  Region(RootOf(format, list, side)) = 0 .. UsedBits(side) - 1
  <2> DEFINE e == (format.placement = side)  a == RootAddress(n, list, e)
  <2>1. e \in BOOLEAN /\ a = RootOf(format, list, side)
    BY DEF RootOf
  <2>2. a.embeds = e /\ Region(a) = 0 .. SectionBits(a, n) - 1
    BY <1>3, <2>1, RootFits
  <2>3. RankSection(format) = side <=> format.placement = side
    BY <1>1 DEF RankSection, IsFormat
  <2>4. SectionBits(a, n) = UsedBits(side)
    <3>1. SectionBits(a, n) = SwitchBits(n) + IF a.embeds THEN MiddleBits(n) ELSE 0
      BY DEF SectionBits
    <3>2. UsedBits(side) = SwitchBits(n) + IF RankSection(format) = side THEN MiddleBits(n) ELSE 0
      BY DEF UsedBits
    <3> HIDE DEF a
    <3> QED
      BY <2>2, <2>3, <3>1, <3>2
  <2> HIDE DEF a
  <2> QED
    BY <2>1, <2>2, <2>4
<1> HIDE DEF call
<1>6. CASE s = "input"
  BY <1>1, <1>2, <1>5, <1>6 DEF Space, IsFormat, call
<1>7. CASE s = "output"
  BY <1>1, <1>2, <1>5, <1>7 DEF Space, IsFormat, call
<1>8. CASE s = "middle"
  <2>1. UsedBits(s) = MiddleBits(n)
    BY <1>8 DEF UsedBits
  <2>2. Space(call, s) = call.middle .. call.middle + MiddleBits(call.count) - 1
    BY <1>8 DEF Space
  <2> QED
    BY <1>2, <1>4, <2>1, <2>2 DEF call
<1> QED
  BY <1>6, <1>7, <1>8 DEF Sides

\* The portable encoder's bits: those of all calls, within what is used.
LEMMA EncodedIs ==
  ASSUME CallIsValid, NEW s \in Sides
  PROVE  /\ Encoded(source, format)[s] = BitsOf(DOMAIN TheCalls, s)
         /\ BitsOf(DOMAIN TheCalls, s) \subseteq 0 .. UsedBits(s) - 1
<1>1. Encoded(source, format)[s] = BitsOf(DOMAIN TheCalls, s)
  <2> DEFINE all == AllCalls(source, format)
  <2>1. /\ DOMAIN all = DOMAIN TheCalls
        /\ \A j \in DOMAIN TheCalls : all[j].bits = CallBits(TheCalls[j], format)
    BY DEF AllCalls, TheCalls
  <2>2. s \in DOMAIN Blank
    BY DEF Blank, Sides
  <2>3. Encoded(source, format)[s] = UNION {all[j].bits[s] : j \in DOMAIN all}
    BY <2>2 DEF Encoded
  <2> HIDE DEF all
  <2> QED
    BY <2>1, <2>3 DEF BitsOf
<1>2. CASE s # "middle" \/ RankSection(format) = "middle"
  <2>1. \A k \in DOMAIN TheCalls : CallBits(TheCalls[k], format)[s] \subseteq 0 .. UsedBits(s) - 1
    BY <1>2, CallWithin, CallsWithin, RootSpace
  <2> QED
    BY <1>1, <2>1 DEF BitsOf
<1>3. CASE s = "middle" /\ RankSection(format) # "middle"
  <2>1. \A k \in DOMAIN TheCalls : CallBits(TheCalls[k], format)[s] = {}
    BY <1>3, CallWithin
  <2> QED
    BY <1>1, <2>1 DEF BitsOf
<1> QED
  BY <1>2, <1>3

\* For every size, format, permutation and host, when the lanes of a level can be
\* counted: wherever a section uses its bits, the device's file has those of the
\* portable encoder.
THEOREM UsedBitsAlwaysCanonical ==
  ASSUME LeavesFit
  PROVE  PipelineSpec => []UsedBitsAreCanonical
<1> DEFINE Good == PipelineInv /\ BitsInv /\ FileInv
<1>1. PipelineInit => Good
  <2>1. PipelineInit => CallIsValid /\ TreeInv /\ LevelInv
    BY FirstState, FirstLevelInv
  <2> QED
    BY <2>1, FirstBits DEF PipelineInv
<1>2. Good /\ [PipelineNext]_pipelineVars => Good'
  <2>1. PipelineInv /\ [PipelineNext]_pipelineVars => PipelineInv'
    BY CallStays, TreeStays, LevelStays DEF PipelineInv
  <2> QED
    BY <2>1, BitsStay, FileStays
<1>3. Good => UsedBitsAreCanonical
  <2> SUFFICES ASSUME Good, phase = "done", NEW s \in SectionNames
               PROVE  file[s] \cap (0 .. UsedBits(s) - 1) = Encoded(source, format)[s]
    BY DEF UsedBitsAreCanonical
  <2>1. s \in Sides /\ CallIsValid
    BY DEF Sides, SectionNames, PipelineInv
  <2>2. DoneCalls = DOMAIN TheCalls
    BY DEF DoneCalls
  <2>3. bits[s] = BitsOf(DOMAIN TheCalls, s)
    BY <2>1, <2>2 DEF BitsInv
  <2>4. file[s] \cap (0 .. UsedBits(s) - 1) = bits[s] \cap (0 .. UsedBits(s) - 1)
    BY <2>1 DEF FileInv
  <2> QED
    BY <2>1, <2>3, <2>4, EncodedIs
<1> QED
  BY <1>1, <1>2, <1>3, PTL DEF PipelineSpec
=============================================================================
