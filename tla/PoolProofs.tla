----------------------------- MODULE PoolProofs -----------------------------
(***************************************************************************)
(* Proofs about the background pool (BgPool), about /forget, which drains  *)
(* it (Forget), and about the memory tails that run on it (MemoryTail).    *)
(*                                                                         *)
(* The pool: its two bounds and its bookkeeping, for any number of tasks   *)
(* and of drains and for every value of the two settings; Forget and       *)
(* MemoryTail compose the pool unchanged (ForgetKeepsPool, TailsKeepPool). *)
(*                                                                         *)
(* /forget: what a clean answer promises, for any number of tails and of   *)
(* /forget at once.  The promise is not inductive.  It rests on what a     *)
(* settled drain has seen, that the tails of before are over for good      *)
(* (EarlierAreOver), and on what the answer was made of (AnsweredAsFound). *)
(*                                                                         *)
(* The tails: what /health/full knows of the replies (LossIsSeen), that    *)
(* what was counted as stored is stored (StoredIsStored), and that a full  *)
(* disk is noticed in time (RoomIsRecent).  They rest on what a kept       *)
(* reading of the disk is worth (RefusalIsKnown, RoomKnown).               *)
(***************************************************************************)
EXTENDS Forget, MemoryTail, FiniteSetTheorems, SequenceTheorems, WellFoundedInduction, TLAPS

Phases == {"unborn", "queued", "running", "ended", "gone", "shed"}

\* The part of TypeOK that the arithmetic needs.
CountersOK ==
    /\ phase \in [Tasks -> Phases]
    /\ submitted \in Nat /\ completed \in Nat /\ shed \in Nat

\* The inductive invariant.
PoolInv == CountersOK /\ WithinBounds /\ Accounted

\* __init__ makes room for one task at least, whatever it is given.
LEMMA Bounds ==
    /\ MaxConcurrent \in Nat /\ MaxConcurrent >= 1
    /\ MaxOutstanding \in Nat /\ MaxOutstanding >= MaxConcurrent
  BY PoolAssumption DEF MaxConcurrent, MaxOutstanding, Larger

LEMMA FinitePools ==
    /\ IsFiniteSet(Outstanding) /\ Cardinality(Outstanding) \in Nat
    /\ IsFiniteSet(Running) /\ Cardinality(Running) \in Nat
<1>1. Outstanding \subseteq Tasks /\ Running \subseteq Tasks
  BY DEF Outstanding, Running
<1> QED
  BY <1>1, PoolAssumption, FS_Subset, FS_CardinalityType

LEMMA InitPoolInv == Init => PoolInv
<1> SUFFICES ASSUME Init PROVE PoolInv
  OBVIOUS
<1>1. Outstanding = {} /\ Running = {}
  BY DEF Init, Outstanding, Running
<1>2. Cardinality(Outstanding) = 0 /\ Cardinality(Running) = 0
  BY <1>1, FS_EmptySet
<1>3. CountersOK
  BY DEF Init, CountersOK, Phases
<1>4. submitted = 0 /\ completed = 0 /\ shed = 0
  BY DEF Init
<1> QED
  BY <1>2, <1>3, <1>4, Bounds DEF PoolInv, WithinBounds, Accounted

\* What a task's new phase does to the two sets.
LEMMA Moved ==
  ASSUME CountersOK, NEW t \in Tasks, NEW p \in Phases, phase' = [phase EXCEPT ![t] = p]
  PROVE  /\ (phase \in [Tasks -> Phases])'
         /\ Outstanding' = IF p \in {"queued", "running", "ended"}
                           THEN Outstanding \union {t} ELSE Outstanding \ {t}
         /\ Running' = IF p = "running" THEN Running \union {t} ELSE Running \ {t}
  BY DEF CountersOK, Outstanding, Running, Phases

\* Running never grows but when a slot is free.
LEMMA RunningShrinks ==
  ASSUME NEW t \in Tasks
  PROVE  Cardinality(Running \ {t}) <= Cardinality(Running)
  BY FinitePools, FS_Subset, FS_CardinalityType

LEMMA ShedStep == ASSUME PoolInv, NEW t \in Tasks, Shed(t) PROVE PoolInv'
<1> USE DEF PoolInv, Shed
<1>1. CountersOK'
  BY Moved DEF CountersOK, Phases
<1>2. Outstanding' = Outstanding /\ Running' = Running
  BY Moved DEF Phases, Outstanding, Running
<1>3. submitted' = submitted + 1 /\ shed' = shed + 1 /\ completed' = completed
  OBVIOUS
<1> QED
  BY <1>1, <1>2, <1>3, FinitePools, Bounds DEF WithinBounds, Accounted, CountersOK

LEMMA AcceptStep == ASSUME PoolInv, NEW t \in Tasks, Accept(t) PROVE PoolInv'
<1> USE DEF PoolInv, Accept
<1>1. CountersOK'
  BY Moved DEF CountersOK, Phases, counters
<1>2. Outstanding' = Outstanding \union {t} /\ Running' = Running /\ t \notin Outstanding
  BY Moved DEF Phases, Outstanding, Running
<1>3. Cardinality(Outstanding') = Cardinality(Outstanding) + 1
  BY <1>2, FinitePools, FS_AddElement
<1>4. Cardinality(Outstanding) < MaxOutstanding
  BY FinitePools, Bounds DEF IsFull
<1>5. submitted' = submitted + 1 /\ shed' = shed /\ completed' = completed
  BY DEF counters
<1> QED
  BY <1>1, <1>2, <1>3, <1>4, <1>5, FinitePools, Bounds DEF WithinBounds, Accounted, CountersOK

LEMMA StartStep == ASSUME PoolInv, NEW t \in Tasks, Start(t) PROVE PoolInv'
<1> USE DEF PoolInv, Start, NextInLine
<1>1. CountersOK'
  BY Moved DEF CountersOK, Phases, counters
<1>2. Outstanding' = Outstanding /\ Running' = Running \union {t} /\ t \notin Running
  BY Moved DEF Phases, Outstanding, Running
<1>3. Cardinality(Running') = Cardinality(Running) + 1
  BY <1>2, FinitePools, FS_AddElement
<1>4. Cardinality(Running) < MaxConcurrent
  OBVIOUS
<1>5. UNCHANGED counters
  OBVIOUS
<1> HIDE DEF Start, NextInLine
<1>6. WithinBounds'
  BY <1>2, <1>3, <1>4, FinitePools, Bounds DEF WithinBounds
<1>7. Accounted'
  BY <1>2, <1>5 DEF Accounted, counters
<1> QED
  BY <1>1, <1>6, <1>7

LEMMA EndStep ==
  ASSUME PoolInv, NEW t \in Tasks, Finish(t) \/ Cancelled(t)
  PROVE  PoolInv'
<1> USE DEF PoolInv, Finish, Cancelled
<1>0. phase' = [phase EXCEPT ![t] = "ended"] /\ phase[t] \in {"queued", "running"}
  OBVIOUS
<1>1. CountersOK'
  BY <1>0, Moved DEF CountersOK, Phases, counters
<1>2. Outstanding' = Outstanding /\ Running' = Running \ {t}
  BY <1>0, Moved DEF Phases, Outstanding, Running
<1>3. UNCHANGED counters
  OBVIOUS
<1> QED
  BY <1>1, <1>2, <1>3, RunningShrinks, FinitePools, Bounds, FS_CardinalityType, FS_Subset
  DEF WithinBounds, Accounted, CountersOK, counters

LEMMA DoneStep == ASSUME PoolInv, NEW t \in Tasks, OnDone(t) PROVE PoolInv'
<1> USE DEF PoolInv, OnDone
<1>1. CountersOK'
  BY Moved DEF CountersOK, Phases
<1>2. Outstanding' = Outstanding \ {t} /\ Running' = Running /\ t \in Outstanding
  BY Moved DEF Phases, Outstanding, Running
<1>3. Cardinality(Outstanding') = Cardinality(Outstanding) - 1
  BY <1>2, FinitePools, FS_RemoveElement
<1>4. submitted' = submitted /\ shed' = shed /\ completed' = completed + 1
  OBVIOUS
<1> QED
  BY <1>1, <1>2, <1>3, <1>4, FinitePools, Bounds DEF WithinBounds, Accounted, CountersOK

\* A drain looks on, or asks tasks to cancel.
LEMMA IdleStep == ASSUME PoolInv, UNCHANGED <<phase, counters>> PROVE PoolInv'
<1>1. Outstanding' = Outstanding /\ Running' = Running
  BY DEF Outstanding, Running
<1> QED
  BY <1>1 DEF PoolInv, CountersOK, WithinBounds, Accounted, counters

\* The bounds and the bookkeeping are inductive together.
THEOREM PoolInvariance == Spec => []PoolInv
<1>1. PoolInv /\ [Next]_vars => PoolInv'
  <2> SUFFICES ASSUME PoolInv, [Next]_vars PROVE PoolInv'
    OBVIOUS
  <2>1. ASSUME NEW t \in Tasks,
               Shed(t) \/ Accept(t) \/ Start(t) \/ Finish(t) \/ Cancelled(t) \/ OnDone(t)
        PROVE  PoolInv'
    BY <2>1, ShedStep, AcceptStep, StartStep, EndStep, DoneStep
  <2>2. ASSUME NEW d \in Drains, DrainStarts(d) \/ DrainTimesOut(d) \/ DrainReturns(d)
        PROVE  PoolInv'
    BY <2>2, IdleStep DEF DrainStarts, DrainTimesOut, DrainReturns, poolVars
  <2>3. CASE UNCHANGED vars
    BY <2>3, IdleStep DEF vars, poolVars
  <2> QED
    BY <2>1, <2>2, <2>3 DEF Next
<1> QED
  BY InitPoolInv, <1>1, PTL DEF Spec

\* No setting and no order of submissions, endings and cancellations takes
\* the pool beyond its bounds.
THEOREM PoolWithinBounds == Spec => []WithinBounds
<1>1. PoolInv => WithinBounds
  BY DEF PoolInv
<1> QED
  BY PoolInvariance, <1>1, PTL

\* Every submission is accounted for.
THEOREM EverySubmissionCounted == Spec => []Accounted
<1>1. PoolInv => Accounted
  BY DEF PoolInv
<1> QED
  BY PoolInvariance, <1>1, PTL

----------------------------------------------------------------------------
(* The queue of the semaphore.                                             *)

\* Every set of naturals has a least element.
LEMMA Least ==
  ASSUME NEW T \in SUBSET Nat, T # {}
  PROVE  \E x \in T : \A y \in T : x <= y
<1>1. PICK R : R = OpToRel(<, Nat)
  OBVIOUS
<1>2. IsWellFoundedOn(R, Nat)
  BY <1>1, NatLessThanWellFounded
<1>3. \A x, y \in Nat : <<y, x>> \in R <=> y < x
  BY <1>1 DEF OpToRel
<1>4. PICK x \in T : \A y \in T : ~ (<<y, x>> \in R)
  BY <1>2, WFMin
<1>5. ASSUME NEW y \in T PROVE x <= y
  <2>1. x \in Nat /\ y \in Nat /\ ~(<<y, x>> \in R)
    BY <1>4
  <2>2. ~(y < x)
    BY <1>3, <2>1
  <2> QED
    BY <2>1, <2>2
<1> QED
  BY <1>5

\* The queue of the semaphore, without the vocabulary of sequences.
QueueInv ==
    /\ phase \in [Tasks -> Phases]
    /\ queue \in Seq(Tasks)
    /\ \A i, j \in 1 .. Len(queue) : queue[i] = queue[j] => i = j
    /\ \A t \in Tasks : phase[t] = "queued" <=> \E i \in 1 .. Len(queue) : queue[i] = t

LEMMA Removed ==
  ASSUME NEW S, NEW s \in Seq(S), NEW i \in 1 .. Len(s)
  PROVE  /\ RemoveAt(s, i) \in Seq(S) /\ Len(RemoveAt(s, i)) = Len(s) - 1
         /\ \A k \in 1 .. Len(s) - 1 :
               RemoveAt(s, i)[k] = IF k < i THEN s[k] ELSE s[k + 1]
<1> DEFINE a == SubSeq(s, 1, i - 1)  b == SubSeq(s, i + 1, Len(s))
<1>1. a \in Seq(S) /\ Len(a) = i - 1 /\ \A k \in 1 .. i - 1 : a[k] = s[k]
  OBVIOUS
<1>2. b \in Seq(S) /\ Len(b) = Len(s) - i /\ \A k \in 1 .. Len(s) - i : b[k] = s[k + i]
  OBVIOUS
<1>3. RemoveAt(s, i) = a \o b
  BY DEF RemoveAt
<1> HIDE DEF a, b
<1>4. Len(s) \in Nat /\ i \in 1 .. Len(s)
  OBVIOUS
<1>5. /\ a \o b \in Seq(S) /\ Len(a \o b) = Len(s) - 1
      /\ \A k \in 1 .. Len(s) - 1 :
            (a \o b)[k] = IF k <= i - 1 THEN a[k] ELSE b[k - (i - 1)]
  <2>1. /\ a \o b \in Seq(S) /\ Len(a \o b) = Len(a) + Len(b)
        /\ \A k \in 1 .. Len(a) + Len(b) :
              (a \o b)[k] = IF k <= Len(a) THEN a[k] ELSE b[k - Len(a)]
    BY <1>1, <1>2, ConcatProperties
  <2>2. Len(a) + Len(b) = Len(s) - 1 /\ Len(a) = i - 1
    BY <1>1, <1>2, <1>4
  <2> QED
    BY <2>1, <2>2
<1>6. \A k \in 1 .. Len(s) - 1 : (a \o b)[k] = IF k < i THEN s[k] ELSE s[k + 1]
  <2> TAKE k \in 1 .. Len(s) - 1
  <2>1. CASE k < i
    <3>1. k \in 1 .. i - 1 /\ k <= i - 1
      BY <1>4, <2>1
    <3> QED
      BY <1>1, <1>5, <2>1, <3>1
  <2>2. CASE ~(k < i)
    <3>1. ~(k <= i - 1) /\ k - (i - 1) \in 1 .. Len(s) - i /\ k - (i - 1) + i = k + 1
      BY <1>4, <2>2
    <3> QED
      BY <1>2, <1>5, <2>2, <3>1
  <2> QED
    BY <2>1, <2>2
<1> QED
  BY <1>3, <1>5, <1>6

\* What leaves the queue leaves nothing else out of it.
LEMMA Unqueued ==
  ASSUME QueueInv, NEW t \in Tasks
  PROVE  /\ QueueWithout(t) \in Seq(Tasks)
         /\ \A i, j \in 1 .. Len(QueueWithout(t)) :
               QueueWithout(t)[i] = QueueWithout(t)[j] => i = j
         /\ \A u \in Tasks : (\E i \in 1 .. Len(QueueWithout(t)) : QueueWithout(t)[i] = u)
                                <=> u # t /\ \E i \in 1 .. Len(queue) : queue[i] = u
<1> DEFINE n == Len(queue)  p == CHOOSE i \in DOMAIN queue : queue[i] = t
<1>1. queue \in Seq(Tasks) /\ DOMAIN queue = 1 .. n /\ n \in Nat
  BY DEF QueueInv
<1>2. \A i, j \in 1 .. n : queue[i] = queue[j] => i = j
  BY DEF QueueInv
<1>3. CASE t \notin ToSet(queue)
  <2>1. QueueWithout(t) = queue /\ \A i \in 1 .. n : queue[i] # t
    BY <1>1, <1>3 DEF QueueWithout, ToSet
  <2> QED
    BY <1>1, <1>2, <2>1
<1>4. CASE t \in ToSet(queue)
  <2> DEFINE q == RemoveAt(queue, p)
  <2>1. p \in 1 .. n /\ queue[p] = t
    BY <1>1, <1>4 DEF ToSet
  <2>2. QueueWithout(t) = q
    BY <1>4 DEF QueueWithout
  <2> HIDE DEF p
  <2>3. /\ q \in Seq(Tasks) /\ Len(q) = n - 1
        /\ \A k \in 1 .. n - 1 : q[k] = IF k < p THEN queue[k] ELSE queue[k + 1]
    BY <1>1, <2>1, Removed
  <2> HIDE DEF q, n
  <2>4. \A k \in 1 .. n - 1 : k \in 1 .. n /\ k + 1 \in 1 .. n /\ q[k] # t
    BY <1>1, <1>2, <2>1, <2>3
  <2>5. \A i, j \in 1 .. n - 1 : q[i] = q[j] => i = j
    BY <1>1, <1>2, <2>1, <2>3, <2>4
  <2>6. ASSUME NEW u \in Tasks \ {t}, NEW i \in 1 .. n, queue[i] = u
        PROVE  \E k \in 1 .. n - 1 : q[k] = u
    <3>1. CASE i < p
      BY <1>1, <2>1, <2>3, <2>6, <3>1
    <3>2. CASE p < i
      <4>1. i - 1 \in 1 .. n - 1 /\ ~(i - 1 < p) /\ (i - 1) + 1 = i
        BY <1>1, <2>1, <3>2
      <4> QED
        BY <2>3, <2>6, <4>1
    <3> QED
      BY <1>1, <2>1, <2>6, <3>1, <3>2
  <2>7. \A k \in 1 .. n - 1 : \E i \in 1 .. n : q[k] = queue[i]
    BY <2>3, <2>4
  <2> QED
    BY <2>2, <2>3, <2>4, <2>5, <2>6, <2>7 DEF n
<1> QED
  BY <1>3, <1>4

LEMMA InitQueueInv == Init => QueueInv
<1> SUFFICES ASSUME Init PROVE QueueInv
  OBVIOUS
<1>1. queue = <<>> /\ queue \in Seq(Tasks) /\ Len(queue) = 0
  BY DEF Init
<1>2. 1 .. Len(queue) = {}
  BY <1>1
<1>3. phase = [t \in Tasks |-> "unborn"]
  BY DEF Init
<1> QED
  BY <1>1, <1>2, <1>3 DEF QueueInv, Phases

LEMMA QueueStep == ASSUME QueueInv, Next \/ UNCHANGED vars PROVE QueueInv'
<1> DEFINE Waits(u) == \E i \in 1 .. Len(queue) : queue[i] = u
<1>0. /\ phase \in [Tasks -> Phases] /\ queue \in Seq(Tasks) /\ Len(queue) \in Nat
      /\ \A i, j \in 1 .. Len(queue) : queue[i] = queue[j] => i = j
      /\ \A t \in Tasks : phase[t] = "queued" <=> Waits(t)
  BY DEF QueueInv
<1>1. ASSUME NEW t \in Tasks, Accept(t) PROVE QueueInv'
  <2> DEFINE n == Len(queue)
  <2>1. /\ phase' = [phase EXCEPT ![t] = "queued"] /\ queue' = Append(queue, t)
        /\ phase[t] = "unborn"
    BY <1>1 DEF Accept
  <2>2. /\ queue' \in Seq(Tasks) /\ Len(queue') = n + 1 /\ queue'[n + 1] = t
        /\ \A i \in 1 .. n : queue'[i] = queue[i]
    BY <1>0, <2>1
  <2>3. \A i \in 1 .. n : queue[i] # t
    BY <1>0, <2>1
  <2> HIDE DEF n
  <2>4. n \in Nat /\ 1 .. n + 1 = (1 .. n) \union {n + 1} /\ n + 1 \notin 1 .. n
    BY <1>0 DEF n
  <2>5. \A i, j \in 1 .. n : queue[i] = queue[j] => i = j
    BY <1>0 DEF n
  <2>6. \A i, j \in 1 .. n + 1 : queue'[i] = queue'[j] => i = j
    BY <2>2, <2>3, <2>4, <2>5
  <2>7. \A u \in Tasks : (\E i \in 1 .. n + 1 : queue'[i] = u) <=> u = t \/ Waits(u)
    BY <2>2, <2>3, <2>4 DEF n
  <2>8. \A u \in Tasks : phase'[u] = "queued" <=> u = t \/ phase[u] = "queued"
    BY <1>0, <2>1
  <2>9. phase' \in [Tasks -> Phases]
    BY <1>0, <2>1 DEF Phases
  <2> QED
    BY <1>0, <2>2, <2>6, <2>7, <2>8, <2>9 DEF QueueInv
<1>2. ASSUME NEW t \in Tasks, Start(t) \/ Cancelled(t) PROVE QueueInv'
  <2>1. /\ \E p \in {"running", "ended"} : phase' = [phase EXCEPT ![t] = p]
        /\ queue' = QueueWithout(t)
    BY <1>2 DEF Start, Cancelled
  <2>2. /\ queue' \in Seq(Tasks)
        /\ \A i, j \in 1 .. Len(queue') : queue'[i] = queue'[j] => i = j
        /\ \A u \in Tasks : (\E i \in 1 .. Len(queue') : queue'[i] = u) <=> u # t /\ Waits(u)
    <3> DEFINE q == QueueWithout(t)
    <3>1. /\ q \in Seq(Tasks)
          /\ \A i, j \in 1 .. Len(q) : q[i] = q[j] => i = j
          /\ \A u \in Tasks : (\E i \in 1 .. Len(q) : q[i] = u) <=> u # t /\ Waits(u)
      BY Unqueued
    <3>2. queue' = q
      BY <2>1
    <3> HIDE DEF q, Waits
    <3> QED
      BY <3>1, <3>2
  <2>3. /\ phase' \in [Tasks -> Phases]
        /\ \A u \in Tasks : phase'[u] = "queued" <=> u # t /\ phase[u] = "queued"
    BY <1>0, <2>1 DEF Phases
  <2> QED
    BY <1>0, <2>2, <2>3 DEF QueueInv
<1>3. ASSUME NEW t \in Tasks, Shed(t) \/ Finish(t) \/ OnDone(t) PROVE QueueInv'
  <2>1. /\ queue' = queue /\ phase[t] # "queued"
        /\ \E p \in {"shed", "ended", "gone"} : phase' = [phase EXCEPT ![t] = p]
    BY <1>3 DEF Shed, Finish, OnDone
  <2>2. /\ phase' \in [Tasks -> Phases]
        /\ \A u \in Tasks : phase'[u] = "queued" <=> phase[u] = "queued"
    BY <1>0, <2>1 DEF Phases
  <2> QED
    BY <1>0, <2>1, <2>2 DEF QueueInv
<1>4. ASSUME UNCHANGED <<phase, queue>> PROVE QueueInv'
  BY <1>0, <1>4 DEF QueueInv
<1>5. ASSUME NEW d \in Drains, DrainStarts(d) \/ DrainTimesOut(d) \/ DrainReturns(d)
      PROVE  QueueInv'
  BY <1>4, <1>5 DEF DrainStarts, DrainTimesOut, DrainReturns, poolVars
<1> QED
  BY <1>1, <1>2, <1>3, <1>4, <1>5 DEF Next, vars, poolVars

\* The semaphore's queue has every waiter in one place, and nobody else.
THEOREM QueueInvariance == Spec => []QueueInv
<1>1. QueueInv /\ [Next]_vars => QueueInv'
  BY QueueStep
<1> QED
  BY InitQueueInv, <1>1, PTL DEF Spec

\* The semaphore's queue never loses a waiter, keeps one that has gone, nor
\* counts one twice, in whatever order tasks are admitted and cancelled.
THEOREM QueueHoldsTheWaiting == Spec => []QueueIsQueued
<1>1. QueueInv => QueueIsQueued
  <2> SUFFICES ASSUME QueueInv PROVE QueueIsQueued
    OBVIOUS
  <2>1. queue \in Seq(Tasks) /\ DOMAIN queue = 1 .. Len(queue)
    BY DEF QueueInv
  <2>2. IsInjective(queue)
    BY <2>1 DEF QueueInv, IsInjective
  <2>3. ToSet(queue) = {t \in Tasks : phase[t] = "queued"}
    BY <2>1 DEF QueueInv, ToSet
  <2> QED
    BY <2>2, <2>3 DEF QueueIsQueued
<1> QED
  BY QueueInvariance, <1>1, PTL

----------------------------------------------------------------------------
(* The pool inside Forget.                                                 *)

LEMMA TailsUseThePool ==
  ASSUME NEW t \in Tasks, TailSteps(t)
  PROVE  Next \/ UNCHANGED vars
<1>1. CASE Ask(t) \/ IndexExchange(t) \/ Extract(t) \/ SaveExtracted(t) \/ ThreadWrites(t)
  BY <1>1 DEF Ask, IndexExchange, Extract, SaveExtracted, ThreadWrites
<1>2. CASE Submit(t) \/ Starts(t)
  BY <1>2 DEF Submit, Starts, Next
<1>3. CASE Skipped(t) \/ LoadState(t) \/ SaveState(t)
  BY <1>3 DEF Skipped, LoadState, SaveState, Next
<1>4. CASE TailEnds(t) \/ TailCancelled(t) \/ TailGone(t)
  BY <1>4 DEF TailEnds, TailCancelled, TailGone, Next
<1> QED
  BY <1>1, <1>2, <1>3, <1>4 DEF TailSteps

LEMMA ForgetsUseThePool ==
  ASSUME NEW d \in Drains, ForgetSteps(d)
  PROVE  Next \/ UNCHANGED vars
<1>1. CASE ClearAll(d) \/ ClearArchive(d) \/ Tombstone(d) \/ VerifyRetry(d)
  BY <1>1 DEF ClearAll, ClearArchive, Tombstone, VerifyRetry
<1>2. CASE ForgetStarts(d) \/ SettleAgain(d)
  BY <1>2 DEF ForgetStarts, SettleAgain, Next
<1>3. CASE ForgetTimesOut(d) \/ ForgetDrained(d) \/ SettledAgain(d)
  BY <1>3 DEF ForgetTimesOut, ForgetDrained, SettledAgain, Next
<1> QED
  BY <1>1, <1>2, <1>3 DEF ForgetSteps

\* Tails and /forget use the pool as bgwork.py offers it: what is true of the
\* pool alone is true of it under them, its bounds and its counters included.
THEOREM ForgetKeepsPool == ForgetSpec => Spec
<1>1. ForgetInit => Init
  BY DEF ForgetInit
<1>2. [ForgetNext]_allVars => [Next]_vars
  BY TailsUseThePool, ForgetsUseThePool DEF ForgetNext, allVars
<1> QED
  BY <1>1, <1>2, PTL DEF ForgetSpec, Spec

----------------------------------------------------------------------------
(* /forget.                                                                *)

Places == {"idle", "drain", "clear", "archive", "tombstone", "settle", "clear2",
           "archive2", "tombstone2", "verify2", "replied", "failed"}
Answers == [still : SUBSET Layers, unreadable : SUBSET Layers, settled : BOOLEAN]

\* The part of ForgetTypeOK that the argument needs.
TypesOK ==
    /\ phase \in [Tasks -> Phases]
    /\ store \in [Layers -> SUBSET Sources]
    /\ health \in [Layers -> {"ok", "unreadable", "malformed"}]
    /\ rolled \in [Tasks -> SUBSET Sources]
    /\ pc \in [Drains -> Places]
    /\ settled \in [Drains -> BOOLEAN]
    /\ unread \in [Drains -> SUBSET Layers]
    /\ earlier \in [Drains -> SUBSET Tasks]
    /\ reply \in [Drains -> Answers]

\* The places of a /forget after the verification of its second drain.
Verified == {"clear2", "archive2", "tombstone2", "verify2", "replied"}

\* The tails from before the second drain have been in the pool, and are out
\* of it once a settled drain has been verified.
EarlierAreOver ==
    \A d \in Drains :
        /\ \A t \in earlier[d] : phase[t] \notin {"unborn", "shed"}
        /\ pc[d] \in Verified /\ settled[d] =>
              \A t \in earlier[d] : phase[t] = "gone"

\* An answer says whether the drains left the pool empty.
AnsweredAsFound ==
    \A d \in Drains : pc[d] = "replied" => reply[d].settled = settled[d]

\* The layers that only a running tail writes.
Tailed == {"facts", "archive", "episodic"}

\* What the second pass has wiped stays empty while no other tail has come.
SecondPassHolds ==
    \A d \in Drains :
        (settled[d] /\ Accepted = earlier[d] /\ Readable(Tailed)) =>
            /\ pc[d] \in {"archive2", "tombstone2", "verify2"} =>
                  store["facts"] = {} /\ store["episodic"] = {}
            /\ pc[d] \in {"tombstone2", "verify2"} => store["archive"] = {}
            /\ pc[d] = "replied" => reply[d].still \subseteq {"summary", "persona"}

\* Only two layers have a reader that may raise something else.
FewMalformed == \A l \in Layers \ {"facts", "archive"} : health[l] # "malformed"

ForgetInv == TypesOK /\ EarlierAreOver /\ AnsweredAsFound /\ SecondPassHolds

LEMMA InitForgetInv == ForgetInit => ForgetInv
<1> SUFFICES ASSUME ForgetInit PROVE ForgetInv
  OBVIOUS
<1>1. TypesOK
  BY DEF ForgetInit, Init, TypesOK, Phases, Places, Answers, NoReply, Layers, Sources
<1>2. EarlierAreOver /\ AnsweredAsFound /\ SecondPassHolds
  BY DEF ForgetInit, EarlierAreOver, AnsweredAsFound, SecondPassHolds, Verified
<1> QED
  BY <1>1, <1>2 DEF ForgetInv

\* A task leaves the pool for good.
LEMMA PhasesGoOn ==
  ASSUME phase \in [Tasks -> Phases], Next \/ UNCHANGED vars
  PROVE  /\ phase' \in [Tasks -> Phases]
         /\ \A u \in Tasks : /\ phase[u] = "gone" => phase'[u] = "gone"
                             /\ phase[u] \notin {"unborn", "shed"} =>
                                   phase'[u] \notin {"unborn", "shed"}
<1>1. ASSUME NEW t \in Tasks,
             Shed(t) \/ Accept(t) \/ Start(t) \/ Finish(t) \/ Cancelled(t) \/ OnDone(t)
      PROVE  \E p \in Phases : /\ phase' = [phase EXCEPT ![t] = p]
                               /\ phase[t] # "gone"
                               /\ p \in {"unborn", "shed"} => phase[t] = "unborn"
  BY <1>1 DEF Shed, Accept, Start, NextInLine, Finish, Cancelled, OnDone, Phases
<1>2. ASSUME NEW d \in Drains, DrainStarts(d) \/ DrainTimesOut(d) \/ DrainReturns(d)
      PROVE  phase' = phase
  BY <1>2 DEF DrainStarts, DrainTimesOut, DrainReturns, poolVars
<1> QED
  BY <1>1, <1>2 DEF Next, vars, poolVars

\* What a tail may move into a layer: facts, into the archive.
FromFacts(l) == IF l = "archive" THEN store["facts"] ELSE {}

\* What a step of a tail does to the layers: it writes its own exchange, and
\* facts into the archive, while it runs; a request may write the persona; a
\* thread the summaries.
LEMMA TailFrame ==
  ASSUME TypesOK, NEW t \in Tasks, TailSteps(t)
  PROVE  /\ UNCHANGED forgetVars
         /\ store' \in [Layers -> SUBSET Sources]
         /\ rolled' \in [Tasks -> SUBSET Sources]
         /\ health' \in [Layers -> {"ok", "unreadable", "malformed"}]
         /\ \A l \in Layers \ {"summary"} :
               /\ health'[l] = health[l]
               /\ store'[l] \subseteq store[l] \union FromFacts(l) \union {t}
               /\ store'[l] # store[l] => phase[t] \in {"unborn", "running"}
         /\ \A l \in Tailed : store'[l] # store[l] => phase[t] = "running"
         /\ FewMalformed => FewMalformed'
<1> USE DEF TypesOK, Layers, Sources, Tailed, FromFacts
<1>1. CASE Ask(t)
  BY <1>1 DEF Ask, FewMalformed
<1>2. CASE Submit(t) \/ Starts(t) \/ Skipped(t) \/ TailGone(t)
  BY <1>2 DEF Submit, Starts, Skipped, TailGone, tailVars, FewMalformed
<1>3. CASE IndexExchange(t)
  BY <1>3 DEF IndexExchange, Active, FewMalformed
<1>4. CASE Extract(t) \/ TailEnds(t) \/ TailCancelled(t)
  BY <1>4 DEF Extract, TailEnds, TailCancelled, FewMalformed
<1>5. CASE SaveExtracted(t)
  <2>1. PICK all \in SUBSET (store["facts"] \union {t}),
                 out \in SUBSET (store["facts"] \union {t}) :
           \/ store' = [store EXCEPT !["facts"] = all \ out, !["archive"] = @ \union out]
           \/ UNCHANGED store
    BY <1>5 DEF SaveExtracted, TouchedMerge
  <2>2. UNCHANGED <<health, rolled, forgetVars>> /\ phase[t] = "running"
    BY <1>5 DEF SaveExtracted, Active
  <2> QED
    BY <2>1, <2>2 DEF FewMalformed
<1>6. CASE LoadState(t)
  BY <1>6 DEF LoadState, FewMalformed
<1>7. CASE SaveState(t)
  BY <1>7 DEF SaveState, FewMalformed
<1>8. CASE ThreadWrites(t)
  BY <1>8 DEF ThreadWrites, tailVars, FewMalformed
<1> QED
  BY <1>1, <1>2, <1>3, <1>4, <1>5, <1>6, <1>7, <1>8 DEF TailSteps

\* What a step of a /forget does: it empties layers, and is alone concerned.
LEMMA ForgetFrame ==
  ASSUME TypesOK, NEW d \in Drains, ForgetSteps(d)
  PROVE  /\ UNCHANGED <<phase, rolled>>
         /\ store' \in [Layers -> SUBSET Sources]
         /\ health' \in [Layers -> {"ok", "unreadable", "malformed"}]
         /\ \A l \in Layers : store'[l] \in {store[l], {}}
         /\ \A l \in Tailed : health'[l] = health[l]
         /\ \A e \in Drains \ {d} :
               /\ pc'[e] = pc[e] /\ settled'[e] = settled[e] /\ unread'[e] = unread[e]
               /\ earlier'[e] = earlier[e] /\ reply'[e] = reply[e]
         /\ FewMalformed => FewMalformed'
<1> USE DEF TypesOK, Layers, Tailed
<1>1. CASE ForgetStarts(d) \/ ForgetTimesOut(d) \/ ForgetDrained(d)
  BY <1>1 DEF ForgetStarts, ForgetTimesOut, ForgetDrained, DrainStarts, DrainTimesOut,
              DrainReturns, poolVars, vars, forgetVars, tailVars, FewMalformed
<1>2. CASE ClearAll(d)
  <2>1. UNCHANGED <<vars, tailVars, settled, earlier, reply>>
    BY <1>2 DEF ClearAll
  <2>2. \A e \in Drains \ {d} : pc'[e] = pc[e] /\ unread'[e] = unread[e]
    BY <1>2 DEF ClearAll
  <2>3. \/ UNCHANGED <<store, health>>
        \/ \E kept \in SUBSET Stuck :
              /\ store' = [l \in Layers |-> Cleared(l, kept)]
              /\ health' = [l \in Layers |->
                    IF l \in {"summary", "persona"} \ kept THEN "ok" ELSE health[l]]
    BY <1>2 DEF ClearAll
  <2>4. \A l \in Layers, kept \in SUBSET Stuck : Cleared(l, kept) \in {store[l], {}}
    BY DEF Cleared
  <2>5. /\ store' \in [Layers -> SUBSET Sources]
        /\ health' \in [Layers -> {"ok", "unreadable", "malformed"}]
        /\ \A l \in Layers : store'[l] \in {store[l], {}}
        /\ \A l \in Tailed : health'[l] = health[l]
        /\ FewMalformed => FewMalformed'
    BY <2>3, <2>4 DEF FewMalformed
  <2> QED
    BY <2>1, <2>2, <2>5 DEF vars, poolVars, tailVars
<1>3. CASE ClearArchive(d)
  BY <1>3 DEF ClearArchive, vars, poolVars, tailVars, FewMalformed
<1>4. CASE Tombstone(d)
  BY <1>4 DEF Tombstone, vars, poolVars, tailVars, FewMalformed
<1>5. CASE SettleAgain(d) \/ SettledAgain(d)
  BY <1>5 DEF SettleAgain, SettledAgain, Verify, DrainStarts, DrainReturns, vars,
              poolVars, tailVars, FewMalformed
<1>6. CASE VerifyRetry(d)
  BY <1>6 DEF VerifyRetry, vars, poolVars, tailVars, FewMalformed
<1> QED
  BY <1>1, <1>2, <1>3, <1>4, <1>5, <1>6 DEF ForgetSteps

\* The types of what a /forget knows.
LEMMA ForgetKeepsTypes ==
  ASSUME TypesOK, NEW d \in Drains, ForgetSteps(d)
  PROVE  /\ pc' \in [Drains -> Places]
         /\ settled' \in [Drains -> BOOLEAN]
         /\ unread' \in [Drains -> SUBSET Layers]
         /\ earlier' \in [Drains -> SUBSET Tasks]
         /\ reply' \in [Drains -> Answers]
<1> USE DEF TypesOK, Places
<1>1. CASE ForgetStarts(d) \/ ForgetTimesOut(d) \/ ForgetDrained(d)
  BY <1>1 DEF ForgetStarts, ForgetTimesOut, ForgetDrained, forgetVars
<1>2. CASE ClearAll(d)
  BY <1>2 DEF ClearAll, Layers
<1>3. CASE ClearArchive(d) \/ Tombstone(d)
  BY <1>3 DEF ClearArchive, Tombstone, Layers
<1>4. \A s \in BOOLEAN : Answer(d, s) \in Answers
  BY DEF Answer, Answers, Still, Unreadable
<1>5. ASSUME NEW s \in BOOLEAN, Verify(d, s)
      PROVE  /\ pc' \in [Drains -> Places]
             /\ settled' \in [Drains -> BOOLEAN]
             /\ reply' \in [Drains -> Answers]
  BY <1>4, <1>5 DEF Verify
<1>6. CASE SettleAgain(d)
  <2>1. earlier' \in [Drains -> SUBSET Tasks] /\ unread' = unread
    BY <1>6 DEF SettleAgain, Accepted
  <2>2. Verify(d, settled[d]) \/ UNCHANGED <<pc, settled, reply>>
    BY <1>6 DEF SettleAgain
  <2> QED
    BY <2>1, <2>2, <1>5
<1>7. CASE SettledAgain(d)
  <2>1. Verify(d, settled[d] /\ Outstanding = {}) /\ UNCHANGED <<unread, earlier>>
    BY <1>7 DEF SettledAgain
  <2> QED
    BY <2>1, <1>5
<1>8. CASE VerifyRetry(d)
  <2>1. settled[d] \in BOOLEAN
    OBVIOUS
  <2> QED
    BY <1>4, <1>8, <2>1 DEF VerifyRetry
<1> QED
  BY <1>1, <1>2, <1>3, <1>6, <1>7, <1>8 DEF ForgetSteps

LEMMA TypesStep == ASSUME TypesOK, [ForgetNext]_allVars PROVE TypesOK'
<1>1. phase' \in [Tasks -> Phases]
  BY TailsUseThePool, ForgetsUseThePool, PhasesGoOn DEF TypesOK, ForgetNext, allVars
<1>2. ASSUME NEW t \in Tasks, TailSteps(t) PROVE TypesOK'
  BY <1>1, <1>2, TailFrame DEF TypesOK, forgetVars
<1>3. ASSUME NEW d \in Drains, ForgetSteps(d) PROVE TypesOK'
  BY <1>1, <1>3, ForgetFrame, ForgetKeepsTypes DEF TypesOK
<1>4. CASE UNCHANGED allVars
  BY <1>4 DEF TypesOK, allVars, vars, poolVars, tailVars, forgetVars
<1> QED
  BY <1>2, <1>3, <1>4 DEF ForgetNext

\* When an empty pool is found, what was ever accepted is over.
LEMMA EmptyPool ==
  ASSUME TypesOK, Outstanding = {}
  PROVE  \A t \in Tasks : phase[t] \notin {"unborn", "shed"} => phase[t] = "gone"
  BY DEF TypesOK, Outstanding, Phases

\* How a /forget comes to be verified: by the end of its second drain, or by
\* going on from there.
LEMMA HowVerified ==
  ASSUME TypesOK, NEW d \in Drains, ForgetSteps(d), pc'[d] \in Verified
  PROVE  \/ /\ pc[d] \in Verified
            /\ settled'[d] = settled[d] /\ earlier'[d] = earlier[d]
         \/ /\ pc[d] = "settle" /\ Outstanding = {}
            /\ settled'[d] = settled[d] /\ earlier'[d] = Accepted
         \/ /\ pc[d] = "settle" /\ earlier'[d] = earlier[d]
            /\ settled'[d] = (settled[d] /\ Outstanding = {})
<1> USE DEF TypesOK, Verified
<1>1. CASE ForgetStarts(d) \/ ForgetDrained(d)
  BY <1>1 DEF ForgetStarts, ForgetDrained
<1>2. CASE ForgetTimesOut(d)
  BY <1>2 DEF ForgetTimesOut, forgetVars
<1>3. CASE ClearAll(d)
  BY <1>3 DEF ClearAll
<1>4. CASE ClearArchive(d) \/ Tombstone(d)
  BY <1>4 DEF ClearArchive, Tombstone
<1>5. CASE SettleAgain(d)
  BY <1>5 DEF SettleAgain, Verify
<1>6. CASE SettledAgain(d)
  BY <1>6 DEF SettledAgain, Verify
<1>7. CASE VerifyRetry(d)
  BY <1>7 DEF VerifyRetry
<1> QED
  BY <1>1, <1>2, <1>3, <1>4, <1>5, <1>6, <1>7 DEF ForgetSteps

\* The set of earlier tails is taken once, from those accepted.
LEMMA EarlierIsAccepted ==
  ASSUME TypesOK, NEW d \in Drains, ForgetSteps(d)
  PROVE  earlier'[d] \in {earlier[d], Accepted}
<1> USE DEF TypesOK
<1>1. CASE ForgetStarts(d) \/ ForgetTimesOut(d) \/ ForgetDrained(d) \/ ClearAll(d)
  BY <1>1 DEF ForgetStarts, ForgetTimesOut, ForgetDrained, ClearAll, forgetVars
<1>2. CASE ClearArchive(d) \/ Tombstone(d) \/ VerifyRetry(d)
  BY <1>2 DEF ClearArchive, Tombstone, VerifyRetry
<1>3. CASE SettleAgain(d) \/ SettledAgain(d)
  BY <1>3 DEF SettleAgain, SettledAgain
<1> QED
  BY <1>1, <1>2, <1>3 DEF ForgetSteps

LEMMA EarlierStep ==
  ASSUME TypesOK, EarlierAreOver, [ForgetNext]_allVars
  PROVE  EarlierAreOver'
<1> SUFFICES ASSUME NEW d \in Drains
             PROVE  /\ \A t \in earlier'[d] : phase'[t] \notin {"unborn", "shed"}
                    /\ pc'[d] \in Verified /\ settled'[d] =>
                          \A t \in earlier'[d] : phase'[t] = "gone"
  BY DEF EarlierAreOver
<1>1. Next \/ UNCHANGED vars
  BY TailsUseThePool, ForgetsUseThePool DEF ForgetNext, allVars
<1>2. \A u \in Tasks : /\ phase[u] = "gone" => phase'[u] = "gone"
                       /\ phase[u] \notin {"unborn", "shed"} =>
                             phase'[u] \notin {"unborn", "shed"}
  BY <1>1, PhasesGoOn DEF TypesOK
<1>3. earlier[d] \subseteq Tasks
  BY DEF TypesOK
<1>4. /\ \A t \in earlier[d] : phase[t] \notin {"unborn", "shed"}
      /\ pc[d] \in Verified /\ settled[d] => \A t \in earlier[d] : phase[t] = "gone"
  BY DEF EarlierAreOver
<1>5. CASE pc'[d] = pc[d] /\ settled'[d] = settled[d] /\ earlier'[d] = earlier[d]
  BY <1>2, <1>3, <1>4, <1>5
<1>6. CASE ForgetSteps(d)
  <2>1. phase' = phase
    BY <1>6, ForgetFrame
  <2>2. \A t \in earlier'[d] : phase'[t] \notin {"unborn", "shed"}
    BY <2>1, <1>4, <1>6, EarlierIsAccepted DEF Accepted
  <2>3. ASSUME pc'[d] \in Verified, settled'[d]
        PROVE  \A t \in earlier'[d] : phase'[t] = "gone"
    <3>1. settled[d] \in BOOLEAN
      BY DEF TypesOK
    <3>2. CASE pc[d] \in Verified /\ settled'[d] = settled[d] /\ earlier'[d] = earlier[d]
      BY <2>1, <2>3, <1>4, <3>2
    <3>3. CASE Outstanding = {} /\ earlier'[d] = Accepted
      BY <2>1, <3>3, EmptyPool DEF Accepted
    <3>4. CASE earlier'[d] = earlier[d] /\ settled'[d] = (settled[d] /\ Outstanding = {})
      BY <2>1, <2>3, <1>3, <1>4, <3>4, EmptyPool
    <3> QED
      BY <2>3, <1>6, <3>2, <3>3, <3>4, HowVerified
  <2> QED
    BY <2>2, <2>3
<1>7. CASE ~ForgetSteps(d)
  <2>1. ASSUME NEW t \in Tasks, TailSteps(t)
        PROVE  pc'[d] = pc[d] /\ settled'[d] = settled[d] /\ earlier'[d] = earlier[d]
    BY <2>1, TailFrame DEF forgetVars
  <2>2. ASSUME NEW e \in Drains, ForgetSteps(e)
        PROVE  pc'[d] = pc[d] /\ settled'[d] = settled[d] /\ earlier'[d] = earlier[d]
    BY <2>2, <1>7, ForgetFrame
  <2> QED
    BY <1>5, <2>1, <2>2 DEF ForgetNext, allVars, forgetVars
<1> QED
  BY <1>6, <1>7

\* How a /forget answers: from what is there, and its layers stay as they are.
LEMMA HowAnswered ==
  ASSUME TypesOK, NEW d \in Drains, ForgetSteps(d), pc'[d] = "replied"
  PROVE  \/ /\ pc[d] = "replied"
            /\ settled'[d] = settled[d] /\ earlier'[d] = earlier[d]
            /\ reply'[d] = reply[d]
         \/ /\ pc[d] # "replied" /\ UNCHANGED <<store, health, phase>>
            /\ reply'[d] = Answer(d, settled'[d])
            /\ pc[d] = "verify2" =>
                  settled'[d] = settled[d] /\ earlier'[d] = earlier[d]
            /\ pc[d] # "verify2" => Still = {}
<1> USE DEF TypesOK
<1>1. CASE ForgetStarts(d) \/ ForgetDrained(d)
  BY <1>1 DEF ForgetStarts, ForgetDrained
<1>2. CASE ForgetTimesOut(d)
  BY <1>2 DEF ForgetTimesOut, forgetVars
<1>3. CASE ClearAll(d) \/ ClearArchive(d) \/ Tombstone(d)
  BY <1>3 DEF ClearAll, ClearArchive, Tombstone
<1>4. CASE SettleAgain(d)
  BY <1>4 DEF SettleAgain, Verify, Retried, vars, poolVars
<1>5. CASE SettledAgain(d)
  BY <1>5 DEF SettledAgain, Verify, Retried, DrainReturns, poolVars
<1>6. CASE VerifyRetry(d)
  BY <1>6 DEF VerifyRetry, vars, poolVars
<1> QED
  BY <1>1, <1>2, <1>3, <1>4, <1>5, <1>6 DEF ForgetSteps

LEMMA AnsweredStep ==
  ASSUME TypesOK, AnsweredAsFound, [ForgetNext]_allVars
  PROVE  AnsweredAsFound'
<1> SUFFICES ASSUME NEW d \in Drains, pc'[d] = "replied"
             PROVE  reply'[d].settled = settled'[d]
  BY DEF AnsweredAsFound
<1>1. CASE pc'[d] = pc[d] /\ settled'[d] = settled[d] /\ reply'[d] = reply[d]
  BY <1>1 DEF AnsweredAsFound
<1>2. CASE ForgetSteps(d)
  <2>1. Answer(d, settled'[d]).settled = settled'[d]
    BY DEF Answer
  <2> QED
    BY <1>2, <2>1, HowAnswered DEF AnsweredAsFound
<1>3. ASSUME NEW t \in Tasks, TailSteps(t) PROVE reply'[d].settled = settled'[d]
  BY <1>1, <1>3, TailFrame DEF forgetVars
<1>4. ASSUME NEW e \in Drains, ForgetSteps(e), ~ForgetSteps(d)
      PROVE  reply'[d].settled = settled'[d]
  BY <1>1, <1>4, ForgetFrame
<1> QED
  BY <1>1, <1>2, <1>3, <1>4 DEF ForgetNext, allVars, forgetVars

\* Where nothing is accepted that is not over, no tail writes what only a
\* running tail writes.
LEMMA OthersLeaveIt ==
  ASSUME ForgetInv, [ForgetNext]_allVars, NEW d \in Drains, ~ForgetSteps(d),
         settled'[d], Accepted' = earlier'[d], Readable(Tailed)', pc'[d] \in Verified
  PROVE  /\ pc'[d] = pc[d] /\ reply'[d] = reply[d]
         /\ settled[d] /\ Accepted = earlier[d] /\ Readable(Tailed)
         /\ \A l \in Tailed : store'[l] \in {store[l], {}}
<1> USE DEF ForgetInv
<1>1. /\ pc'[d] = pc[d] /\ settled'[d] = settled[d]
      /\ earlier'[d] = earlier[d] /\ reply'[d] = reply[d]
  <2>1. ASSUME NEW t \in Tasks, TailSteps(t) PROVE <1>1
    BY <2>1, TailFrame DEF forgetVars
  <2>2. ASSUME NEW e \in Drains, ForgetSteps(e) PROVE <1>1
    BY <2>2, ForgetFrame
  <2> QED
    BY <2>1, <2>2 DEF ForgetNext, allVars, forgetVars
<1>2. \A l \in Tailed : health'[l] = health[l]
  <2>1. Tailed \subseteq Layers \ {"summary"}
    BY DEF Tailed, Layers
  <2>2. ASSUME NEW t \in Tasks, TailSteps(t) PROVE <1>2
    BY <2>1, <2>2, TailFrame
  <2>3. ASSUME NEW e \in Drains, ForgetSteps(e) PROVE <1>2
    BY <2>3, ForgetFrame
  <2> QED
    BY <2>2, <2>3 DEF ForgetNext, allVars
<1>3. Readable(Tailed)
  BY <1>2 DEF Readable, ReadableLayer
<1>4. Next \/ UNCHANGED vars
  BY TailsUseThePool, ForgetsUseThePool DEF ForgetNext, allVars
<1>5. Accepted = earlier[d]
  <2>1. earlier[d] \subseteq Accepted
    BY DEF EarlierAreOver, Accepted, TypesOK
  <2>2. Accepted \subseteq Accepted'
    BY <1>4, PhasesGoOn DEF Accepted, TypesOK
  <2> QED
    BY <1>1, <2>1, <2>2
<1>6. \A t \in Tasks : phase[t] # "running"
  BY <1>1, <1>5 DEF EarlierAreOver, Accepted
<1>7. \A l \in Tailed : store'[l] \in {store[l], {}}
  <2>1. ASSUME NEW t \in Tasks, TailSteps(t) PROVE <1>7
    BY <1>6, <2>1, TailFrame
  <2>2. ASSUME NEW e \in Drains, ForgetSteps(e) PROVE <1>7
    BY <2>2, ForgetFrame DEF Tailed, Layers
  <2> QED
    BY <2>1, <2>2 DEF ForgetNext, allVars
<1> QED
  BY <1>1, <1>3, <1>5, <1>7

\* The second pass, step by step.
LEMMA SecondPass ==
  ASSUME TypesOK, NEW d \in Drains, ForgetSteps(d), Readable(Tailed)
  PROVE  /\ pc'[d] = "archive2" =>
               \/ pc[d] = "archive2" /\ UNCHANGED store
               \/ store'["facts"] = {} /\ store'["episodic"] = {}
         /\ pc'[d] = "tombstone2" =>
               \/ pc[d] = "tombstone2" /\ UNCHANGED store
               \/ /\ pc[d] = "archive2" /\ store'["archive"] = {}
                  /\ \A l \in Layers : store'[l] \in {store[l], {}}
         /\ pc'[d] = "verify2" =>
               \/ pc[d] = "verify2" /\ UNCHANGED store
               \/ /\ pc[d] = "tombstone2"
                  /\ \A l \in Layers : store'[l] \in {store[l], {}}
         /\ pc'[d] = "replied" =>
               pc[d] \in {"replied", "verify2", "settle"}
<1> USE DEF TypesOK
<1>0. \A l \in Layers : store'[l] \in {store[l], {}}
  BY ForgetFrame
<1>1. CASE ForgetStarts(d) \/ ForgetDrained(d)
  BY <1>1 DEF ForgetStarts, ForgetDrained
<1>2. CASE ForgetTimesOut(d)
  BY <1>2 DEF ForgetTimesOut, forgetVars
<1>3. CASE ClearAll(d)
  <2>1. pc'[d] \in {"archive", "archive2", "failed"}
    BY <1>3 DEF ClearAll
  <2>2. ASSUME pc'[d] = "archive2"
        PROVE  store'["facts"] = {} /\ store'["episodic"] = {}
    <3>1. PICK kept \in SUBSET Stuck : store' = [l \in Layers |-> Cleared(l, kept)]
      BY <1>3, <2>2 DEF ClearAll
    <3> QED
      BY <3>1 DEF Cleared, Layers, Readable, Tailed
  <2> QED
    BY <2>1, <2>2
<1>4. CASE ClearArchive(d)
  <2>1. store'["archive"] = {}
    BY <1>4 DEF ClearArchive, Readable, Tailed, Layers
  <2> QED
    BY <1>0, <1>4, <2>1 DEF ClearArchive
<1>5. CASE Tombstone(d)
  BY <1>0, <1>5 DEF Tombstone
<1>6. CASE SettleAgain(d) \/ SettledAgain(d)
  BY <1>6 DEF SettleAgain, SettledAgain, Verify
<1>7. CASE VerifyRetry(d)
  BY <1>7 DEF VerifyRetry
<1> QED
  BY <1>1, <1>2, <1>3, <1>4, <1>5, <1>6, <1>7 DEF ForgetSteps

LEMMA SecondPassStep ==
  ASSUME ForgetInv, [ForgetNext]_allVars
  PROVE  SecondPassHolds'
<1> DEFINE Places2 == {"archive2", "tombstone2", "verify2"}
           Upheld(d) ==
             /\ pc[d] \in Places2 => store["facts"] = {} /\ store["episodic"] = {}
             /\ pc[d] \in {"tombstone2", "verify2"} => store["archive"] = {}
             /\ pc[d] = "replied" => reply[d].still \subseteq {"summary", "persona"}
<1> SUFFICES ASSUME NEW d \in Drains, settled'[d], Accepted' = earlier'[d],
                    Readable(Tailed)', pc'[d] \in Verified
             PROVE  Upheld(d)'
  BY DEF SecondPassHolds, Verified
<1>1. CASE ~ForgetSteps(d)
  <2>1. Upheld(d)
    BY <1>1, OthersLeaveIt DEF ForgetInv, SecondPassHolds
  <2> QED
    BY <1>1, <2>1, OthersLeaveIt DEF Tailed
<1>2. CASE ForgetSteps(d)
  <2>1. UNCHANGED phase /\ \A l \in Tailed : health'[l] = health[l]
    BY <1>2, ForgetFrame DEF ForgetInv
  <2>2. Readable(Tailed) /\ Accepted' = Accepted
    BY <2>1 DEF Readable, ReadableLayer, Accepted
  <2>3. pc[d] \in Verified =>
           settled[d] /\ Accepted = earlier[d] /\ Upheld(d)
    <3>1. pc[d] \in Verified => settled'[d] = settled[d] /\ earlier'[d] = earlier[d]
      BY <1>2, HowVerified DEF ForgetInv, Verified
    <3> QED
      BY <2>2, <3>1 DEF ForgetInv, SecondPassHolds
  <2>4. CASE pc'[d] \in Places2
    <3> HIDE DEF Upheld
    <3>1. pc'[d] = "archive2" => Upheld(d)'
      BY <1>2, <2>2, <2>3, SecondPass DEF ForgetInv, Upheld, Verified
    <3>2. pc'[d] = "tombstone2" => Upheld(d)'
      BY <1>2, <2>2, <2>3, SecondPass DEF ForgetInv, Upheld, Verified, Layers
    <3>3. pc'[d] = "verify2" => Upheld(d)'
      BY <1>2, <2>2, <2>3, SecondPass DEF ForgetInv, Upheld, Verified, Layers
    <3> QED
      BY <2>4, <3>1, <3>2, <3>3
  <2>5. CASE pc'[d] = "replied"
    <3>1. reply'[d].still \subseteq {"summary", "persona"}
      <4>1. CASE pc[d] = "replied"
        BY <1>2, <2>3, <2>5, <4>1, HowAnswered DEF ForgetInv, Verified
      <4>2. CASE pc[d] # "replied"
        <5>1. reply'[d].still = Still
          <6>1. reply'[d] = Answer(d, settled'[d])
            BY <1>2, <2>5, <4>2, HowAnswered DEF ForgetInv
          <6>2. Answer(d, settled'[d]).still = Still
            BY DEF Answer
          <6> QED
            BY <6>1, <6>2
        <5>2. pc[d] # "verify2" => Still = {}
          BY <1>2, <2>5, <4>2, HowAnswered DEF ForgetInv
        <5>3. pc[d] = "verify2" => Still \subseteq {"summary", "persona"}
          BY <2>3 DEF Still, Layers, Verified
        <5> QED
          BY <5>1, <5>2, <5>3
      <4> QED
        BY <4>1, <4>2
    <3> QED
      BY <2>5, <3>1
  <2> QED
    BY <2>4, <2>5 DEF Verified
<1> QED
  BY <1>1, <1>2

LEMMA NextForgetInv == ForgetInv /\ [ForgetNext]_allVars => ForgetInv'
  BY TypesStep, EarlierStep, AnsweredStep, SecondPassStep DEF ForgetInv

\* What a /forget knows of the drains it has made is true.
THEOREM ForgetInvariance == ForgetSpec => []ForgetInv
  BY InitForgetInv, NextForgetInv, PTL DEF ForgetSpec

\* What a settled /forget answers it could not clear is a persona or a
\* summary, when no other tail came: the second pass has cleared the rest.
THEOREM SecondPassSuffices == ForgetSpec => []ForgetFinishes
<1>1. ForgetInv => ForgetFinishes
  BY DEF ForgetInv, ForgetFinishes, AnsweredAsFound, SecondPassHolds, Tailed
<1> QED
  BY ForgetInvariance, <1>1, PTL

----------------------------------------------------------------------------
(* What was forgotten stays forgotten.                                     *)

LEMMA MalformedStep ==
  ASSUME TypesOK, FewMalformed, [ForgetNext]_allVars
  PROVE  FewMalformed'
<1>1. CASE UNCHANGED allVars
  BY <1>1 DEF allVars, FewMalformed
<1> QED
  BY <1>1, TailFrame, ForgetFrame DEF ForgetNext

\* The readers of the other layers raise StoreUnreadable only.
THEOREM ReadersAreStrict == ForgetSpec => []FewMalformed
<1>1. ForgetInit => FewMalformed
  BY ForgetAssumption DEF ForgetInit, FewMalformed
<1>2. ForgetInv /\ FewMalformed /\ [ForgetNext]_allVars => FewMalformed'
  BY MalformedStep DEF ForgetInv
<1> QED
  BY <1>1, <1>2, ForgetInvariance, PTL DEF ForgetSpec

LEMMA AnswerNamesAll ==
  ASSUME TypesOK, FewMalformed, [ForgetNext]_allVars, NEW d \in Drains,
         pc[d] # "replied", pc'[d] = "replied"
  PROVE  {l \in Layers : store'[l] # {}} \subseteq Left(d)'
<1>1. ForgetSteps(d)
  <2>1. \A t \in Tasks : TailSteps(t) => pc'[d] = pc[d]
    BY TailFrame DEF forgetVars
  <2>2. \A e \in Drains : ForgetSteps(e) /\ e # d => pc'[d] = pc[d]
    BY ForgetFrame
  <2> QED
    BY <2>1, <2>2 DEF ForgetNext, allVars, forgetVars
<1>2. UNCHANGED <<store, health>> /\ reply'[d] = Answer(d, settled'[d])
  BY <1>1, HowAnswered
<1>3. \A l \in Layers : \/ health[l] \in {"ok", "unreadable"}
                        \/ l \in {"facts", "archive"} /\ health[l] = "malformed"
  BY DEF TypesOK, FewMalformed
<1>4. ASSUME NEW l \in Layers, store[l] # {}
      PROVE  l \in Still \union Unreadable
               \union {k \in {"facts", "archive"} : health[k] = "malformed"}
  BY <1>3, <1>4 DEF Still, Unreadable, ReadableLayer
<1>5. /\ reply'[d].still = Still
      /\ Unreadable \subseteq reply'[d].unreadable
  <2>1. /\ Answer(d, settled'[d]).still = Still
        /\ Unreadable \subseteq Answer(d, settled'[d]).unreadable
    BY DEF Answer
  <2> QED
    BY <1>2, <2>1
<1>6. \A l \in Layers : store'[l] # {} => l \in Left(d)'
  BY <1>2, <1>4, <1>5 DEF Left
<1> QED
  BY <1>6

\* What was forgotten, in every layer but the summaries.
LayersStill ==
    \A d \in Drains : pc[d] = "replied" /\ reply[d].settled =>
        \A l \in Layers \ ({"summary"} \union Left(d)) :
            store[l] \intersect Forgotten(d) = {}

\* An answer that was given is not given again.
LEMMA AnswerStands ==
  ASSUME TypesOK, [ForgetNext]_allVars, NEW d \in Drains, pc[d] = "replied", pc'[d] = "replied"
  PROVE  /\ reply'[d] = reply[d] /\ earlier'[d] = earlier[d]
         /\ Left(d)' = Left(d) /\ Forgotten(d)' = Forgotten(d)
<1>1. reply'[d] = reply[d] /\ earlier'[d] = earlier[d]
  <2>1. ASSUME NEW t \in Tasks, TailSteps(t) PROVE UNCHANGED <<pc, reply, earlier>>
    BY <2>1, TailFrame DEF forgetVars
  <2>2. ASSUME ForgetSteps(d) PROVE reply'[d] = reply[d] /\ earlier'[d] = earlier[d]
    BY <2>2, HowAnswered
  <2>3. ASSUME NEW e \in Drains \ {d}, ForgetSteps(e)
        PROVE  reply'[d] = reply[d] /\ earlier'[d] = earlier[d]
    BY <2>3, ForgetFrame
  <2> QED
    BY <2>1, <2>2, <2>3 DEF ForgetNext, allVars, forgetVars
<1>2. health'["facts"] = health["facts"] /\ health'["archive"] = health["archive"]
  <2>1. ASSUME NEW t \in Tasks, TailSteps(t) PROVE <1>2
    BY <2>1, TailFrame DEF Layers
  <2>2. ASSUME NEW e \in Drains, ForgetSteps(e) PROVE <1>2
    BY <2>2, ForgetFrame DEF Tailed
  <2> QED
    BY <2>1, <2>2 DEF ForgetNext, allVars
<1> QED
  BY <1>1, <1>2 DEF Left, Forgotten

LEMMA PromiseStep ==
  ASSUME ForgetInv, FewMalformed, LayersStill, [ForgetNext]_allVars
  PROVE  LayersStill'
<1> USE DEF ForgetInv
<1> SUFFICES ASSUME NEW d \in Drains, pc'[d] = "replied", reply'[d].settled,
                    NEW l \in Layers \ {"summary"}, l \notin Left(d)'
             PROVE  store'[l] \intersect Forgotten(d)' = {}
  BY DEF LayersStill
\* It has just answered: the layer is empty.
<1>1. CASE pc[d] # "replied"
  <2>1. {k \in Layers : store'[k] # {}} \subseteq Left(d)'
    BY <1>1, AnswerNamesAll
  <2> QED
    BY <2>1
\* It had answered: what it forgot has no writer any more.
<1>2. CASE pc[d] = "replied"
  <2>1. /\ reply'[d] = reply[d] /\ Forgotten(d)' = Forgotten(d)
        /\ l \notin Left(d) /\ reply[d].settled
    BY <1>2, AnswerStands
  <2>2. store[l] \intersect Forgotten(d) = {}
    BY <1>2, <2>1 DEF LayersStill
  <2>3. \A t \in earlier[d] : phase[t] = "gone"
    BY <1>2, <2>1 DEF AnsweredAsFound, EarlierAreOver, Verified
  <2>4. l = "archive" => store["facts"] \intersect Forgotten(d) = {}
    <3>1. l = "archive" => "facts" \notin Left(d)
      BY <2>1 DEF Left
    <3> QED
      BY <1>2, <2>1, <3>1 DEF LayersStill, Layers
  <2>5. ASSUME NEW t \in Tasks, TailSteps(t)
        PROVE  store'[l] \intersect Forgotten(d) = {}
    <3>1. CASE store'[l] = store[l]
      BY <2>2, <3>1
    <3>2. CASE store'[l] # store[l]
      <4>1. /\ phase[t] \in {"unborn", "running"}
            /\ store'[l] \subseteq store[l] \union FromFacts(l) \union {t}
        BY <2>5, <3>2, TailFrame
      <4>2. t \notin Forgotten(d)
        BY <2>3, <4>1, ForgetAssumption DEF Forgotten
      <4>3. FromFacts(l) \intersect Forgotten(d) = {}
        BY <2>4 DEF FromFacts
      <4> QED
        BY <2>2, <4>1, <4>2, <4>3
    <3> QED
      BY <3>1, <3>2
  <2>6. ASSUME NEW e \in Drains, ForgetSteps(e)
        PROVE  store'[l] \intersect Forgotten(d) = {}
    <3>1. store'[l] \in {store[l], {}}
      BY <2>6, ForgetFrame
    <3> QED
      BY <2>2, <3>1
  <2>7. CASE UNCHANGED allVars
    BY <2>1, <2>2, <2>7 DEF allVars
  <2> QED
    BY <2>1, <2>5, <2>6, <2>7 DEF ForgetNext
<1> QED
  BY <1>1, <1>2

\* The same of the four layers that no thread writes: that part of the promise
\* needs nothing of who holds the lock.
THEOREM LayersForGood == ForgetSpec => []LayersStill
<1>1. ForgetInit => LayersStill
  BY DEF ForgetInit, LayersStill
<1>2. ForgetInv /\ FewMalformed /\ LayersStill /\ [ForgetNext]_allVars
        => LayersStill'
  BY PromiseStep
<1> QED
  BY <1>1, <1>2, ForgetInvariance, ReadersAreStrict, PTL DEF ForgetSpec

----------------------------------------------------------------------------
(* Who holds what.                                                        *)

Steps == {"none", "request", "index", "facts", "extracting", "rollup", "rolling", "saving"}

\* The steps of a tail that are made under the lock of the conversation.
Holding == {"extracting", "rolling", "saving"}

\* A tail is at a step of its own from its admission to its end, and the lock
\* is held by a running tail at a step that needs it, or by nobody.
HandsOfTails ==
    /\ phase \in [Tasks -> Phases] /\ step \in [Tasks -> Steps]
    /\ lock \in Tasks \union {NoOne}
    /\ \A t \in Tasks :
          /\ phase[t] = "unborn" => step[t] \in {"none", "request"}
          /\ phase[t] = "queued" => step[t] = "index"
          /\ phase[t] = "running" => step[t] \in Steps \ {"none", "request"}
          /\ phase[t] \in {"ended", "gone", "shed"} => step[t] = "none"
          /\ lock = t <=> phase[t] = "running" /\ step[t] \in Holding

\* A /forget drains the pool where it says so, and nowhere else.
HandsOfForgets ==
    /\ pc \in [Drains -> Places] /\ drainPc \in [Drains -> {"idle", "waiting", "cancelling"}]
    /\ \A d \in Drains : /\ drainPc[d] # "idle" => pc[d] \in {"drain", "settle"}
                         /\ pc[d] = "drain" => drainPc[d] # "idle"

Hands == HandsOfTails /\ HandsOfForgets

LEMMA InitHands == ForgetInit => Hands
  BY ForgetAssumption DEF ForgetInit, Init, Hands, HandsOfTails, HandsOfForgets, Phases,
                          Steps, Places

\* What a step of a tail is: from which phase and step to which others, and
\* what it does with the lock.
LEMMA TailMoves ==
  ASSUME Hands, NEW t \in Tasks, TailSteps(t)
  PROVE  /\ \A u \in Tasks \ {t} : phase'[u] = phase[u] /\ step'[u] = step[u]
         /\ phase' \in [Tasks -> Phases] /\ step' \in [Tasks -> Steps]
         /\ UNCHANGED <<pc, drainPc>>
         /\ \/ /\ phase[t] = "unborn" /\ phase'[t] = "unborn"
               /\ step[t] = "none" /\ step'[t] = "request"
               /\ UNCHANGED <<lock, thread>>
            \/ /\ phase[t] = "unborn" /\ phase'[t] = "queued"
               /\ step[t] = "request" /\ step'[t] = "index"
               /\ UNCHANGED <<lock, thread>>
            \/ /\ phase[t] = "unborn" /\ phase'[t] = "shed"
               /\ step[t] = "request" /\ step'[t] = "none"
               /\ UNCHANGED <<lock, thread>>
            \/ /\ phase[t] = "queued" /\ phase'[t] = "running" /\ step'[t] = step[t]
               /\ UNCHANGED <<lock, thread>>
            \/ /\ phase[t] = "running" /\ phase'[t] = "running"
               /\ \/ /\ step[t] = "index" /\ step'[t] = "facts"
                     /\ UNCHANGED <<lock, thread>>
                  \/ /\ step[t] = "facts" /\ step'[t] = "rollup"
                     /\ UNCHANGED <<lock, thread>>
                  \/ /\ step[t] = "facts" /\ step'[t] = "extracting"
                     /\ lock = NoOne /\ lock' = t /\ thread' = thread
                  \/ /\ step[t] = "extracting" /\ step'[t] = "rollup"
                     /\ lock' = NoOne /\ thread' = thread
                  \/ /\ step[t] = "rollup" /\ step'[t] = "rolling"
                     /\ lock = NoOne /\ lock' = t /\ thread' = thread
                  \/ /\ step[t] = "rolling" /\ step'[t] = "saving"
                     /\ lock' = lock /\ thread' = thread \union {t}
            \/ /\ phase[t] = "running" /\ phase'[t] = "ended" /\ step'[t] = "none"
               /\ lock' = (IF lock = t THEN NoOne ELSE lock) /\ thread' = thread
            \/ /\ phase[t] = "queued" /\ phase'[t] = "ended" /\ step'[t] = "none"
               /\ lock' = lock /\ thread' = thread
            \/ /\ phase[t] = "ended" /\ phase'[t] = "gone" /\ step'[t] = step[t]
               /\ UNCHANGED <<lock, thread>>
            \/ /\ phase' = phase /\ step' = step /\ lock' = lock
               /\ t \in thread /\ thread' = thread \ {t}
<1> USE DEF Hands, HandsOfTails, HandsOfForgets
<1>1. CASE Ask(t)
  BY <1>1 DEF Ask, vars, poolVars, drainVars, forgetVars, Steps
<1>2. CASE Submit(t)
  BY <1>2 DEF Submit, Accept, Shed, drainVars, forgetVars, Steps, Phases
<1>3. CASE Starts(t)
  BY <1>3 DEF Starts, Start, NextInLine, drainVars, forgetVars, tailVars, Phases
<1>4. CASE Skipped(t)
  <2>1. CASE Finish(t)
    <3>1. /\ phase' = [phase EXCEPT ![t] = "ended"] /\ phase[t] = "running"
          /\ drainPc' = drainPc
      BY <2>1 DEF Finish, drainVars
    <3>2. phase' # phase
      BY <3>1
    <3>3. /\ step' = [step EXCEPT ![t] = "none"] /\ thread' = thread /\ pc' = pc
          /\ lock' = (IF lock = t THEN NoOne ELSE lock)
      BY <1>4, <3>1, <3>2, ForgetAssumption
         DEF Skipped, Active, vars, poolVars, forgetVars, Holding
    <3> QED
      BY <3>1, <3>3 DEF Steps, Phases
  <2>2. CASE ~Finish(t)
    BY <1>4, <2>2 DEF Skipped, Active, vars, poolVars, drainVars, forgetVars, Steps
  <2> QED
    BY <2>1, <2>2
<1>5. CASE IndexExchange(t) \/ Extract(t)
  BY <1>5 DEF IndexExchange, Extract, Active, vars, poolVars, drainVars, forgetVars, Steps
<1>6. CASE SaveExtracted(t)
  BY <1>6 DEF SaveExtracted, Active, vars, poolVars, drainVars, forgetVars, Steps
<1>7. CASE LoadState(t)
  <2>1. CASE Finish(t)
    <3>1. /\ phase' = [phase EXCEPT ![t] = "ended"] /\ phase[t] = "running"
          /\ drainPc' = drainPc
      BY <2>1 DEF Finish, drainVars
    <3>2. phase' # phase
      BY <3>1
    <3>3. /\ step' = [step EXCEPT ![t] = "none"] /\ thread' = thread /\ pc' = pc
          /\ lock' = (IF lock = t THEN NoOne ELSE lock)
      BY <1>7, <3>1, <3>2, ForgetAssumption
         DEF LoadState, Active, vars, poolVars, forgetVars, Holding
    <3> QED
      BY <3>1, <3>3 DEF Steps, Phases
  <2>2. CASE ~Finish(t)
    BY <1>7, <2>2 DEF LoadState, Active, vars, poolVars, drainVars, forgetVars, Steps
  <2> QED
    BY <2>1, <2>2
<1>8. CASE SaveState(t)
  <2>1. CASE Finish(t)
    <3>1. /\ phase' = [phase EXCEPT ![t] = "ended"] /\ phase[t] = "running"
          /\ drainPc' = drainPc
      BY <2>1 DEF Finish, drainVars
    <3>2. phase' # phase
      BY <3>1
    <3>3. /\ step' = [step EXCEPT ![t] = "none"] /\ thread' = thread /\ pc' = pc
          /\ lock' = (IF lock = t THEN NoOne ELSE lock)
      BY <1>8, <3>1, <3>2, ForgetAssumption
         DEF SaveState, Active, vars, poolVars, forgetVars, Holding
    <3> QED
      BY <3>1, <3>3 DEF Steps, Phases
  <2>2. CASE ~Finish(t)
    BY <1>8, <2>2 DEF SaveState, Active, vars, poolVars, drainVars, forgetVars, Steps
  <2> QED
    BY <2>1, <2>2
<1>9. CASE ThreadWrites(t)
  BY <1>9 DEF ThreadWrites, vars, poolVars, drainVars, tailVars, forgetVars
<1>10. CASE TailEnds(t)
  BY <1>10 DEF TailEnds, Finish, Active, drainVars, forgetVars, Steps, Phases, Holding
<1>11. CASE TailCancelled(t)
  BY <1>11, ForgetAssumption DEF TailCancelled, Cancelled, drainVars, forgetVars, Steps, Phases
<1>12. CASE TailGone(t)
  BY <1>12 DEF TailGone, OnDone, drainVars, forgetVars, tailVars, Phases
<1> QED
  BY <1>1, <1>2, <1>3, <1>4, <1>5, <1>6, <1>7, <1>8, <1>9, <1>10, <1>11, <1>12 DEF TailSteps

\* What a step of a /forget is.
LEMMA ForgetMoves ==
  ASSUME Hands, NEW d \in Drains, ForgetSteps(d)
  PROVE  /\ UNCHANGED <<phase, queue, outcome, step, rolled, thread, lock>>
         /\ pc' \in [Drains -> Places]
         /\ drainPc' \in [Drains -> {"idle", "waiting", "cancelling"}]
         /\ \A e \in Drains \ {d} : pc'[e] = pc[e] /\ drainPc'[e] = drainPc[e]
         /\ \/ /\ pc[d] = "idle" /\ pc'[d] = "clear" /\ drainPc'[d] = drainPc[d]
            \/ /\ pc[d] = "idle" /\ pc'[d] = "drain" /\ drainPc'[d] = "waiting"
            \/ /\ pc'[d] = pc[d] /\ drainPc[d] = "waiting" /\ drainPc'[d] = "cancelling"
            \/ /\ pc[d] = "drain" /\ pc'[d] = "clear" /\ drainPc'[d] = "idle"
            \/ /\ pc[d] \in {"clear", "clear2", "archive", "archive2", "tombstone",
                             "tombstone2", "verify2"}
               /\ drainPc'[d] = drainPc[d]
               /\ \/ pc[d] \in {"clear", "clear2"} /\ pc'[d] = "failed"
                  \/ pc[d] = "clear" /\ pc'[d] = "archive"
                  \/ pc[d] = "clear2" /\ pc'[d] = "archive2"
                  \/ pc[d] = "archive" /\ pc'[d] = "tombstone"
                  \/ pc[d] = "archive2" /\ pc'[d] = "tombstone2"
                  \/ pc[d] = "tombstone" /\ pc'[d] = "settle"
                  \/ pc[d] = "tombstone2" /\ pc'[d] = "verify2"
                  \/ pc[d] = "verify2" /\ pc'[d] = "replied"
            \/ /\ pc[d] = "settle" /\ pc'[d] \in {"clear2", "replied"} /\ drainPc'[d] = "idle"
            \/ /\ pc[d] = "settle" /\ pc'[d] = "settle"
               /\ drainPc[d] = "idle" /\ drainPc'[d] = "waiting"
<1> USE DEF Hands, HandsOfForgets
<1>1. CASE ForgetStarts(d)
  BY <1>1 DEF ForgetStarts, DrainStarts, vars, poolVars, drainVars, tailVars, Places
<1>2. CASE ForgetTimesOut(d)
  BY <1>2 DEF ForgetTimesOut, DrainTimesOut, tailVars, forgetVars
<1>3. CASE ForgetDrained(d)
  BY <1>3 DEF ForgetDrained, DrainReturns, poolVars, tailVars, Places
<1>4. CASE ClearAll(d)
  <2>1. UNCHANGED <<vars, tailVars, thread>> /\ lock' = NoOne /\ lock = NoOne
    BY <1>4 DEF ClearAll, AfterClear
  <2>2. /\ pc[d] \in {"clear", "clear2"}
        /\ \/ pc' = [pc EXCEPT ![d] = "failed"]
           \/ pc' = [pc EXCEPT ![d] = IF @ = "clear" THEN "archive" ELSE "archive2"]
    BY <1>4 DEF ClearAll
  <2> QED
    BY <2>1, <2>2 DEF vars, poolVars, drainVars, tailVars, Places
<1>5. CASE ClearArchive(d)
  BY <1>5 DEF ClearArchive, vars, poolVars, drainVars, tailVars, Places
<1>6. CASE Tombstone(d)
  BY <1>6 DEF Tombstone, vars, poolVars, drainVars, tailVars, Places
<1>7. CASE SettleAgain(d)
  BY <1>7 DEF SettleAgain, Verify, DrainStarts, vars, poolVars, drainVars, tailVars, Places
<1>8. CASE SettledAgain(d)
  BY <1>8 DEF SettledAgain, Verify, DrainReturns, poolVars, tailVars, Places
<1>9. CASE VerifyRetry(d)
  BY <1>9 DEF VerifyRetry, vars, poolVars, drainVars, tailVars, Places
<1> QED
  BY <1>1, <1>2, <1>3, <1>4, <1>5, <1>6, <1>7, <1>8, <1>9 DEF ForgetSteps

LEMMA NextHands == Hands /\ [ForgetNext]_allVars => Hands'
<1> SUFFICES ASSUME Hands, [ForgetNext]_allVars PROVE Hands'
  OBVIOUS
<1>1. ASSUME NEW t \in Tasks, TailSteps(t) PROVE Hands'
  <2>1. HandsOfForgets'
    BY <1>1, TailMoves DEF Hands, HandsOfForgets
  <2>2. phase' \in [Tasks -> Phases] /\ step' \in [Tasks -> Steps]
    BY <1>1, TailMoves
  <2>3. /\ lock' \in Tasks \union {NoOne}
        /\ \A u \in Tasks \ {t} : phase'[u] = phase[u] /\ step'[u] = step[u]
        /\ \A u \in Tasks \ {t} : lock' = u <=> lock = u
    BY <1>1, TailMoves, ForgetAssumption DEF Hands, HandsOfTails, Holding
  <2>4. /\ phase'[t] = "unborn" => step'[t] \in {"none", "request"}
        /\ phase'[t] = "queued" => step'[t] = "index"
        /\ phase'[t] = "running" => step'[t] \in Steps \ {"none", "request"}
        /\ phase'[t] \in {"ended", "gone", "shed"} => step'[t] = "none"
        /\ lock' = t <=> phase'[t] = "running" /\ step'[t] \in Holding
    BY <1>1, TailMoves, ForgetAssumption DEF Hands, HandsOfTails, Holding, Steps
  <2>5. HandsOfTails'
    BY <2>2, <2>3, <2>4 DEF Hands, HandsOfTails
  <2> QED
    BY <2>1, <2>5 DEF Hands
<1>2. ASSUME NEW d \in Drains, ForgetSteps(d) PROVE Hands'
  <2>1. HandsOfTails'
    BY <1>2, ForgetMoves DEF Hands, HandsOfTails
  <2>2. HandsOfForgets'
    BY <1>2, ForgetMoves DEF Hands, HandsOfForgets
  <2> QED
    BY <2>1, <2>2 DEF Hands
<1>3. CASE UNCHANGED allVars
  BY <1>3 DEF allVars, vars, poolVars, drainVars, tailVars, forgetVars, Hands, HandsOfTails,
              HandsOfForgets
<1> QED
  BY <1>1, <1>2, <1>3 DEF ForgetNext

\* From its admission to its end a tail is where its step says, and the lock
\* with it.
THEOREM HandsInvariance == ForgetSpec => []Hands
  BY InitHands, NextHands, PTL DEF ForgetSpec

----------------------------------------------------------------------------
(* There are finitely many steps.                                         *)

LEMMA TailNearer ==
  ASSUME Hands, NEW t \in Tasks, TailSteps(t)
  PROVE  /\ TailLeft(t)' < TailLeft(t)
         /\ \A u \in Tasks \ {t} : TailLeft(u)' = TailLeft(u)
         /\ \A d \in Drains : ForgetLeft(d)' = ForgetLeft(d)
<1>1. \A u \in Tasks \ {t} : TailLeft(u)' = TailLeft(u)
  BY TailMoves DEF TailLeft
<1>2. \A d \in Drains : ForgetLeft(d)' = ForgetLeft(d)
  BY TailMoves DEF ForgetLeft
<1>3. TailLeft(t)' < TailLeft(t)
  BY TailMoves DEF TailLeft, Hands, HandsOfTails, Steps
<1> QED
  BY <1>1, <1>2, <1>3

LEMMA ForgetNearer ==
  ASSUME Hands, NEW d \in Drains, ForgetSteps(d)
  PROVE  /\ ForgetLeft(d)' < ForgetLeft(d)
         /\ \A e \in Drains \ {d} : ForgetLeft(e)' = ForgetLeft(e)
         /\ \A t \in Tasks : TailLeft(t)' = TailLeft(t)
<1>1. \A e \in Drains \ {d} : ForgetLeft(e)' = ForgetLeft(e)
  BY ForgetMoves DEF ForgetLeft
<1>2. \A t \in Tasks : TailLeft(t)' = TailLeft(t)
  BY ForgetMoves DEF TailLeft
<1>3. ForgetLeft(d)' < ForgetLeft(d)
  BY ForgetMoves DEF ForgetLeft, Hands, HandsOfForgets
<1> QED
  BY <1>1, <1>2, <1>3

LEMMA Ranks ==
    /\ \A t \in Tasks : TailLeft(t) \in 0 .. 13
    /\ \A d \in Drains : ForgetLeft(d) \in 0 .. 14
<1>1. \A t \in Tasks : TailLeft(t) \in 0 .. 13
  BY DEF TailLeft
<1>2. \A d \in Drains : ForgetLeft(d) \in 0 .. 14
  BY DEF ForgetLeft
<1> QED
  BY <1>1, <1>2

\* Every step brings a tail or a /forget nearer to its end and takes none away
\* from it, with ranks that are bounded (Ranks): what is left of the work of N
\* tails and M of /forget is at most 13 N + 14 M steps, whatever is retried.
THEOREM EveryStepCounts == ForgetSpec => NothingGoesRound
<1>1. Hands /\ [ForgetNext]_allVars =>
        [/\ \A t \in Tasks : TailLeft(t)' <= TailLeft(t)
         /\ \A d \in Drains : ForgetLeft(d)' <= ForgetLeft(d)
         /\ \/ \E t \in Tasks : TailLeft(t)' < TailLeft(t)
            \/ \E d \in Drains : ForgetLeft(d)' < ForgetLeft(d)]_allVars
  <2> SUFFICES ASSUME Hands, ForgetNext
               PROVE  /\ \A t \in Tasks : TailLeft(t)' <= TailLeft(t)
                      /\ \A d \in Drains : ForgetLeft(d)' <= ForgetLeft(d)
                      /\ \/ \E t \in Tasks : TailLeft(t)' < TailLeft(t)
                         \/ \E d \in Drains : ForgetLeft(d)' < ForgetLeft(d)
    OBVIOUS
  <2>1. /\ \A t \in Tasks : TailLeft(t) \in Int
        /\ \A d \in Drains : ForgetLeft(d) \in Int
    BY Ranks
  <2>2. ASSUME NEW t \in Tasks, TailSteps(t)
        PROVE  /\ \A u \in Tasks : TailLeft(u)' <= TailLeft(u)
               /\ \A d \in Drains : ForgetLeft(d)' <= ForgetLeft(d)
               /\ \E u \in Tasks : TailLeft(u)' < TailLeft(u)
    <3>1. TailLeft(t)' < TailLeft(t)
      BY <2>2, TailNearer
    <3>2. TailLeft(t)' <= TailLeft(t)
      BY <3>1 DEF TailLeft
    <3> QED
      BY <2>1, <2>2, <3>1, <3>2, TailNearer
  <2>3. ASSUME NEW d \in Drains, ForgetSteps(d)
        PROVE  /\ \A t \in Tasks : TailLeft(t)' <= TailLeft(t)
               /\ \A e \in Drains : ForgetLeft(e)' <= ForgetLeft(e)
               /\ \E e \in Drains : ForgetLeft(e)' < ForgetLeft(e)
    <3>1. ForgetLeft(d)' < ForgetLeft(d)
      BY <2>3, ForgetNearer
    <3>2. ForgetLeft(d)' <= ForgetLeft(d)
      BY <3>1 DEF ForgetLeft
    <3> QED
      BY <2>1, <2>3, <3>1, <3>2, ForgetNearer
  <2> QED
    BY <2>2, <2>3 DEF ForgetNext
<1> QED
  BY HandsInvariance, <1>1, PTL DEF ForgetSpec, NothingGoesRound

----------------------------------------------------------------------------
(* Somebody can always go on.                                              *)

\* The holder of the lock can, and a running tail that waits for the lock
\* waits for its holder only.
LEMMA RunningGoOn ==
  ASSUME Hands, NEW t \in Tasks, phase[t] = "running"
  PROVE  \E u \in Tasks : TailCanGoOn(u)
<1> USE DEF Hands, HandsOfTails, TailCanGoOn, Active, Holding
<1>1. CASE t \in dying
  BY <1>1
<1>2. CASE step[t] \in Holding
  BY <1>2
<1>3. CASE t \notin dying /\ step[t] \notin Holding
  <2>1. step[t] \in {"index", "facts", "rollup"}
    BY <1>3 DEF Steps
  <2>2. CASE lock = NoOne
    BY <1>3, <2>1, <2>2
  <2>3. CASE lock \in Tasks
    <3>1. phase[lock] = "running" /\ step[lock] \in Holding
      BY <2>3
    <3>2. TailCanGoOn(lock)
      BY <2>3, <3>1
    <3> QED
      BY <2>3, <3>2
  <2> QED
    BY <2>2, <2>3
<1> QED
  BY <1>1, <1>2, <1>3

\* With nobody running the semaphore has room, and the queue has a first.
LEMMA QueuedGoOn ==
  ASSUME QueueInv, NEW t \in Tasks, phase[t] = "queued",
         \A u \in Tasks : phase[u] # "running"
  PROVE  \E u \in Tasks : TailCanGoOn(u)
<1>1. Cardinality(Running) < MaxConcurrent
  <2>1. Running = {}
    BY DEF Running
  <2> QED
    BY <2>1, FS_EmptySet, Bounds
<1> DEFINE willing == {i \in 1 .. Len(queue) : queue[i] \notin dying}
<1>2. CASE willing = {}
  <2>1. t \in dying
    BY <1>2 DEF QueueInv
  <2> QED
    BY <2>1 DEF TailCanGoOn
<1>3. CASE willing # {}
  <2>1. queue \in Seq(Tasks) /\ Len(queue) \in Nat /\ DOMAIN queue = 1 .. Len(queue)
    BY DEF QueueInv
  <2>2. willing \in SUBSET Nat
    BY <2>1
  <2>3. PICK i \in willing : \A j \in willing : i <= j
    BY <1>3, <2>2, Least
  <2>4. i \in 1 .. Len(queue) /\ queue[i] \in Tasks /\ queue[i] \notin dying
    BY <2>1, <2>3
  <2>5. phase[queue[i]] = "queued"
    BY <2>4 DEF QueueInv
  <2>6. \A j \in 1 .. i - 1 : queue[j] \in dying
    <3> SUFFICES ASSUME NEW j \in 1 .. i - 1, queue[j] \notin dying PROVE FALSE
      OBVIOUS
    <3>1. j \in willing /\ j < i
      BY <2>1, <2>4
    <3> QED
      BY <2>1, <2>3, <2>4, <3>1
  <2>7. NextInLine(queue[i])
    BY <2>1, <2>4, <2>5, <2>6 DEF NextInLine
  <2> QED
    BY <1>1, <2>4, <2>7 DEF TailCanGoOn
<1> QED
  BY <1>2, <1>3

\* With the pool empty the lock is free and no drain waits for anything.
LEMMA BusyGoOn ==
  ASSUME Hands, Outstanding = {}, NEW d \in Drains, pc[d] \notin {"idle", "replied", "failed"}
  PROVE  ForgetCanGoOn(d)
<1>1. lock = NoOne
  BY DEF Hands, HandsOfTails, Outstanding
<1>2. gathered[d] \intersect Outstanding = {}
  OBVIOUS
<1>3. pc[d] \in Places \ {"idle", "replied", "failed"} /\ (pc[d] = "drain" => drainPc[d] # "idle")
  BY DEF Hands, HandsOfForgets
<1> QED
  BY <1>1, <1>2, <1>3 DEF ForgetCanGoOn, Places

\* While anything is under way a tail, a thread or a /forget can go on: the
\* lock is held by a running tail that does not wait for it, with nobody running
\* the queue's first is admitted or cancelled, and with the pool empty every
\* drain returns.
THEOREM NobodyIsStuck == ForgetSpec => []NobodyWaitsForAll
<1>1. Hands /\ QueueInv => NobodyWaitsForAll
  <2> SUFFICES ASSUME Hands, QueueInv, UnderWay
               PROVE  \/ \E t \in Tasks : TailCanGoOn(t)
                      \/ \E d \in Drains : ForgetCanGoOn(d)
    BY DEF NobodyWaitsForAll
  <2>1. CASE Outstanding = {}
    BY <2>1, BusyGoOn DEF UnderWay
  <2>2. CASE Outstanding # {}
    <3>1. PICK t \in Tasks : phase[t] \in {"queued", "running", "ended"}
      BY <2>2 DEF Outstanding
    <3>2. CASE phase[t] = "ended"
      BY <3>2 DEF TailCanGoOn
    <3>3. CASE phase[t] = "queued"
      BY <3>3, QueuedGoOn, RunningGoOn
    <3>4. CASE phase[t] = "running"
      BY <3>4, RunningGoOn
    <3> QED
      BY <3>1, <3>2, <3>3, <3>4
  <2> QED
    BY <2>1, <2>2
<1> QED
  BY <1>1, HandsInvariance, QueueInvariance, ForgetKeepsPool, PTL

----------------------------------------------------------------------------
(* Who brings summaries back.                                              *)

\* No tail was cancelled with a rollup in its hands.
NoOrphans == Orphans = {}

\* What a rollup has in its hands is the stored state with its own exchange,
\* for as long as its tail holds the lock; without orphans that is always.
RollupsInHand ==
    /\ outcome \in [Tasks -> {"none", "finished", "cancelled"}]
    /\ \A t \in Tasks :
          /\ phase[t] \in {"unborn", "queued", "running"} => outcome[t] = "none"
          /\ step[t] \in {"rolling", "saving"} \/ t \in thread => t \in rolled[t]
    /\ NoOrphans => \A t \in Tasks :
          /\ t \in thread => phase[t] = "running" /\ step[t] = "saving"
          /\ step[t] = "rolling" \/ t \in thread => rolled[t] \subseteq store["summary"] \union {t}

LEMMA InitRollups == ForgetInit => RollupsInHand
  BY DEF ForgetInit, Init, RollupsInHand

\* What a step of a tail does to the outcomes, the rollups and the summaries.
LEMMA TailRolls ==
  ASSUME TypesOK, Hands, NEW t \in Tasks, TailSteps(t)
  PROVE  /\ \/ outcome' = outcome
            \/ /\ outcome' = [outcome EXCEPT ![t] = "finished"]
               /\ phase[t] = "running" /\ phase'[t] = "ended" /\ step'[t] = "none"
               /\ t \in thread => step[t] # "saving"
            \/ /\ outcome' = [outcome EXCEPT ![t] = "cancelled"]
               /\ phase'[t] = "ended" /\ step'[t] = "none"
         /\ phase'[t] \in {"unborn", "queued", "running"} =>
               outcome' = outcome /\ phase[t] \in {"unborn", "queued", "running"}
         /\ \/ rolled' = rolled /\ (step'[t] = "rolling" => step[t] = "rolling")
            \/ /\ rolled' = [rolled EXCEPT ![t] = store["summary"] \union {t}]
               /\ step[t] = "rollup" /\ step'[t] = "rolling"
               /\ phase[t] = "running" /\ lock = NoOne
         /\ \/ store'["summary"] = store["summary"]
            \/ t \in thread /\ store'["summary"] = rolled[t] /\ thread' = thread \ {t}
         /\ step'[t] = "saving" /\ step[t] # "saving" =>
               step[t] = "rolling" /\ store' = store /\ phase[t] = "running"
<1> USE DEF TypesOK, Layers, Hands, HandsOfTails
<1>1. CASE Ask(t)
  BY <1>1 DEF Ask, vars, poolVars
<1>2. CASE Submit(t)
  BY <1>2 DEF Submit, Accept, Shed
<1>3. CASE Starts(t)
  BY <1>3 DEF Starts, Start, NextInLine, tailVars
<1>4. CASE Skipped(t)
  <2>1. UNCHANGED <<store, rolled, thread>> /\ step[t] \in {"index", "facts", "rollup"}
    BY <1>4 DEF Skipped
  <2>2. CASE Finish(t)
    <3>1. /\ phase' = [phase EXCEPT ![t] = "ended"] /\ phase[t] = "running"
          /\ outcome' = [outcome EXCEPT ![t] = "finished"]
      BY <2>2 DEF Finish
    <3>2. step' = [step EXCEPT ![t] = "none"]
      BY <1>4, <3>1 DEF Skipped, vars, poolVars
    <3> QED
      BY <2>1, <3>1, <3>2
  <2>3. CASE ~Finish(t)
    BY <1>4, <2>1, <2>3 DEF Skipped, Active, vars, poolVars
  <2> QED
    BY <2>2, <2>3
<1>5. CASE IndexExchange(t) \/ Extract(t)
  BY <1>5 DEF IndexExchange, Extract, Active, vars, poolVars
<1>6. CASE SaveExtracted(t)
  <2>1. UNCHANGED <<outcome, phase, rolled, thread>> /\ step' = [step EXCEPT ![t] = "rollup"]
    BY <1>6 DEF SaveExtracted, vars, poolVars
  <2>2. store'["summary"] = store["summary"] /\ phase[t] = "running" /\ step[t] = "extracting"
    BY <1>6 DEF SaveExtracted, Active
  <2> QED
    BY <2>1, <2>2
<1>7. CASE LoadState(t)
  <2>1. /\ UNCHANGED <<store, thread>> /\ step[t] = "rollup" /\ lock = NoOne
        /\ phase[t] = "running"
    BY <1>7 DEF LoadState, Active
  <2>2. CASE ReadableLayer("summary")
    BY <1>7, <2>1, <2>2 DEF LoadState, vars, poolVars
  <2>3. CASE ~ReadableLayer("summary")
    BY <1>7, <2>1, <2>3 DEF LoadState, Finish
  <2> QED
    BY <2>2, <2>3
<1>8. CASE SaveState(t)
  <2>1. UNCHANGED <<store, rolled>> /\ step[t] = "rolling" /\ phase[t] = "running"
    BY <1>8 DEF SaveState, Active
  <2>2. CASE Finish(t)
    <3>1. /\ phase' = [phase EXCEPT ![t] = "ended"]
          /\ outcome' = [outcome EXCEPT ![t] = "finished"]
      BY <2>2 DEF Finish
    <3>2. step' = [step EXCEPT ![t] = "none"]
      BY <1>8, <2>1, <3>1 DEF SaveState, vars, poolVars
    <3> QED
      BY <2>1, <3>1, <3>2
  <2>3. CASE ~Finish(t)
    BY <1>8, <2>1, <2>3 DEF SaveState, vars, poolVars
  <2> QED
    BY <2>2, <2>3
<1>9. CASE ThreadWrites(t)
  BY <1>9 DEF ThreadWrites, vars, poolVars, tailVars
<1>10. CASE TailEnds(t)
  BY <1>10 DEF TailEnds, Finish, Active
<1>11. CASE TailCancelled(t)
  BY <1>11 DEF TailCancelled, Cancelled
<1>12. CASE TailGone(t)
  BY <1>12 DEF TailGone, OnDone, tailVars
<1> QED
  BY <1>1, <1>2, <1>3, <1>4, <1>5, <1>6, <1>7, <1>8, <1>9, <1>10, <1>11, <1>12 DEF TailSteps

\* A tail ends finished or cancelled, and finishes only without a thread.
LEMMA TailCloses ==
  ASSUME TypesOK, Hands, NEW t \in Tasks, TailSteps(t), phase[t] = "running",
         phase'[t] = "ended", t \in thread, step[t] = "saving",
         outcome \in [Tasks -> {"none", "finished", "cancelled"}]
  PROVE  outcome'[t] = "cancelled"
<1> USE DEF TypesOK
<1>1. CASE TailCancelled(t)
  BY <1>1 DEF TailCancelled, Cancelled
<1>2. CASE Ask(t) \/ Starts(t) \/ IndexExchange(t) \/ Extract(t) \/ SaveExtracted(t)
           \/ ThreadWrites(t) \/ Submit(t)
  BY <1>2 DEF Ask, Starts, Start, NextInLine, IndexExchange, Extract, SaveExtracted,
              ThreadWrites, Submit, Accept, Shed, vars, poolVars
<1>3. CASE Skipped(t) \/ LoadState(t) \/ SaveState(t) \/ TailEnds(t) \/ TailGone(t)
  BY <1>3 DEF Skipped, LoadState, SaveState, TailEnds, TailGone, OnDone
<1> QED
  BY <1>1, <1>2, <1>3 DEF TailSteps

\* A /forget touches the summaries under the lock only.
LEMMA ForgetRolls ==
  ASSUME TypesOK, Hands, NEW d \in Drains, ForgetSteps(d)
  PROVE  lock # NoOne => store'["summary"] = store["summary"]
<1> SUFFICES ASSUME lock # NoOne PROVE store'["summary"] = store["summary"]
  OBVIOUS
<1>1. CASE ClearAll(d)
  BY <1>1 DEF ClearAll
<1>2. CASE ForgetStarts(d) \/ ForgetTimesOut(d) \/ ForgetDrained(d) \/ SettleAgain(d)
           \/ SettledAgain(d) \/ VerifyRetry(d)
  BY <1>2 DEF ForgetStarts, ForgetTimesOut, ForgetDrained, SettleAgain, SettledAgain, VerifyRetry
<1>3. CASE ClearArchive(d) \/ Tombstone(d)
  BY <1>3 DEF ClearArchive, Tombstone, TypesOK, Layers
<1> QED
  BY <1>1, <1>2, <1>3 DEF ForgetSteps

\* A cancelled rollup stays one.
LEMMA OrphansStay ==
  ASSUME TypesOK, Hands, RollupsInHand, [ForgetNext]_allVars, NoOrphans'
  PROVE  NoOrphans
<1> SUFFICES ASSUME NEW u \in Tasks, outcome[u] = "cancelled" PROVE rolled[u] = {}
  BY DEF NoOrphans, Orphans
<1>1. outcome'[u] = "cancelled" => rolled'[u] = {}
  BY DEF NoOrphans, Orphans
<1>2. phase[u] # "running"
  BY DEF RollupsInHand
<1>3. ASSUME NEW t \in Tasks, TailSteps(t) PROVE rolled[u] = {}
  <2>1. outcome'[u] = "cancelled"
    BY <1>2, <1>3, TailRolls DEF RollupsInHand
  <2>2. rolled'[u] = rolled[u]
    BY <1>2, <1>3, TailRolls DEF TypesOK
  <2> QED
    BY <1>1, <2>1, <2>2
<1>4. ASSUME NEW d \in Drains, ForgetSteps(d) PROVE rolled[u] = {}
  BY <1>1, <1>4, ForgetMoves
<1>5. CASE UNCHANGED allVars
  BY <1>1, <1>5 DEF allVars, vars, poolVars, tailVars
<1> QED
  BY <1>3, <1>4, <1>5 DEF ForgetNext

LEMMA RollupsStep ==
  ASSUME TypesOK, Hands, RollupsInHand, [ForgetNext]_allVars
  PROVE  RollupsInHand'
<1> USE DEF TypesOK
<1>1. ASSUME NEW t \in Tasks, TailSteps(t) PROVE RollupsInHand'
  <2>1. outcome' \in [Tasks -> {"none", "finished", "cancelled"}]
    BY <1>1, TailRolls DEF RollupsInHand
  <2>2. ASSUME NEW u \in Tasks
        PROVE  phase'[u] \in {"unborn", "queued", "running"} => outcome'[u] = "none"
    BY <1>1, TailRolls, TailMoves DEF RollupsInHand
  <2>3. ASSUME NEW u \in Tasks
        PROVE  step'[u] \in {"rolling", "saving"} \/ u \in thread' => u \in rolled'[u]
    <3>1. CASE u # t
      BY <1>1, <3>1, TailRolls, TailMoves DEF RollupsInHand
    <3>2. CASE u = t
      BY <1>1, <3>2, TailRolls, TailMoves DEF RollupsInHand
    <3> QED
      BY <3>1, <3>2
  <2>4. ASSUME NoOrphans', NEW u \in Tasks
        PROVE  /\ u \in thread' => phase'[u] = "running" /\ step'[u] = "saving"
               /\ step'[u] = "rolling" \/ u \in thread' =>
                     rolled'[u] \subseteq store'["summary"] \union {u}
    <3>0. NoOrphans
      BY <2>4, OrphansStay
    <3>1. \A v \in Tasks :
             /\ v \in thread => phase[v] = "running" /\ step[v] = "saving"
             /\ step[v] = "rolling" \/ v \in thread =>
                   rolled[v] \subseteq store["summary"] \union {v}
      BY <3>0 DEF RollupsInHand
    <3>2. \A v \in Tasks : step[v] = "rolling" \/ v \in thread => lock = v
      BY <3>1 DEF Hands, HandsOfTails, Holding, Steps, Phases
    <3>3. CASE u # t
      <4>1. u \in thread' <=> u \in thread
        BY <1>1, <3>3, TailMoves
      <4>2. phase'[u] = phase[u] /\ step'[u] = step[u]
        BY <1>1, <3>3, TailMoves
      <4>3. rolled'[u] = rolled[u]
        BY <1>1, <3>3, TailRolls
      <4>4. step[u] = "rolling" \/ u \in thread => store'["summary"] = store["summary"]
        BY <1>1, <3>2, <3>3, TailRolls
      <4> QED
        BY <3>1, <4>1, <4>2, <4>3, <4>4
    <3>4. CASE u = t
      <4>1. outcome'[t] = "cancelled" => rolled'[t] = {}
        BY <2>4 DEF NoOrphans, Orphans
      <4>2. t \in thread' => phase'[t] = "running" /\ step'[t] = "saving"
        <5> SUFFICES ASSUME t \in thread' PROVE phase'[t] = "running" /\ step'[t] = "saving"
          OBVIOUS
        <5>1. CASE t \notin thread
          BY <1>1, <5>1, TailMoves
        <5>2. CASE t \in thread
          <6>1. phase[t] = "running" /\ step[t] = "saving" /\ t \in rolled[t]
            BY <3>1, <5>2 DEF RollupsInHand
          <6>2. rolled'[t] = rolled[t]
            BY <1>1, <6>1, TailRolls
          <6>3. outcome'[t] # "cancelled"
            BY <4>1, <6>1, <6>2
          <6>4. phase'[t] = "running"
            <7>1. phase'[t] \in {"running", "ended"}
              BY <1>1, <6>1, TailMoves
            <7>2. phase'[t] = "ended" => outcome'[t] = "cancelled"
              BY <1>1, <5>2, <6>1, TailRolls, TailCloses DEF RollupsInHand
            <7> QED
              BY <6>3, <7>1, <7>2
          <6> QED
            BY <1>1, <6>1, <6>4, TailMoves
        <5> QED
          BY <5>1, <5>2
      <4>3. step'[t] = "rolling" \/ t \in thread' =>
               rolled'[t] \subseteq store'["summary"] \union {t}
        <5> SUFFICES ASSUME step'[t] = "rolling" \/ t \in thread'
                     PROVE  rolled'[t] \subseteq store'["summary"] \union {t}
          OBVIOUS
        <5>1. CASE rolled' = [rolled EXCEPT ![t] = store["summary"] \union {t}] /\ step[t] = "rollup"
          BY <1>1, <3>1, <5>1, TailRolls
        <5>2. CASE rolled' = rolled /\ (step'[t] = "rolling" => step[t] = "rolling")
          <6>1. step[t] = "rolling" \/ t \in thread
            BY <1>1, <5>2, TailMoves
          <6>2. store'["summary"] = store["summary"]
            BY <1>1, <3>1, TailRolls
          <6> QED
            BY <3>1, <5>2, <6>1, <6>2
        <5> QED
          BY <1>1, <5>1, <5>2, TailRolls
      <4> QED
        BY <3>4, <4>2, <4>3
    <3> QED
      BY <3>3, <3>4
  <2> QED
    BY <2>1, <2>2, <2>3, <2>4 DEF RollupsInHand
<1>2. ASSUME NEW d \in Drains, ForgetSteps(d) PROVE RollupsInHand'
  <2>1. UNCHANGED <<phase, outcome, step, rolled, thread, lock>>
    BY <1>2, ForgetMoves
  <2>2. (NoOrphans' <=> NoOrphans)
    BY <2>1 DEF NoOrphans, Orphans
  <2>3. ASSUME NoOrphans, NEW t \in Tasks
        PROVE  /\ t \in thread => phase[t] = "running" /\ step[t] = "saving"
               /\ step[t] = "rolling" \/ t \in thread =>
                     rolled[t] \subseteq store'["summary"] \union {t}
    <3>1. /\ t \in thread => phase[t] = "running" /\ step[t] = "saving"
          /\ step[t] = "rolling" \/ t \in thread =>
                rolled[t] \subseteq store["summary"] \union {t}
      BY <2>3 DEF RollupsInHand
    <3>2. step[t] = "rolling" \/ t \in thread => lock = t
      BY <3>1 DEF Hands, HandsOfTails, Holding, Steps, Phases
    <3>3. lock = t => store'["summary"] = store["summary"]
      BY <1>2, ForgetRolls, ForgetAssumption
    <3> QED
      BY <3>1, <3>2, <3>3
  <2> QED
    BY <2>1, <2>2, <2>3 DEF RollupsInHand
<1>3. CASE UNCHANGED allVars
  BY <1>3 DEF allVars, vars, poolVars, tailVars, RollupsInHand, NoOrphans, Orphans
<1> QED
  BY <1>1, <1>2, <1>3 DEF ForgetNext

\* The summaries, after a clean answer and without orphans.
SummariesStill ==
    NoOrphans => \A d \in Drains :
        pc[d] = "replied" /\ reply[d].settled /\ "summary" \notin Left(d) =>
            store["summary"] \intersect Forgotten(d) = {}

LEMMA SummariesStep ==
  ASSUME ForgetInv, FewMalformed, Hands, RollupsInHand, SummariesStill, [ForgetNext]_allVars
  PROVE  SummariesStill'
<1> USE DEF ForgetInv
<1> SUFFICES ASSUME NoOrphans', NEW d \in Drains, pc'[d] = "replied",
                    reply'[d].settled, "summary" \notin Left(d)'
             PROVE  store'["summary"] \intersect Forgotten(d)' = {}
  BY DEF SummariesStill
<1>0. NoOrphans
  BY OrphansStay
<1>2. CASE pc[d] # "replied"
  <2>1. {k \in Layers : store'[k] # {}} \subseteq Left(d)'
    BY <1>2, AnswerNamesAll
  <2> QED
    BY <2>1 DEF Layers
<1>3. CASE pc[d] = "replied"
  <2>2. /\ Forgotten(d)' = Forgotten(d) /\ reply[d].settled
        /\ "summary" \notin Left(d)
    BY <1>3, AnswerStands
  <2>3. store["summary"] \intersect Forgotten(d) = {}
    BY <1>0, <1>3, <2>2 DEF SummariesStill
  <2>4. \A t \in earlier[d] : phase[t] = "gone"
    BY <1>3, <2>2 DEF AnsweredAsFound, EarlierAreOver, Verified
  <2>5. ASSUME NEW t \in Tasks, TailSteps(t)
        PROVE  store'["summary"] \intersect Forgotten(d) = {}
    <3>1. CASE store'["summary"] = store["summary"]
      BY <2>3, <3>1
    <3>2. CASE t \in thread /\ store'["summary"] = rolled[t]
      <4>1. phase[t] = "running" /\ rolled[t] \subseteq store["summary"] \union {t}
        BY <1>0, <3>2 DEF RollupsInHand
      <4>2. t \notin Forgotten(d)
        BY <2>4, <4>1, ForgetAssumption DEF Forgotten
      <4> QED
        BY <2>3, <3>2, <4>1, <4>2
    <3> QED
      BY <2>5, <3>1, <3>2, TailRolls
  <2>6. ASSUME NEW e \in Drains, ForgetSteps(e)
        PROVE  store'["summary"] \intersect Forgotten(d) = {}
    <3>1. store'["summary"] \in {store["summary"], {}}
      BY <2>6, ForgetFrame DEF Layers
    <3> QED
      BY <2>3, <3>1
  <2>7. CASE UNCHANGED allVars
    BY <2>2, <2>3, <2>7 DEF allVars
  <2> QED
    BY <2>2, <2>5, <2>6, <2>7 DEF ForgetNext
<1> QED
  BY <1>2, <1>3

\* What a settled /forget answers to be gone stays gone, whatever the tails
\* that were parked, cancelled or submitted since: from every layer it does
\* not name, and from the summaries but for the rollups that were cancelled
\* with them in their hands and whose threads go on.
THEOREM ForgottenForGood == ForgetSpec => []ForgottenStaysForgotten
<1>1. ForgetInit => SummariesStill
  BY DEF ForgetInit, SummariesStill
<1>2. ForgetInv /\ Hands /\ RollupsInHand /\ [ForgetNext]_allVars => RollupsInHand'
  BY RollupsStep DEF ForgetInv
<1>3. ForgetInv /\ FewMalformed /\ Hands /\ RollupsInHand /\ SummariesStill
         /\ [ForgetNext]_allVars => SummariesStill'
  BY SummariesStep
<1>4. LayersStill /\ SummariesStill => ForgottenStaysForgotten
  <2> SUFFICES ASSUME LayersStill, SummariesStill, NEW d \in Drains,
                      pc[d] = "replied", reply[d].settled, NEW l \in Layers,
                      l \notin Left(d), l = "summary" => NoOrphans
               PROVE  store[l] \intersect Forgotten(d) = {}
    BY DEF ForgottenStaysForgotten, NoOrphans
  <2>1. CASE l = "summary"
    BY <2>1 DEF SummariesStill
  <2>2. CASE l # "summary"
    BY <2>2 DEF LayersStill
  <2> QED
    BY <2>1, <2>2
<1> QED
  BY <1>1, <1>2, <1>3, <1>4, InitRollups, ForgetInvariance, HandsInvariance, ReadersAreStrict,
     LayersForGood, PTL DEF ForgetSpec

----------------------------------------------------------------------------
(* The memory tail: what is decided on a reply, what becomes of it, and    *)
(* what /health/full knows of both.                                        *)

Jobs == {"none", "tail", "index", "facts", "rollup"}
Decisions == [outcome : OUTCOMES \union {"none"}, at : Nat, paired : BOOLEAN]

TailTypes ==
    /\ phase \in [Tasks -> Phases]
    /\ outcome \in [Tasks -> {"none", "finished", "cancelled"}]
    /\ room \in BOOLEAN /\ readable \in BOOLEAN
    /\ now \in Nat /\ roomAt \in Int
    /\ cache \in [until : Nat, allowed : BOOLEAN]
    /\ ledger \in [OUTCOMES -> Nat]
    /\ lossyAt \in Nat \union {Never}
    /\ empties \in 0 .. EmptyRun
    /\ job \in [Tasks -> Jobs]
    /\ decided \in [Tasks -> Decisions]
    /\ order \in Seq(Tasks)
    /\ indexed \in SUBSET Tasks /\ pressed \in SUBSET Tasks

\* The time of the last loss is that of a reply that was lost, and of none
\* that was lost later.
LatestLoss ==
    /\ \A t \in Lost : decided[t].at <= lossyAt
    /\ lossyAt # Never =>
          lossyAt <= now /\ \E t \in Lost : decided[t].at = lossyAt

\* The last j replies were empty.
LastEmpty(j) ==
    /\ Len(order) >= j
    /\ \A k \in Len(order) - j + 1 .. Len(order) :
          decided[order[k]].outcome = "skipped_empty"

\* consecutive_empty is the length of the run of empty replies, up to EmptyRun.
EmptiesCounted ==
    /\ \A k \in 1 .. Len(order) : decided[order[k]].outcome # "none"
    /\ \A j \in 1 .. EmptyRun : empties >= j <=> LastEmpty(j)

Saved(t) == decided[t].outcome \in STORING_OUTCOMES

\* Where the tail of a reply that was counted as stored is.
StoredWhere ==
    \A t \in Tasks : Saved(t) =>
        /\ decided[t].paired
        /\ \/ phase[t] = "queued" /\ job[t] = "tail"
           \/ phase[t] = "running" /\ job[t] \in {"tail", "index"}
           \/ phase[t] = "running" /\ job[t] = "facts" /\ t \in indexed
           \/ /\ phase[t] \in {"ended", "gone"}
              /\ outcome[t] = "cancelled" \/ t \in indexed \/ t \in pressed

\* A reading that refuses was taken when the disk was short, and since then
\* nothing was counted as stored.
RefusalIsKnown ==
    (~room \/ (now < cache.until /\ ~cache.allowed)) =>
        \A t \in Tasks : Saved(t) => t \in pressed

\* A reading that allows is at most Ttl younger than the room it has seen.
RoomKnown ==
    /\ roomAt <= now
    /\ HasRoom => roomAt = now
    /\ now < cache.until /\ cache.allowed => cache.until <= roomAt + Ttl

TailInv ==
    /\ TailTypes /\ LatestLoss /\ EmptiesCounted /\ StoredWhere
    /\ RefusalIsKnown /\ RoomKnown /\ LedgerIsTrue

LEMMA TailConstants ==
    /\ Ttl \in Nat /\ Ttl >= 1 /\ EmptyRun \in Nat /\ EmptyRun >= 1 /\ Window \in Nat
    /\ IsFiniteSet(Tasks)
  BY TailAssumption, PoolAssumption

LEMMA InitTailInv == TailInit => TailInv
<1> SUFFICES ASSUME TailInit PROVE TailInv
  OBVIOUS
<1>1. decided = [t \in Tasks |-> [outcome |-> "none", at |-> 0, paired |-> FALSE]]
  BY DEF TailInit
<1>2. TailTypes
  BY TailConstants DEF TailInit, Init, TailTypes, Phases, Jobs, Decisions, Never
<1>3. \A t \in Tasks : decided[t].outcome = "none"
  BY <1>1
<1>4. Lost = {} /\ \A t \in Tasks : ~Saved(t)
  BY <1>3 DEF Lost, Saved, STORING_OUTCOMES
<1>5. LatestLoss /\ StoredWhere /\ RefusalIsKnown
  BY <1>4 DEF LatestLoss, StoredWhere, RefusalIsKnown, TailInit
<1>6. EmptiesCounted
  <2>1. order = <<>> /\ empties = 0 /\ Len(order) = 0
    BY DEF TailInit
  <2> QED
    BY <2>1, TailConstants DEF EmptiesCounted, LastEmpty
<1>7. RoomKnown
  BY TailConstants DEF TailInit, RoomKnown, HasRoom
<1>8. LedgerIsTrue
  <2> SUFFICES ASSUME NEW o \in OUTCOMES
               PROVE  ledger[o] = Cardinality({t \in Tasks : decided[t].outcome = o})
    BY DEF LedgerIsTrue
  <2>1. o # "none"
    BY DEF OUTCOMES, STORING_OUTCOMES, HARMLESS_SKIP_OUTCOMES
  <2>2. {t \in Tasks : decided[t].outcome = o} = {}
    BY <1>3, <2>1
  <2> QED
    BY <2>2, FS_EmptySet DEF TailInit
<1> QED
  BY <1>2, <1>5, <1>6, <1>7, <1>8 DEF TailInv

LEMMA MinOfTwo ==
  ASSUME NEW a \in Int, NEW b \in Int
  PROVE  Min({a, b}) = IF a <= b THEN a ELSE b
<1>1. Min({a, b}) = CHOOSE x \in {a, b} : \A y \in {a, b} : x <= y
  BY DEF Min
<1> QED
  BY <1>1

LEMMA DecideType ==
  ASSUME NEW r \in Replies
  PROVE  Decide(r) \in OUTCOMES \ {"skipped_shed", "skipped_task_traffic",
                                   "skipped_disk_pressure", "skipped_no_user_text"}
  BY TailAssumption
  DEF Decide, OUTCOMES, STORING_OUTCOMES, HARMLESS_SKIP_OUTCOMES, Texts

\* The reading of the guard, taken now or kept.
Reads(allowed) == Guard(allowed, FALSE) \/ Guard(allowed, TRUE)

\* What a reply leaves behind, where said is what it is counted as in the end.
Says(t, said, paired) ==
    /\ decided[t].outcome = "none" /\ order' = Append(order, t)
    /\ decided' = [decided EXCEPT ![t] =
            [outcome |-> said, at |-> IF Lossy(said) THEN now ELSE 0, paired |-> paired]]
    /\ pressed' = IF ~room /\ said \in STORING_OUTCOMES THEN pressed \union {t} ELSE pressed
    /\ ledger' = [ledger EXCEPT ![said] = @ + 1]
    /\ lossyAt' = IF Lossy(said) THEN now ELSE lossyAt
    /\ empties' = IF said = "skipped_empty" THEN Min({empties + 1, EmptyRun}) ELSE 0
    /\ said \in STORING_OUTCOMES =>
          /\ paired /\ Guard(TRUE, FALSE)
          /\ Accept(t) /\ job' = [job EXCEPT ![t] = "tail"]
    /\ \/ UNCHANGED cache
       \/ \E allowed \in BOOLEAN : Reads(allowed)
    /\ \/ Accept(t) /\ \E j \in {"tail", "rollup"} : job' = [job EXCEPT ![t] = j]
       \/ Shed(t) /\ UNCHANGED job
       \/ UNCHANGED <<vars, job>>
    /\ UNCHANGED <<disk, now, indexed>>

LEMMA Distinct ==
    /\ \A o \in STORING_OUTCOMES : ~Lossy(o) /\ o \in OUTCOMES /\ o # "skipped_empty"
    /\ Lossy("skipped_shed") /\ ~Lossy("skipped_task_traffic") /\ ~Lossy("skipped_empty")
    /\ {"skipped_shed", "skipped_task_traffic", "skipped_disk_pressure",
        "skipped_no_user_text", "skipped_empty"} \subseteq OUTCOMES \ STORING_OUTCOMES
    /\ "none" \notin OUTCOMES
  BY DEF STORING_OUTCOMES, HARMLESS_SKIP_OUTCOMES, OUTCOMES, Lossy

\* The counters after a correction are those of a reply that was never counted
\* as anything but shed.
LEMMA NotedIs ==
  ASSUME TailTypes, NEW label \in OUTCOMES, NEW was \in {"none", label}, Noted(label, was),
         was # "none" => label \in STORING_OUTCOMES
  PROVE  LET said == IF was = "none" THEN label ELSE "skipped_shed" IN
         /\ ledger' = [ledger EXCEPT ![said] = @ + 1]
         /\ lossyAt' = IF Lossy(said) THEN now ELSE lossyAt
         /\ empties' = IF said = "skipped_empty" THEN Min({empties + 1, EmptyRun}) ELSE 0
<1> DEFINE counted == [ledger EXCEPT ![label] = @ + 1]
<1>1. ledger \in [OUTCOMES -> Nat] /\ counted \in [OUTCOMES -> Nat] /\ counted[label] > 0
  BY DEF TailTypes
<1>2. CASE was = "none"
  BY <1>2 DEF Noted
<1>3. CASE was = label /\ was # "none"
  <2>1. label \in STORING_OUTCOMES /\ label # "skipped_shed" /\ label # "skipped_empty"
        /\ Lossy("skipped_shed") /\ "skipped_shed" \in OUTCOMES
    BY <1>3, Distinct
  <2>2. /\ ledger' = [counted EXCEPT ![label] = @ - 1, !["skipped_shed"] = @ + 1]
        /\ lossyAt' = now /\ empties' = 0
    BY <1>1, <1>3, <2>1 DEF Noted, Corrected
  <2>3. [counted EXCEPT ![label] = @ - 1, !["skipped_shed"] = @ + 1]
          = [ledger EXCEPT !["skipped_shed"] = @ + 1]
    BY <1>1, <2>1
  <2> QED
    BY <1>3, <2>1, <2>2, <2>3
<1> QED
  BY <1>2, <1>3

LEMMA ReplySays ==
  ASSUME TailTypes, NEW t \in Tasks, NEW r \in Replies, Reply(t, r)
  PROVE  \E said \in OUTCOMES, paired \in BOOLEAN : Says(t, said, paired)
<1> DEFINE judged == Decide(r)
           kept(a) == Blocked(judged, a, r.paired)
           label(a) == IF kept(a) \in STORING_OUTCOMES /\ r.traffic
                       THEN "skipped_task_traffic" ELSE kept(a)
           stores(a) == label(a) \in STORING_OUTCOMES
           rolls(a) == ~stores(a) /\ r.text # "none" /\ r.history
<1>1. r.paired \in BOOLEAN /\ r.traffic \in BOOLEAN
  BY TailAssumption
<1>2. judged \in OUTCOMES
  BY DecideType
<1>3. decided[t].outcome = "none"
  BY DEF Reply, Undecided
<1>4. PICK allowed \in BOOLEAN :
        /\ IF judged \in STORING_OUTCOMES THEN Guard(allowed, FALSE)
           ELSE allowed /\ UNCHANGED cache
        /\ \/ /\ stores(allowed) \/ rolls(allowed)
              /\ Accept(t)
              /\ Noted(label(allowed), "none")
              /\ job' = [job EXCEPT ![t] = IF stores(allowed) THEN "tail" ELSE "rollup"]
              /\ Decides(t, label(allowed), r.paired)
           \/ /\ stores(allowed) \/ rolls(allowed)
              /\ Shed(t)
              /\ Noted(label(allowed),
                       IF stores(allowed) THEN Correction(label(allowed)) ELSE "none")
              /\ Decides(t, IF stores(allowed) THEN "skipped_shed" ELSE label(allowed),
                         r.paired)
              /\ UNCHANGED job
           \/ /\ ~stores(allowed) /\ ~rolls(allowed)
              /\ Noted(label(allowed), "none")
              /\ Decides(t, label(allowed), r.paired)
              /\ UNCHANGED <<vars, job>>
  BY DEF Reply
<1>5. order' = Append(order, t) /\ UNCHANGED <<disk, now, indexed>>
  BY DEF Reply
<1> DEFINE said0 == label(allowed)
<1>6. /\ said0 \in OUTCOMES
      /\ said0 \in STORING_OUTCOMES =>
            judged \in STORING_OUTCOMES /\ r.paired = TRUE /\ allowed = TRUE
  BY <1>1, <1>2, Distinct DEF Blocked
<1>7. /\ UNCHANGED cache \/ Reads(allowed)
      /\ said0 \in STORING_OUTCOMES => Guard(TRUE, FALSE)
  BY <1>4, <1>6 DEF Reads
<1> HIDE DEF judged, kept, label, stores, rolls
<1>8. CASE /\ Noted(said0, "none") /\ Decides(t, said0, r.paired)
           /\ \/ Accept(t) /\ job' = [job EXCEPT ![t] = IF stores(allowed) THEN "tail" ELSE "rollup"]
              \/ UNCHANGED <<vars, job>> /\ ~stores(allowed)
              \/ Shed(t) /\ UNCHANGED job /\ ~stores(allowed)
  <2>1. /\ ledger' = [ledger EXCEPT ![said0] = @ + 1]
        /\ lossyAt' = IF Lossy(said0) THEN now ELSE lossyAt
        /\ empties' = IF said0 = "skipped_empty" THEN Min({empties + 1, EmptyRun}) ELSE 0
    BY <1>6, <1>8, NotedIs
  <2>2. \/ Accept(t) /\ \E j \in {"tail", "rollup"} : job' = [job EXCEPT ![t] = j]
        \/ Shed(t) /\ UNCHANGED job
        \/ UNCHANGED <<vars, job>>
    BY <1>8
  <2>3. said0 \in STORING_OUTCOMES => Accept(t) /\ job' = [job EXCEPT ![t] = "tail"]
    BY <1>8 DEF stores
  <2>4. Says(t, said0, r.paired)
    BY <1>1, <1>3, <1>5, <1>6, <1>7, <1>8, <2>1, <2>2, <2>3 DEF Says, Decides
  <2> QED
    BY <1>1, <1>6, <2>4
<1>9. CASE /\ Noted(said0, said0) /\ Decides(t, "skipped_shed", r.paired)
           /\ Shed(t) /\ UNCHANGED job /\ said0 \in STORING_OUTCOMES
  <2> DEFINE shedd == "skipped_shed"
  <2>1. said0 # "none" /\ shedd \in OUTCOMES /\ shedd \notin STORING_OUTCOMES
    BY <1>6, Distinct
  <2>2. /\ ledger' = [ledger EXCEPT ![shedd] = @ + 1]
        /\ lossyAt' = IF Lossy(shedd) THEN now ELSE lossyAt
        /\ empties' = IF shedd = "skipped_empty" THEN Min({empties + 1, EmptyRun}) ELSE 0
    BY <1>6, <1>9, <2>1, NotedIs
  <2>3. Says(t, shedd, r.paired)
    BY <1>1, <1>3, <1>5, <1>7, <1>9, <2>1, <2>2 DEF Says, Decides
  <2> QED
    BY <1>1, <2>1, <2>3
<1> QED
  BY <1>4, <1>8, <1>9 DEF Correction, stores

\* What a reading is worth: one that allows has seen room within Ttl, one that
\* refuses knows of a disk that was short.
LEMMA ReadingIs ==
  ASSUME TailTypes, RoomKnown, NEW allowed \in BOOLEAN, Reads(allowed)
  PROVE  /\ cache' \in [until : Nat, allowed : BOOLEAN]
         /\ allowed => now - roomAt < Ttl
         /\ ~allowed => ~room \/ (now < cache.until /\ ~cache.allowed)
         /\ now < cache'.until /\ cache'.allowed => cache'.until <= roomAt + Ttl
         /\ now < cache'.until /\ ~cache'.allowed =>
                ~room \/ (now < cache.until /\ ~cache.allowed)
<1>1. /\ cache \in [until : Nat, allowed : BOOLEAN] /\ now \in Nat /\ roomAt \in Int
      /\ Ttl \in Nat /\ Ttl >= 1 /\ HasRoom \in BOOLEAN
  BY TailConstants DEF TailTypes, HasRoom
<1>2. CASE now < cache.until /\ allowed = cache.allowed /\ cache' = cache
  BY <1>1, <1>2 DEF RoomKnown
<1>3. CASE allowed = HasRoom /\ cache' = [until |-> now + Ttl, allowed |-> HasRoom]
  <2>1. cache'.until = now + Ttl /\ cache'.allowed = HasRoom
        /\ cache' \in [until : Nat, allowed : BOOLEAN]
    BY <1>1, <1>3
  <2>2. HasRoom => roomAt = now
    BY DEF RoomKnown
  <2>3. ~HasRoom => ~room
    BY DEF HasRoom
  <2> QED
    BY <1>1, <1>3, <2>1, <2>2, <2>3
<1> QED
  BY <1>2, <1>3 DEF Reads, Guard

\* The steps of the pool alone, of the surroundings, and of the tails.
PoolStep ==
    /\ \/ \E t \in Tasks : Start(t) \/ OnDone(t)
       \/ \E d \in Drains : DrainStarts(d) \/ DrainTimesOut(d) \/ DrainReturns(d)
    /\ UNCHANGED replyVars
TailStep ==
    \E t \in Tasks : Begins(t) \/ Indexes(t) \/ SavesFacts(t) \/ RollsUpOnly(t)

LEMMA StepIs ==
  ASSUME TailTypes, [TailNext]_requestVars
  PROVE  \/ \E t \in Tasks, said \in OUTCOMES, paired \in BOOLEAN : Says(t, said, paired)
         \/ PoolStep
         \/ TailStep
         \/ \E t \in Tasks : TailAbandoned(t)
         \/ Trouble \/ Tick \/ Probe
         \/ UNCHANGED requestVars
<1>1. ASSUME NEW t \in Tasks, NEW r \in Replies, Reply(t, r)
      PROVE  \E u \in Tasks, said \in OUTCOMES, paired \in BOOLEAN : Says(u, said, paired)
  BY <1>1, ReplySays
<1>2. ASSUME NEW t \in Tasks, TailStarts(t) \/ TailDone(t)
      PROVE  PoolStep
  BY <1>2 DEF TailStarts, TailDone, PoolStep
<1>3. ASSUME NEW d \in Drains, Drain(d)
      PROVE  PoolStep
  BY <1>3 DEF Drain, PoolStep
<1> QED
  BY <1>1, <1>2, <1>3 DEF TailNext, TailStep

\* The tails take no decision.
LEMMA TailStepIs ==
  ASSUME TailStep
  PROVE  /\ \E allowed \in BOOLEAN : Reads(allowed)
         /\ UNCHANGED <<disk, now, tailHealth, decided, order, pressed>>
<1>1. PICK t \in Tasks : Begins(t) \/ Indexes(t) \/ SavesFacts(t) \/ RollsUpOnly(t)
  BY DEF TailStep
<1> QED
  BY <1>1 DEF Begins, Indexes, SavesFacts, RollsUpOnly, RollsUp, Reads, history

LEMMA LatestLossStep ==
  ASSUME TailTypes, LatestLoss, [TailNext]_requestVars
  PROVE  LatestLoss'
<1>0. /\ now \in Nat /\ decided \in [Tasks -> Decisions] /\ lossyAt \in Nat \union {Never}
      /\ Never = -1
  BY DEF TailTypes, Never
<1>1. ASSUME NEW t \in Tasks, NEW said \in OUTCOMES, NEW paired \in BOOLEAN,
             Says(t, said, paired)
      PROVE  LatestLoss'
  <2>1. /\ decided'[t].outcome = said /\ decided'[t].at = (IF Lossy(said) THEN now ELSE 0)
        /\ \A u \in Tasks \ {t} : decided'[u] = decided[u]
        /\ lossyAt' = IF Lossy(said) THEN now ELSE lossyAt
        /\ now' = now /\ decided[t].outcome = "none" /\ said # "none"
    BY <1>0, <1>1, Distinct DEF Says
  <2>2. Lost' = IF Lossy(said) THEN Lost \union {t} ELSE Lost
    BY <2>1 DEF Lost
  <2>3. t \notin Lost
    BY <2>1 DEF Lost
  <2>4. \A u \in Lost : u \in Tasks \ {t} /\ decided'[u].at = decided[u].at /\ decided[u].at \in Nat
    BY <1>0, <2>1, <2>3 DEF Lost, Decisions
  <2>5. CASE Lossy(said)
    <3>1. \A u \in Lost : decided[u].at <= now
      BY <1>0, <2>4 DEF LatestLoss
    <3> QED
      BY <1>0, <2>1, <2>2, <2>4, <2>5, <3>1 DEF LatestLoss
  <2>6. CASE ~Lossy(said)
    BY <1>0, <2>1, <2>2, <2>4, <2>6 DEF LatestLoss
  <2> QED
    BY <2>5, <2>6
<1>2. ASSUME UNCHANGED <<decided, lossyAt>>, now' = now \/ now' = now + 1
      PROVE  LatestLoss'
  <2>1. Lost' = Lost
    BY <1>2 DEF Lost
  <2> QED
    BY <1>0, <1>2, <2>1 DEF LatestLoss
<1>3. CASE PoolStep \/ TailStep \/ (\E t \in Tasks : TailAbandoned(t)) \/ Trouble \/ Tick
           \/ Probe \/ UNCHANGED requestVars
  BY <1>2, <1>3, TailStepIs
  DEF PoolStep, TailAbandoned, Trouble, Tick, Probe, requestVars, replyVars, tailHealth,
      history
<1> QED
  BY <1>1, <1>3, StepIs

\* A run of empty replies grows by the one that is added to it.
LEMMA EmptiesStep ==
  ASSUME TailTypes, EmptiesCounted, [TailNext]_requestVars
  PROVE  EmptiesCounted'
<1>0. /\ decided \in [Tasks -> Decisions] /\ order \in Seq(Tasks) /\ empties \in 0 .. EmptyRun
      /\ EmptyRun \in Nat /\ EmptyRun >= 1 /\ Len(order) \in Nat
  BY TailConstants DEF TailTypes
<1>1. ASSUME NEW t \in Tasks, NEW said \in OUTCOMES, NEW paired \in BOOLEAN,
             Says(t, said, paired)
      PROVE  EmptiesCounted'
  <2> DEFINE n == Len(order)
  <2>1. /\ decided'[t].outcome = said
        /\ \A u \in Tasks \ {t} : decided'[u] = decided[u]
        /\ decided[t].outcome = "none" /\ said # "none"
        /\ empties' = IF said = "skipped_empty" THEN Min({empties + 1, EmptyRun}) ELSE 0
    BY <1>0, <1>1, Distinct DEF Says
  <2>2. /\ Len(order') = n + 1 /\ order'[n + 1] = t
        /\ \A k \in 1 .. n : order'[k] = order[k] /\ order[k] \in Tasks \ {t}
    BY <1>0, <1>1, <2>1 DEF Says, EmptiesCounted
  <2>3. \A k \in 1 .. n : decided'[order'[k]].outcome = decided[order[k]].outcome
    BY <2>1, <2>2
  <2>4. decided'[order'[n + 1]].outcome = said
    BY <2>1, <2>2
  <2>5. \A k \in 1 .. n + 1 : decided'[order'[k]].outcome # "none"
    BY <1>0, <2>1, <2>3, <2>4 DEF EmptiesCounted
  <2>6. ASSUME NEW j \in 1 .. EmptyRun
        PROVE  empties' >= j <=> LastEmpty(j)'
    <3>1. CASE said # "skipped_empty"
      <4>1. n + 1 \in n + 1 - j + 1 .. n + 1
        BY <1>0
      <4>2. ~LastEmpty(j)'
        BY <2>2, <2>4, <3>1, <4>1 DEF LastEmpty
      <4> QED
        BY <1>0, <2>1, <3>1, <4>2
    <3>2. CASE said = "skipped_empty"
      <4>1. empties' >= j <=> empties + 1 >= j
        BY <1>0, <2>1, <3>2, MinOfTwo
      <4>2. CASE j = 1
        <5>1. LastEmpty(j)'
          BY <1>0, <2>2, <2>4, <3>2, <4>2 DEF LastEmpty
        <5> QED
          BY <1>0, <4>1, <4>2, <5>1
      <4>3. CASE j # 1
        <5> DEFINE i == j - 1
        <5>1. i \in 1 .. EmptyRun /\ (empties + 1 >= j <=> empties >= i)
          BY <1>0, <4>3
        <5>2. empties >= i <=> LastEmpty(i)
          BY <5>1 DEF EmptiesCounted
        <5>3. Len(order') >= j <=> n >= i
          BY <1>0, <2>2
        <5>4. ASSUME n >= i
              PROVE  /\ n - i + 1 \in 1 .. n + 1
                     /\ Len(order') - j + 1 = n - i + 1
                     /\ \A k \in n - i + 1 .. n + 1 : k = n + 1 \/ k \in n - i + 1 .. n
                     /\ \A k \in n - i + 1 .. n : k \in 1 .. n /\ k \in n - i + 1 .. n + 1
          BY <1>0, <2>2, <5>1, <5>4
        <5>5. LastEmpty(j)' <=> LastEmpty(i)
          BY <2>2, <2>3, <2>4, <3>2, <5>3, <5>4 DEF LastEmpty
        <5> QED
          BY <4>1, <5>1, <5>2, <5>5
      <4> QED
        BY <4>2, <4>3
    <3> QED
      BY <3>1, <3>2
  <2> QED
    BY <2>2, <2>5, <2>6 DEF EmptiesCounted
<1>2. ASSUME UNCHANGED <<decided, order, empties>>
      PROVE  EmptiesCounted'
  BY <1>2 DEF EmptiesCounted, LastEmpty
<1>3. CASE PoolStep \/ TailStep \/ (\E t \in Tasks : TailAbandoned(t)) \/ Trouble \/ Tick
           \/ Probe \/ UNCHANGED requestVars
  BY <1>2, <1>3, TailStepIs
  DEF PoolStep, TailAbandoned, Trouble, Tick, Probe, requestVars, replyVars, tailHealth,
      history
<1> QED
  BY <1>1, <1>3, StepIs

\* A reply is added to those that were decided the same way.
LEMMA LedgerStep ==
  ASSUME TailTypes, LedgerIsTrue, [TailNext]_requestVars
  PROVE  LedgerIsTrue'
<1>0. decided \in [Tasks -> Decisions] /\ ledger \in [OUTCOMES -> Nat] /\ IsFiniteSet(Tasks)
  BY TailConstants DEF TailTypes
<1>1. ASSUME NEW t \in Tasks, NEW said \in OUTCOMES, NEW paired \in BOOLEAN,
             Says(t, said, paired), NEW o \in OUTCOMES
      PROVE  ledger'[o] = Cardinality({u \in Tasks : decided'[u].outcome = o})
  <2> DEFINE S == {u \in Tasks : decided[u].outcome = o}
             T == {u \in Tasks : decided'[u].outcome = o}
  <2>1. /\ decided'[t].outcome = said
        /\ \A u \in Tasks \ {t} : decided'[u] = decided[u]
        /\ decided[t].outcome = "none" /\ o # "none"
        /\ ledger' = [ledger EXCEPT ![said] = @ + 1]
    BY <1>0, <1>1, Distinct DEF Says
  <2>2. t \notin S /\ T = IF o = said THEN S \union {t} ELSE S
    BY <2>1
  <2>3. IsFiniteSet(S) /\ Cardinality(S) \in Nat /\ ledger[o] = Cardinality(S)
    BY <1>0, FS_Subset, FS_CardinalityType DEF LedgerIsTrue
  <2>4. Cardinality(S \union {t}) = Cardinality(S) + 1
    BY <2>2, <2>3, FS_AddElement
  <2> QED
    BY <1>0, <2>1, <2>2, <2>3, <2>4
<1>2. ASSUME UNCHANGED <<decided, ledger>>
      PROVE  LedgerIsTrue'
  BY <1>2 DEF LedgerIsTrue
<1>3. CASE PoolStep \/ TailStep \/ (\E t \in Tasks : TailAbandoned(t)) \/ Trouble \/ Tick
           \/ Probe \/ UNCHANGED requestVars
  BY <1>2, <1>3, TailStepIs
  DEF PoolStep, TailAbandoned, Trouble, Tick, Probe, requestVars, replyVars, tailHealth,
      history
<1> QED
  BY <1>1, <1>3, StepIs DEF LedgerIsTrue

\* What a step does to the disk, the time and the reading.
LEMMA Readings ==
  ASSUME TailTypes, [TailNext]_requestVars
  PROVE  \/ /\ UNCHANGED <<disk, now>>
            /\ UNCHANGED cache \/ \E allowed \in BOOLEAN : Reads(allowed)
         \/ Trouble
         \/ Tick
<1>1. ASSUME NEW t \in Tasks, NEW said \in OUTCOMES, NEW paired \in BOOLEAN,
             Says(t, said, paired)
      PROVE  /\ UNCHANGED <<disk, now>>
             /\ UNCHANGED cache \/ \E allowed \in BOOLEAN : Reads(allowed)
  BY <1>1 DEF Says
<1>2. CASE PoolStep \/ (\E t \in Tasks : TailAbandoned(t)) \/ UNCHANGED requestVars
  BY <1>2 DEF PoolStep, TailAbandoned, requestVars, replyVars
<1>3. CASE TailStep
  BY <1>3, TailStepIs
<1>4. CASE Probe
  BY <1>4 DEF Probe, Reads
<1> QED
  BY <1>1, <1>2, <1>3, <1>4, StepIs

LEMMA RoomKnownStep ==
  ASSUME TailTypes, RoomKnown, [TailNext]_requestVars
  PROVE  RoomKnown'
<1>0. /\ cache \in [until : Nat, allowed : BOOLEAN] /\ now \in Nat /\ roomAt \in Int
      /\ Ttl \in Nat /\ Ttl >= 1
  BY TailConstants DEF TailTypes
<1>1. ASSUME UNCHANGED <<disk, now>>,
             UNCHANGED cache \/ \E allowed \in BOOLEAN : Reads(allowed)
      PROVE  RoomKnown'
  <2>1. roomAt' = roomAt /\ now' = now /\ HasRoom' = HasRoom
    BY <1>1 DEF disk, HasRoom
  <2>2. now < cache'.until /\ cache'.allowed => cache'.until <= roomAt + Ttl
    BY <1>1, ReadingIs DEF RoomKnown
  <2> QED
    BY <2>1, <2>2 DEF RoomKnown
<1>2. CASE Trouble
  <2>1. /\ roomAt' = IF HasRoom' THEN now ELSE roomAt
        /\ now' = now /\ cache' = cache
    BY <1>2 DEF Trouble, HasRoom
  <2>2. roomAt <= roomAt'
    BY <1>0, <2>1 DEF RoomKnown
  <2> HIDE DEF HasRoom
  <2> QED
    BY <1>0, <2>1, <2>2 DEF RoomKnown
<1>3. CASE Tick
  <2>1. /\ HasRoom' = HasRoom /\ now' = now + 1 /\ cache' = cache
        /\ roomAt' = IF HasRoom THEN now' ELSE roomAt
    BY <1>3 DEF Tick, HasRoom
  <2> HIDE DEF HasRoom
  <2> QED
    BY <1>0, <2>1 DEF RoomKnown
<1> QED
  BY <1>1, <1>2, <1>3, Readings

LEMMA RefusalStep ==
  ASSUME TailTypes, RoomKnown, RefusalIsKnown, [TailNext]_requestVars
  PROVE  RefusalIsKnown'
<1> DEFINE Refused == ~room \/ (now < cache.until /\ ~cache.allowed)
<1>0. /\ cache \in [until : Nat, allowed : BOOLEAN] /\ now \in Nat
      /\ decided \in [Tasks -> Decisions]
  BY DEF TailTypes
<1>1. ASSUME NEW t \in Tasks, NEW said \in OUTCOMES, NEW paired \in BOOLEAN,
             Says(t, said, paired)
      PROVE  RefusalIsKnown'
  <2>1. /\ decided'[t].outcome = said
        /\ \A u \in Tasks \ {t} : decided'[u] = decided[u]
        /\ UNCHANGED <<room, now>>
        /\ pressed' = IF ~room /\ said \in STORING_OUTCOMES
                      THEN pressed \union {t} ELSE pressed
    BY <1>0, <1>1 DEF Says, disk
  <2>2. Refused' => Refused
    BY <1>0, <1>1, <2>1, ReadingIs DEF Says
  <2>3. ASSUME Refused', NEW u \in Tasks, Saved(u)'
        PROVE  u \in pressed'
    <3>1. CASE u # t
      BY <2>1, <2>2, <2>3, <3>1 DEF RefusalIsKnown, Saved
    <3>2. CASE u = t
      <4>1. said \in STORING_OUTCOMES /\ Guard(TRUE, FALSE)
        BY <1>1, <2>1, <2>3, <3>2 DEF Says, Saved
      <4>2. CASE now < cache.until /\ cache.allowed /\ cache' = cache
        BY <2>1, <2>3, <3>2, <4>1, <4>2
      <4>3. CASE HasRoom /\ cache' = [until |-> now + Ttl, allowed |-> HasRoom]
        BY <2>1, <2>3, <3>2, <4>1, <4>3
      <4> QED
        BY <1>0, <4>1, <4>2, <4>3 DEF Guard
    <3> QED
      BY <3>1, <3>2
  <2> QED
    BY <2>3 DEF RefusalIsKnown
<1>2. ASSUME UNCHANGED <<room, now, decided, pressed>>,
             UNCHANGED cache \/ \E allowed \in BOOLEAN : Reads(allowed)
      PROVE  RefusalIsKnown'
  <2>1. Refused' => Refused
    BY <1>2, ReadingIs
  <2> QED
    BY <1>2, <2>1 DEF RefusalIsKnown, Saved
<1>3. CASE PoolStep \/ (\E t \in Tasks : TailAbandoned(t)) \/ UNCHANGED requestVars \/ Probe
           \/ TailStep
  BY <1>2, <1>3, TailStepIs
  DEF PoolStep, TailAbandoned, Probe, Reads, requestVars, replyVars, history, disk
<1>4. CASE Trouble
  <2>1. /\ pressed' = IF room' THEN pressed ELSE {t \in Tasks : Saved(t)}
        /\ UNCHANGED <<decided, now, cache>>
        /\ Refused' /\ room' => Refused
    BY <1>4 DEF Trouble, Saved
  <2> QED
    BY <2>1 DEF RefusalIsKnown, Saved
<1>5. CASE Tick
  BY <1>0, <1>5 DEF Tick, RefusalIsKnown, Saved, history
<1> QED
  BY <1>1, <1>3, <1>4, <1>5, StepIs

\* A reply that was counted as stored and is not indexed is on its way there,
\* or its tail was refused by a disk that was short, or cancelled.
LEMMA StoredWhereStep ==
  ASSUME TailTypes, RoomKnown, RefusalIsKnown, StoredWhere, [TailNext]_requestVars
  PROVE  StoredWhere'
<1>0. /\ phase \in [Tasks -> Phases] /\ job \in [Tasks -> Jobs]
      /\ outcome \in [Tasks -> {"none", "finished", "cancelled"}]
      /\ decided \in [Tasks -> Decisions]
  BY DEF TailTypes
<1> DEFINE Fits(u) == Saved(u) =>
        /\ decided[u].paired
        /\ \/ phase[u] = "queued" /\ job[u] = "tail"
           \/ phase[u] = "running" /\ job[u] \in {"tail", "index"}
           \/ phase[u] = "running" /\ job[u] = "facts" /\ u \in indexed
           \/ /\ phase[u] \in {"ended", "gone"}
              /\ outcome[u] = "cancelled" \/ u \in indexed \/ u \in pressed
<1>1. ASSUME NEW u \in Tasks,
             decided'[u] = decided[u], phase'[u] = phase[u], job'[u] = job[u],
             outcome'[u] = outcome[u], u \in indexed => u \in indexed',
             u \in pressed /\ Saved(u) => u \in pressed'
      PROVE  Fits(u)'
  BY <1>1 DEF StoredWhere, Saved
<1>2. ASSUME NEW t \in Tasks, NEW said \in OUTCOMES, NEW paired \in BOOLEAN,
             Says(t, said, paired), NEW u \in Tasks
      PROVE  Fits(u)'
  <2>1. /\ decided'[t].outcome = said /\ decided'[t].paired = paired
        /\ \A v \in Tasks \ {t} : decided'[v] = decided[v]
        /\ indexed' = indexed /\ pressed \subseteq pressed'
    BY <1>0, <1>2 DEF Says
  <2>2. CASE u # t
    <3>1. phase'[u] = phase[u] /\ job'[u] = job[u] /\ outcome'[u] = outcome[u]
      BY <1>0, <1>2, <2>2 DEF Says, Accept, Shed, vars, poolVars
    <3> QED
      BY <1>1, <2>1, <2>2, <3>1
  <2>3. CASE u = t /\ said \in STORING_OUTCOMES
    <3>1. paired /\ phase'[t] = "queued" /\ job'[t] = "tail"
      BY <1>0, <1>2, <2>3 DEF Says, Accept
    <3> QED
      BY <2>1, <2>3, <3>1
  <2>4. CASE u = t /\ said \notin STORING_OUTCOMES
    BY <2>1, <2>4 DEF Saved
  <2> QED
    BY <2>2, <2>3, <2>4
<1>3. ASSUME PoolStep, NEW u \in Tasks
      PROVE  Fits(u)'
  <2>1. UNCHANGED <<decided, job, indexed, pressed, outcome>>
    BY <1>3 DEF PoolStep, replyVars, history, Start, OnDone, DrainStarts, DrainTimesOut,
                DrainReturns, poolVars
  <2>2. \/ phase'[u] = phase[u]
        \/ phase[u] = "queued" /\ phase'[u] = "running"
        \/ phase[u] = "ended" /\ phase'[u] = "gone"
    BY <1>0, <1>3 DEF PoolStep, Start, NextInLine, OnDone, DrainStarts, DrainTimesOut,
                      DrainReturns, poolVars
  <2> QED
    BY <2>1, <2>2 DEF StoredWhere, Saved
<1>4. ASSUME NEW t \in Tasks, NEW u \in Tasks,
             Begins(t) \/ Indexes(t) \/ SavesFacts(t) \/ RollsUpOnly(t)
      PROVE  Fits(u)'
  <2>1. UNCHANGED <<decided, pressed>> /\ indexed \subseteq indexed' /\ phase[t] = "running"
    BY <1>4 DEF Begins, Indexes, SavesFacts, RollsUpOnly, RollsUp, Works, history
  <2>2. CASE u # t
    <3>1. phase'[u] = phase[u] /\ job'[u] = job[u] /\ outcome'[u] = outcome[u]
      BY <1>0, <1>4, <2>2 DEF Begins, Indexes, SavesFacts, RollsUpOnly, RollsUp, Stops,
                              GoesOn, Finish, vars, poolVars
    <3> QED
      BY <1>1, <2>1, <2>2, <3>1
  <2>3. CASE u = t /\ Begins(t)
    <3>1. PICK allowed \in BOOLEAN :
            Guard(allowed, FALSE) /\ IF allowed THEN GoesOn(t, "index") ELSE Stops(t)
      BY <2>3 DEF Begins
    <3>2. CASE allowed
      BY <1>0, <2>1, <2>3, <3>1, <3>2 DEF GoesOn, vars, poolVars, StoredWhere, Saved
    <3>3. CASE ~allowed
      <4>1. ~room \/ (now < cache.until /\ ~cache.allowed)
        BY <3>1, <3>3, ReadingIs DEF Reads
      <4>2. Saved(t) => t \in pressed
        BY <4>1 DEF RefusalIsKnown
      <4>3. phase'[t] = "ended"
        BY <1>0, <3>1, <3>3 DEF Stops, Finish
      <4> QED
        BY <2>1, <2>3, <4>2, <4>3 DEF StoredWhere, Saved
    <3> QED
      BY <3>2, <3>3
  <2>4. CASE u = t /\ Indexes(t)
    <3>1. Saved(t) => t \in indexed'
      BY <2>4 DEF Indexes, StoredWhere, Saved
    <3>2. \/ phase'[t] = "running" /\ job'[t] = "facts"
          \/ phase'[t] = "ended"
      BY <1>0, <2>1, <2>4 DEF Indexes, GoesOn, Stops, Finish, vars, poolVars
    <3> QED
      BY <2>1, <2>4, <3>1, <3>2 DEF StoredWhere, Saved
  <2>5. CASE u = t /\ (SavesFacts(t) \/ RollsUpOnly(t))
    <3>1. Saved(t) => t \in indexed
      BY <2>1, <2>5 DEF SavesFacts, RollsUpOnly, StoredWhere
    <3>2. phase'[t] = "ended"
      BY <1>0, <2>5 DEF SavesFacts, RollsUpOnly, RollsUp, Stops, Finish
    <3> QED
      BY <2>1, <2>5, <3>1, <3>2 DEF StoredWhere, Saved
  <2> QED
    BY <1>4, <2>2, <2>3, <2>4, <2>5
<1>5. ASSUME NEW t \in Tasks, NEW u \in Tasks, TailAbandoned(t)
      PROVE  Fits(u)'
  <2>1. /\ UNCHANGED <<decided, indexed, pressed>>
        /\ phase' = [phase EXCEPT ![t] = "ended"] /\ job' = [job EXCEPT ![t] = "none"]
        /\ outcome' = [outcome EXCEPT ![t] = "cancelled"]
    BY <1>5 DEF TailAbandoned, Cancelled, history
  <2>2. CASE u # t
    BY <1>0, <1>1, <2>1, <2>2
  <2>3. CASE u = t
    BY <1>0, <2>1, <2>3 DEF StoredWhere, Saved
  <2> QED
    BY <2>2, <2>3
<1>6. ASSUME Trouble \/ Tick \/ Probe \/ UNCHANGED requestVars, NEW u \in Tasks
      PROVE  Fits(u)'
  <2>1. /\ UNCHANGED <<decided, phase, job, outcome, indexed>>
        /\ u \in pressed /\ Saved(u) => u \in pressed'
    BY <1>6 DEF Trouble, Tick, Probe, requestVars, replyVars, history, vars, poolVars, Saved
  <2> QED
    BY <1>1, <2>1
<1>7. \A u \in Tasks : Fits(u)'
  BY <1>2, <1>3, <1>4, <1>5, <1>6, StepIs DEF TailStep
<1> QED
  BY <1>7 DEF StoredWhere

LEMMA TailTypesStep ==
  ASSUME TailTypes, RoomKnown, [TailNext]_requestVars
  PROVE  TailTypes'
<1>0. Ttl \in Nat /\ EmptyRun \in Nat
  BY TailConstants
<1>1. ASSUME NEW t \in Tasks, NEW said \in OUTCOMES, NEW paired \in BOOLEAN,
             Says(t, said, paired)
      PROVE  TailTypes'
  <2>1. /\ UNCHANGED <<room, readable, now, roomAt, indexed>>
        /\ order' \in Seq(Tasks)
        /\ ledger' \in [OUTCOMES -> Nat]
        /\ lossyAt' \in Nat \union {Never}
        /\ pressed' \in SUBSET Tasks
    BY <1>1 DEF Says, TailTypes, disk
  <2>2. empties' \in 0 .. EmptyRun
    <3>1. empties \in 0 .. EmptyRun
      BY DEF TailTypes
    <3>2. empties + 1 \in Int /\ EmptyRun \in Int
      BY <1>0, <3>1
    <3>3. Min({empties + 1, EmptyRun})
            = IF empties + 1 <= EmptyRun THEN empties + 1 ELSE EmptyRun
      BY <3>2, MinOfTwo
    <3>4. empties' = IF said = "skipped_empty" THEN Min({empties + 1, EmptyRun}) ELSE 0
      BY <1>1 DEF Says
    <3> QED
      BY <1>0, <3>1, <3>3, <3>4
  <2>3. decided' \in [Tasks -> Decisions]
    BY <1>1 DEF Says, TailTypes, Decisions
  <2>4. cache' \in [until : Nat, allowed : BOOLEAN]
    BY <1>1, ReadingIs DEF Says, TailTypes
  <2>5. /\ job' \in [Tasks -> Jobs] /\ phase' \in [Tasks -> Phases]
        /\ outcome' \in [Tasks -> {"none", "finished", "cancelled"}]
    BY <1>1 DEF Says, TailTypes, Accept, Shed, vars, poolVars, Phases, Jobs
  <2> QED
    BY <2>1, <2>2, <2>3, <2>4, <2>5 DEF TailTypes
<1>2. CASE PoolStep
  <2>1. phase' \in [Tasks -> Phases] /\ UNCHANGED outcome
    BY <1>2 DEF PoolStep, Start, OnDone, DrainStarts, DrainTimesOut, DrainReturns, poolVars,
                TailTypes, Phases
  <2> QED
    BY <1>2, <2>1 DEF PoolStep, replyVars, disk, tailHealth, history, TailTypes
<1>3. ASSUME NEW t \in Tasks,
             Begins(t) \/ Indexes(t) \/ SavesFacts(t) \/ RollsUpOnly(t)
      PROVE  TailTypes'
  <2>1. /\ cache' \in [until : Nat, allowed : BOOLEAN]
        /\ UNCHANGED <<disk, now, tailHealth, decided, order, pressed>>
    BY <1>3, TailStepIs, ReadingIs DEF TailStep
  <2>2. indexed' \in SUBSET Tasks
    <3>1. indexed' = indexed \/ indexed' = indexed \union {t}
      BY <1>3 DEF Begins, Indexes, SavesFacts, RollsUpOnly, RollsUp, history
    <3> QED
      BY <3>1 DEF TailTypes
  <2>3. \/ Stops(t)
        \/ \E j \in {"index", "facts"} : GoesOn(t, j)
    BY <1>3 DEF Begins, Indexes, SavesFacts, RollsUpOnly, RollsUp
  <2>4. /\ job' \in [Tasks -> Jobs] /\ phase' \in [Tasks -> Phases]
        /\ outcome' \in [Tasks -> {"none", "finished", "cancelled"}]
    BY <2>3 DEF Stops, GoesOn, Finish, vars, poolVars, TailTypes, Phases, Jobs
  <2> QED
    BY <2>1, <2>2, <2>4 DEF TailTypes, disk, tailHealth
<1>4. ASSUME NEW t \in Tasks, TailAbandoned(t)
      PROVE  TailTypes'
  BY <1>4 DEF TailAbandoned, Cancelled, disk, tailHealth, history, TailTypes, Phases, Jobs
<1>5. CASE Probe
  <2>1. cache' \in [until : Nat, allowed : BOOLEAN]
    BY <1>5, ReadingIs DEF Probe, Reads
  <2> QED
    BY <1>5, <2>1 DEF Probe, vars, poolVars, disk, tailHealth, history, TailTypes
<1>6. CASE Trouble
  <2>1. room' \in BOOLEAN /\ readable' \in BOOLEAN /\ roomAt' \in Int
        /\ pressed' \in SUBSET Tasks
    <3>1. room \in BOOLEAN /\ readable \in BOOLEAN /\ roomAt \in Int /\ now \in Int
          /\ pressed \subseteq Tasks
      BY DEF TailTypes
    <3>2. room' \in BOOLEAN /\ readable' \in BOOLEAN
      BY <1>6, <3>1 DEF Trouble
    <3>3. (roomAt' = now \/ roomAt' = roomAt) /\ pressed' \subseteq Tasks
      BY <1>6, <3>1 DEF Trouble
    <3> QED
      BY <3>1, <3>2, <3>3
  <2> QED
    BY <1>6, <2>1 DEF Trouble, vars, poolVars, tailHealth, TailTypes
<1>7. CASE Tick
  BY <1>7 DEF Tick, vars, poolVars, tailHealth, history, TailTypes
<1>8. CASE UNCHANGED requestVars
  BY <1>8 DEF requestVars, replyVars, vars, poolVars, disk, tailHealth, history, TailTypes
<1> QED
  BY <1>1, <1>2, <1>3, <1>4, <1>5, <1>6, <1>7, <1>8, StepIs DEF TailStep

THEOREM TailInvariance == TailSafe => []TailInv
<1>1. TailInv /\ [TailNext]_requestVars => TailInv'
  BY TailTypesStep, LatestLossStep, EmptiesStep, StoredWhereStep, RefusalStep,
     RoomKnownStep, LedgerStep
  DEF TailInv
<1> QED
  BY InitTailInv, <1>1, PTL DEF TailSafe

\* /health/full is degraded by the tails exactly while a reply was lost within
\* the window or the last ones were all empty (tailhealth.py:219, :360), for any
\* number of replies, of drains and of disk troubles.
THEOREM LossesAreSeen == TailSafe => []LossIsSeen
<1>1. TailInv => LossIsSeen
  <2> SUFFICES ASSUME TailInv PROVE LossIsSeen
    OBVIOUS
  <2>0. /\ now \in Nat /\ lossyAt \in Nat \union {Never} /\ Window \in Nat /\ Never = -1
        /\ \A t \in Tasks : decided[t].at \in Nat
        /\ EmptyRun \in 1 .. EmptyRun
    BY TailConstants DEF TailInv, TailTypes, Decisions, Never
  <2>1. SkippedRecently <=> \E t \in Lost : now - decided[t].at <= Window
    BY <2>0 DEF TailInv, LatestLoss, SkippedRecently, Lost
  <2>2. EmptyRepliesDegraded <=> LastEmpty(EmptyRun)
    BY <2>0 DEF TailInv, EmptiesCounted, EmptyRepliesDegraded
  <2> QED
    BY <2>1, <2>2 DEF LossIsSeen, LastEmpty
<1> QED
  BY TailInvariance, <1>1, PTL

\* The ledger of /health/full says of every reply what became of it, once
\* (main.py:6241, tailhealth.py:360).
THEOREM LedgerTells == TailSafe => []LedgerIsTrue
<1>1. TailInv => LedgerIsTrue
  BY DEF TailInv
<1> QED
  BY TailInvariance, <1>1, PTL

\* A reply that was counted as stored is given to the index, or its tail was
\* cancelled, or the disk was short since (main.py:6130, :5732).
THEOREM StoredAreStored == TailSafe => []StoredIsStored
<1>1. TailInv => StoredIsStored
  BY DEF TailInv, StoredWhere, StoredIsStored, Saved
<1> QED
  BY TailInvariance, <1>1, PTL

\* However the readings are kept, nothing is counted as stored and no tail
\* begins once the disk has been short for Ttl (degrade.py:85).
THEOREM RoomIsSeenInTime == TailSafe => RoomIsRecent
<1> DEFINE Acts ==
        \E t \in Tasks :
          \/ decided'[t].outcome \in STORING_OUTCOMES /\ decided[t].outcome = "none"
          \/ job[t] = "tail" /\ job'[t] = "index"
<1>1. ASSUME TailInv, [TailNext]_requestVars, Acts
      PROVE  now - roomAt < Ttl
  <2>0. TailTypes /\ RoomKnown /\ decided \in [Tasks -> Decisions] /\ job \in [Tasks -> Jobs]
    BY <1>1 DEF TailInv, TailTypes
  <2>1. ASSUME NEW t \in Tasks, NEW said \in OUTCOMES, NEW paired \in BOOLEAN,
               Says(t, said, paired)
        PROVE  now - roomAt < Ttl
    <3>1. said \in STORING_OUTCOMES
      <4>1. PICK u \in Tasks :
              \/ decided'[u].outcome \in STORING_OUTCOMES /\ decided[u].outcome = "none"
              \/ job[u] = "tail" /\ job'[u] = "index"
        BY <1>1
      <4>2. \/ job' = job
            \/ \E j \in {"tail", "rollup"} : job' = [job EXCEPT ![t] = j]
        BY <2>1 DEF Says
      <4>3. said \notin STORING_OUTCOMES => decided'[u].outcome \notin STORING_OUTCOMES
                                            \/ decided[u].outcome # "none"
        BY <2>0, <2>1, Distinct DEF Says, STORING_OUTCOMES
      <4> QED
        BY <2>0, <2>1, <4>1, <4>2, <4>3 DEF Says
    <3> QED
      BY <2>0, <2>1, <3>1, ReadingIs DEF Says, Reads
  <2>2. CASE TailStep
    <3>1. PICK u \in Tasks :
            Begins(u) \/ Indexes(u) \/ SavesFacts(u) \/ RollsUpOnly(u)
      BY <2>2 DEF TailStep
    <3>2. decided' = decided
      BY <2>2, TailStepIs
    <3>3. PICK t \in Tasks : job[t] = "tail" /\ job'[t] = "index"
      BY <1>1, <3>2 DEF STORING_OUTCOMES
    <3>4. Begins(u) /\ \E allowed \in BOOLEAN : allowed /\ Guard(allowed, FALSE)
      BY <2>0, <3>1, <3>3
      DEF Begins, Indexes, SavesFacts, RollsUpOnly, RollsUp, Stops, GoesOn
    <3> QED
      BY <2>0, <3>4, ReadingIs DEF Reads
  <2>3. CASE PoolStep \/ (\E t \in Tasks : TailAbandoned(t)) \/ Trouble \/ Tick \/ Probe
             \/ UNCHANGED requestVars
    <3>1. /\ decided' = decided
          /\ job' = job \/ \E t \in Tasks : job' = [job EXCEPT ![t] = "none"]
      BY <2>3 DEF PoolStep, TailAbandoned, Trouble, Tick, Probe, requestVars, replyVars,
                  history
    <3>2. ~Acts
      BY <2>0, <3>1 DEF STORING_OUTCOMES
    <3> QED
      BY <1>1, <3>2
  <2> QED
    BY <1>1, <2>0, <2>1, <2>2, <2>3, StepIs
<1>2. TailInv /\ [TailNext]_requestVars => [Acts => now - roomAt < Ttl]_requestVars
  BY <1>1
<1> HIDE DEF Acts
<1> QED
  BY TailInvariance, <1>2, PTL DEF TailSafe, RoomIsRecent, Acts

\* Tails use the pool as bgwork.py offers it, beside /health/full and the disk.
THEOREM TailsKeepPool == TailSafe => Spec
<1>1. TailInit => Init
  BY DEF TailInit
<1>2. ASSUME [TailNext]_requestVars PROVE [Next]_vars
  <2>1. ASSUME NEW t \in Tasks, NEW r \in Replies, Reply(t, r)
        PROVE  Next \/ UNCHANGED vars
    BY <2>1 DEF Reply, Next
  <2>2. ASSUME NEW t \in Tasks, TailStarts(t) \/ TailAbandoned(t) \/ TailDone(t)
        PROVE  Next \/ UNCHANGED vars
    BY <2>2 DEF TailStarts, TailAbandoned, TailDone, Next
  <2>3. ASSUME NEW t \in Tasks,
               Begins(t) \/ Indexes(t) \/ SavesFacts(t) \/ RollsUpOnly(t)
        PROVE  Next \/ UNCHANGED vars
    BY <2>3 DEF Begins, Indexes, SavesFacts, RollsUpOnly, RollsUp, Stops, GoesOn, Next
  <2>4. ASSUME NEW d \in Drains, Drain(d)
        PROVE  Next \/ UNCHANGED vars
    BY <2>4 DEF Drain, Next
  <2>5. CASE Trouble \/ Tick \/ Probe \/ UNCHANGED requestVars
    BY <2>5 DEF Trouble, Tick, Probe, requestVars
  <2> QED
    BY <1>2, <2>1, <2>2, <2>3, <2>4, <2>5 DEF TailNext
<1> QED
  BY <1>1, <1>2, PTL DEF TailSafe, Spec

=============================================================================
