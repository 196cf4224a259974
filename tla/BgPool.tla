------------------------------- MODULE BgPool -------------------------------
(***************************************************************************)
(* compactor/bgwork.py: the pool that runs memory tails, rollups and       *)
(* backfills in the background.  At most MaxConcurrent of them run, at     *)
(* most MaxOutstanding exist, a submission beyond that is shed.  drain     *)
(* waits for those that exist, and on timeout asyncio.wait_for cancels the *)
(* gather, and with it every task it gathered.                             *)
(***************************************************************************)
EXTENDS Integers, FiniteSets, Sequences, SequencesExt

CONSTANTS
    Tasks,              \* the coroutines that may be submitted
    Drains,             \* callers of drain: /forget, shutdown
    ConcurrentSetting,  \* COMPACTOR_MAX_CONCURRENT_TAILS
    OutstandingSetting  \* COMPACTOR_MAX_OUTSTANDING_TAILS

ASSUME PoolAssumption ==
    IsFiniteSet(Tasks) /\ ConcurrentSetting \in Int /\ OutstandingSetting \in Int

Larger(a, b) == IF a >= b THEN a ELSE b

\* __init__ repairs settings that would stop the pool.
MaxConcurrent == Larger(1, ConcurrentSetting)
MaxOutstanding == Larger(MaxConcurrent, OutstandingSetting)

VARIABLES
    phase,      \* where each task is
    queue,      \* the tasks that wait for the semaphore, first come first
    outcome,    \* how an ended task ended
    submitted,  \* the counters of stats()
    completed,
    shed,
    dying,      \* tasks asked to cancel
    drainPc,    \* where each drain is
    gathered    \* the tasks a drain waits for

counters == <<submitted, completed, shed>>
poolVars == <<phase, queue, outcome, counters, dying>>
drainVars == <<drainPc, gathered>>
vars == <<poolVars, drainVars>>

\* self._tasks: a task leaves it in its done callback, after it has ended.
Outstanding == {t \in Tasks : phase[t] \in {"queued", "running", "ended"}}
\* Mutant: an abandoned task keeps its slot of the semaphore.
RunningOrLost == {t \in Tasks : phase[t] = "running" \/ outcome[t] = "cancelled"}

Running == {t \in Tasks : phase[t] = "running"}
Alive == {t \in Tasks : phase[t] \in {"queued", "running"}}

TypeOK ==
    /\ phase \in [Tasks -> {"unborn", "queued", "running", "ended", "gone", "shed"}]
    /\ queue \in Seq(Tasks)
    /\ outcome \in [Tasks -> {"none", "finished", "cancelled"}]
    /\ {submitted, completed, shed} \subseteq 0 .. Cardinality(Tasks)
    /\ dying \in SUBSET Tasks
    /\ drainPc \in [Drains -> {"idle", "waiting", "cancelling"}]
    /\ gathered \in [Drains -> SUBSET Tasks]

Init ==
    /\ phase = [t \in Tasks |-> "unborn"]
    /\ queue = <<>>
    /\ outcome = [t \in Tasks |-> "none"]
    /\ submitted = 0 /\ completed = 0 /\ shed = 0
    /\ dying = {}
    /\ drainPc = [d \in Drains |-> "idle"]
    /\ gathered = [d \in Drains |-> {}]

----------------------------------------------------------------------------
\* Mutant: the ceiling is tested after the task was added.
IsFullLate(n) == n > MaxOutstanding

\* The ceiling that submit tests.
IsFull(n) == n >= MaxOutstanding

\* submit at the ceiling: the coroutine is closed and never runs.
Shed(t) ==
    /\ phase[t] = "unborn"
    /\ IsFull(Cardinality(Outstanding))
    /\ phase' = [phase EXCEPT ![t] = "shed"]
    /\ submitted' = submitted + 1
    /\ shed' = shed + 1
    /\ UNCHANGED <<queue, outcome, completed, dying, drainVars>>

\* submit below it: the task exists, and waits for the semaphore.
Accept(t) ==
    /\ phase[t] = "unborn"
    /\ ~IsFull(Cardinality(Outstanding))
    /\ phase' = [phase EXCEPT ![t] = "queued"]
    /\ queue' = Append(queue, t)
    /\ submitted' = submitted + 1
    /\ UNCHANGED <<outcome, completed, shed, dying, drainVars>>

\* Mutant: a task that leaves the queue takes the one at its head out.
HeadLeaves(t) == IF queue = <<>> THEN queue ELSE Tail(queue)

\* The queue once t has left it.
QueueWithout(t) ==
    IF t \in ToSet(queue)
    THEN RemoveAt(queue, CHOOSE i \in DOMAIN queue : queue[i] = t)
    ELSE queue

\* The first waiter that is not being cancelled is the semaphore's next.
NextInLine(t) ==
    /\ phase[t] = "queued" /\ t \notin dying
    /\ \E i \in DOMAIN queue : /\ queue[i] = t
                              /\ \A j \in 1 .. i - 1 : queue[j] \in dying

\* _run passes the semaphore and enters the coroutine.
Start(t) ==
    /\ NextInLine(t)
    /\ Cardinality(Running) < MaxConcurrent
    /\ phase' = [phase EXCEPT ![t] = "running"]
    /\ queue' = QueueWithout(t)
    /\ UNCHANGED <<outcome, counters, dying, drainVars>>

\* The coroutine returns or raises; the semaphore is released.
Finish(t) ==
    /\ phase[t] = "running"
    /\ t \notin dying
    /\ phase' = [phase EXCEPT ![t] = "ended"]
    /\ outcome' = [outcome EXCEPT ![t] = "finished"]
    /\ UNCHANGED <<queue, counters, dying, drainVars>>

\* CancelledError reaches the task: a queued one never runs, a running one
\* is abandoned at the await it was in, its semaphore and locks released.
Cancelled(t) ==
    /\ t \in dying
    /\ phase[t] \in {"queued", "running"}
    /\ phase' = [phase EXCEPT ![t] = "ended"]
    /\ queue' = QueueWithout(t)
    /\ outcome' = [outcome EXCEPT ![t] = "cancelled"]
    /\ UNCHANGED <<counters, dying, drainVars>>

\* Mutant: a cancelled task is not counted.
CountedDone(t) ==
    /\ phase[t] = "ended"
    /\ phase' = [phase EXCEPT ![t] = "gone"]
    /\ completed' = IF outcome[t] = "cancelled" THEN completed ELSE completed + 1
    /\ UNCHANGED <<queue, outcome, submitted, shed, dying, drainVars>>

\* Mutant: the callback may be called again.
DoneAgain(t) ==
    /\ phase[t] \in {"ended", "gone"}
    /\ phase' = [phase EXCEPT ![t] = "gone"]
    /\ completed' = completed + 1
    /\ UNCHANGED <<queue, outcome, submitted, shed, dying, drainVars>>

\* _on_done, one turn of the loop after the task ended.
OnDone(t) ==
    /\ phase[t] = "ended"
    /\ phase' = [phase EXCEPT ![t] = "gone"]
    /\ completed' = completed + 1
    /\ UNCHANGED <<queue, outcome, submitted, shed, dying, drainVars>>

----------------------------------------------------------------------------
\* drain gathers the tasks there are; with none it returns at once.
DrainStarts(d) ==
    /\ drainPc[d] = "idle"
    /\ Outstanding # {}
    /\ drainPc' = [drainPc EXCEPT ![d] = "waiting"]
    /\ gathered' = [gathered EXCEPT ![d] = Outstanding]
    /\ UNCHANGED poolVars

\* Mutant: wait_for without cancellation, the tasks go on behind the drain.
DrainGivesUp(d) ==
    /\ drainPc[d] = "waiting"
    /\ gathered[d] \intersect Alive # {}
    /\ drainPc' = [drainPc EXCEPT ![d] = "cancelling"]
    /\ UNCHANGED <<poolVars, gathered>>

\* The timeout: wait_for cancels the gather, which cancels what is alive.
DrainTimesOut(d) ==
    /\ drainPc[d] = "waiting"
    /\ gathered[d] \intersect Alive # {}
    /\ drainPc' = [drainPc EXCEPT ![d] = "cancelling"]
    /\ dying' = dying \union (gathered[d] \intersect Alive)
    /\ UNCHANGED <<phase, queue, outcome, counters, gathered>>

\* The gather is done when its tasks are, after their own callbacks.
DrainReturns(d) ==
    /\ drainPc[d] # "idle"
    /\ gathered[d] \intersect Outstanding = {}
    /\ drainPc' = [drainPc EXCEPT ![d] = "idle"]
    /\ gathered' = [gathered EXCEPT ![d] = {}]
    /\ UNCHANGED poolVars

----------------------------------------------------------------------------
Next ==
    \/ \E t \in Tasks : \/ Shed(t) \/ Accept(t) \/ Start(t) \/ Finish(t)
                        \/ Cancelled(t) \/ OnDone(t)
    \/ \E d \in Drains : DrainStarts(d) \/ DrainTimesOut(d) \/ DrainReturns(d)

Spec == Init /\ [][Next]_vars

\* What the event loop itself owes: a ready task is resumed, a callback is
\* called, a timer fires.  Nothing is assumed of the coroutines.
LoopFairness ==
    /\ \A t \in Tasks : WF_vars(Start(t)) /\ WF_vars(Cancelled(t)) /\ WF_vars(OnDone(t))
    /\ \A d \in Drains : WF_vars(DrainTimesOut(d)) /\ WF_vars(DrainReturns(d))

\* Every coroutine the program submits bounds its calls with timeouts.
TasksEnd == \A t \in Tasks : WF_vars(Finish(t))

LoopSpec == Spec /\ LoopFairness
----------------------------------------------------------------------------
\* Neither bound is ever exceeded, whatever the settings were.
WithinBounds ==
    /\ Cardinality(Outstanding) <= MaxOutstanding
    /\ Cardinality(Running) <= MaxConcurrent

\* The counters of stats() account for every submission: none is counted
\* twice or forgotten, cancelled ones included.
Accounted == submitted = completed + shed + Cardinality(Outstanding)

\* The semaphore queue holds exactly the tasks that wait for it, once each.
QueueIsQueued ==
    /\ IsInjective(queue)
    /\ ToSet(queue) = {t \in Tasks : phase[t] = "queued"}

\* A drain returns, even if no task ever ends by itself: /forget answers,
\* shutdown proceeds.
DrainsReturn == \A d \in Drains : drainPc[d] # "idle" ~> drainPc[d] = "idle"

\* What was accepted does not stay: as long as every coroutine ends some
\* day, each runs to its end or is cancelled, and gives its slot back.
AcceptedEnds ==
    TasksEnd => \A t \in Tasks : phase[t] = "queued" ~> phase[t] = "gone"
============================================================================
