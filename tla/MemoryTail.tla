----------------------------- MODULE MemoryTail -----------------------------
(***************************************************************************)
(* What becomes of a reply: compactor/main.py _run_memory_tail and         *)
(* _async_tail on the pool, compactor/degrade.py, which measures the free  *)
(* space and keeps the measurement for a while, and compactor/tailhealth.py,*)
(* which counts what was decided and is what /health/full knows of it.     *)
(*                                                                         *)
(* The request counts its reply before the tail has run; the tail may be   *)
(* shed, parked while the disk fills, or cancelled by a drain.  What the   *)
(* jobs of a tail write and their lock are in Forget and FactStore.        *)
(***************************************************************************)
EXTENDS BgPool

CONSTANTS
    Replies,     \* what a stream may have left, and in answer to what
    Ttl,         \* COMPACTOR_DEGRADE_CHECK_TTL_S
    Window,      \* COMPACTOR_TAIL_SKIP_DEGRADE_WINDOW_S
    EmptyRun,    \* EMPTY_RUN_DEGRADE: 10
    MaxClock,    \* bound on the time
    MaxTroubles  \* bound on what happens to the disk

Texts == {"none", "blank", "prose", "scrap", "unending", "loop"}

ASSUME TailAssumption ==
    /\ Replies \subseteq [text : Texts, finished : BOOLEAN, holed : BOOLEAN,
                          paired : BOOLEAN, traffic : BOOLEAN, history : BOOLEAN]
    /\ \A r \in Replies : r.traffic => ~r.history
    /\ {Ttl, EmptyRun} \subseteq Nat \ {0} /\ {Window, MaxClock, MaxTroubles} \subseteq Nat

STORING_OUTCOMES == {"stored", "stored_trimmed"}
HARMLESS_SKIP_OUTCOMES == {"skipped_empty", "skipped_task_traffic"}
OUTCOMES ==
    STORING_OUTCOMES \union HARMLESS_SKIP_OUTCOMES \union
    {"skipped_holed", "skipped_degenerate", "skipped_no_boundary", "skipped_too_short",
     "skipped_degenerate_partial", "skipped_disk_pressure", "skipped_no_user_text",
     "skipped_shed"}

Never == -1

VARIABLES
    room,      \* whether the disk has room for writes
    readable,  \* whether statvfs answers
    cache,     \* the measurement, and until when it serves
    now,
    ledger,    \* tailhealth: how often each outcome was counted
    lossyAt,   \* last_lossy_skip_at
    empties,   \* consecutive_empty
    job,       \* where the task of a reply is
    troubles,
    decided,   \* the outcome of each reply, when one was lost, and whether it
               \* answers a user's text
    order,     \* the replies in the order of their decisions
    indexed,   \* the replies that were given to the index
    pressed,   \* the stored replies since whose decision the disk was once short
    roomAt     \* when the disk last had room, or could not be measured

disk == <<room, readable, troubles, roomAt>>
tailHealth == <<ledger, lossyAt, empties>>
history == <<decided, order, indexed, pressed>>
replyVars == <<disk, cache, now, tailHealth, job, history>>
requestVars == <<vars, replyVars>>

TailInit ==
    /\ Init
    /\ room \in BOOLEAN /\ readable = TRUE /\ troubles = 0
    /\ roomAt = IF room THEN 0 ELSE -Ttl
    /\ cache = [until |-> 0, allowed |-> TRUE]
    /\ now = 0
    /\ ledger = [o \in OUTCOMES |-> 0] /\ lossyAt = Never /\ empties = 0
    /\ job = [t \in Tasks |-> "none"]
    /\ decided = [t \in Tasks |-> [outcome |-> "none", at |-> 0, paired |-> FALSE]]
    /\ order = <<>> /\ indexed = {} /\ pressed = {}

----------------------------------------------------------------------------
(* The measurement. *)

\* _free_mb: what cannot be measured is taken to be enough.
HasRoom == room \/ ~readable

\* Mutant: a reading that is used is kept for longer.
GuardSliding(allowed, fresh) ==
    IF ~fresh /\ now < cache.until
    THEN allowed = cache.allowed /\ cache' = [cache EXCEPT !.until = now + Ttl]
    ELSE allowed = HasRoom /\ cache' = [until |-> now + Ttl, allowed |-> HasRoom]

\* writes_allowed: the reading that is kept, unless it is old or fresh is set.
Guard(allowed, fresh) ==
    IF ~fresh /\ now < cache.until
    THEN allowed = cache.allowed /\ UNCHANGED cache
    ELSE allowed = HasRoom /\ cache' = [until |-> now + Ttl, allowed |-> HasRoom]

----------------------------------------------------------------------------
(* The decision, on the request path. *)

\* decide_memory_tail: what is not finished keeps its whole sentences.
Decide(r) ==
    CASE r.holed                                -> "skipped_holed"
      [] ~r.holed /\ r.text \in {"none", "blank"} -> "skipped_empty"
      [] ~r.holed /\ r.text = "unending" /\ ~r.finished -> "skipped_no_boundary"
      [] ~r.holed /\ r.text = "scrap" /\ ~r.finished    -> "skipped_too_short"
      [] ~r.holed /\ r.text = "loop" ->
            IF r.finished THEN "skipped_degenerate" ELSE "skipped_degenerate_partial"
      [] OTHER -> IF r.finished THEN "stored" ELSE "stored_trimmed"

\* Mutant: whether there is a user's text is left to the tail.
BlockedByDisk(label, allowed, paired) ==
    IF label \in STORING_OUTCOMES /\ ~allowed THEN "skipped_disk_pressure" ELSE label

\* _tail_store_blocked: what the store, or the exchange, refuses.
Blocked(label, allowed, paired) ==
    IF label \notin STORING_OUTCOMES THEN label
    ELSE IF ~allowed THEN "skipped_disk_pressure"
    ELSE IF ~paired THEN "skipped_no_user_text"
    ELSE label

Lossy(label) == label \notin STORING_OUTCOMES \union HARMLESS_SKIP_OUTCOMES

\* Mutant: what was counted as stored stays counted as that.
CorrectedTwice(counted, was) == [counted EXCEPT !["skipped_shed"] = @ + 1]

Corrected(counted, was) ==
    [counted EXCEPT ![was] = @ - 1, !["skipped_shed"] = @ + 1]

\* tailhealth.note, and note_correction where the pool then shed the tail; a
\* correction of what was never counted is none.
Noted(label, was) ==
    LET counted == [ledger EXCEPT ![label] = @ + 1]
        applies == was # "none" /\ counted[was] > 0
    IN  /\ ledger' = IF applies THEN Corrected(counted, was) ELSE counted
        /\ lossyAt' = IF Lossy(label) \/ applies THEN now ELSE lossyAt
        /\ empties' = IF label = "skipped_empty" THEN Min({empties + 1, EmptyRun}) ELSE 0

\* Mutant: a tail that was shed had counted as stored whole.
CorrectionWhole(label) == "stored"

\* What note_correction is told the reply was counted as.
Correction(label) == label

Decides(t, label, paired) ==
    /\ decided' = [decided EXCEPT ![t] =
            [outcome |-> label, at |-> IF Lossy(label) THEN now ELSE 0, paired |-> paired]]
    /\ pressed' = IF ~room /\ label \in STORING_OUTCOMES
                  THEN pressed \union {t} ELSE pressed

\* The replies are taken in a fixed order: they are interchangeable.
Undecided == {t \in Tasks : decided[t].outcome = "none"}

\* _run_memory_tail: the reply is judged and counted; its tail, or where
\* nothing of it is stored the rollup of what was said before, goes to the
\* pool, which may shed it.
Reply(t, r) ==
    /\ Undecided # {} /\ t = CHOOSE u \in Undecided : TRUE
    /\ \E allowed \in BOOLEAN :
        LET judged == Decide(r)
            kept == Blocked(judged, allowed, r.paired)
            label == IF kept \in STORING_OUTCOMES /\ r.traffic
                       THEN "skipped_task_traffic" ELSE kept
            stores == label \in STORING_OUTCOMES
            rolls == ~stores /\ r.text # "none" /\ r.history
        IN  /\ IF judged \in STORING_OUTCOMES THEN Guard(allowed, FALSE)
               ELSE allowed /\ UNCHANGED cache
            /\ \/ /\ stores \/ rolls
                  /\ Accept(t)
                  /\ Noted(label, "none")
                  /\ job' = [job EXCEPT ![t] = IF stores THEN "tail" ELSE "rollup"]
                  /\ Decides(t, label, r.paired)
               \/ /\ stores \/ rolls
                  /\ Shed(t)
                  /\ Noted(label, IF stores THEN Correction(label) ELSE "none")
                  /\ Decides(t, IF stores THEN "skipped_shed" ELSE label, r.paired)
                  /\ UNCHANGED job
               \/ /\ ~stores /\ ~rolls
                  /\ Noted(label, "none")
                  /\ Decides(t, label, r.paired)
                  /\ UNCHANGED <<vars, job>>
    /\ order' = Append(order, t)
    /\ UNCHANGED <<disk, now, indexed>>

----------------------------------------------------------------------------
(* The task. *)

Works(t) == phase[t] = "running" /\ t \notin dying

TailStarts(t) == Start(t) /\ UNCHANGED replyVars

Stops(t) == Finish(t) /\ job' = [job EXCEPT ![t] = "none"]
GoesOn(t, next) == job' = [job EXCEPT ![t] = next] /\ UNCHANGED vars

\* _async_tail: the guard of the whole tail, which may use an old reading.
Begins(t) ==
    /\ Works(t) /\ job[t] = "tail"
    /\ \E allowed \in BOOLEAN :
        /\ Guard(allowed, FALSE)
        /\ IF allowed THEN GoesOn(t, "index") ELSE Stops(t)
    /\ UNCHANGED <<disk, now, tailHealth, history>>

\* The exchange is indexed once the tail has the lock, where it is one; then
\* _facts_tail measures afresh, and where there is no room _rollup_hierarchy
\* finds none either.
Indexes(t) ==
    /\ Works(t) /\ job[t] = "index"
    /\ indexed' = IF decided[t].paired THEN indexed \union {t} ELSE indexed
    /\ \E allowed \in BOOLEAN :
        /\ Guard(allowed, TRUE)
        /\ IF allowed THEN GoesOn(t, "facts") ELSE Stops(t)
    /\ UNCHANGED <<disk, now, tailHealth, decided, order, pressed>>

\* _rollup_hierarchy measures afresh; the pass that it then makes, or not, is
\* in module Hierarchy.
RollsUp(t) ==
    /\ \E allowed \in BOOLEAN : Guard(allowed, TRUE)
    /\ Stops(t)
    /\ UNCHANGED <<disk, now, tailHealth, history>>

\* The facts are extracted and saved, with a call of the model in between.
SavesFacts(t) == Works(t) /\ job[t] = "facts" /\ RollsUp(t)

\* The task of a reply of which nothing is stored.
RollsUpOnly(t) == Works(t) /\ job[t] = "rollup" /\ RollsUp(t)

TailAbandoned(t) ==
    /\ Cancelled(t)
    /\ job' = [job EXCEPT ![t] = "none"]
    /\ UNCHANGED <<disk, cache, now, tailHealth, history>>

TailDone(t) == OnDone(t) /\ UNCHANGED replyVars

Drain(d) ==
    /\ DrainStarts(d) \/ DrainTimesOut(d) \/ DrainReturns(d)
    /\ UNCHANGED replyVars

----------------------------------------------------------------------------
(* The surroundings. *)

\* The disk fills, or is freed; statvfs fails, or answers again.
Trouble ==
    /\ troubles < MaxTroubles
    /\ troubles' = troubles + 1
    /\ \/ room' = ~room /\ UNCHANGED readable
       \/ readable' = ~readable /\ UNCHANGED room
    /\ pressed' = IF room' THEN pressed
                  ELSE {t \in Tasks : decided[t].outcome \in STORING_OUTCOMES}
    /\ roomAt' = IF room' \/ ~readable' THEN now ELSE roomAt
    /\ UNCHANGED <<vars, cache, now, tailHealth, job, decided, order, indexed>>

Tick ==
    /\ now < MaxClock
    /\ now' = now + 1
    /\ roomAt' = IF HasRoom THEN now' ELSE roomAt
    /\ UNCHANGED <<vars, room, readable, troubles, cache, tailHealth, job, history>>

\* Somebody reads /health/full, which asks writes_allowed.
Probe ==
    /\ \E allowed \in BOOLEAN : Guard(allowed, FALSE)
    /\ UNCHANGED <<vars, disk, now, tailHealth, job, history>>

TailNext ==
    \/ \E t \in Tasks :
        \/ \E r \in Replies : Reply(t, r)
        \/ TailStarts(t) \/ Begins(t) \/ Indexes(t) \/ SavesFacts(t) \/ RollsUpOnly(t)
        \/ TailAbandoned(t) \/ TailDone(t)
    \/ \E d \in Drains : Drain(d)
    \/ Trouble \/ Tick \/ Probe

\* The event loop owes what it owes to the pool alone; of the coroutines, the
\* disk and the time nothing is assumed.
TailSafe == TailInit /\ [][TailNext]_requestVars

TailSpec == TailSafe /\ LoopFairness

----------------------------------------------------------------------------
(* Properties. *)

\* snapshot and full_health: what /health/full says of the tails.
SkippedRecently == lossyAt # Never /\ now - lossyAt <= Window
EmptyRepliesDegraded == empties >= EmptyRun

Lost == {t \in Tasks : decided[t].outcome # "none" /\ Lossy(decided[t].outcome)}

\* /health/full is degraded by the tails exactly while a reply that the user
\* read was lost within the window, for whatever reason, shedding included,
\* or while the last replies were all empty: neither a loss that is not seen,
\* nor an alarm over nothing (tailhealth.py:219, :360).
LossIsSeen ==
    /\ SkippedRecently <=> \E t \in Lost : now - decided[t].at <= Window
    /\ EmptyRepliesDegraded <=>
        /\ Len(order) >= EmptyRun
        /\ \A k \in Len(order) - EmptyRun + 1 .. Len(order) :
            decided[order[k]].outcome = "skipped_empty"

\* The ledger says of every reply what became of it, once (main.py:6241,
\* tailhealth.py:360).
LedgerIsTrue ==
    \A o \in OUTCOMES :
        ledger[o] = Cardinality({t \in Tasks : decided[t].outcome = o})

\* A reply that was counted as stored was given to the index once its tail is
\* over, unless a drain cancelled the tail or the disk was short since the reply
\* was counted (main.py:6130, :5732).
StoredIsStored ==
    \A t \in Tasks :
        /\ decided[t].outcome \in STORING_OUTCOMES
        /\ phase[t] \in {"ended", "gone"}
        /\ outcome[t] # "cancelled"
        /\ t \notin pressed
        => t \in indexed

\* Once the disk has been short for Ttl no reply is counted as stored any
\* more, and no tail begins (degrade.py:85).
RoomIsRecent ==
    [][(\E t \in Tasks :
          \/ decided'[t].outcome \in STORING_OUTCOMES /\ decided[t].outcome = "none"
          \/ job[t] = "tail" /\ job'[t] = "index")
        => now - roomAt < Ttl]_requestVars
=============================================================================
