------------------------------- MODULE Forget -------------------------------
(***************************************************************************)
(* /forget without an argument (compactor/commands.py) against the memory  *)
(* tails of the same conversation (compactor/main.py) in the background    *)
(* pool.  A tail indexes the exchange, extracts facts and rolls summaries  *)
(* up, each under the conversation's lock; /forget drains the pool, wipes  *)
(* five layers, drains again, reads back what is left, wipes once more if  *)
(* anything is, and says what it did.                                      *)
(*                                                                         *)
(* A layer's content is the set of exchanges it comes from: the tails'     *)
(* own, and Past for what was stored before.                               *)
(***************************************************************************)
EXTENDS BgPool

CONSTANTS
    Past,       \* the exchanges of before the first step
    NoOne,      \* holder of a free lock
    Stored,     \* layers that may hold something at first
    Broken,     \* layers that may be unreadable
    Malformed,  \* layers whose reader may raise something else than StoreUnreadable
    Stuck,      \* files whose unlink may fail
    Pressure    \* whether the disk may fill up under the tails

Layers == {"facts", "archive", "episodic", "summary", "persona"}
Sources == Tasks \union {Past}

ASSUME ForgetAssumption ==
    /\ Past \notin Tasks /\ NoOne \notin Tasks \union Drains
    /\ Stored \subseteq Layers /\ Broken \subseteq Stored
    /\ Malformed \subseteq Stored \intersect {"facts", "archive"}
    /\ Stuck \subseteq {"summary", "persona"}
    /\ Pressure \in BOOLEAN

VARIABLES
    store,      \* what each layer holds
    health,     \* whether it can be read
    lock,       \* memory.conv_lock
    step,       \* where each tail is
    snap,       \* touched_facts: the facts its request loaded
    rolled,     \* the summary state a rollup has loaded and extended
    thread,     \* the rollups whose save_state a worker thread has
    pc,         \* where each /forget is
    settled,    \* whether the drains left the pool empty
    unread,     \* the layers its wipe could not read
    earlier,    \* the tails accepted before its second drain
    reply       \* what it tells the user

tailVars == <<step, snap, rolled>>
forgetVars == <<pc, settled, unread, earlier, reply>>
allVars == <<vars, store, health, lock, tailVars, thread, forgetVars>>

NoReply == [still |-> {}, unreadable |-> {}, settled |-> FALSE]

ForgetTypeOK ==
    /\ TypeOK
    /\ store \in [Layers -> SUBSET Sources]
    /\ health \in [Layers -> {"ok", "unreadable", "malformed"}]
    /\ lock \in Tasks \union Drains \union {NoOne}
    /\ step \in [Tasks -> {"none", "request", "index", "facts", "extracting",
                           "rollup", "rolling", "saving"}]
    /\ snap \in [Tasks -> SUBSET Sources]
    /\ rolled \in [Tasks -> SUBSET Sources]
    /\ thread \subseteq Tasks
    /\ pc \in [Drains -> {"idle", "drain", "clear", "archive", "tombstone", "settle",
                          "clear2", "archive2", "tombstone2", "verify2", "replied", "failed"}]
    /\ settled \in [Drains -> BOOLEAN]
    /\ unread \in [Drains -> SUBSET Layers]
    /\ earlier \in [Drains -> SUBSET Tasks]
    /\ reply \in [Drains -> [still: SUBSET Layers, unreadable: SUBSET Layers,
                             settled: BOOLEAN]]

ForgetInit ==
    /\ Init
    /\ \E held \in SUBSET Stored :
         store = [l \in Layers |-> IF l \in held THEN {Past} ELSE {}]
    /\ \E bad \in SUBSET Broken, odd \in SUBSET Malformed :
         health = [l \in Layers |-> IF l \in bad THEN "unreadable"
                                    ELSE IF l \in odd THEN "malformed" ELSE "ok"]
    /\ \A l \in Layers : health[l] # "ok" => store[l] # {}
    /\ lock = NoOne
    /\ step = [t \in Tasks |-> "none"]
    /\ snap = [t \in Tasks |-> {}]
    /\ rolled = [t \in Tasks |-> {}]
    /\ thread = {}
    /\ pc = [d \in Drains |-> "idle"]
    /\ settled = [d \in Drains |-> TRUE]
    /\ unread = [d \in Drains |-> {}]
    /\ earlier = [d \in Drains |-> {}]
    /\ reply = [d \in Drains |-> NoReply]

ReadableLayer(l) == health[l] = "ok"
Readable(ls) == \A l \in ls : ReadableLayer(l)

----------------------------------------------------------------------------
(* Requests and their tails. *)

\* A request reads the facts, and may capture a persona, without the lock.
Ask(t) ==
    /\ phase[t] = "unborn" /\ step[t] = "none"
    /\ step' = [step EXCEPT ![t] = "request"]
    /\ snap' = [snap EXCEPT ![t] = IF ReadableLayer("facts") THEN store["facts"] ELSE {}]
    /\ \/ UNCHANGED store
       \/ /\ ReadableLayer("persona")
          /\ store' = [store EXCEPT !["persona"] = {t}]
    /\ UNCHANGED <<vars, health, lock, rolled, thread, forgetVars>>

\* The reply is complete: _run_memory_tail submits the tail.
Submit(t) ==
    /\ step[t] = "request"
    /\ \/ Accept(t) /\ step' = [step EXCEPT ![t] = "index"]
       \/ Shed(t) /\ step' = [step EXCEPT ![t] = "none"]
    /\ UNCHANGED <<store, health, lock, snap, rolled, thread, forgetVars>>

\* Inside the semaphore, and no cancellation on its way.
Active(t) == phase[t] = "running" /\ t \notin dying

Starts(t) ==
    /\ Start(t)
    /\ UNCHANGED <<store, health, lock, tailVars, thread, forgetVars>>

\* degrade.guard: no room on the disk, this part of the tail is skipped;
\* the rollup is the last part, and the first guard skips all of them.
Skipped(t) ==
    /\ Pressure /\ Active(t)
    /\ \/ step[t] \in {"index", "rollup"} /\ Finish(t) /\ step' = [step EXCEPT ![t] = "none"]
       \/ step[t] = "facts" /\ step' = [step EXCEPT ![t] = "rollup"] /\ UNCHANGED vars
    /\ UNCHANGED <<store, health, lock, snap, rolled, thread, forgetVars>>

\* index_exchange under the lock, without an await.
IndexExchange(t) ==
    /\ Active(t) /\ step[t] = "index" /\ lock = NoOne
    /\ store' = IF ReadableLayer("episodic")
                THEN [store EXCEPT !["episodic"] = @ \union {t}] ELSE store
    /\ step' = [step EXCEPT ![t] = "facts"]
    /\ UNCHANGED <<vars, health, lock, snap, rolled, thread, forgetVars>>

\* _facts_tail takes the lock and calls the extractor.
Extract(t) ==
    /\ Active(t) /\ step[t] = "facts" /\ lock = NoOne
    /\ lock' = t
    /\ step' = [step EXCEPT ![t] = "extracting"]
    /\ UNCHANGED <<vars, store, health, snap, rolled, thread, forgetVars>>

\* Mutant: what the request saw is written back.
SnapshotJoins(disk, touched) == disk \union touched

\* _merge_touched: the disk decides which facts there are.
TouchedMerge(disk, touched) == disk

\* The facts are read again, extended with what was extracted, pruned into
\* the archive and saved; an unreadable store is left alone.
SaveExtracted(t) ==
    /\ Active(t) /\ step[t] = "extracting"
    /\ lock' = NoOne
    /\ step' = [step EXCEPT ![t] = "rollup"]
    /\ \/ /\ ReadableLayer("facts")
          /\ \E new \in {{}, {t}} :
               LET all == TouchedMerge(store["facts"], snap[t]) \union new
               IN  \E out \in SUBSET all :
                     /\ out # {} => ReadableLayer("archive")
                     /\ store' = [store EXCEPT !["facts"] = all \ out,
                                               !["archive"] = @ \union out]
       \/ ~ReadableLayer("facts") /\ UNCHANGED store
    /\ UNCHANGED <<vars, health, snap, rolled, thread, forgetVars>>

\* maybe_rollup takes the lock and loads the state; a state it cannot read
\* ends the tail.
LoadState(t) ==
    /\ Active(t) /\ step[t] = "rollup" /\ lock = NoOne
    /\ \/ /\ ReadableLayer("summary")
          /\ lock' = t
          /\ step' = [step EXCEPT ![t] = "rolling"]
          /\ rolled' = [rolled EXCEPT ![t] = store["summary"] \union {t}]
          /\ UNCHANGED vars
       \/ /\ ~ReadableLayer("summary")
          /\ Finish(t)
          /\ step' = [step EXCEPT ![t] = "none"]
          /\ UNCHANGED <<lock, rolled>>
    /\ UNCHANGED <<store, health, snap, thread, forgetVars>>

\* The summaries are written: save_state goes to a worker thread, or there
\* was nothing to roll up.
SaveState(t) ==
    /\ Active(t) /\ step[t] = "rolling"
    /\ \/ /\ step' = [step EXCEPT ![t] = "saving"]
          /\ thread' = thread \union {t}
          /\ UNCHANGED <<vars, lock>>
       \/ /\ Finish(t)
          /\ step' = [step EXCEPT ![t] = "none"]
          /\ lock' = NoOne
          /\ UNCHANGED thread
    /\ UNCHANGED <<store, health, snap, rolled, forgetVars>>

\* The worker thread replaces the file, whether its tail still waits or not.
ThreadWrites(t) ==
    /\ t \in thread
    /\ store' = [store EXCEPT !["summary"] = rolled[t]]
    /\ health' = [health EXCEPT !["summary"] = "ok"]
    /\ thread' = thread \ {t}
    /\ UNCHANGED <<vars, lock, tailVars, forgetVars>>

\* The tail's last await returns.
TailEnds(t) ==
    /\ Active(t) /\ step[t] = "saving" /\ t \notin thread
    /\ Finish(t)
    /\ step' = [step EXCEPT ![t] = "none"]
    /\ lock' = NoOne
    /\ UNCHANGED <<store, health, snap, rolled, thread, forgetVars>>

\* A cancelled tail leaves its locks; a thread it handed work to goes on.
TailCancelled(t) ==
    /\ Cancelled(t)
    /\ step' = [step EXCEPT ![t] = "none"]
    /\ lock' = IF lock = t THEN NoOne ELSE lock
    /\ UNCHANGED <<store, health, snap, rolled, thread, forgetVars>>

TailGone(t) ==
    /\ OnDone(t)
    /\ UNCHANGED <<store, health, lock, tailVars, thread, forgetVars>>

----------------------------------------------------------------------------
(* /forget.  Its lock sections have no await inside, so each is one step. *)

\* The first drain of _settle_background_work, which returns at once from an
\* empty pool.
ForgetStarts(d) ==
    /\ pc[d] = "idle"
    /\ \/ Outstanding = {} /\ pc' = [pc EXCEPT ![d] = "clear"] /\ UNCHANGED vars
       \/ DrainStarts(d) /\ pc' = [pc EXCEPT ![d] = "drain"]
    /\ UNCHANGED <<store, health, lock, tailVars, thread, settled, unread, earlier, reply>>

ForgetTimesOut(d) ==
    /\ DrainTimesOut(d)
    /\ UNCHANGED <<store, health, lock, tailVars, thread, forgetVars>>

\* The first drain is over: is the pool empty by the time it stopped?
ForgetDrained(d) ==
    /\ pc[d] = "drain"
    /\ DrainReturns(d)
    /\ pc' = [pc EXCEPT ![d] = "clear"]
    /\ settled' = [settled EXCEPT ![d] = (Outstanding = {})]
    /\ UNCHANGED <<store, health, lock, tailVars, thread, unread, earlier, reply>>

\* What _clear_all_memory leaves of a layer, when the files in kept could
\* not be unlinked.  It does not know of the archive.
Cleared(l, kept) ==
    CASE l \in {"facts", "episodic"}  -> IF ReadableLayer(l) THEN {} ELSE store[l]
      [] l \in {"summary", "persona"} -> IF l \in kept THEN store[l] ELSE {}
      [] l = "archive"                -> store[l]

\* Mutant: the caller of _clear_all_memory holds the lock over it.
StillHeld(d) == d

\* Whose lock it is when _clear_all_memory has returned.
AfterClear(d) == NoOne

\* A facts file with a value of the wrong type raises through the command.
ClearAll(d) ==
    /\ pc[d] \in {"clear", "clear2"} /\ lock = NoOne
    /\ lock' = AfterClear(d)
    /\ \/ /\ health["facts"] = "malformed"
          /\ pc' = [pc EXCEPT ![d] = "failed"]
          /\ UNCHANGED <<store, health, unread>>
       \/ /\ health["facts"] # "malformed"
          /\ \E kept \in SUBSET Stuck :
               /\ store' = [l \in Layers |-> Cleared(l, kept)]
               /\ health' = [l \in Layers |->
                    IF l \in {"summary", "persona"} \ kept THEN "ok" ELSE health[l]]
          /\ unread' = [unread EXCEPT ![d] = IF ReadableLayer("facts") THEN {} ELSE {"facts"}]
          /\ pc' = [pc EXCEPT ![d] = IF @ = "clear" THEN "archive" ELSE "archive2"]
    /\ UNCHANGED <<vars, tailVars, thread, settled, earlier, reply>>

\* The archive sidecar.
ClearArchive(d) ==
    /\ pc[d] \in {"archive", "archive2"} /\ lock = NoOne
    /\ store' = IF ReadableLayer("archive") THEN [store EXCEPT !["archive"] = {}] ELSE store
    /\ unread' = IF health["archive"] = "unreadable"
                 THEN [unread EXCEPT ![d] = @ \union {"archive"}] ELSE unread
    /\ pc' = [pc EXCEPT ![d] = IF @ = "archive" THEN "tombstone" ELSE "tombstone2"]
    /\ UNCHANGED <<vars, health, lock, tailVars, thread, settled, earlier, reply>>

\* The empty facts file the wipe leaves, over whatever came in behind it.
Tombstone(d) ==
    /\ pc[d] \in {"tombstone", "tombstone2"}
    /\ \/ /\ "facts" \notin unread[d] /\ lock = NoOne
          /\ store' = [store EXCEPT !["facts"] = {}]
       \/ "facts" \in unread[d] /\ UNCHANGED store
    /\ pc' = [pc EXCEPT ![d] = IF @ = "tombstone" THEN "settle" ELSE "verify2"]
    /\ UNCHANGED <<vars, health, lock, tailVars, thread, settled, unread, earlier, reply>>

\* _memory_residue: what is read back, and what is known to be unreadable.
Still == {l \in Layers : ReadableLayer(l) /\ store[l] # {}}
Unreadable == {l \in Layers : health[l] = "unreadable"}

Answer(d, s) == [still |-> Still, unreadable |-> unread[d] \union Unreadable, settled |-> s]

\* Mutant: the second pass is never made.
NoRetry == FALSE

\* One more pass, when the first left something.
Retried == Still # {}

\* The read-back after the first pass, s the outcome of both drains.
Verify(d, s) ==
    /\ settled' = [settled EXCEPT ![d] = s]
    /\ \/ Retried /\ pc' = [pc EXCEPT ![d] = "clear2"] /\ UNCHANGED reply
       \/ /\ ~Retried
          /\ pc' = [pc EXCEPT ![d] = "replied"]
          /\ reply' = [reply EXCEPT ![d] = Answer(d, s)]

\* The tails there have been.
Accepted == {t \in Tasks : phase[t] \notin {"unborn", "shed"}}

\* The second drain begins; an empty pool is verified at once.
SettleAgain(d) ==
    /\ pc[d] = "settle" /\ drainPc[d] = "idle"
    /\ earlier' = [earlier EXCEPT ![d] = Accepted]
    /\ \/ Outstanding = {} /\ Verify(d, settled[d]) /\ UNCHANGED vars
       \/ DrainStarts(d) /\ UNCHANGED <<pc, settled, reply>>
    /\ UNCHANGED <<store, health, lock, tailVars, thread, unread>>

\* The second drain is over.
SettledAgain(d) ==
    /\ pc[d] = "settle"
    /\ DrainReturns(d)
    /\ Verify(d, settled[d] /\ Outstanding = {})
    /\ UNCHANGED <<store, health, lock, tailVars, thread, unread, earlier>>

\* The read-back after the second pass; no third drain.
VerifyRetry(d) ==
    /\ pc[d] = "verify2"
    /\ pc' = [pc EXCEPT ![d] = "replied"]
    /\ reply' = [reply EXCEPT ![d] = Answer(d, settled[d])]
    /\ UNCHANGED <<vars, store, health, lock, tailVars, thread, settled, unread, earlier>>

----------------------------------------------------------------------------
TailSteps(t) ==
    \/ Ask(t) \/ Submit(t) \/ Starts(t) \/ Skipped(t) \/ IndexExchange(t)
    \/ Extract(t) \/ SaveExtracted(t) \/ LoadState(t) \/ SaveState(t)
    \/ ThreadWrites(t) \/ TailEnds(t) \/ TailCancelled(t) \/ TailGone(t)

ForgetSteps(d) ==
    \/ ForgetStarts(d) \/ ForgetTimesOut(d) \/ ForgetDrained(d) \/ ClearAll(d)
    \/ ClearArchive(d) \/ Tombstone(d) \/ SettleAgain(d) \/ SettledAgain(d)
    \/ VerifyRetry(d)

ForgetNext == (\E t \in Tasks : TailSteps(t)) \/ (\E d \in Drains : ForgetSteps(d))

ForgetSpec == ForgetInit /\ [][ForgetNext]_allVars

\* What needs neither the user nor a request.
TailGoesOn(t) ==
    \/ Starts(t) \/ Skipped(t) \/ IndexExchange(t) \/ Extract(t)
    \/ SaveExtracted(t) \/ LoadState(t) \/ SaveState(t) \/ TailEnds(t)
    \/ TailCancelled(t) \/ TailGone(t)

ForgetGoesOn(d) ==
    \/ ForgetTimesOut(d) \/ ForgetDrained(d) \/ ClearAll(d) \/ ClearArchive(d)
    \/ Tombstone(d) \/ SettleAgain(d) \/ SettledAgain(d) \/ VerifyRetry(d)

\* The event loop resumes what is ready, the calls of a tail time out, a
\* worker thread ends; requests come or do not, and nobody need type /forget.
ForgetFairness ==
    /\ \A t \in Tasks : WF_allVars(TailGoesOn(t)) /\ WF_allVars(ThreadWrites(t))
    /\ \A d \in Drains : WF_allVars(ForgetGoesOn(d))

ForgetLive == ForgetSpec /\ ForgetFairness

\* When a tail, or a thread of it, can go on by itself.
TailCanGoOn(t) ==
    \/ NextInLine(t) /\ Cardinality(Running) < MaxConcurrent
    \/ /\ Active(t)
       /\ \/ step[t] \in {"extracting", "rolling"}
          \/ step[t] = "saving" /\ t \notin thread
          \/ step[t] \in {"index", "facts", "rollup"} /\ (lock = NoOne \/ Pressure)
    \/ t \in dying /\ phase[t] \in {"queued", "running"}
    \/ phase[t] = "ended"
    \/ t \in thread

\* When a /forget can.
ForgetCanGoOn(d) ==
    \/ drainPc[d] = "waiting" /\ gathered[d] \intersect Alive # {}
    \/ /\ pc[d] \in {"drain", "settle"} /\ drainPc[d] # "idle"
       /\ gathered[d] \intersect Outstanding = {}
    \/ pc[d] = "settle" /\ drainPc[d] = "idle"
    \/ pc[d] \in {"clear", "archive", "clear2", "archive2"} /\ lock = NoOne
    \/ pc[d] \in {"tombstone", "tombstone2"} /\ ("facts" \in unread[d] \/ lock = NoOne)
    \/ pc[d] = "verify2"

\* How far a tail is from its end.
TailLeft(t) ==
    (CASE phase[t] = "unborn"  -> IF step[t] = "none" THEN 12 ELSE 11
       [] phase[t] = "queued"  -> 10
       [] phase[t] = "running" -> CASE step[t] = "index"      -> 9
                                    [] step[t] = "facts"      -> 8
                                    [] step[t] = "extracting" -> 7
                                    [] step[t] = "rollup"     -> 6
                                    [] step[t] = "rolling"    -> 5
                                    [] OTHER                  -> 3
       [] phase[t] = "ended"   -> 2
       [] OTHER                -> 0) + (IF t \in thread THEN 1 ELSE 0)

\* How far a /forget is from its answer.
ForgetLeft(d) ==
    CASE pc[d] = "idle"       -> 14
      [] pc[d] = "drain"      -> IF drainPc[d] = "waiting" THEN 13 ELSE 12
      [] pc[d] = "clear"      -> 11
      [] pc[d] = "archive"    -> 10
      [] pc[d] = "tombstone"  -> 9
      [] pc[d] = "settle"     -> CASE drainPc[d] = "idle"    -> 8
                                   [] drainPc[d] = "waiting" -> 7
                                   [] OTHER                  -> 6
      [] pc[d] = "clear2"     -> 5
      [] pc[d] = "archive2"   -> 4
      [] pc[d] = "tombstone2" -> 3
      [] pc[d] = "verify2"    -> 2
      [] OTHER                -> 0

----------------------------------------------------------------------------
\* An answer without a caveat.
CleanAnswer(d) ==
    pc[d] = "replied" /\ reply[d] = [still |-> {}, unreadable |-> {}, settled |-> TRUE]

\* What the user asked to be forgotten: what there was, and the exchanges
\* whose tails existed when the second drain began.
Forgotten(d) == earlier[d] \union {Past}

\* The tails that were cancelled with a rollup in their hands.
Orphans == {t \in Tasks : outcome[t] = "cancelled" /\ rolled[t] # {}}

\* What a /forget does not answer to be gone: the layers it names, those with
\* a value of the wrong type (commands.py:389), and the archive while facts
\* that stay may still be moved there.
Left(d) ==
    LET left == reply[d].still \union reply[d].unreadable
                  \union {l \in {"facts", "archive"} : health[l] = "malformed"}
    IN  left \union {l \in {"archive"} : "facts" \in left}

\* Once a /forget that settled has answered, no tail brings what was forgotten
\* back into a layer the answer does not name: not one that was parked, nor
\* one cancelled, nor a later one holding an older snapshot.  Only the thread
\* of an orphan may bring summaries back (commands.py:406).
ForgottenStaysForgotten ==
    \A d \in Drains : pc[d] = "replied" /\ reply[d].settled =>
        \A l \in Layers \ Left(d) : (l = "summary" => Orphans = {}) =>
            store[l] \intersect Forgotten(d) = {}

\* "a settled [state] rather than a moving one" (_handle_forget): the same of
\* every layer, the summaries included.
SettledIsStill ==
    \A d \in Drains : CleanAnswer(d) =>
        \A l \in Layers : store[l] \intersect Forgotten(d) = {}

\* /forget names every layer that still holds something when it answers.
AnswerNamesTheRest ==
    [][\A d \in Drains : pc[d] # "replied" /\ pc'[d] = "replied" =>
         {l \in Layers : store'[l] # {}}
            \subseteq reply'[d].still \union reply'[d].unreadable]_allVars

\* A settled /forget on healthy files leaves nothing to ask again for: what
\* landed behind the first pass is gone after the second.  (A persona may be
\* captured, and a thread may save a summary, at any moment.)
ForgetFinishes ==
    \A d \in Drains :
        (pc[d] = "replied" /\ reply[d].settled /\ Accepted = earlier[d]
           /\ Readable({"facts", "archive", "episodic"}))
        => reply[d].still \subseteq {"summary", "persona"}

\* Something is under way: a /forget, or what the pool has accepted.
UnderWay ==
    \/ Outstanding # {}
    \/ \E d \in Drains : pc[d] \notin {"idle", "replied", "failed"}

\* While anything is under way something goes on by itself: neither the lock,
\* which is not reentrant (commands.py:590), nor the semaphore, nor a drain
\* leaves a /forget and the tails waiting for each other.
NobodyWaitsForAll ==
    UnderWay => \/ \E t \in Tasks : TailCanGoOn(t)
                \/ \E d \in Drains : ForgetCanGoOn(d)

\* The guards above are those of the actions.
GuardsAreExact ==
    /\ \A t \in Tasks : TailCanGoOn(t) <=> ENABLED (TailGoesOn(t) \/ ThreadWrites(t))
    /\ \A d \in Drains : ForgetCanGoOn(d) <=> ENABLED ForgetGoesOn(d)

\* Every step brings one tail or one /forget nearer to its end and takes none
\* away from it, so that there are finitely many of them.
NothingGoesRound ==
    [][/\ \A t \in Tasks : TailLeft(t)' <= TailLeft(t)
       /\ \A d \in Drains : ForgetLeft(d)' <= ForgetLeft(d)
       /\ \/ \E t \in Tasks : TailLeft(t)' < TailLeft(t)
          \/ \E d \in Drains : ForgetLeft(d)' < ForgetLeft(d)]_allVars

\* /forget answers, however the tails, the drains and the lock interleave.
ForgetAnswers ==
    \A d \in Drains : pc[d] # "idle" ~> pc[d] \in {"replied", "failed"}
============================================================================
