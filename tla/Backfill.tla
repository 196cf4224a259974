------------------------------ MODULE Backfill ------------------------------
(***************************************************************************)
(* compactor/backfill.py: the reconstruction of the facts of a             *)
(* conversation that has a history and no facts file.  A request starts it *)
(* (start_backfill_if_needed), the pool runs it (_run_backfill) beside the *)
(* memory tails of the same conversation, and a state file says how far it *)
(* came, for the process that comes after a crash.                         *)
(*                                                                         *)
(* Reading, merging and saving the facts happens under the conversation's  *)
(* lock, in a backfill and in a tail alike, and is one step here.  What is *)
(* stored, archived facts included, is the set of its sources: History for *)
(* what a backfill reconstructs, a request for what its tail extracts.     *)
(***************************************************************************)
EXTENDS Naturals, FiniteSets

CONSTANTS
    Requests,   \* chat requests of the conversation, long enough to backfill
    History,    \* source of the reconstructed facts
    Exchanges,  \* pairs in the history, an extraction each
    MayCrash,   \* whether the process may die
    MayCancel,  \* whether a drain may time out and cancel a backfill
    MayForget,  \* whether the user may type /forget
    MayDamage,  \* whether the facts file may become unreadable
    MayShed     \* whether the pool may refuse a backfill, the redactor raise

ASSUME BackfillAssumption ==
    /\ IsFiniteSet(Requests) /\ History \notin Requests
    /\ Exchanges \in Nat \ {0}
    /\ MayCrash \in BOOLEAN /\ MayCancel \in BOOLEAN /\ MayForget \in BOOLEAN
    /\ MayDamage \in BOOLEAN /\ MayShed \in BOOLEAN

Sources == Requests \union {History}

VARIABLES
    file,       \* whether the facts file exists
    facts,      \* what is stored
    readable,   \* whether the facts file can be read
    state,      \* the state file
    stale,      \* whether its last update is older than _STALE_SECONDS
    inProgress, \* the conversation is in _in_progress_local
    request,    \* where each request is
    backfill,   \* where the backfill of each request is
    progress,   \* exchanges it has extracted
    found,      \* the backfills that have extracted a fact
    saved,      \* history: a backfill has written what it found
    forgotten   \* history: /forget has wiped the conversation

disk == <<file, facts, readable, state, stale>>
work == <<backfill, progress, found>>
history == <<saved, forgotten>>
backfillVars == <<disk, inProgress, request, work, history>>

States == {"none", "in_progress", "failed", "complete"}

BackfillTypeOK ==
    /\ file \in BOOLEAN /\ readable \in BOOLEAN /\ stale \in BOOLEAN
    /\ inProgress \in BOOLEAN /\ saved \in BOOLEAN /\ forgotten \in BOOLEAN
    /\ facts \subseteq Sources
    /\ state \in States
    /\ request \in [Requests -> {"idle", "redacting", "chatting", "done"}]
    /\ backfill \in [Requests -> {"none", "queued", "extracting", "rollup"}]
    /\ progress \in [Requests -> 0 .. Exchanges]
    /\ found \subseteq Requests

\* A conversation of an earlier version: a history and nothing else.
BackfillInit ==
    /\ file = FALSE /\ facts = {} /\ readable = TRUE
    /\ state = "none" /\ stale = FALSE
    /\ inProgress = FALSE
    /\ request = [r \in Requests |-> "idle"]
    /\ backfill = [r \in Requests |-> "none"]
    /\ progress = [r \in Requests |-> 0]
    /\ found = {}
    /\ saved = FALSE /\ forgotten = FALSE

Alive == {r \in Requests : backfill[r] # "none"}

\* _write_state: the file is new, with a new updated_at.
WriteState(s) == state' = s /\ stale' = FALSE

----------------------------------------------------------------------------
\* needs_backfill, for a conversation that is long enough.
NeedsBackfill ==
    /\ ~file
    /\ \/ state \in {"none", "failed"}
       \/ state = "in_progress" /\ stale

\* Mutant: the claim is not made before the redactor is awaited.
ClaimLate == inProgress

\* The claim is made before the redactor is awaited.
Claim == TRUE

\* A request kicks a backfill off, or finds that none is due.
Kickoff(r) ==
    /\ request[r] = "idle"
    /\ \/ /\ NeedsBackfill /\ ~inProgress
          /\ inProgress' = Claim
          /\ request' = [request EXCEPT ![r] = "redacting"]
       \/ /\ ~NeedsBackfill \/ inProgress
          /\ request' = [request EXCEPT ![r] = "chatting"]
          /\ UNCHANGED inProgress
    /\ UNCHANGED <<disk, work, history>>

\* The redactor has returned: the backfill is submitted, or shed; the
\* request goes on the same way when the redactor has raised.
Redacted(r) ==
    /\ request[r] = "redacting"
    /\ request' = [request EXCEPT ![r] = "chatting"]
    /\ \/ backfill' = [backfill EXCEPT ![r] = "queued"]
       \/ MayShed /\ UNCHANGED backfill
    /\ UNCHANGED <<disk, inProgress, progress, found, history>>

\* The request is answered and its tail is done, with or without a fact.
TailDone(r) ==
    /\ request[r] = "chatting"
    /\ request' = [request EXCEPT ![r] = "done"]
    /\ \/ readable /\ file' = TRUE /\ facts' = facts \union {r}
       \/ UNCHANGED <<file, facts>>
    /\ UNCHANGED <<readable, state, stale, inProgress, work, history>>

----------------------------------------------------------------------------
\* The backfill is over: the finally clause releases the claim.
Ends(r) ==
    /\ backfill' = [backfill EXCEPT ![r] = "none"]
    /\ progress' = [progress EXCEPT ![r] = 0]
    /\ found' = found \ {r}
    /\ inProgress' = FALSE

\* It starts, and reads the store before it spends anything on it: one that
\* is unreadable or has facts is left alone, through the finally clause.
Check(r) ==
    /\ backfill[r] = "queued"
    /\ \/ /\ ~readable \/ facts # {}
          /\ Ends(r)
          /\ UNCHANGED <<state, stale>>
       \/ /\ readable /\ facts = {}
          /\ backfill' = [backfill EXCEPT ![r] = "extracting"]
          /\ WriteState("in_progress")
          /\ UNCHANGED <<progress, found, inProgress>>
    /\ UNCHANGED <<file, facts, readable, request, history>>

\* Mutant: one exchange too many.
RemainingOrLast(r) == progress[r] <= Exchanges

Remaining(r) == progress[r] < Exchanges

\* One exchange extracted (or its extraction failed), progress recorded.
Extracted(r) ==
    /\ backfill[r] = "extracting" /\ Remaining(r)
    /\ progress' = [progress EXCEPT ![r] = @ + 1]
    /\ found' \in {found, found \union {r}}
    /\ WriteState("in_progress")
    /\ UNCHANGED <<file, facts, readable, inProgress, request, backfill, history>>

\* Mutant: what was accumulated replaces the store.
ReplacedBy(disk0, new) == new

\* _merge_backfilled: the store first, then what it does not have.
MergedWith(disk0, new) == disk0 \union new

\* The store is read again and merged into; an empty merge writes nothing,
\* an unreadable store is left alone and the backfill has failed.
Saved(r) ==
    /\ backfill[r] = "extracting" /\ ~Remaining(r)
    /\ LET merged == MergedWith(facts, IF r \in found THEN {History} ELSE {})
       IN \/ /\ readable
             /\ facts' = merged
             /\ file' = (file \/ merged # {})
             /\ saved' = TRUE
             /\ backfill' = [backfill EXCEPT ![r] = "rollup"]
             /\ UNCHANGED <<state, stale, inProgress, progress, found>>
          \/ /\ ~readable
             /\ WriteState("failed")
             /\ Ends(r)
             /\ UNCHANGED <<file, facts, saved>>
    /\ UNCHANGED <<readable, request, forgotten>>

\* The summaries are rolled up, with or without success: complete.
Completed(r) ==
    /\ backfill[r] = "rollup"
    /\ WriteState("complete")
    /\ Ends(r)
    /\ UNCHANGED <<file, facts, readable, request, history>>

\* Mutant: an exception is taken for the end of the work.
AbortedState == "complete"

\* What the except clause records.
FailedState == "failed"

\* An exception escapes, a failed write say; the state file records it if
\* it can be written at all.
Aborted(r) ==
    /\ backfill[r] \in {"extracting", "rollup"}
    /\ \/ WriteState(FailedState)
       \/ MayDamage /\ UNCHANGED <<state, stale>>
    /\ Ends(r)
    /\ UNCHANGED <<file, facts, readable, request, history>>

\* Mutant: the claim is released by the except clause, which a cancellation
\* does not enter.
CancelledUnreleased(r) ==
    /\ MayCancel
    /\ backfill[r] # "none"
    /\ backfill' = [backfill EXCEPT ![r] = "none"]
    /\ UNCHANGED <<disk, inProgress, request, progress, found, history>>

\* A drain timed out.  A backfill that has started passes its finally
\* clause; one that waits for the semaphore never enters its coroutine.
Cancelled(r) ==
    /\ MayCancel
    /\ \/ backfill[r] \in {"extracting", "rollup"} /\ Ends(r)
       \/ /\ backfill[r] = "queued"
          /\ backfill' = [backfill EXCEPT ![r] = "none"]
          /\ UNCHANGED <<progress, found, inProgress>>
    /\ UNCHANGED <<disk, request, history>>

----------------------------------------------------------------------------
\* _STALE_SECONDS pass without an update.
TimePasses ==
    /\ state = "in_progress" /\ ~stale
    /\ stale' = TRUE
    /\ UNCHANGED <<file, facts, readable, state, inProgress, request, work, history>>

\* /forget, both of its drains done: no backfill is alive.  An empty facts
\* file stays behind as a tombstone, unless the file cannot be read.
Forget ==
    /\ MayForget /\ ~forgotten /\ Alive = {}
    /\ readable
    /\ file' = TRUE
    /\ facts' = {}
    /\ forgotten' = TRUE
    /\ UNCHANGED <<readable, state, stale, inProgress, request, work, saved>>

\* The process dies; requests in flight are gone, the files stay.
Crash ==
    /\ MayCrash
    /\ inProgress' = FALSE
    /\ request' = [r \in Requests |-> IF request[r] = "idle" THEN "idle" ELSE "done"]
    /\ backfill' = [r \in Requests |-> "none"]
    /\ progress' = [r \in Requests |-> 0]
    /\ found' = {}
    /\ UNCHANGED <<disk, history>>

\* The facts file cannot be read for a while.
Damage ==
    /\ MayDamage /\ file
    /\ readable' = ~readable
    /\ UNCHANGED <<file, facts, state, stale, inProgress, request, work, history>>

BackfillSteps(r) ==
    \/ Check(r) \/ Extracted(r) \/ Saved(r) \/ Completed(r) \/ Aborted(r) \/ Cancelled(r)

BackfillNext ==
    \/ \E r \in Requests : Kickoff(r) \/ Redacted(r) \/ TailDone(r) \/ BackfillSteps(r)
    \/ TimePasses \/ Forget \/ Crash \/ Damage

BackfillSpec == BackfillInit /\ [][BackfillNext]_backfillVars

\* The pool runs what it accepted, extractions and rollups have timeouts,
\* the redactor returns.
BackfillFairness ==
    \A r \in Requests :
        WF_backfillVars(Redacted(r))
        /\ WF_backfillVars(Check(r) \/ Extracted(r) \/ Saved(r) \/ Completed(r))

BackfillLive == BackfillSpec /\ BackfillFairness

----------------------------------------------------------------------------
\* At most one backfill of the conversation exists at any moment, requests
\* that overlap in the redactor included (_in_progress_local).
AtMostOne == Cardinality(Alive \union {r \in Requests : request[r] = "redacting"}) <= 1

\* A backfill never removes a fact that is stored, whatever was stored
\* between its first read and its write, and never touches a store it
\* cannot read ("Additive only", module docstring).
OnlyAdds ==
    [][/\ forgotten' = forgotten => facts \subseteq facts'
       /\ ~readable /\ ~readable' => facts' = facts /\ file' = file]_backfillVars

\* "complete" is only ever recorded by a backfill that has written what it
\* found: a crash, an abort or an unreadable store in between leaves a
\* state that is retried.
CompleteIsTrue == state = "complete" => saved

\* A backfill that has started releases its claim on the conversation: done,
\* failed, cancelled or dead, and a later request may start another.
ClaimsReleased == \A r \in Requests : backfill[r] = "extracting" ~> ~inProgress

\* "conv_ids currently being backfilled in this process" (the comment of
\* _in_progress_local).
InProgressIsTrue ==
    inProgress => Alive # {} \/ \E r \in Requests : request[r] = "redacting"

\* "a crashed backfill (process killed, OOM, etc.) gets retried on next
\* encounter rather than blocking memory creation for that conv forever"
\* (module docstring).
CrashedIsRetried ==
    (state = "in_progress" /\ stale /\ Alive = {} /\ ~inProgress /\ ~saved /\ ~forgotten)
        => NeedsBackfill

\* "an existing-but-empty facts file is still a store this module has no
\* business reconstructing" (needs_backfill): the tombstone of /forget keeps
\* the forgotten history from coming back.
TombstoneHolds == forgotten => History \notin facts
============================================================================
