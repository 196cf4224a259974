------------------------------ MODULE FactStore ------------------------------
(***************************************************************************)
(* The facts of one conversation: the active file, the archive sidecar,    *)
(* the memory tails that add to them in the background, the commands and   *)
(* the admin endpoints that change them, and the process dying anywhere.   *)
(*                                                                         *)
(* Everything runs on one asyncio loop.  A coroutine gives way only at an  *)
(* await, so an operation is one step up to its next await, except that    *)
(* the process can die between the two files it replaces: the second       *)
(* replacement is a step of its own, `FinishWrite', and until it is taken  *)
(* nothing else of the process runs.                                       *)
(***************************************************************************)
EXTENDS Facts

CONSTANTS
    Tails,          \* memory tails, one per answered exchange
    AdminDedup,     \* the /dedup endpoint, the other holder that awaits
    NoOne,          \* nobody holds the lock
    MaxClock,       \* bound on the clock
    MaxFacts,       \* bound on the facts that are active, or about to be
    Extraction,     \* the values extraction_enabled() may have: one per
                    \* process, but a restart may change it
    MayDamage       \* the files that may become unreadable

ASSUME HolderAssumption == /\ AdminDedup \notin Tails
                           /\ NoOne \notin Tails \union {AdminDedup}

ASSUME SettingAssumption == MaxClock \in Nat /\ MaxFacts \in Nat /\ Extraction \subseteq BOOLEAN

Files == {"active", "archive"}

ASSUME DamageAssumption == MayDamage \subseteq Files

Jobs == Tails \union {AdminDedup}

VARIABLES
    active,     \* the facts in the active file
    archive,    \* the facts in the archive sidecar
    readable,   \* whether each file can be parsed
    lock,       \* holder of the conversation's lock
    pc,         \* where each job is
    snap,       \* the store as the request of a tail read it, touched
    work,       \* the list a job carries across the deduplicator's await
    news,       \* the claims of that list that are its own
    pending,    \* the replacement of a file that is about to happen
    clock,
    held,       \* history: claims stored or asked to be, and not forgotten
    gone        \* history: claims forgotten and not stated again since

disk == <<active, archive, readable>>
jobs == <<pc, snap, work, news>>
history == <<held, gone>>
vars == <<disk, lock, jobs, pending, clock, history>>

Quiet == [op |-> "none", file |-> "active", content |-> {},
          owner |-> NoOne, adds |-> {}, drops |-> {}]

Pending == [op : {"none", "store", "forget", "unpin"}, file : Files,
            content : SUBSET Fact, owner : Jobs \union {NoOne},
            adds : SUBSET Claims, drops : SUBSET Claims]

TypeOK ==
    /\ active \in SUBSET Fact
    /\ archive \in SUBSET Fact
    /\ readable \in [Files -> BOOLEAN]
    /\ lock \in Jobs \union {NoOne}
    /\ pc \in [Jobs -> {"idle", "parked", "extracting", "merging", "saving"}]
    /\ snap \in [Jobs -> SUBSET Fact]
    /\ work \in [Jobs -> SUBSET Fact]
    /\ news \in [Jobs -> SUBSET Claims]
    /\ pending \in Pending
    /\ clock \in Nat
    /\ held \in SUBSET Claims
    /\ gone \in SUBSET Claims

Init ==
    /\ active = {}
    /\ archive = {}
    /\ readable = [f \in Files |-> TRUE]
    /\ lock = NoOne
    /\ pc = [j \in Jobs |-> "idle"]
    /\ snap = [j \in Jobs |-> {}]
    /\ work = [j \in Jobs |-> {}]
    /\ news = [j \in Jobs |-> {}]
    /\ pending = Quiet
    /\ clock = 0
    /\ held = {}
    /\ gone = {}

----------------------------------------------------------------------------
(* The loop is free to run a coroutine, and the lock is free as well.      *)

LoopFree == pending = Quiet

\* Mutant: the lock is not asked for.
CanRun == LoopFree

CanLock == LoopFree /\ lock = NoOne

\* A job moves on, with nothing in hand but a list and the claims in it
\* that are its own.
MovesOn(j, to, list, own) ==
    /\ pc' = [pc EXCEPT ![j] = to]
    /\ snap' = [snap EXCEPT ![j] = {}]
    /\ work' = [work EXCEPT ![j] = list]
    /\ news' = [news EXCEPT ![j] = own]

Ended(j) == MovesOn(j, "idle", {}, {})

\* Replacing the active file (or the sidecar) is what comes next.
Replace(file, content, op, owner, adds, drops) ==
    pending' = [op |-> op, file |-> file, content |-> content,
                owner |-> owner, adds |-> adds, drops |-> drops]

\* Mutant: what does not fit is dropped even if the sidecar was not written.
DropThenSave(facts, owner, adds) ==
    \E kept \in LruKept(facts) :
        /\ archive' \in {archive, Archived(archive, facts \ kept)}
        /\ Replace("active", kept, "store", owner, adds, {})

\* prune_facts, then save_facts: what does not fit goes to the archive
\* first; if the sidecar cannot be read or written nothing is evicted.
PruneThenSave(facts, owner, adds) ==
    \E kept \in LruKept(facts) :
        \/ /\ kept # facts
           /\ readable["archive"]
           /\ archive' = Archived(archive, facts \ kept)
           /\ Replace("active", kept, "store", owner, adds, {})
        \/ /\ archive' = archive
           /\ Replace("active", facts, "store", owner, adds, {})

----------------------------------------------------------------------------
(* The request path and the memory tail.                                   *)

\* The request reads the store without the lock, touches what it injects
\* and, once the reply is complete, hands it to a tail.  An unreadable file
\* leaves the snapshot empty.
Request(t) ==
    /\ LoopFree
    /\ pc[t] = "idle"
    /\ \E injected \in SUBSET active :
        snap' = [snap EXCEPT ![t] = IF readable["active"]
                                    THEN Touched(active, injected, clock)
                                    ELSE {}]
    /\ pc' = [pc EXCEPT ![t] = "parked"]
    /\ UNCHANGED <<disk, lock, work, news, pending, clock, history>>

\* The tail never runs: shed by the pool, refused under disk pressure, or
\* without text to pair.
TailSkipped(t) ==
    /\ LoopFree
    /\ pc[t] = "parked"
    /\ Ended(t)
    /\ UNCHANGED <<disk, lock, pending, clock, history>>

\* With extraction switched off the tail only saves the touches.
TouchedSave(t) ==
    /\ FALSE \in Extraction
    /\ CanLock
    /\ pc[t] = "parked"
    /\ IF readable["active"] /\ active # {}
       THEN /\ Replace("active", MergeTouched(active, snap[t]), "store", t, {}, {})
            /\ MovesOn(t, "saving", {}, {})
            /\ lock' = t
       ELSE Ended(t) /\ UNCHANGED <<lock, pending>>
    /\ UNCHANGED <<disk, clock, history>>

\* The tail gets the lock and awaits the extraction.
TailLocks(t) ==
    /\ TRUE \in Extraction
    /\ CanLock
    /\ pc[t] = "parked"
    /\ lock' = t
    /\ pc' = [pc EXCEPT ![t] = "extracting"]
    /\ UNCHANGED <<disk, snap, work, news, pending, clock, history>>

\* The extraction answers with the claims of the exchange, or with nothing
\* when the backend fails.  The store is read again, under the lock.
Extracted(t) ==
    /\ LoopFree
    /\ pc[t] = "extracting"
    /\ \E new \in SUBSET Claims :
        LET combined == MergeTouched(active, snap[t])
                          \union {NewFact(c, clock) : c \in new}
        IN \/ /\ ~readable["active"] \/ combined = {}
              /\ Ended(t)
              /\ lock' = NoOne
              /\ UNCHANGED <<archive, pending>>
           \/ /\ readable["active"]
              /\ new # {} /\ Cardinality(combined) \in 2 .. MaxFacts
              /\ MovesOn(t, "merging", combined, new)
              /\ UNCHANGED <<lock, archive, pending>>
           \/ /\ readable["active"]
              /\ combined # {} /\ (new = {} \/ Cardinality(combined) < 2)
              /\ MovesOn(t, "saving", {}, {})
              /\ PruneThenSave(combined, t, new)
              /\ UNCHANGED lock
    /\ UNCHANGED <<active, readable, clock, history>>

\* The deduplicator answers.  A tail prunes and saves; the endpoint saves
\* only if something was merged.
Merged(j) ==
    /\ LoopFree
    /\ pc[j] = "merging"
    /\ \E result \in DedupOutcomes(work[j]) :
        IF j = AdminDedup /\ result = work[j]
        THEN Ended(j) /\ lock' = NoOne /\ UNCHANGED <<archive, pending>>
        ELSE /\ MovesOn(j, "saving", {}, {})
             /\ IF j = AdminDedup
                THEN /\ Replace("active", result, "store", j, {}, {})
                     /\ archive' = archive
                ELSE PruneThenSave(result, j, news[j])
             /\ UNCHANGED lock
    /\ UNCHANGED <<active, readable, clock, history>>

\* POST /admin/conversations/{id}/dedup
DedupLocks ==
    /\ CanLock
    /\ pc[AdminDedup] = "idle"
    /\ readable["active"]
    /\ Cardinality(active) >= 2
    /\ lock' = AdminDedup
    /\ MovesOn(AdminDedup, "merging", active, {})
    /\ UNCHANGED <<disk, pending, clock, history>>

----------------------------------------------------------------------------
(* The commands and the admin endpoints that hold the lock without         *)
(* awaiting anything.  Each one that loads a file stops if it cannot be    *)
(* read.                                                                   *)

CommandRuns == CanLock /\ UNCHANGED <<active, readable, lock, jobs, clock, history>>

\* /remember
Remember(c) ==
    /\ CommandRuns
    /\ readable["active"]
    /\ Cardinality(active) < MaxFacts
    /\ PruneThenSave(active \union {NewFact(c, clock)}, NoOne, {c})

\* /pin and /unpin: saved only if something matched.
Pin(c, pinned) ==
    /\ CommandRuns
    /\ readable["active"]
    /\ SetPinned(active, c, pinned) # active
    /\ Replace("active", SetPinned(active, c, pinned),
               IF pinned THEN "store" ELSE "unpin", NoOne, {}, {})
    /\ UNCHANGED archive

\* /forget <substring>
ForgetMatching(c) ==
    /\ CommandRuns
    /\ readable["active"]
    /\ Matching(active, c) # {}
    /\ LET rest == active \ Matching(active, c)
       IN Replace("active", rest, "forget", NoOne, {},
                  Carried(active) \ Carried(rest))
    /\ UNCHANGED archive

\* The facts part of _clear_all_memory, on its own the admin's DELETE.
ClearFacts ==
    /\ CommandRuns
    /\ readable["active"]
    /\ active # {}
    /\ Replace("active", {}, "forget", NoOne, {}, Carried(active))
    /\ UNCHANGED archive

\* The archive part of the wipe behind a bare /forget.
ClearArchive ==
    /\ CommandRuns
    /\ readable["archive"]
    /\ archive # {}
    /\ Replace("archive", {}, "forget", NoOne, {}, Carried(archive) \ Carried(active))
    /\ UNCHANGED archive

\* archive_stale_facts: the sidecar is replaced at once, the active file next.
ArchiveStale(age) ==
    /\ CommandRuns
    /\ readable["active"]
    /\ readable["archive"]
    /\ LET stale == Stale(active, clock - age)
       IN /\ stale # {}
          /\ archive' = Archived(archive, stale)
          /\ Replace("active", active \ stale, "store", NoOne, {}, {})

\* restore_from_archive: the active file is replaced at once, the sidecar next.
Restore(c) ==
    /\ CanLock
    /\ readable["active"]
    /\ readable["archive"]
    /\ LET back == Matching(archive, c)
       IN /\ back # {}
          /\ Cardinality(active \union back) <= MaxFacts
          /\ active' = active \union Refreshed(back, clock)
          /\ held' = held \union Carried(back)
          /\ gone' = gone \ Carried(back)
          /\ Replace("archive", archive \ back, "store", NoOne, {}, {})
    /\ UNCHANGED <<archive, readable, lock, jobs, clock>>

----------------------------------------------------------------------------
(* The file is replaced, or the write fails and the old one stays.  Either *)
(* way the operation is over and releases what it held.                    *)

\* Mutant: an error path leaves the lock taken.
OperationOverLocked ==
    /\ pending' = Quiet
    /\ lock' = lock
    /\ IF pending.owner = NoOne THEN UNCHANGED jobs ELSE Ended(pending.owner)

OperationOver ==
    /\ pending' = Quiet
    /\ IF pending.owner = NoOne
       THEN UNCHANGED <<lock, jobs>>
       ELSE Ended(pending.owner) /\ lock' = NoOne

FinishWrite ==
    /\ ~LoopFree
    /\ IF pending.file = "active"
       THEN active' = pending.content /\ archive' = archive
       ELSE archive' = pending.content /\ active' = active
    /\ readable' = [readable EXCEPT ![pending.file] = TRUE]
    /\ held' = (held \union pending.adds) \ pending.drops
    /\ gone' = (gone \union pending.drops) \ pending.adds
    /\ OperationOver
    /\ UNCHANGED clock

WriteFails ==
    /\ ~LoopFree
    /\ OperationOver
    /\ UNCHANGED <<disk, clock, history>>

----------------------------------------------------------------------------
(* The environment.                                                        *)

\* The process dies: memory is lost, the files stay as they are.
Crash ==
    /\ lock' = NoOne
    /\ pending' = Quiet
    /\ pc' = [j \in Jobs |-> "idle"]
    /\ snap' = [j \in Jobs |-> {}]
    /\ work' = [j \in Jobs |-> {}]
    /\ news' = [j \in Jobs |-> {}]
    /\ UNCHANGED <<disk, clock, history>>

\* A file can no longer be parsed; an operator may repair it by hand.
Damage(file) ==
    /\ LoopFree
    /\ file \in MayDamage
    /\ readable' = [readable EXCEPT ![file] = FALSE]
    /\ UNCHANGED <<active, archive, lock, jobs, pending, clock, history>>

Repair(file) ==
    /\ LoopFree
    /\ readable' = [readable EXCEPT ![file] = TRUE]
    /\ UNCHANGED <<active, archive, lock, jobs, pending, clock, history>>

Tick ==
    /\ LoopFree
    /\ clock < MaxClock
    /\ clock' = clock + 1
    /\ UNCHANGED <<disk, lock, jobs, pending, history>>

Next ==
    \/ \E t \in Tails : \/ Request(t) \/ TailSkipped(t) \/ TouchedSave(t)
                        \/ TailLocks(t) \/ Extracted(t)
    \/ \E j \in Jobs : Merged(j)
    \/ DedupLocks
    \/ \E c \in Claims : \/ Remember(c) \/ ForgetMatching(c) \/ Restore(c)
                         \/ \E pinned \in BOOLEAN : Pin(c, pinned)
    \/ ClearFacts
    \/ ClearArchive
    \/ \E age \in 0 .. MaxClock : ArchiveStale(age)
    \/ FinishWrite
    \/ WriteFails
    \/ Crash
    \/ \E file \in Files : Damage(file) \/ Repair(file)
    \/ Tick

Spec == Init /\ [][Next]_vars

\* A tail that waits for the lock gets it in its turn (asyncio.Lock is
\* first come, first served), a call to the model ends (it has a timeout),
\* and a synchronous write ends.
Fairness ==
    /\ \A t \in Tails : /\ SF_vars(TailLocks(t) \/ TouchedSave(t))
                        /\ WF_vars(Extracted(t))
    /\ \A j \in Jobs : WF_vars(Merged(j))
    /\ WF_vars(FinishWrite \/ WriteFails)

LiveSpec == Spec /\ Fairness

----------------------------------------------------------------------------
(* What the store promises.                                                *)

\* Whoever awaits with the conversation's facts in hand holds the lock.
LockHeldAcrossAwaits ==
    \A j \in Jobs : pc[j] \in {"extracting", "merging", "saving"} => lock = j

\* Nothing that was stored, and not forgotten, is ever missing from both
\* files: not between two replacements, not after a crash, a failed write,
\* an unreadable file, an eviction, a merge or a restore (facts.py archives
\* before it evicts and restores before it empties the sidecar).
NoSilentLoss == held \subseteq Carried(active) \union Carried(archive)

\* What the user forgot comes back only by being stated or restored again,
\* never out of the list a tail read before (_merge_touched).
NoResurrection == gone \intersect Carried(active) = {}

PinnedIn(F) == {f \in F : f.pin}

\* A pinned claim stays pinned until the user unpins or forgets it, as long
\* as the pinned facts, the archived ones and those that a merge made longer
\* included, fit the budget together (_lru_split keeps them longest,
\* _merge_metadata keeps the pin, archive_stale_facts passes over them).
PinsStick ==
    [][\/ pending.op \in {"forget", "unpin"}
       \/ TotalCost(PinnedIn(active' \union archive')) > Budget
       \/ Carried(PinnedIn(active)) \subseteq Carried(PinnedIn(active'))]_vars

\* Recency is never lost: unless it is forgotten, what an active fact says
\* is kept, in one of the files, by a fact used at least as recently (a
\* snapshot older than the file does not lower last_used, a merged fact
\* takes the latest of its sources, an evicted one keeps its own).
RecencyKept ==
    [][\A f \in active :
          \/ pending.op = "forget"
          \/ \E g \in active' \union archive' :
                f.text \subseteq g.text /\ g.last >= f.last]_vars

\* The two files, seen together.
Memory == INSTANCE FactMemory WITH here <- active, away <- archive, forgotten <- gone

\* The files are one memory, in which every operation is one step: what a
\* tail, a command or an endpoint does in several, over two files, under the
\* lock or across the calls of the model, with other requests, crashes and
\* failed writes in between, states something and loses nothing, or forgets
\* what was asked and nothing else, at one point of it.
ActsAsMemory == Memory!Spec

\* A tail that asked for the lock is over some day.
TailsSettle == \A t \in Tails : pc[t] = "parked" ~> pc[t] = "idle"
============================================================================
