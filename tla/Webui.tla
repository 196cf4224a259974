------------------------------- MODULE Webui -------------------------------
(***************************************************************************)
(* compactor/webuidb.py and the part of entrypoint.sh that runs it: the    *)
(* chat database OpenWebUI writes on the pod's own disk, the snapshot of   *)
(* it on the volume, the daemon (and an operator beside it) that publishes *)
(* one into the other, and the boot that restores one from the other.      *)
(*                                                                         *)
(* An image is the rows of the chat table; a row keeps its updated_at and  *)
(* whether it is long, that is whether it can lose more than the row-loss  *)
(* limit.  The volume may fail to answer at every look (MayStall), and a   *)
(* bounded number of faults strike: a kill, a new pod, damage to a file,   *)
(* an older copy put back, a database moved away by hand.                  *)
(***************************************************************************)
EXTENDS Naturals, FiniteSets

CONSTANTS
    Chats,         \* conversations OpenWebUI may hold
    Daemon,        \* the webuidb-sync process
    Operator,      \* a person running webuidb.py --sync-once by hand
    MaxClock,      \* bound on the clock, hence on the writes
    MaxFaults,     \* bound on the faults
    MayStall,      \* whether a look at the volume may fail
    LockDegrades   \* whether the lock file may fail to open

Procs == {Daemon, Operator}

Free == "free"

ASSUME WebuiAssumption ==
    /\ IsFiniteSet(Chats) /\ Chats # {} /\ Daemon # Operator
    /\ MaxClock \in Nat \ {0} /\ MaxFaults \in Nat
    /\ MayStall \in BOOLEAN /\ LockDegrades \in BOOLEAN
    /\ Free \notin Procs

\* A row is absent when its updated_at is 0.
Row == [at : 0 .. MaxClock, long : BOOLEAN]
Absent == [at |-> 0, long |-> FALSE]
Images == [Chats -> Row]
NoRows == [c \in Chats |-> Absent]

\* part: being copied; cached: complete, not yet on the volume; torn: what
\* is left of it when the host dies; hot: with a journal to roll back;
\* rotten: fails quick_check.
Kinds == {"none", "part", "cached", "torn", "whole", "hot", "rotten"}
File == [kind : Kinds, rows : Images, mtime : 0 .. MaxClock]
Missing == [kind |-> "none", rows |-> NoRows, mtime |-> 0]

There(f) == f.kind # "none"
Sound(f) == f.kind \in {"whole", "cached"}
Has(f) == {c \in Chats : f.rows[c] # Absent}

VARIABLES
    local,     \* LOCAL_DB
    sidecar,   \* the journal beside it: its own, an orphan, another's
    ltmp,      \* the deterministic temporary file beside LOCAL_DB
    marker,    \* EMPTY_START_MARKER
    snap,      \* SNAPSHOT_DB, on the volume
    dtmp,      \* the deterministic temporary file beside SNAPSHOT_DB
    aside,     \* the image last moved into QUARANTINE since the boot
    clock,
    pod,       \* where the boot is, or "up"
    pc,        \* where each sync is
    seen,      \* the mtime of LOCAL_DB that each sync has read
    override,  \* whether the operator's sync has every WEBUI_DB_ALLOW_*
    lock,      \* who holds the sync lock
    error,     \* whether the daemon's last cycle ended in an error
    faults,    \* faults so far
    held,      \* history: the images LOCAL_DB has held
    misread,   \* history: this boot could not count the snapshot's chats
    unscanned  \* history: the syncs that regress and compared no rows

overlay == <<local, sidecar, ltmp, marker>>
volume == <<snap, dtmp, aside>>
sync == <<pc, seen, override, lock, error, unscanned>>
vars == <<overlay, volume, clock, pod, sync, faults, held, misread>>

TypeOK ==
    /\ local \in File /\ ltmp \in File /\ snap \in File /\ dtmp \in File
    /\ sidecar \in {"none", "own", "orphan", "foreign"}
    /\ marker \in BOOLEAN /\ override \in BOOLEAN /\ error \in BOOLEAN
    /\ aside \subseteq Images /\ held \subseteq Images
    /\ misread \in BOOLEAN /\ unscanned \subseteq Procs
    /\ clock \in 1 .. MaxClock /\ faults \in 0 .. MaxFaults
    /\ pod \in {"down", "check", "asideSidecar", "asideDb", "asideBare",
                "orphans", "restore", "land", "verify", "up", "refused"}
    /\ pc \in [Procs -> {"idle", "backup", "guard", "copy", "copied",
                         "flush", "replace", "stamp", "end"}]
    /\ seen \in [Procs -> 0 .. MaxClock]
    /\ lock \in Procs \union {Free}

\* A new pod, on a volume that has no snapshot or one with every chat.
Init ==
    /\ local = Missing /\ sidecar = "none" /\ ltmp = Missing
    /\ marker = FALSE
    /\ snap \in {Missing,
                 [kind |-> "whole", mtime |-> 1,
                  rows |-> [c \in Chats |-> [at |-> 1, long |-> TRUE]]]}
    /\ dtmp = Missing /\ aside = {}
    /\ clock = 1 /\ pod = "down" /\ faults = 0
    /\ pc = [p \in Procs |-> "idle"] /\ seen = [p \in Procs |-> 0]
    /\ override = FALSE /\ lock = Free /\ error = FALSE
    /\ held = {snap.rows, NoRows} /\ misread = FALSE /\ unscanned = {}

----------------------------------------------------------------------------
(* OpenWebUI. *)

\* It creates a schema where it finds no database; SQLite applies a journal
\* that is beside it.
Journal == IF sidecar = "orphan" THEN "foreign" ELSE sidecar

CreateSchema ==
    /\ pod = "up" /\ ~There(local)
    /\ local' = [kind |-> "whole", rows |-> NoRows, mtime |-> clock]
    /\ sidecar' = Journal
    /\ UNCHANGED <<ltmp, marker, volume, clock, pod, sync, faults,
                   held, misread>>

\* A message, a long branch of a conversation deleted, a conversation deleted.
Written(c) ==
    {[at |-> clock + 1, long |-> TRUE]} \union
    (IF local.rows[c] = Absent THEN {}
     ELSE {[at |-> clock + 1, long |-> FALSE], Absent})

OpenWebUI(c) ==
    /\ pod = "up" /\ local.kind = "whole" /\ clock < MaxClock
    /\ \E row \in Written(c) :
          LET rows == [local.rows EXCEPT ![c] = row] IN
          /\ local' = [kind |-> "whole", rows |-> rows, mtime |-> clock + 1]
          /\ held' = held \union {rows}
    /\ clock' = clock + 1
    /\ UNCHANGED <<sidecar, ltmp, marker, volume, pod, sync, faults, misread>>

----------------------------------------------------------------------------
(* restore_on_boot, and what entrypoint.sh makes of its exit code. *)

\* _presence answers; without an answer there is an error, not an absence.
Answers == {TRUE} \union (IF MayStall THEN {FALSE} ELSE {})

\* The container starts.
Boot ==
    /\ pod \in {"down", "refused"}
    /\ pod' = "check" /\ aside' = {} /\ misread' = FALSE
    /\ UNCHANGED <<overlay, snap, dtmp, clock, sync, faults, held>>

\* Opening a database rolls its own hot journal back.
Opened ==
    IF local.kind = "hot"
    THEN [local EXCEPT !.kind = IF sidecar = "own" THEN "whole" ELSE "rotten"]
    ELSE local

Replayed == IF local.kind = "hot" THEN "none" ELSE sidecar

\* A damaged file may still answer, and a healthy one may fail to.
Reads ==
    {TRUE} \union
    (IF There(snap) /\ (MayStall \/ ~Sound(snap)) THEN {FALSE} ELSE {})

\* Mutant: a damaged snapshot whose chats can't be counted is no obstacle.
BootVerdictShrugs(answered, counted) ==
    IF Opened.kind # "whole" THEN "asideSidecar"
    ELSE IF Has(Opened) # {} THEN "up"
    ELSE IF ~answered THEN "refused"
    ELSE IF counted /\ Has(snap) # {} THEN "asideSidecar" ELSE "up"

\* What becomes of a local database: an empty one gives way to a snapshot
\* with chats.  It is refused beside one that can't be examined, or can't be
\* counted and fails quick_check; beside one that can't be counted and
\* passes, it is kept.
BootVerdict(answered, counted) ==
    IF Opened.kind # "whole" THEN "asideSidecar"
    ELSE IF Has(Opened) # {} THEN "up"
    ELSE IF ~answered THEN "refused"
    ELSE IF ~There(snap) THEN "up"
    ELSE IF ~counted THEN IF Sound(snap) THEN "up" ELSE "refused"
    ELSE IF Has(snap) # {} THEN "asideSidecar" ELSE "up"

\* The first half of restore_on_boot: is there a database to keep?
BootCheck ==
    /\ pod = "check"
    /\ IF There(local)
       THEN /\ local' = Opened /\ sidecar' = Replayed
            /\ \E answered \in Answers, counted \in Reads :
                  /\ pod' = BootVerdict(answered, counted)
                  /\ misread' = (~counted /\ pod' = "up" /\ Has(Opened) = {})
       ELSE pod' = "orphans" /\ UNCHANGED <<local, sidecar, misread>>
    /\ UNCHANGED <<ltmp, marker, volume, clock, sync, faults, held>>

\* _set_aside moves the sidecars first, ...
AsideSidecar ==
    /\ pod = "asideSidecar"
    /\ \/ sidecar = "none" /\ pod' = "asideBare" /\ UNCHANGED sidecar
       \/ sidecar # "none" /\ sidecar' = "none" /\ pod' = "asideDb"
       \/ MayStall /\ pod' = "refused" /\ UNCHANGED sidecar
    /\ UNCHANGED <<local, ltmp, marker, volume, clock, sync, faults,
                   held, misread>>

\* Mutant: the failure to set a database aside is swallowed.
AsideFailsLoose == local' = Missing /\ pod' = "orphans" /\ UNCHANGED sidecar

\* The move fails: what has moved moves back, if it can, and the boot fails.
AsideFails ==
    /\ \/ pod = "asideDb" /\ sidecar' = "own"
       \/ UNCHANGED sidecar
    /\ pod' = "refused"
    /\ UNCHANGED local

\* ... then the database.
AsideDb ==
    /\ pod \in {"asideDb", "asideBare"}
    /\ \/ /\ aside' = {local.rows}
          /\ local' = Missing
          /\ pod' = "orphans"
          /\ UNCHANGED sidecar
       \/ MayStall /\ AsideFails /\ UNCHANGED aside
    /\ UNCHANGED <<ltmp, marker, snap, dtmp, clock, sync, faults,
                   held, misread>>

\* Mutant: a journal without its database stays where it is.
ClearOrphansNot ==
    /\ pod = "orphans" /\ pod' = "restore"
    /\ UNCHANGED <<overlay, volume, clock, sync, faults, held, misread>>

\* _clear_orphan_sidecars.
ClearOrphans ==
    /\ pod = "orphans"
    /\ \/ sidecar' = "none" /\ pod' = "restore"
       \/ MayStall /\ sidecar # "none" /\ pod' = "refused" /\ UNCHANGED sidecar
    /\ UNCHANGED <<local, ltmp, marker, volume, clock, sync, faults,
                   held, misread>>

\* The second half: no snapshot is a new deployment, one that can't be
\* examined or fails quick_check is a refusal.
RestoreCheck ==
    /\ pod = "restore"
    /\ \E answered \in Answers :
          pod' = IF ~answered THEN "refused"
                 ELSE IF ~There(snap) THEN "up"
                 ELSE IF Sound(snap) THEN "land" ELSE "refused"
    /\ UNCHANGED <<overlay, volume, clock, sync, faults, held, misread>>

\* The staged copy of the snapshot is renamed into place, or is damaged on
\* the way, or fails.
Land ==
    /\ pod = "land"
    /\ \/ /\ \E kind \in {"whole"} \union (IF MayStall THEN {"rotten"} ELSE {}) :
                local' = [snap EXCEPT !.kind = kind]
          /\ sidecar' = Journal
          /\ pod' = "verify"
       \/ MayStall /\ pod' = "refused" /\ UNCHANGED <<local, sidecar>>
    /\ UNCHANGED <<ltmp, marker, volume, clock, sync, faults, held, misread>>

\* What landed is checked; a restore ends an empty start, unless its marker
\* can't be removed.
Verify ==
    /\ pod = "verify"
    /\ \/ /\ local.kind = "whole" /\ pod' = "up"
          /\ marker' \in {FALSE} \union (IF MayStall THEN {marker} ELSE {})
          /\ UNCHANGED <<local, aside>>
       \/ /\ local.kind # "whole" /\ pod' = "refused"
          /\ \/ local' = Missing /\ aside' = {local.rows}
             \/ MayStall /\ UNCHANGED <<local, aside>>
          /\ UNCHANGED marker
    /\ UNCHANGED <<sidecar, ltmp, snap, dtmp, clock, sync, faults,
                   held, misread>>

\* A refusal ends the boot, unless WEBUI_DB_ALLOW_EMPTY_START=true and the
\* marker can be written.
EmptyStart ==
    /\ pod = "refused"
    /\ marker' = TRUE /\ pod' = "up"
    /\ UNCHANGED <<local, sidecar, ltmp, volume, clock, sync, faults,
                   held, misread>>

----------------------------------------------------------------------------
(* sync_once, by the daemon or by hand. *)

\* A cycle ends early, with an error or without.
EndsWith(p, failed) ==
    /\ pc' = [pc EXCEPT ![p] = "end"]
    /\ error' = IF p = Daemon THEN failed ELSE error

Goes(p, step) == pc' = [pc EXCEPT ![p] = step] /\ UNCHANGED error

\* The lock, without waiting for it, or none when its file fails to open.
Locks(p) ==
    \/ lock = Free /\ lock' = p
    \/ LockDegrades /\ UNCHANGED lock

\* What a killed sync has left under the deterministic names is removed.
Swept == ltmp' = Missing /\ dtmp' = Missing

\* The WEBUI_DB_ALLOW_* overrides and --force are given by hand.
Allowed(p) == p = Operator /\ override

\* Nothing has been written since the image in the snapshot was taken.
Unchanged == There(snap) /\ snap.mtime >= local.mtime

\* An empty start: the snapshot is the only copy of the history.
Sealed == marker /\ There(snap)

\* The lock, the sweep, the mtime of the database, and the two checks that
\* need no image.
Start(p) ==
    /\ pod = "up" /\ pc[p] = "idle" /\ There(local)
    /\ Locks(p) /\ Swept
    /\ seen' = [seen EXCEPT ![p] = local.mtime]
    /\ override' \in IF p = Operator THEN BOOLEAN ELSE {override}
    /\ IF Unchanged /\ ~Allowed(p)' THEN EndsWith(p, FALSE)
       ELSE IF Sealed THEN EndsWith(p, TRUE)
       ELSE Goes(p, "backup")
    /\ UNCHANGED <<local, sidecar, marker, snap, aside, clock, pod, faults,
                   held, misread, unscanned>>

\* One image of the database, taken while OpenWebUI goes on; an image that
\* fails quick_check or has no chats is refused.
Backup(p) ==
    /\ pc[p] = "backup"
    /\ ltmp' = [local EXCEPT !.mtime = clock]
    /\ IF local.kind = "whole" /\ Has(local) # {}
       THEN Goes(p, "guard") ELSE EndsWith(p, TRUE)
    /\ UNCHANGED <<local, sidecar, marker, volume, clock, pod, seen, override,
                   lock, faults, held, misread, unscanned>>

\* SHRINK_REFUSE_BELOW, of the chats and of the content.
Fewer(f) ==
    /\ Cardinality(Has(snap)) >= 2
    /\ 2 * Cardinality(Has(f)) < Cardinality(Has(snap))
Bulk(f) == Cardinality(Has(f)) + Cardinality({c \in Chats : f.rows[c].long})
Shrinks ==
    \/ Fewer(ltmp)
    \/ Cardinality(Has(snap)) >= 2 /\ 2 * Bulk(ltmp) < Bulk(snap)

\* _row_losses.
RowLosses == {c \in Has(snap) \intersect Has(ltmp) :
                 snap.rows[c].long /\ ~ltmp.rows[c].long}

\* Mutant: the generations of the rows are not compared.
WentBackwardsNot == {}

\* _went_backwards.
WentBackwards == {c \in Has(snap) \intersect Has(ltmp) :
                     ltmp.rows[c].at < snap.rows[c].at}

Regresses == Shrinks \/ RowLosses # {} \/ WentBackwards # {}

\* A snapshot is replaced only by an image that does not regress, except on
\* purpose; when its rows can't be read, the number of chats decides alone.
Replaceable(p, scanned) ==
    \/ ~There(snap) \/ Allowed(p)
    \/ IF scanned THEN ~Regresses ELSE ~Fewer(ltmp)

\* The image is compared with the snapshot it is to replace, if the volume
\* answers and the snapshot's chats can be counted.
Guard(p) ==
    /\ pc[p] = "guard"
    /\ \/ \E scanned \in Reads :
             IF Replaceable(p, scanned)
             THEN /\ Goes(p, "copy")
                  /\ unscanned' = IF scanned \/ ~Regresses THEN unscanned
                                   ELSE unscanned \union {p}
             ELSE EndsWith(p, TRUE) /\ UNCHANGED unscanned
       \/ /\ MayStall \/ (There(snap) /\ ~Sound(snap) /\ ~Allowed(p))
          /\ EndsWith(p, TRUE) /\ UNCHANGED unscanned
    /\ UNCHANGED <<overlay, volume, clock, pod, seen, override, lock, faults,
                   held, misread>>

\* The image is copied to the volume, ...
Copy(p) ==
    /\ pc[p] = "copy"
    /\ dtmp' = [ltmp EXCEPT !.kind = "part"]
    /\ Goes(p, "copied")
    /\ UNCHANGED <<overlay, snap, aside, clock, pod, seen, override, lock,
                   faults, held, misread, unscanned>>

\* ... in time, or the copy fails or arrives damaged, ...
Copied(p) ==
    /\ pc[p] = "copied"
    /\ \/ \E kind \in {"cached"} \union (IF MayStall THEN {"rotten"} ELSE {}) :
             dtmp' = [ltmp EXCEPT !.kind = kind]
          /\ Goes(p, "flush")
       \/ MayStall /\ UNCHANGED dtmp /\ EndsWith(p, TRUE)
    /\ UNCHANGED <<overlay, snap, aside, clock, pod, seen, override, lock,
                   faults, held, misread, unscanned>>

\* Mutant: the copy is neither flushed nor compared.
FlushNot(p) ==
    /\ pc[p] = "flush"
    /\ Goes(p, "replace")
    /\ UNCHANGED <<overlay, volume, clock, pod, seen, override, lock, faults,
                   held, misread, unscanned>>

\* ... flushed to the volume, and compared with what was to be copied.
Flush(p) ==
    /\ pc[p] = "flush"
    /\ \/ /\ dtmp.kind = "cached" /\ dtmp.rows = ltmp.rows
          /\ dtmp' = [dtmp EXCEPT !.kind = "whole"]
          /\ Goes(p, "replace")
       \/ /\ dtmp.kind # "cached" \/ MayStall \/ dtmp.rows # ltmp.rows
          /\ UNCHANGED dtmp /\ EndsWith(p, TRUE)
    /\ UNCHANGED <<overlay, snap, aside, clock, pod, seen, override, lock,
                   faults, held, misread, unscanned>>

\* os.replace: whatever is at the temporary name becomes the snapshot.
Replace(p) ==
    /\ pc[p] = "replace"
    /\ IF There(dtmp)
       THEN snap' = dtmp /\ dtmp' = Missing /\ Goes(p, "stamp")
       ELSE UNCHANGED <<snap, dtmp>> /\ EndsWith(p, TRUE)
    /\ UNCHANGED <<overlay, aside, clock, pod, seen, override, lock, faults,
                   held, misread, unscanned>>

\* Mutant: the snapshot is dated when it is published.
StampNow(p) ==
    /\ pc[p] = "stamp"
    /\ snap' = [snap EXCEPT !.mtime = clock]
    /\ EndsWith(p, FALSE)
    /\ UNCHANGED <<overlay, dtmp, aside, clock, pod, seen, override, lock,
                   faults, held, misread, unscanned>>

\* The snapshot gets the mtime the image was taken at, if it can be set.
Stamp(p) ==
    /\ pc[p] = "stamp"
    /\ \/ snap' = [snap EXCEPT !.mtime = seen[p]]
       \/ MayStall /\ UNCHANGED snap
    /\ EndsWith(p, FALSE)
    /\ UNCHANGED <<overlay, dtmp, aside, clock, pod, seen, override, lock,
                   faults, held, misread, unscanned>>

\* The finally clause.
End(p) ==
    /\ pc[p] = "end"
    /\ ltmp' = Missing /\ dtmp' = Missing
    /\ lock' = IF lock = p THEN Free ELSE lock
    /\ pc' = [pc EXCEPT ![p] = "idle"] /\ seen' = [seen EXCEPT ![p] = 0]
    /\ override' = IF p = Operator THEN FALSE ELSE override
    /\ unscanned' = unscanned \ {p}
    /\ UNCHANGED <<local, sidecar, marker, snap, aside, clock, pod, error,
                   faults, held, misread>>

Sync(p) ==
    \/ Start(p) \/ Backup(p) \/ Guard(p) \/ Copy(p) \/ Copied(p) \/ Flush(p)
    \/ Replace(p) \/ Stamp(p) \/ End(p)

----------------------------------------------------------------------------
(* Faults, and what an operator does about them. *)

Fault == faults < MaxFaults /\ faults' = faults + 1

ProcessesDie ==
    /\ pod' = "down" /\ pc' = [p \in Procs |-> "idle"] /\ lock' = Free
    /\ seen' = [p \in Procs |-> 0] /\ override' = FALSE /\ error' = FALSE
    /\ unscanned' = {}

\* The container dies and starts again on the same disk; OpenWebUI may have
\* been in a transaction.
Kill ==
    /\ Fault /\ pod \notin {"down", "refused"}
    /\ ProcessesDie
    /\ \/ UNCHANGED <<local, sidecar>>
       \/ /\ pod = "up" /\ local.kind = "whole" /\ sidecar = "none"
          /\ local' = [local EXCEPT !.kind = "hot"]
          /\ sidecar' = "own"
    /\ UNCHANGED <<ltmp, marker, volume, clock, held, misread>>

\* Another pod takes over the volume: the disk is lost, and what had not
\* reached the volume.
Torn(f) == IF f.kind = "cached" THEN [f EXCEPT !.kind = "torn"] ELSE f

Recreate ==
    /\ Fault /\ pod # "down"
    /\ ProcessesDie
    /\ local' = Missing /\ sidecar' = "none" /\ ltmp' = Missing
    /\ marker' = FALSE
    /\ snap' = Torn(snap) /\ dtmp' = Torn(dtmp)
    /\ UNCHANGED <<aside, clock, held, misread>>

\* A file is damaged, the local one with or without a journal beside it.
Rot ==
    /\ Fault
    /\ \/ /\ local.kind = "whole" /\ local' = [local EXCEPT !.kind = "rotten"]
          /\ sidecar' \in {sidecar, "own"}
          /\ UNCHANGED snap
       \/ /\ snap.kind = "whole" /\ snap' = [snap EXCEPT !.kind = "rotten"]
          /\ UNCHANGED <<local, sidecar>>
    /\ UNCHANGED <<ltmp, marker, dtmp, aside, clock, pod, sync, held, misread>>

\* scripts/recover-webui-db.py.
Recover ==
    /\ pod # "up" /\ snap.kind = "rotten"
    /\ snap' = [snap EXCEPT !.kind = "whole"]
    /\ UNCHANGED <<overlay, dtmp, aside, clock, pod, sync, faults,
                   held, misread>>

\* With the container down, a person moves the database out of the way and
\* leaves its journal, or puts an older copy in its place, whose mtime is that
\* of the copying (mv and copy2, which keep the old one, are not modelled).
ByHand ==
    /\ Fault /\ pod \in {"down", "refused"}
    /\ \/ /\ There(local) /\ local' = Missing
          /\ sidecar' = IF sidecar = "own" THEN "orphan" ELSE sidecar
          /\ aside' = {local.rows}
          /\ UNCHANGED clock
       \/ /\ sidecar = "none"
          /\ \E rows \in held \ {local.rows} :
                local' = [kind |-> "whole", rows |-> rows, mtime |-> clock + 1]
          /\ aside' = IF There(local) THEN aside \union {local.rows} ELSE aside
          /\ clock < MaxClock /\ clock' = clock + 1
          /\ UNCHANGED sidecar
    /\ UNCHANGED <<ltmp, marker, snap, dtmp, pod, sync, held, misread>>

Program ==
    \/ BootCheck \/ AsideSidecar \/ AsideDb \/ ClearOrphans \/ RestoreCheck
    \/ Land \/ Verify
    \/ \E p \in Procs : Sync(p)

Next ==
    \/ Program
    \/ Boot \/ EmptyStart
    \/ CreateSchema \/ \E c \in Chats : OpenWebUI(c)
    \/ Kill \/ Recreate \/ Rot \/ Recover \/ ByHand

\* The container is started, its boot and every sync go on, and the daemon
\* begins a cycle after every interval.
Fairness ==
    /\ WF_vars(Boot) /\ WF_vars(Program)
    /\ \A p \in Procs : WF_vars(pc[p] # "idle" /\ Sync(p))
    /\ SF_vars(Start(Daemon))

Spec == Init /\ [][Next]_vars /\ Fairness

----------------------------------------------------------------------------
\* The snapshot is always one whole image the live database has held, it is
\* exchanged in one step, and never while an empty start is marked
\* (webuidb.py, "Written to a temporary name ... and renamed into place").
Image(is, rows) == [is |-> is, rows |-> rows]

Durable == INSTANCE DurableCopy WITH
    Images <- {Image("whole", rows) : rows \in Images},
    Nothing <- Image("none", NoRows),
    held <- {Image("whole", rows) : rows \in held},
    durable <- Image(IF snap.kind = "rotten" THEN "whole" ELSE snap.kind,
                     snap.rows),
    legible <- snap.kind # "rotten",
    sealed <- marker

DurableSnapshot == Durable!Spec

\* A conversation in the snapshot is replaced by no older version of it
\* (_went_backwards), unless the operator's overrides say so or the cycle
\* could not read the rows of the snapshot (sync_once, "could not measure
\* stored content"); then half of the conversations remain.
NoRowGoesBack ==
    [][\/ \A c \in Has(snap) :
             snap'.rows[c] = Absent \/ snap'.rows[c].at >= snap.rows[c].at
       \/ \E p \in Procs :
             /\ pc[p] = "replace"
             /\ Allowed(p) \/ (p \in unscanned /\ ~Fewer(snap'))]_vars

\* A cycle that skips because nothing has changed is right: a write that the
\* snapshot has not is newer than its stamp (sync_once, the mtime read
\* before the image is taken).
SkipIsSound ==
    (pod = "up" /\ There(local) /\ Unchanged) =>
        \A c \in Chats : local.rows[c].at <= snap.rows[c].at

\* The pod does not come up without chats while the snapshot has some,
\* except on an empty start that is marked, or after a count that failed on
\* a snapshot that passes quick_check (restore_on_boot).
NeverEmptyOverHistory ==
    [][(pod # "up" /\ pod' = "up") =>
          \/ Has(local') # {} \/ marker' \/ Has(snap) = {}
          \/ misread' /\ Sound(snap)]_vars

\* What is said of a count that can't be read: the boot does not announce a
\* healthy database of 0 chats over it (webuidb.py, "THE SIBLING OF THE
\* SHRINK GUARD").
UnreadIsNotEmpty ==
    [][(pod # "up" /\ pod' = "up") =>
          Has(local') # {} \/ marker' \/ Has(snap) = {}]_vars

\* The boot takes a database from its place only into the quarantine: the
\* only copy of what was written since the last sync (_set_aside).
LocalIsKept ==
    [][(There(local) /\ pod \notin {"up", "down", "refused"}
        /\ pod' # "down" /\ local'.rows # local.rows)
          => local.rows \in aside']_vars

\* No database lies beside the journal of another, which SQLite would apply
\* to it (_clear_orphan_sidecars), an empty start excepted.
NoForeignJournal == sidecar = "foreign" => marker

\* The daemon catches up with what is written, or its last cycle has failed.
Behind == \E c \in Chats : local.rows[c].at > snap.rows[c].at

CatchesUp == []<>(pod = "up" /\ Behind => error)
=============================================================================
