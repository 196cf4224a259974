------------------------------- MODULE Backup -------------------------------
(***************************************************************************)
(* compactor/backup.py create, verify, publish, compare and prune: one     *)
(* cycle of the daemon (run_once) step by step, the loop around it         *)
(* (run_daemon), and the archives it leaves on the volume.                 *)
(*                                                                         *)
(* What an archive holds is measured as its manifest measures it: the      *)
(* text of each conversation's memory, the layers that only grow, the      *)
(* chats, and the bytes of the files.  The clock counts in fractions of    *)
(* the interval of the daemon.  While it works, and within bounds, the pod *)
(* may be killed, the store and the chats change, a source go missing or   *)
(* an archive become unreadable.                                           *)
(***************************************************************************)
EXTENDS Naturals, FiniteSets, Sequences, FiniteSetsExt

CONSTANTS
    Convs,      \* conversations with a memory
    Full,       \* bound on a size
    Interval,   \* clock units between two cycles
    RetainAge,  \* RETAIN_DAYS: the age up to which all is kept
    WeekLen,    \* clock units in a week
    Weeks,      \* GFS_WEEKS: for how many weeks one of each is kept
    Floor,      \* MIN_KEEP and RETAIN: what no prune goes below
    Hatch,      \* COMPACTOR_BACKUP_ALLOW_NO_WEBUI_DB
    MaxClock,   \* bound on the clock
    MaxFaults   \* bound on the faults

ASSUME BackupAssumption ==
    /\ IsFiniteSet(Convs)
    /\ {Full, Interval, WeekLen, Floor} \subseteq Nat \ {0}
    /\ {RetainAge, Weeks, MaxClock, MaxFaults} \subseteq Nat
    /\ Hatch \in BOOLEAN

Sizes == 0 .. Full
Memory == [text : [Convs -> Sizes], deep : [Convs -> Sizes]]

\* told: an alarm was raised for it; blind: it was compared with nothing;
\* cut: it had lost something, and its cycle was killed before the alarm;
\* legible: its manifest can be read; listed: it is still on the volume.
Archive == [at : 0 .. MaxClock, memory : Memory, chats : Sizes, bytes : Sizes,
            present : BOOLEAN, hwm : [Convs -> Sizes], legible : BOOLEAN,
            listed : BOOLEAN, told : BOOLEAN, blind : BOOLEAN, cut : BOOLEAN]

VARIABLES
    clock,
    memory,  \* the compactor's store
    chats,   \* what the chats of webui.db hold
    bytes,   \* the size of its file, free pages included
    mounted, \* whether the store is there
    db,      \* whether webui.db is there
    log,     \* the archives published, in order; those still listed say so
    debris,  \* when the staging trees and partials left behind were made
    part,    \* the archive being made
    pc,      \* where the daemon is
    wake,    \* when it ends its sleep
    failed,  \* whether its last cycle failed
    faults   \* faults so far

world == <<memory, chats, bytes, mounted, db>>
vars == <<clock, world, log, debris, part, pc, wake, failed, faults>>

None == [at |-> 0, memory |-> [text |-> [c \in Convs |-> 0],
                               deep |-> [c \in Convs |-> 0]],
         chats |-> 0, bytes |-> 0, present |-> FALSE,
         hwm |-> [c \in Convs |-> 0], legible |-> FALSE, listed |-> FALSE,
         told |-> FALSE, blind |-> FALSE, cut |-> FALSE]

TypeOK ==
    /\ clock \in 0 .. MaxClock /\ memory \in Memory
    /\ chats \in Sizes /\ bytes \in Sizes
    /\ mounted \in BOOLEAN /\ db \in BOOLEAN /\ failed \in BOOLEAN
    /\ log \in Seq(Archive) /\ part \in Archive
    /\ debris \subseteq 0 .. MaxClock
    /\ pc \in {"boot", "asleep", "retry", "begin", "snap", "copy", "verify",
               "judge", "publish", "compare", "prune"}
    /\ wake \in 0 .. MaxClock + Interval
    /\ faults \in 0 .. MaxFaults

Init ==
    /\ clock = 0 /\ failed = FALSE /\ faults = 0
    /\ memory = [text |-> [c \in Convs |-> Full], deep |-> [c \in Convs |-> 1]]
    /\ chats = Full /\ bytes = Full /\ mounted = TRUE /\ db \in BOOLEAN
    /\ log = <<>> /\ debris = {} /\ part = None
    /\ pc = "boot" /\ wake = 0

----------------------------------------------------------------------------
(* The archives. *)

\* list_backups: by mtime, the newest first; here by its place in the log.
Listed == {i \in DOMAIN log : log[i].listed}

\* The newest archive and, where it can be read, its manifest.
Newest == Max(Listed)
Baseless == IF Listed = {} THEN TRUE ELSE ~log[Newest].legible
Base == IF Baseless THEN None ELSE log[Newest]

\* read_manifest and _census_hwm_update: less than half is a loss, and a loss
\* starts the mark again.
Halved(old, new) == old > 0 /\ 2 * new < old

\* Mutant: the mark follows the last archive.
MarkFollows(old, new) == new

Mark(old, new) ==
    IF old = 0 \/ Halved(old, new) \/ new > old THEN new ELSE old

Marks(hwm, text) == [c \in Convs |-> Mark(hwm[c], text[c])]

\* _census_regressions and the alarm of the high-water mark.
MemoryLost(base, new) ==
    \E c \in Convs :
        \/ Halved(base.memory.text[c], new.memory.text[c])
        \/ new.memory.deep[c] < base.memory.deep[c]
        \/ Halved(base.hwm[c], new.memory.text[c])

\* _webui_db_regressions.
ChatsLost(base, new) == base.present /\ Halved(base.chats, new.chats)

Lost(base, new) == MemoryLost(base, new) \/ ChatsLost(base, new)

\* payload_bytes: of the files, whatever they hold.
SumOver(f) == FoldSet(LAMBDA c, sum : f[c] + sum, 0, Convs)

Payload(a) == SumOver(a.memory.text) + SumOver(a.memory.deep) + a.bytes

\* _payload_ratio.  Without a manifest to compare with, the compressed sizes
\* are compared, which move with the content, or nothing where that fails:
\* it may find a collapse or none.
Collapses(new) ==
    IF Listed = {} THEN {FALSE}
    ELSE IF Baseless THEN BOOLEAN
    ELSE {2 * Payload(new) < Payload(Base)}

WeekOf(t) == t \div WeekLen

\* Mutant: one of each week is not kept.
KeepSetAge(now) ==
    {i \in Listed : \/ now - log[i].at <= RetainAge
                    \/ Cardinality({j \in Listed : j > i}) < Floor}

\* _keep_set: the newest ones, the young ones, the newest of each week.
KeepSet(now) ==
    {i \in Listed :
        \/ Cardinality({j \in Listed : j > i}) < Floor
        \/ now - log[i].at <= RetainAge
        \/ /\ now - log[i].at <= Weeks * WeekLen
           /\ \A j \in Listed :
                WeekOf(log[j].at) = WeekOf(log[i].at) => j <= i}

----------------------------------------------------------------------------
(* One cycle. *)

Goes(step) == pc' = step

\* A cycle that fails is tried again soon.
Fails ==
    /\ Goes("retry") /\ failed' = TRUE /\ part' = None
    /\ UNCHANGED <<clock, world, log, debris, wake, faults>>

\* Debris older than a cycle is swept, and the cycle starts.
Begin ==
    /\ pc = "begin"
    /\ debris' = {t \in debris : t = clock}
    /\ Goes("snap")
    /\ UNCHANGED <<clock, world, log, part, wake, failed, faults>>

\* The database must be there, or be waived on a pod without archives.
SnapDb ==
    /\ pc = "snap"
    /\ \/ /\ db
          /\ part' = [part EXCEPT !.chats = chats, !.bytes = bytes,
                                  !.present = TRUE]
          /\ Goes("copy")
          /\ UNCHANGED <<clock, world, log, debris, wake, failed, faults>>
       \/ /\ ~db /\ Hatch /\ Listed = {}
          /\ Goes("copy")
          /\ UNCHANGED <<clock, world, log, debris, part, wake, failed, faults>>
       \/ ~db /\ ~(Hatch /\ Listed = {}) /\ Fails

\* The store must be there; its census and its marks go into the manifest.
CopyStore ==
    /\ pc = "copy"
    /\ \/ /\ mounted
          /\ part' = [part EXCEPT
                !.at = clock, !.memory = memory, !.legible = TRUE,
                !.listed = TRUE, !.blind = Baseless,
                !.hwm = Marks(Base.hwm, memory.text)]
          /\ Goes("verify")
          /\ UNCHANGED <<clock, world, log, debris, wake, failed, faults>>
       \/ ~mounted /\ Fails

\* verify_backup: what was written is read back, and a bad archive discarded.
Verify ==
    /\ pc = "verify"
    /\ \/ /\ Goes("judge")
          /\ UNCHANGED <<clock, world, log, debris, part, wake, failed, faults>>
       \/ /\ faults < MaxFaults /\ faults' = faults + 1
          /\ Goes("retry") /\ failed' = TRUE /\ part' = None
          /\ UNCHANGED <<clock, world, log, debris, wake>>

\* A payload that collapsed is neither published nor pruned behind.
Judge ==
    /\ pc = "judge"
    /\ \/ /\ FALSE \in Collapses(part)
          /\ Goes("publish")
          /\ UNCHANGED <<clock, world, log, debris, part, wake, failed, faults>>
       \/ TRUE \in Collapses(part) /\ Fails

Publish ==
    /\ pc = "publish"
    /\ log' = Append(log, part)
    /\ Goes("compare")
    /\ UNCHANGED <<clock, world, debris, part, wake, failed, faults>>

\* The archive the new one is compared with: the baseline of the cycle.
Before == {i \in Listed : i < Len(log)}
BaseOfLast == IF part.blind THEN None ELSE log[Max(Before)]

\* A clean cycle sleeps for the interval.
Ends ==
    /\ Goes("asleep") /\ wake' = clock + Interval /\ failed' = FALSE
    /\ part' = None
    /\ UNCHANGED <<clock, world, debris, faults>>

\* A loss raises the alarm and ends the cycle.
Compare ==
    /\ pc = "compare"
    /\ \/ /\ Lost(BaseOfLast, part)
          /\ log' = [log EXCEPT ![Len(log)].told = TRUE]
          /\ Ends
       \/ /\ ~Lost(BaseOfLast, part)
          /\ Goes("prune")
          /\ UNCHANGED <<clock, world, log, debris, part, wake, failed, faults>>

\* prune_old_backups: what no tier claims goes, where it can be removed.
Prune ==
    /\ pc = "prune"
    /\ \E gone \in {Listed \ KeepSet(clock), {}} :
          log' = [i \in DOMAIN log |->
                    [log[i] EXCEPT !.listed = @ /\ i \notin gone]]
    /\ Ends

----------------------------------------------------------------------------
(* The loop of the daemon. *)

\* Mutant: a cycle starts whenever the process does.
BootRuns ==
    /\ pc = "boot"
    /\ Goes("begin")
    /\ UNCHANGED <<clock, world, log, debris, part, wake, failed, faults>>

\* A start soon after the newest archive sleeps what is left of the interval.
Boot ==
    /\ pc = "boot"
    /\ IF Listed # {} /\ 2 * (clock - log[Newest].at) < Interval
       THEN Goes("asleep") /\ wake' = log[Newest].at + Interval
       ELSE Goes("begin") /\ UNCHANGED wake
    /\ UNCHANGED <<clock, world, log, debris, part, failed, faults>>

\* Mutant: a cycle that failed ends the loop.
WakesOnTime ==
    /\ pc = "asleep" /\ clock >= wake
    /\ Goes("begin")
    /\ UNCHANGED <<clock, world, log, debris, part, wake, failed, faults>>

Wakes ==
    /\ pc = "retry" \/ (pc = "asleep" /\ clock >= wake)
    /\ Goes("begin")
    /\ UNCHANGED <<clock, world, log, debris, part, wake, failed, faults>>

Cycle == Begin \/ SnapDb \/ CopyStore \/ Verify \/ Judge \/ Publish
         \/ Compare \/ Prune

----------------------------------------------------------------------------
(* The world. *)

\* A cycle is short beside the clock, but for the writing of the archive.
Tick ==
    /\ clock < MaxClock
    /\ pc \in {"boot", "asleep", "retry", "verify"}
    /\ clock' = clock + 1
    /\ UNCHANGED <<world, log, debris, part, pc, wake, failed, faults>>

Strikes == faults < MaxFaults /\ faults' = faults + 1

\* The pod is killed; what the cycle was writing stays as debris, and what
\* it was about to say is not said.
Kill ==
    /\ pc # "boot"
    /\ Strikes
    /\ Goes("boot") /\ failed' = FALSE /\ part' = None
    /\ debris' = (IF pc \in {"copy", "verify", "judge", "publish"}
                  THEN debris \union {clock} ELSE debris)
    /\ log' = (IF pc = "compare" /\ Lost(BaseOfLast, part)
               THEN [log EXCEPT ![Len(log)].cut = TRUE] ELSE log)
    /\ UNCHANGED <<clock, world, wake>>

\* Text is merged, evicted or lost; a layer that only grows loses; the chats
\* shrink, in place or by a file that replaces theirs, or come back.
Change ==
    /\ Strikes
    /\ \/ /\ \E c \in Convs : memory' \in
                {[memory EXCEPT !.text[c] = @ \div 2],
                 [memory EXCEPT !.text[c] = Full],
                 [memory EXCEPT !.deep[c] = 0]}
          /\ UNCHANGED <<chats, bytes>>
       \/ /\ \/ chats' \in {0, chats \div 2} /\ bytes' \in {chats', bytes}
             \/ chats' = Full /\ bytes' = Full
          /\ UNCHANGED memory
    /\ UNCHANGED <<clock, mounted, db, log, debris, part, pc, wake, failed>>

\* A source goes missing; it may come back.
Vanish ==
    /\ Strikes
    /\ \/ mounted /\ mounted' = FALSE /\ UNCHANGED db
       \/ db /\ db' = FALSE /\ UNCHANGED mounted
    /\ UNCHANGED <<clock, memory, chats, bytes, log, debris, part, pc, wake,
                   failed>>

Return ==
    /\ mounted' = TRUE /\ db' = TRUE
    /\ UNCHANGED <<clock, memory, chats, bytes, log, debris, part, pc, wake,
                   failed, faults>>

\* The newest archive becomes unreadable.
Rot ==
    /\ Listed # {} /\ pc \in {"asleep", "boot", "retry"} /\ Strikes
    /\ log' = [log EXCEPT ![Newest].legible = FALSE]
    /\ UNCHANGED <<clock, world, debris, part, pc, wake, failed>>

Next == Boot \/ Wakes \/ Cycle \/ Tick \/ Kill \/ Change \/ Vanish \/ Return
        \/ Rot

\* The daemon is a program of its own that supervisord keeps running.
Fairness == WF_vars(Boot) /\ WF_vars(Wakes) /\ WF_vars(Cycle)

Spec == Init /\ [][Next]_vars /\ Fairness

----------------------------------------------------------------------------
(* Properties. *)

\* The publications from after i to j were all compared and found clean.
CleanBetween(i, j) ==
    \A k \in i + 1 .. j : ~log[k].told /\ ~log[k].blind /\ ~log[k].cut

Settled == Len(log) - (IF pc = "compare" THEN 1 ELSE 0)

Keeps(i, j) ==
    \A c \in Convs :
        /\ ~Halved(log[i].memory.text[c], log[j].memory.text[c])
        /\ log[j].memory.deep[c] >= log[i].memory.deep[c]

\* No memory is lost untold, however slowly: between two archives with no
\* alarm, no unreadable one and no kill before an alarm from the one to the
\* other, no conversation has less than half the text it had and none of what
\* only grows has shrunk (backup.py:799, :1725).
LossIsTold ==
    \A j \in 1 .. Settled : \A i \in 1 .. j - 1 :
        CleanBetween(i, j) => Keeps(i, j)

\* What the code says of it: a store that went backwards is told of
\* (backup.py:1725, "the prune is skipped and someone is told").
SomeoneIsTold ==
    \A j \in 2 .. Settled :
        ~log[j].told /\ ~log[j].blind => Keeps(j - 1, j)

\* Each week for which a weekly archive is promised has one, whatever was
\* pruned, failed or killed since (backup.py:1440).
WeeklyRestorePoint ==
    \A i \in DOMAIN log :
        clock - log[i].at <= Weeks * WeekLen =>
            \E j \in Listed : WeekOf(log[j].at) = WeekOf(log[i].at)

\* However often the process restarts, two archives are at least half an
\* interval apart: a restart loop does not fill the retention window with
\* copies of the same state (backup.py:2946).
NoRestartStorm ==
    \A j \in 2 .. Len(log) : 2 * (log[j].at - log[j - 1].at) >= Interval

\* A cycle that found fewer chats or less memory than the archive before it
\* removes none (backup.py:1634, :1725).
NoPruneBehindLoss ==
    [][(\E i \in Listed : ~log'[i].listed) =>
        (log[Len(log)].blind \/ ~Lost(log[Max(Before)], log[Len(log)]))]_vars

\* A cycle that failed is tried until an archive is out, once the sources are
\* there and are not found collapsed (backup.py:2971).
Sources == mounted /\ db /\ (pc = "judge" => TRUE \notin Collapses(part))
PublishesInTheEnd == [](failed /\ []Sources => <>~failed)
=============================================================================
