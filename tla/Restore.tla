------------------------------ MODULE Restore ------------------------------
(***************************************************************************)
(* compactor/backup.py restore_backup: an archive's database and store are *)
(* moved over the live ones, file by file, with what they replace set      *)
(* aside, a marker that says a restore is in flight, and a rollback when a *)
(* move fails.  It may be killed between any two moves; the next start of  *)
(* the container (entrypoint.sh, webuidb.find_interrupted_restore) looks   *)
(* for a marker and nothing else, and may not be able to read it.          *)
(*                                                                         *)
(* What a file holds is the generation it comes from: Old, or the restore  *)
(* that brought it.  OpenWebUI and the compactor are stopped, as           *)
(* OPERATIONS.md asks, but a compactor that was not may make a new store.  *)
(***************************************************************************)
EXTENDS Naturals, FiniteSets

CONSTANTS
    Restores,   \* runs of backup.py --restore
    Old,        \* the generation before them
    Stray,      \* a store the compactor makes where it finds none
    None,       \* no file
    FreshMixes, \* whether an archive of both may meet a pod with no database
    MayOverlap, \* whether a restore may start while another is staging
    MayFail,    \* whether a move or a copy may fail
    MarkerFails \* whether the marker may fail to be written

ASSUME RestoreAssumption ==
    /\ IsFiniteSet(Restores)
    /\ {Old, Stray, None} \intersect Restores = {}
    /\ Old # Stray /\ Old # None /\ Stray # None
    /\ FreshMixes \in BOOLEAN /\ MayOverlap \in BOOLEAN /\ MayFail \in BOOLEAN
    /\ MarkerFails \in BOOLEAN

Generations == Restores \union {Old}

VARIABLES
    db,      \* the live database
    journal, \* the journal beside it
    store,   \* the live store
    aside,   \* what each restore has set aside
    marker,  \* the restores whose marker is on the volume
    pc,      \* where each restore is
    parts,   \* what the archive of each restore holds
    clean,   \* whether its rollback has had no error so far
    down,    \* whether the container is down
    agreed,  \* history: what the last restore that ended well, or Old, left
    missed   \* history: what went on over a marker it could not read

live == <<db, journal, store>>
run == <<pc, parts, clean>>
vars == <<live, aside, marker, run, down, agreed, missed>>

Pieces == {"db", "journal", "store"}
Nothing == [p \in Pieces |-> None]
Live == [p \in Pieces |-> CASE p = "db" -> db [] p = "journal" -> journal
                            [] p = "store" -> store]

Steps == {"idle", "stage", "mark", "dbAside", "journalAside", "dbSwap",
          "check", "storeAside", "storeSwap", "dbBack", "journalBack",
          "storeBack", "dbBackToo", "journalBackToo", "unmark", "done"}

TypeOK ==
    /\ db \in Generations \union {None}
    /\ journal \in Generations \union {None}
    /\ store \in Generations \union {None, Stray}
    /\ aside \in [Restores -> [Pieces -> Generations \union {None, Stray}]]
    /\ marker \subseteq Restores
    /\ pc \in [Restores -> Steps]
    /\ parts \in [Restores -> SUBSET {"db", "store"}]
    /\ clean \in [Restores -> BOOLEAN]
    /\ down \in BOOLEAN
    /\ agreed \in [Pieces -> Generations \union {None, Stray}]
    /\ missed \subseteq {"boot", "begin"}

Init ==
    /\ db \in {Old, None}
    /\ journal \in {None, db}
    /\ store = Old
    /\ aside = [r \in Restores |-> Nothing]
    /\ marker = {} /\ down = FALSE /\ missed = {}
    /\ pc = [r \in Restores |-> "idle"]
    /\ parts \in [Restores -> (SUBSET {"db", "store"}) \ {{}}]
    /\ db = None => FreshMixes \/ \A r \in Restores : parts[r] # {"db", "store"}
    /\ clean = [r \in Restores |-> TRUE]
    /\ agreed = Live

----------------------------------------------------------------------------
Goes(r, step) == pc' = [pc EXCEPT ![r] = step]

\* A restore that raises ends, its marker where it is.
Raises(r) == Goes(r, "done")

Keeps(r, piece, what) == aside' = [aside EXCEPT ![r][piece] = what]

Holds(r, part) == part \in parts[r]

Busy == {r \in Restores : pc[r] \notin {"idle", "done"}}

\* find_interrupted_restore passes over a marker, or a directory, that it
\* cannot read.  What goes on for not having seen one is written down.
Sees(found, who) ==
    /\ found \subseteq marker
    /\ missed' = missed \union {w \in {who} : found = {} /\ marker # {}}

\* Mutant: a marker that was found does not stop a restore.
MayBeginAnyway(r, found) == Busy = {}

\* A verified archive, no writer, and no marker found of an earlier restore;
\* it is looked for once, before the files are staged.
MayBegin(r, found) == found = {} /\ (MayOverlap \/ Busy = {})

Begin(r) ==
    /\ pc[r] = "idle" /\ ~down
    /\ \E found \in SUBSET marker : Sees(found, "begin") /\ MayBegin(r, found)
    /\ Goes(r, "stage")
    /\ UNCHANGED <<live, aside, marker, parts, clean, down, agreed>>

\* Space is found and the files are copied beside their targets; a failure
\* removes the copies and touches nothing.
Stage(r) ==
    /\ pc[r] = "stage"
    /\ \/ Goes(r, "mark")
       \/ MayFail /\ Raises(r)
    /\ UNCHANGED <<live, aside, marker, parts, clean, down, agreed, missed>>

\* Mutant: the marker is written for nothing.
MarkNot(r) ==
    /\ pc[r] = "mark"
    /\ Goes(r, IF Holds(r, "db") THEN "dbAside" ELSE "storeAside")
    /\ UNCHANGED <<live, aside, marker, parts, clean, down, agreed, missed>>

\* write_restore_marker, before the first move.
Mark(r) ==
    /\ pc[r] = "mark"
    /\ marker' \in {marker \union {r}}
                   \union (IF MarkerFails THEN {marker} ELSE {})
    /\ Goes(r, IF Holds(r, "db") THEN "dbAside" ELSE "storeAside")
    /\ UNCHANGED <<live, aside, parts, clean, down, agreed, missed>>

\* Mutant: the live database is left for the staged one to replace.
DbOverwritten(r) ==
    /\ pc[r] = "dbAside"
    /\ Goes(r, "journalAside")
    /\ UNCHANGED <<live, aside, marker, parts, clean, down, agreed, missed>>

\* The live database goes to the quarantine, or beside its own path, ...
DbAside(r) ==
    /\ pc[r] = "dbAside"
    /\ \/ /\ Keeps(r, "db", db) /\ db' = None
          /\ Goes(r, "journalAside")
       \/ MayFail /\ db # None /\ Raises(r) /\ UNCHANGED <<db, aside>>
    /\ UNCHANGED <<journal, store, marker, parts, clean, down, agreed, missed>>

\* Mutant: the journal stays beside the new database.
JournalStays(r) ==
    /\ pc[r] = "journalAside"
    /\ Goes(r, "dbSwap")
    /\ UNCHANGED <<live, aside, marker, parts, clean, down, agreed, missed>>

\* ... its journal follows, ...
JournalAside(r) ==
    /\ pc[r] = "journalAside"
    /\ \/ /\ Keeps(r, "journal", journal) /\ journal' = None
          /\ Goes(r, "dbSwap")
       \/ MayFail /\ journal # None /\ Raises(r) /\ UNCHANGED <<journal, aside>>
    /\ UNCHANGED <<db, store, marker, parts, clean, down, agreed, missed>>

\* ... and the staged one takes its place.
DbSwap(r) ==
    /\ pc[r] = "dbSwap"
    /\ \/ db' = r /\ Goes(r, "check")
       \/ MayFail /\ Goes(r, "dbBack") /\ UNCHANGED db
    /\ UNCHANGED <<journal, store, aside, marker, parts, clean, down,
                   agreed, missed>>

\* A move that goes back, or does not; the rollback goes on either way.
MovesBack(r, piece, landed) ==
    \/ aside[r][piece] = None /\ UNCHANGED <<landed, aside, clean>>
    \/ /\ aside[r][piece] # None
       /\ landed' = aside[r][piece]
       /\ Keeps(r, piece, None)
       /\ UNCHANGED clean
    \/ /\ MayFail /\ aside[r][piece] # None
       /\ clean' = [clean EXCEPT ![r] = FALSE]
       /\ UNCHANGED <<landed, aside>>

\* The swap of the database failed: it goes back, then its journal.
DbBack(r) ==
    /\ pc[r] = "dbBack"
    /\ MovesBack(r, "db", db)
    /\ Goes(r, "journalBack")
    /\ UNCHANGED <<journal, store, marker, parts, down, agreed, missed>>

JournalBack(r) ==
    /\ pc[r] = "journalBack"
    /\ MovesBack(r, "journal", journal)
    /\ Goes(r, "unmark")
    /\ UNCHANGED <<db, store, marker, parts, down, agreed, missed>>

\* What landed is checked; a bad database stays where it is, with the marker.
Check(r) ==
    /\ pc[r] = "check"
    /\ \/ Goes(r, IF Holds(r, "store") THEN "storeAside" ELSE "unmark")
       \/ MayFail /\ Raises(r)
    /\ UNCHANGED <<live, aside, marker, parts, clean, down, agreed, missed>>

\* The live store goes to the quarantine, ...
StoreAside(r) ==
    /\ pc[r] = "storeAside"
    /\ \/ /\ Keeps(r, "store", store) /\ store' = None
          /\ Goes(r, "storeSwap")
       \/ MayFail /\ store # None /\ Raises(r) /\ UNCHANGED <<store, aside>>
    /\ UNCHANGED <<db, journal, marker, parts, clean, down, agreed, missed>>

\* ... and the staged one takes its place, unless there is a store again.
StoreSwap(r) ==
    /\ pc[r] = "storeSwap"
    /\ \/ store = None /\ store' = r /\ Goes(r, "unmark")
       \/ (store # None \/ MayFail) /\ Goes(r, "storeBack") /\ UNCHANGED store
    /\ UNCHANGED <<db, journal, aside, marker, parts, clean, down,
                   agreed, missed>>

\* Where the rollback of a store goes on: a database that was set aside goes
\* back too.
AfterStoreBack(r) ==
    IF Holds(r, "db") /\ aside[r]["db"] # None THEN "dbBackToo" ELSE "unmark"

\* The swap of the store failed: it goes back, whatever is at its path moved
\* out of the way first (_move_back_no_nest), ...
StoreBack(r) ==
    /\ pc[r] = "storeBack"
    /\ MovesBack(r, "store", store)
    /\ Goes(r, AfterStoreBack(r))
    /\ UNCHANGED <<db, journal, marker, parts, down, agreed, missed>>

\* Mutant: the journal goes back even where the database did not.
JournalAnyway(r) ==
    /\ pc[r] = "dbBackToo"
    /\ MovesBack(r, "db", db)
    /\ Goes(r, "journalBackToo")
    /\ UNCHANGED <<journal, store, marker, parts, down, agreed, missed>>

\* ... then the database, and its journal only if it did.
DbBackToo(r) ==
    /\ pc[r] = "dbBackToo"
    /\ MovesBack(r, "db", db)
    /\ Goes(r, IF aside'[r]["db"] = None THEN "journalBackToo" ELSE "unmark")
    /\ UNCHANGED <<journal, store, marker, parts, down, agreed, missed>>

JournalBackToo(r) ==
    /\ pc[r] = "journalBackToo"
    /\ MovesBack(r, "journal", journal)
    /\ Goes(r, "unmark")
    /\ UNCHANGED <<db, store, marker, parts, down, agreed, missed>>

\* Whether a restore has brought in what its archive holds.
Landed(r) == \A part \in parts[r] : Live[part] = r

\* Mutant: the marker goes although the rollback had errors.
MayUnmarkAnyway(r) == TRUE

MayUnmark(r) == clean[r]

\* The marker goes after a success or a rollback without errors, if it can
\* be removed.
Unmark(r) ==
    /\ pc[r] = "unmark"
    /\ marker' \in {IF MayUnmark(r) THEN marker \ {r} ELSE marker}
                   \union (IF MayFail THEN {marker} ELSE {})
    /\ agreed' = IF Landed(r) THEN Live ELSE agreed
    /\ Raises(r)
    /\ UNCHANGED <<live, aside, parts, clean, down, missed>>

Moves(r) ==
    \/ Begin(r) \/ Stage(r) \/ Mark(r)
    \/ DbAside(r) \/ JournalAside(r) \/ DbSwap(r) \/ Check(r)
    \/ StoreAside(r) \/ StoreSwap(r)
    \/ DbBack(r) \/ JournalBack(r)
    \/ StoreBack(r) \/ DbBackToo(r) \/ JournalBackToo(r)
    \/ Unmark(r)

----------------------------------------------------------------------------
(* Around the restores. *)

\* OpenWebUI, between restores, leaves a journal beside its database or
\* plays the one it left.  (What it does after a start that missed a marker
\* is not followed.)
Serve ==
    /\ ~down /\ marker = {} /\ missed = {} /\ Busy = {} /\ db # None
    /\ journal' = (IF journal = None THEN db ELSE None)
    /\ agreed' = [agreed EXCEPT !["journal"] = journal']
    /\ UNCHANGED <<db, store, aside, marker, run, down, missed>>

\* A compactor that was not stopped makes a store where it finds none.
Intrude ==
    /\ ~down /\ Busy # {} /\ store = None
    /\ store' = Stray
    /\ UNCHANGED <<db, journal, aside, marker, run, down, agreed, missed>>

\* The pod is killed, its restores with it.
Kill ==
    /\ ~down
    /\ down' = TRUE
    /\ pc' = [r \in Restores |-> IF r \in Busy THEN "done" ELSE pc[r]]
    /\ UNCHANGED <<live, aside, marker, parts, clean, agreed, missed>>

\* Mutant: the container starts on whatever it finds.
MayBootAnyway(found) == TRUE

MayBoot(found) == found = {}

\* entrypoint.sh refuses to start while a marker is found.
Boot ==
    /\ down
    /\ \E found \in SUBSET marker : Sees(found, "boot") /\ MayBoot(found)
    /\ down' = FALSE
    /\ UNCHANGED <<live, aside, marker, run, agreed>>

\* OPERATIONS.md: with the marker's plan in hand somebody either finds that
\* the restore had landed, or puts back what was set aside, and removes it.
\* (What is done by hand after a marker went unseen is not followed.)
Repair(r) ==
    /\ r \in marker /\ Busy = {} /\ missed = {}
    /\ marker' = marker \ {r}
    /\ \/ Landed(r) /\ agreed' = Live /\ UNCHANGED live
       \/ /\ db' = agreed["db"] /\ journal' = agreed["journal"]
          /\ store' = agreed["store"]
          /\ UNCHANGED agreed
    /\ UNCHANGED <<aside, run, down, missed>>

Next ==
    \/ \E r \in Restores : Moves(r) \/ Repair(r)
    \/ Serve \/ Intrude \/ Kill \/ Boot

Spec == Init /\ [][Next]_vars

----------------------------------------------------------------------------
(* Properties. *)

\* Where no marker is on the volume and no restore is at work, which is all
\* the next start of the container looks at, the database, its journal and
\* the store are those of one generation: what the last restore that ended
\* well left, or what was there before (backup.py:2300, entrypoint.sh:286);
\* until something goes on over a marker it could not read (webuidb.py:597).
UnmarkedIsAgreed ==
    (marker = {} /\ Busy = {} /\ missed = {}) => Live = agreed

\* Not for one step does a journal lie beside a database it does not belong
\* to: SQLite would apply it (backup.py:2040 and :2260).  Nothing is said of
\* what follows a start that missed a marker.
NoForeignJournal ==
    ("boot" \notin missed /\ db # None /\ journal # None) => journal = db

\* Whatever fails and wherever the pod is killed, what the last restore that
\* ended well left, or what was there before it, is live or set aside: a
\* restore destroys nothing (backup.py:1974), not even one that began over a
\* marker it could not read ("a detection gap, not data loss in progress",
\* webuidb.py:598).  Nothing is said of what follows a start that missed one.
NothingDestroyed ==
    "boot" \notin missed => \A p \in Pieces :
        agreed[p] \in {None, Live[p]} \union {aside[r][p] : r \in Restores}

\* The container comes up on files of two generations only where a marker
\* could not be read.
BootsOneGeneration ==
    [][(down /\ ~down') => Live' = agreed' \/ missed' # {}]_vars
=============================================================================
