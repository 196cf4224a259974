--------------------------- MODULE RestoreProofs ---------------------------
(***************************************************************************)
(* Proofs about Restore: whatever fails, and wherever the pod is killed,   *)
(* a restore that ran alone and could write its marker leaves the files of *)
(* one generation or a marker, never lets a journal lie beside a database  *)
(* it does not belong to, and destroys nothing.                            *)
(*                                                                         *)
(* The properties are not inductive.  The strengthening IInv says what a   *)
(* restore has moved at each of its steps, in terms of what was agreed on  *)
(* before it began (DbAt, StoreAt), and what is known of a restore that was *)
(* cut off at any of them (Accounted).  It rests on every marker having been *)
(* seen.  SInv needs no marker: it says what a step relies on before it    *)
(* overwrites something (SafeAt), and is what carries the journal and the  *)
(* last copies past a restore that began over a marker nobody could read.  *)
(***************************************************************************)
EXTENDS Restore, TLAPS

\* The conditions under which a restore is safe: an archive of both never
\* meets a pod without a database, restores run one at a time, and the
\* marker can be written.  Restore_fresh.cfg and Restore_overlap.cfg show
\* that the first two are needed.
Careful == FreshMixes = FALSE /\ MayOverlap = FALSE /\ MarkerFails = FALSE

Active(r) == pc[r] \notin {"idle", "done"}

\* What was agreed on is consistent in itself.
AgreedIsSound ==
    /\ agreed["db"] \in Generations \union {None}
    /\ agreed["journal"] \in Generations \union {None}
    /\ agreed["store"] \in Generations
    /\ (agreed["db"] # None /\ agreed["journal"] # None)
          => agreed["journal"] = agreed["db"]
    /\ agreed["db"] = None
          => \A r \in Restores : ~(Holds(r, "db") /\ Holds(r, "store"))

\* One restore is at work, and the marker on the volume is its own.
OneAtWork ==
    /\ \A r, s \in Restores : Active(r) /\ Active(s) => r = s
    /\ \A r \in Restores :
          /\ pc[r] \in {"stage", "mark"} => marker = {}
          /\ Active(r) /\ pc[r] \notin {"stage", "mark"} => marker = {r}
          /\ pc[r] = "idle" => r \notin marker
    /\ \A r, s \in marker : r = s

LiveIsAgreed ==
    db = agreed["db"] /\ journal = agreed["journal"] /\ store = agreed["store"]

NothingAside(r) ==
    /\ aside[r]["db"] = None
    /\ aside[r]["journal"] = None
    /\ aside[r]["store"] = None

\* A restore that has not begun has moved nothing; between restores the live
\* files are those agreed on.
Untouched ==
    /\ \A r \in Restores : pc[r] = "idle" => NothingAside(r) /\ clean[r]
    /\ (marker = {} /\ \A r \in Restores : ~Active(r)) => LiveIsAgreed

\* A restore that has marked, at any step or cut off at any step: each file
\* it may have touched is live or set aside.
Accounted(r) ==
    /\ agreed["db"] \in {None, db, aside[r]["db"]}
    /\ agreed["journal"] \in {None, journal, aside[r]["journal"]}
    /\ agreed["store"] \in {store, aside[r]["store"]}
    /\ journal \in {None, agreed["journal"]}
    /\ db \in {None, agreed["db"]} \/ journal = None
    /\ ~Holds(r, "db") => db = agreed["db"] /\ journal = agreed["journal"]
    /\ ~Holds(r, "store") => store = agreed["store"]

DbUntouched(r) ==
    /\ db = agreed["db"] /\ journal = agreed["journal"]
    /\ aside[r]["db"] = None /\ aside[r]["journal"] = None

DbMoved(r, now) ==
    /\ db = now /\ journal = None
    /\ aside[r]["db"] = agreed["db"]
    /\ aside[r]["journal"] = agreed["journal"]

\* The database and its journal at each step of a restore.
DbAt(r) ==
    /\ pc[r] \in {"stage", "mark", "dbAside"} => DbUntouched(r)
    /\ pc[r] = "journalAside" =>
          /\ db = None /\ journal = agreed["journal"]
          /\ aside[r]["db"] = agreed["db"] /\ aside[r]["journal"] = None
    /\ pc[r] \in {"dbSwap", "dbBack"} => DbMoved(r, None)
    /\ pc[r] \in {"check", "dbBackToo"} => DbMoved(r, r)
    /\ pc[r] \in {"storeAside", "storeSwap", "storeBack"} =>
          IF Holds(r, "db") THEN DbMoved(r, r) ELSE DbUntouched(r)
    /\ pc[r] \in {"journalBack", "journalBackToo"} =>
          /\ journal = None /\ aside[r]["journal"] = agreed["journal"]
          /\ \/ db = agreed["db"]
             \/ /\ db = None /\ aside[r]["db"] = agreed["db"] /\ ~clean[r]
                /\ pc[r] = "journalBack"

\* The store at each step.
StoreAt(r) ==
    /\ pc[r] \in {"stage", "mark", "dbAside", "journalAside", "dbSwap",
                  "check", "dbBack", "journalBack", "storeAside"} =>
          store = agreed["store"] /\ aside[r]["store"] = None
    /\ pc[r] \in {"storeSwap", "storeBack"} =>
          store \in {None, Stray} /\ aside[r]["store"] = agreed["store"]
    /\ pc[r] \in {"dbBackToo", "journalBackToo"} =>
          \/ store = agreed["store"]
          \/ store \in {None, Stray} /\ aside[r]["store"] = agreed["store"]
             /\ ~clean[r]

\* What the archive holds, at the steps that depend on it.
PartsAt(r) ==
    /\ pc[r] \in {"dbAside", "journalAside", "dbSwap", "check", "dbBack",
                  "journalBack", "dbBackToo", "journalBackToo"}
          => Holds(r, "db")
    /\ pc[r] \in {"storeAside", "storeSwap", "storeBack", "dbBackToo",
                  "journalBackToo"} => Holds(r, "store")

\* A restore about to remove its marker without having had an error has
\* brought in its archive, or has put everything back.
EndAt(r) == (pc[r] = "unmark" /\ clean[r]) => Landed(r) \/ LiveIsAgreed

IInv ==
    /\ TypeOK
    /\ \A r \in Restores : parts[r] # {}
    /\ AgreedIsSound
    /\ OneAtWork
    /\ Untouched
    /\ \A r \in marker : Accounted(r)
    /\ \A r \in Restores : DbAt(r) /\ StoreAt(r) /\ PartsAt(r) /\ EndAt(r)

----------------------------------------------------------------------------
(* The constants, and the helpers. *)

\* The generations are apart from the two values that are none of them.
LEMMA Apart ==
    /\ None \notin Generations /\ Stray \notin Generations /\ None # Stray
    /\ \A r \in Restores : r \in Generations
  BY RestoreAssumption DEF Generations

\* The live files, one by one.
LEMMA LivePieces ==
    /\ Live["db"] = db /\ Live["journal"] = journal /\ Live["store"] = store
    /\ Live \in [Pieces -> {db, journal, store}]
  BY DEF Live, Pieces

\* What it is to be agreed on, piece by piece.
LEMMA LiveByPiece ==
    ASSUME TypeOK
    PROVE  Live = agreed <=> LiveIsAgreed
  <1>1. agreed = [p \in Pieces |-> agreed[p]]
    BY DEF TypeOK
  <1>2. Live = [p \in Pieces |-> Live[p]]
    BY LivePieces
  <1>3. \A p \in Pieces : p = "db" \/ p = "journal" \/ p = "store"
    BY DEF Pieces
  <1>4. "db" \in Pieces /\ "journal" \in Pieces /\ "store" \in Pieces
    BY DEF Pieces
  <1> QED
    BY <1>1, <1>2, <1>3, <1>4, LivePieces DEF LiveIsAgreed

\* What it is to have landed, part by part.
LEMMA LandedByPart ==
    ASSUME TypeOK, NEW r \in Restores
    PROVE  Landed(r) <=> /\ Holds(r, "db") => db = r
                         /\ Holds(r, "store") => store = r
  BY LivePieces DEF TypeOK, Landed, Holds

\* Setting one piece aside changes that piece of that restore.
LEMMA Kept ==
    ASSUME TypeOK, NEW r \in Restores, NEW piece \in Pieces, NEW what,
           what \in Generations \union {None, Stray}, Keeps(r, piece, what)
    PROVE  /\ aside' \in
                  [Restores -> [Pieces -> Generations \union {None, Stray}]]
           /\ aside'[r][piece] = what
           /\ \A p \in Pieces \ {piece} : aside'[r][p] = aside[r][p]
           /\ \A s \in Restores \ {r} : aside'[s] = aside[s]
  BY DEF TypeOK, Keeps

\* The pieces by name.
LEMMA PieceNames ==
    /\ "db" \in Pieces /\ "journal" \in Pieces /\ "store" \in Pieces
    /\ Pieces = {"db", "journal", "store"}
  BY DEF Pieces

\* A step to another place moves one restore.
LEMMA Gone ==
    ASSUME TypeOK, NEW r \in Restores, NEW step \in Steps, Goes(r, step)
    PROVE  /\ pc' \in [Restores -> Steps] /\ pc'[r] = step
           /\ \A s \in Restores \ {r} : pc'[s] = pc[s]
  BY DEF TypeOK, Goes

LEMMA StepNames ==
    Steps = {"idle", "stage", "mark", "dbAside", "journalAside", "dbSwap",
             "check", "storeAside", "storeSwap", "dbBack", "journalBack",
             "storeBack", "dbBackToo", "journalBackToo", "unmark", "done"}
  BY DEF Steps

\* While one restore is at work, no other is.
LEMMA Alone ==
    ASSUME IInv, NEW r \in Restores, Active(r)
    PROVE  /\ \A s \in Restores \ {r} : pc[s] \in {"idle", "done"}
           /\ Busy = {r}
  BY DEF IInv, OneAtWork, Active, Busy

LEMMA Nobody ==
    Busy = {} <=> \A r \in Restores : ~Active(r)
  BY DEF Busy, Active

----------------------------------------------------------------------------
(* A step of a restore that has marked, or marks now, and goes on. *)

\* Such a step changes the place, the rollback and the aside of that restore
\* only, so the invariant is kept if what it says of that restore is.
LEMMA GoesOn ==
    ASSUME IInv, NEW r \in Restores, Active(r),
           TypeOK', UNCHANGED <<parts, agreed, missed>>, marker' = {r},
           pc'[r] \notin {"idle", "stage", "mark"},
           \A s \in Restores \ {r} :
               pc'[s] = pc[s] /\ aside'[s] = aside[s] /\ clean'[s] = clean[s],
           Accounted(r)', DbAt(r)', StoreAt(r)', PartsAt(r)', EndAt(r)'
    PROVE  IInv'
  <1>1. \A s \in Restores \ {r} : pc[s] \in {"idle", "done"}
    BY Alone
  <1>2. (\A s \in Restores : parts[s] # {})'
    BY DEF IInv
  <1>3. AgreedIsSound'
    BY DEF IInv, AgreedIsSound, Holds
  <1>4. OneAtWork'
    BY <1>1 DEF IInv, OneAtWork, Active
  <1>5. Untouched'
    BY <1>1 DEF IInv, Untouched, NothingAside, Active
  <1>6. (\A s \in marker : Accounted(s))'
    OBVIOUS
  <1>7. (\A s \in Restores : DbAt(s) /\ StoreAt(s) /\ PartsAt(s) /\ EndAt(s))'
    <2>1. ASSUME NEW s \in Restores, s # r
          PROVE  DbAt(s)' /\ StoreAt(s)' /\ PartsAt(s)' /\ EndAt(s)'
      <3>1. pc'[s] \in {"idle", "done"}
        BY <1>1, <2>1
      <3> QED
        BY <3>1 DEF DbAt, StoreAt, PartsAt, EndAt
    <2> QED
      BY <2>1
  <1> QED
    BY <1>2, <1>3, <1>4, <1>5, <1>6, <1>7 DEF IInv

\* What is known at a step after the marker, of the restore that is at work.
LEMMA Known ==
    ASSUME IInv, NEW r \in Restores, Active(r), pc[r] \notin {"stage", "mark"}
    PROVE  /\ TypeOK /\ AgreedIsSound /\ marker = {r}
           /\ Accounted(r) /\ DbAt(r) /\ StoreAt(r) /\ PartsAt(r) /\ EndAt(r)
  BY DEF IInv, OneAtWork

\* A move that fails before anything has moved ends the restore as it is.
LEMMA Stops ==
    ASSUME IInv, NEW r \in Restores, Active(r), pc[r] \notin {"stage", "mark"},
           Raises(r), UNCHANGED <<live, aside, marker, parts, clean, down,
                                  agreed, missed>>
    PROVE  IInv'
  <1>1. /\ TypeOK /\ AgreedIsSound /\ marker = {r} /\ Accounted(r)
    BY Known
  <1>2. /\ pc' \in [Restores -> Steps] /\ pc'[r] = "done"
        /\ \A s \in Restores \ {r} : pc'[s] = pc[s]
    BY <1>1, Gone, StepNames DEF Raises
  <1>3. TypeOK'
    BY <1>1, <1>2 DEF TypeOK, live
  <1>4. Accounted(r)'
    BY <1>1 DEF Accounted, Holds, live
  <1>5. DbAt(r)' /\ StoreAt(r)' /\ PartsAt(r)' /\ EndAt(r)'
    BY <1>2 DEF DbAt, StoreAt, PartsAt, EndAt
  <1> QED
    BY <1>1, <1>2, <1>3, <1>4, <1>5, GoesOn DEF live

LEMMA MarkStep ==
    ASSUME Careful, IInv, NEW r \in Restores, Mark(r)
    PROVE  IInv'
  <1>1. /\ Active(r) /\ pc[r] = "mark" /\ marker' = {r}
        /\ UNCHANGED <<db, journal, store, aside, parts, clean, down, agreed,
                       missed>>
    BY DEF Mark, Active, IInv, OneAtWork, Careful, live
  <1>2. TypeOK /\ AgreedIsSound /\ DbUntouched(r) /\ parts[r] # {}
        /\ store = agreed["store"] /\ aside[r]["store"] = None
    BY <1>1 DEF IInv, DbAt, StoreAt
  <1>3. /\ pc' \in [Restores -> Steps]
        /\ pc'[r] = IF Holds(r, "db") THEN "dbAside" ELSE "storeAside"
        /\ \A s \in Restores \ {r} : pc'[s] = pc[s]
    BY <1>2, Gone, StepNames DEF Mark
  <1>4. TypeOK'
    BY <1>1, <1>2, <1>3 DEF TypeOK
  <1>5. Holds(r, "db") \/ Holds(r, "store")
    BY <1>2 DEF TypeOK, Holds
  <1>6. Accounted(r)'
    BY <1>1, <1>2 DEF Accounted, DbUntouched, AgreedIsSound
  <1>7. DbAt(r)' /\ StoreAt(r)' /\ PartsAt(r)' /\ EndAt(r)'
    BY <1>1, <1>2, <1>3, <1>5
    DEF DbAt, StoreAt, PartsAt, EndAt, DbUntouched, Holds
  <1> QED
    BY <1>1, <1>3, <1>4, <1>6, <1>7, GoesOn

LEMMA DbAsideStep ==
    ASSUME IInv, NEW r \in Restores, DbAside(r)
    PROVE  IInv'
  <1>1. Active(r) /\ pc[r] = "dbAside"
    BY DEF DbAside, Active
  <1>2. /\ TypeOK /\ AgreedIsSound /\ marker = {r}
        /\ DbAt(r) /\ StoreAt(r) /\ PartsAt(r)
    BY <1>1, Known
  <1>3. CASE Raises(r) /\ UNCHANGED <<db, aside>>
    BY <1>1, <1>3, Stops DEF DbAside, live
  <1>4. CASE Keeps(r, "db", db) /\ db' = None /\ Goes(r, "journalAside")
    <2>1. UNCHANGED <<journal, store, marker, parts, clean, down, agreed,
                      missed>>
      BY DEF DbAside
    <2>2. /\ aside' \in
                 [Restores -> [Pieces -> Generations \union {None, Stray}]]
          /\ aside'[r]["db"] = db
          /\ aside'[r]["journal"] = aside[r]["journal"]
          /\ aside'[r]["store"] = aside[r]["store"]
          /\ \A s \in Restores \ {r} : aside'[s] = aside[s]
      <3>1. db \in Generations \union {None, Stray}
        BY <1>2 DEF TypeOK
      <3> QED
        BY <1>2, <1>4, <3>1, Kept, PieceNames
    <2>3. /\ pc' \in [Restores -> Steps] /\ pc'[r] = "journalAside"
          /\ \A s \in Restores \ {r} : pc'[s] = pc[s]
      BY <1>2, <1>4, Gone, StepNames
    <2>4. TypeOK'
      BY <1>2, <1>4, <2>1, <2>2, <2>3 DEF TypeOK
    <2>5. DbAt(r)' /\ StoreAt(r)' /\ PartsAt(r)' /\ EndAt(r)'
      BY <1>1, <1>2, <1>4, <2>1, <2>2, <2>3
      DEF DbAt, StoreAt, PartsAt, EndAt, DbUntouched, Holds
    <2>6. Accounted(r)'
      BY <1>1, <1>2, <1>4, <2>1, <2>2
      DEF Accounted, DbAt, StoreAt, PartsAt, DbUntouched, AgreedIsSound, Holds
    <2> QED
      BY <1>1, <1>2, <2>1, <2>2, <2>3, <2>4, <2>5, <2>6, GoesOn
  <1> QED
    BY <1>3, <1>4 DEF DbAside

LEMMA JournalAsideStep ==
    ASSUME IInv, NEW r \in Restores, JournalAside(r)
    PROVE  IInv'
  <1>1. Active(r) /\ pc[r] = "journalAside"
    BY DEF JournalAside, Active
  <1>2. /\ TypeOK /\ AgreedIsSound /\ marker = {r}
        /\ DbAt(r) /\ StoreAt(r) /\ PartsAt(r)
    BY <1>1, Known
  <1>3. CASE Raises(r) /\ UNCHANGED <<journal, aside>>
    BY <1>1, <1>3, Stops DEF JournalAside, live
  <1>4. CASE Keeps(r, "journal", journal) /\ journal' = None /\ Goes(r, "dbSwap")
    <2>1. UNCHANGED <<db, store, marker, parts, clean, down, agreed, missed>>
      BY DEF JournalAside
    <2>2. /\ aside' \in
                 [Restores -> [Pieces -> Generations \union {None, Stray}]]
          /\ aside'[r]["journal"] = journal
          /\ aside'[r]["db"] = aside[r]["db"]
          /\ aside'[r]["store"] = aside[r]["store"]
          /\ \A s \in Restores \ {r} : aside'[s] = aside[s]
      <3>1. journal \in Generations \union {None, Stray}
        BY <1>2 DEF TypeOK
      <3> QED
        BY <1>2, <1>4, <3>1, Kept, PieceNames
    <2>3. /\ pc' \in [Restores -> Steps] /\ pc'[r] = "dbSwap"
          /\ \A s \in Restores \ {r} : pc'[s] = pc[s]
      BY <1>2, <1>4, Gone, StepNames
    <2>4. TypeOK'
      BY <1>2, <1>4, <2>1, <2>2, <2>3 DEF TypeOK
    <2>5. DbAt(r)' /\ StoreAt(r)' /\ PartsAt(r)' /\ EndAt(r)'
      BY <1>1, <1>2, <1>4, <2>1, <2>2, <2>3
      DEF DbAt, StoreAt, PartsAt, EndAt, DbMoved, Holds
    <2>6. Accounted(r)'
      BY <1>1, <1>2, <1>4, <2>1, <2>2
      DEF Accounted, DbAt, StoreAt, PartsAt, AgreedIsSound, Holds
    <2> QED
      BY <1>1, <1>2, <2>1, <2>2, <2>3, <2>4, <2>5, <2>6, GoesOn
  <1> QED
    BY <1>3, <1>4 DEF JournalAside

LEMMA DbSwapStep ==
    ASSUME IInv, NEW r \in Restores, DbSwap(r)
    PROVE  IInv'
  <1>1. /\ Active(r) /\ pc[r] = "dbSwap"
        /\ UNCHANGED <<journal, store, aside, marker, parts, clean, down,
                       agreed, missed>>
    BY DEF DbSwap, Active
  <1>2. /\ TypeOK /\ AgreedIsSound /\ marker = {r}
        /\ DbAt(r) /\ StoreAt(r) /\ PartsAt(r)
    BY <1>1, Known
  <1>3. PICK step \in {"check", "dbBack"} :
            Goes(r, step) /\ db' = IF step = "check" THEN r ELSE db
    BY DEF DbSwap
  <1>4. /\ pc' \in [Restores -> Steps] /\ pc'[r] = step
        /\ \A s \in Restores \ {r} : pc'[s] = pc[s]
    BY <1>2, <1>3, Gone, StepNames
  <1>5. TypeOK'
    BY <1>1, <1>2, <1>3, <1>4, Apart DEF TypeOK
  <1>6. DbAt(r)' /\ StoreAt(r)' /\ PartsAt(r)' /\ EndAt(r)'
    BY <1>1, <1>2, <1>3, <1>4
    DEF DbAt, StoreAt, PartsAt, EndAt, DbMoved, Holds
  <1>7. Accounted(r)'
    BY <1>1, <1>2, <1>3
    DEF Accounted, DbAt, StoreAt, PartsAt, DbMoved, AgreedIsSound, Holds
  <1> QED
    BY <1>1, <1>2, <1>4, <1>5, <1>6, <1>7, GoesOn

\* A move back leaves the other pieces and restores alone; it found nothing,
\* or took the piece, or failed and noted an error.
MovedBack(r, piece, now, next) ==
    /\ aside' \in [Restores -> [Pieces -> Generations \union {None, Stray}]]
    /\ clean' \in [Restores -> BOOLEAN]
    /\ \A p \in Pieces \ {piece} : aside'[r][p] = aside[r][p]
    /\ \A s \in Restores \ {r} : aside'[s] = aside[s] /\ clean'[s] = clean[s]
    /\ \/ /\ aside[r][piece] = None /\ aside'[r][piece] = None
          /\ clean'[r] = clean[r] /\ next = now
       \/ /\ aside[r][piece] # None /\ aside'[r][piece] = None
          /\ clean'[r] = clean[r] /\ next = aside[r][piece]
       \/ /\ aside[r][piece] # None /\ aside'[r][piece] = aside[r][piece]
          /\ ~clean'[r] /\ next = now

LEMMA Back ==
    ASSUME TypeOK, NEW r \in Restores, NEW piece \in Pieces, NEW now, NEW next,
           \/ aside[r][piece] = None /\ next = now /\ UNCHANGED <<aside,
                                                                  clean>>
           \/ /\ aside[r][piece] # None /\ next = aside[r][piece]
              /\ Keeps(r, piece, None) /\ UNCHANGED clean
           \/ /\ aside[r][piece] # None /\ next = now /\ UNCHANGED aside
              /\ clean' = [clean EXCEPT ![r] = FALSE]
    PROVE  MovedBack(r, piece, now, next)
  <1>1. CASE Keeps(r, piece, None) /\ UNCHANGED clean
    BY <1>1, Kept DEF TypeOK, MovedBack
  <1>2. CASE aside' = aside
    <2>1. aside' \in [Restores -> [Pieces -> Generations \union {None, Stray}]]
      BY <1>2 DEF TypeOK
    <2>2. /\ clean' \in [Restores -> BOOLEAN]
          /\ \A s \in Restores \ {r} : clean'[s] = clean[s]
          /\ \/ aside[r][piece] = None /\ next = now /\ clean'[r] = clean[r]
             \/ aside[r][piece] # None /\ next = now /\ clean'[r] = FALSE
             \/ Keeps(r, piece, None) /\ UNCHANGED clean
      BY DEF TypeOK
    <2> QED
      BY <1>1, <1>2, <2>1, <2>2 DEF MovedBack
  <1> QED
    BY <1>1, <1>2

LEMMA DbBackStep ==
    ASSUME IInv, NEW r \in Restores, DbBack(r)
    PROVE  IInv'
  <1>1. /\ Active(r) /\ pc[r] = "dbBack"
        /\ UNCHANGED <<journal, store, marker, parts, down, agreed, missed>>
    BY DEF DbBack, Active
  <1>2. /\ TypeOK /\ AgreedIsSound /\ marker = {r}
        /\ DbAt(r) /\ StoreAt(r) /\ PartsAt(r)
    BY <1>1, Known
  <1>3. MovedBack(r, "db", db, db')
    BY <1>2, Back, PieceNames DEF DbBack, MovesBack
  <1>4. /\ pc' \in [Restores -> Steps] /\ pc'[r] = "journalBack"
        /\ \A s \in Restores \ {r} : pc'[s] = pc[s]
    BY <1>2, Gone, StepNames DEF DbBack
  <1>5. DbMoved(r, None)
    BY <1>1, <1>2 DEF DbAt
  <1>6. TypeOK'
    BY <1>1, <1>2, <1>3, <1>4, <1>5
    DEF TypeOK, MovedBack, DbMoved, AgreedIsSound
  <1>7. DbAt(r)' /\ StoreAt(r)' /\ PartsAt(r)' /\ EndAt(r)'
    BY <1>1, <1>2, <1>3, <1>4, <1>5, PieceNames
    DEF DbAt, StoreAt, PartsAt, EndAt, DbMoved, Holds, MovedBack
  <1>8. Accounted(r)'
    BY <1>1, <1>2, <1>3, <1>5, PieceNames
    DEF Accounted, StoreAt, PartsAt, DbMoved, AgreedIsSound, Holds, MovedBack
  <1> QED
    BY <1>1, <1>2, <1>3, <1>4, <1>6, <1>7, <1>8, GoesOn DEF MovedBack

LEMMA JournalBackStep ==
    ASSUME IInv, NEW r \in Restores, JournalBack(r)
    PROVE  IInv'
  <1>1. /\ Active(r) /\ pc[r] = "journalBack"
        /\ UNCHANGED <<db, store, marker, parts, down, agreed, missed>>
    BY DEF JournalBack, Active
  <1>2. /\ TypeOK /\ AgreedIsSound /\ marker = {r}
        /\ DbAt(r) /\ StoreAt(r) /\ PartsAt(r) /\ Accounted(r)
    BY <1>1, Known
  <1>3. MovedBack(r, "journal", journal, journal')
    BY <1>2, Back, PieceNames DEF JournalBack, MovesBack
  <1>4. /\ pc' \in [Restores -> Steps] /\ pc'[r] = "unmark"
        /\ \A s \in Restores \ {r} : pc'[s] = pc[s]
    BY <1>2, Gone, StepNames DEF JournalBack
  <1>5. /\ journal = None /\ aside[r]["journal"] = agreed["journal"]
        /\ \/ db = agreed["db"]
           \/ db = None /\ aside[r]["db"] = agreed["db"] /\ ~clean[r]
        /\ store = agreed["store"] /\ aside[r]["store"] = None
        /\ Holds(r, "db")
    BY <1>1, <1>2 DEF DbAt, StoreAt, PartsAt
  <1>6. TypeOK'
    BY <1>1, <1>2, <1>3, <1>4, <1>5
    DEF TypeOK, MovedBack, AgreedIsSound
  <1>7. DbAt(r)' /\ StoreAt(r)' /\ PartsAt(r)'
    BY <1>4 DEF DbAt, StoreAt, PartsAt
  <1>8. EndAt(r)'
    BY <1>1, <1>3, <1>5 DEF EndAt, LiveIsAgreed, MovedBack
  <1>9. Accounted(r)'
    BY <1>1, <1>2, <1>3, <1>5, PieceNames
    DEF Accounted, AgreedIsSound, Holds, MovedBack
  <1> QED
    BY <1>1, <1>2, <1>3, <1>4, <1>6, <1>7, <1>8, <1>9, GoesOn DEF MovedBack

LEMMA CheckStep ==
    ASSUME IInv, NEW r \in Restores, Check(r)
    PROVE  IInv'
  <1>1. /\ Active(r) /\ pc[r] = "check"
        /\ UNCHANGED <<live, aside, marker, parts, clean, down, agreed,
                       missed>>
        /\ UNCHANGED <<db, journal, store>>
    BY DEF Check, Active, live
  <1>2. /\ TypeOK /\ AgreedIsSound /\ marker = {r}
        /\ DbAt(r) /\ StoreAt(r) /\ PartsAt(r) /\ Accounted(r)
    BY <1>1, Known
  <1>3. CASE Raises(r)
    BY <1>1, <1>3, Stops
  <1>4. CASE Goes(r, IF Holds(r, "store") THEN "storeAside" ELSE "unmark")
    <2>1. /\ pc' \in [Restores -> Steps]
          /\ pc'[r] = IF Holds(r, "store") THEN "storeAside" ELSE "unmark"
          /\ \A s \in Restores \ {r} : pc'[s] = pc[s]
      BY <1>2, <1>4, Gone, StepNames
    <2>2. TypeOK'
      BY <1>1, <1>2, <2>1 DEF TypeOK
    <2>3. DbAt(r)' /\ StoreAt(r)' /\ PartsAt(r)'
      BY <1>1, <1>2, <2>1 DEF DbAt, StoreAt, PartsAt, DbMoved, Holds
    <2>4. ~Holds(r, "store") => Landed(r)'
      <3>1. db' = r
        BY <1>1, <1>2 DEF DbAt, DbMoved
      <3>2. \A part \in parts'[r] : part \in {"db", "store"}
        BY <1>1, <1>2 DEF TypeOK
      <3> QED
        BY <1>1, <3>1, <3>2 DEF Landed, Live, Pieces, Holds
    <2>5. EndAt(r)'
      BY <1>1, <2>1, <2>4 DEF EndAt
    <2>6. Accounted(r)'
      BY <1>1, <1>2 DEF Accounted, Holds
    <2> QED
      BY <1>1, <1>2, <2>1, <2>2, <2>3, <2>5, <2>6, GoesOn
  <1> QED
    BY <1>3, <1>4 DEF Check

LEMMA StoreAsideStep ==
    ASSUME IInv, NEW r \in Restores, StoreAside(r)
    PROVE  IInv'
  <1>1. Active(r) /\ pc[r] = "storeAside"
    BY DEF StoreAside, Active
  <1>2. /\ TypeOK /\ AgreedIsSound /\ marker = {r}
        /\ DbAt(r) /\ StoreAt(r) /\ PartsAt(r) /\ Accounted(r)
    BY <1>1, Known
  <1>3. CASE Raises(r) /\ UNCHANGED <<store, aside>>
    BY <1>1, <1>3, Stops DEF StoreAside, live
  <1>4. CASE Keeps(r, "store", store) /\ store' = None /\ Goes(r, "storeSwap")
    <2>1. UNCHANGED <<db, journal, marker, parts, clean, down, agreed, missed>>
      BY DEF StoreAside
    <2>2. /\ aside' \in
                 [Restores -> [Pieces -> Generations \union {None, Stray}]]
          /\ aside'[r]["store"] = store
          /\ aside'[r]["db"] = aside[r]["db"]
          /\ aside'[r]["journal"] = aside[r]["journal"]
          /\ \A s \in Restores \ {r} : aside'[s] = aside[s]
      <3>1. store \in Generations \union {None, Stray}
        BY <1>2 DEF TypeOK
      <3> QED
        BY <1>2, <1>4, <3>1, Kept, PieceNames
    <2>3. /\ pc' \in [Restores -> Steps] /\ pc'[r] = "storeSwap"
          /\ \A s \in Restores \ {r} : pc'[s] = pc[s]
      BY <1>2, <1>4, Gone, StepNames
    <2>4. TypeOK'
      BY <1>2, <1>4, <2>1, <2>2, <2>3 DEF TypeOK
    <2>5. DbAt(r)' /\ StoreAt(r)' /\ PartsAt(r)' /\ EndAt(r)'
      BY <1>1, <1>2, <1>4, <2>1, <2>2, <2>3
      DEF DbAt, StoreAt, PartsAt, EndAt, DbUntouched, DbMoved, Holds
    <2>6. Accounted(r)'
      BY <1>1, <1>2, <1>4, <2>1, <2>2
      DEF Accounted, DbAt, StoreAt, PartsAt, DbUntouched, DbMoved, Holds
    <2> QED
      BY <1>1, <1>2, <2>1, <2>2, <2>3, <2>4, <2>5, <2>6, GoesOn
  <1> QED
    BY <1>3, <1>4 DEF StoreAside

LEMMA StoreSwapStep ==
    ASSUME IInv, NEW r \in Restores, StoreSwap(r)
    PROVE  IInv'
  <1>1. /\ Active(r) /\ pc[r] = "storeSwap"
        /\ UNCHANGED <<db, journal, aside, marker, parts, clean, down, agreed,
                       missed>>
    BY DEF StoreSwap, Active
  <1>2. /\ TypeOK /\ AgreedIsSound /\ marker = {r}
        /\ DbAt(r) /\ StoreAt(r) /\ PartsAt(r) /\ Accounted(r)
    BY <1>1, Known
  <1>3. PICK step \in {"unmark", "storeBack"} :
            Goes(r, step) /\ store' = IF step = "unmark" THEN r ELSE store
    BY DEF StoreSwap
  <1>4. /\ pc' \in [Restores -> Steps] /\ pc'[r] = step
        /\ \A s \in Restores \ {r} : pc'[s] = pc[s]
    BY <1>2, <1>3, Gone, StepNames
  <1>5. TypeOK'
    BY <1>1, <1>2, <1>3, <1>4, Apart DEF TypeOK
  <1>6. DbAt(r)' /\ StoreAt(r)' /\ PartsAt(r)'
    BY <1>1, <1>2, <1>3, <1>4
    DEF DbAt, StoreAt, PartsAt, DbMoved, DbUntouched, Holds
  <1>7. EndAt(r)'
    <2>1. SUFFICES ASSUME step = "unmark"
                   PROVE  Landed(r)'
      BY <1>3, <1>4 DEF EndAt
    <2>2. Holds(r, "db") => db = r
      BY <1>1, <1>2 DEF DbAt, DbMoved
    <2>3. \A part \in parts'[r] : part \in {"db", "store"}
      BY <1>1, <1>2 DEF TypeOK
    <2> QED
      BY <1>1, <1>3, <2>1, <2>2, <2>3 DEF Landed, Live, Pieces, Holds
  <1>8. Accounted(r)'
    BY <1>1, <1>2, <1>3
    DEF Accounted, DbAt, StoreAt, PartsAt, DbMoved, DbUntouched, Holds
  <1> QED
    BY <1>1, <1>2, <1>4, <1>5, <1>6, <1>7, <1>8, GoesOn

LEMMA StoreBackStep ==
    ASSUME IInv, NEW r \in Restores, StoreBack(r)
    PROVE  IInv'
  <1>1. /\ Active(r) /\ pc[r] = "storeBack"
        /\ UNCHANGED <<db, journal, marker, parts, down, agreed, missed>>
    BY DEF StoreBack, Active
  <1>2. /\ TypeOK /\ AgreedIsSound /\ marker = {r}
        /\ DbAt(r) /\ StoreAt(r) /\ PartsAt(r) /\ Accounted(r)
    BY <1>1, Known
  <1>3. MovedBack(r, "store", store, store')
    BY <1>2, Back, PieceNames DEF StoreBack, MovesBack
  <1>4. /\ pc' \in [Restores -> Steps]
        /\ pc'[r] = IF Holds(r, "db") /\ aside[r]["db"] # None
                    THEN "dbBackToo" ELSE "unmark"
        /\ \A s \in Restores \ {r} : pc'[s] = pc[s]
    BY <1>2, Gone, StepNames DEF StoreBack, AfterStoreBack
  <1>5. /\ IF Holds(r, "db") THEN DbMoved(r, r) ELSE DbUntouched(r)
        /\ store \in {None, Stray} /\ aside[r]["store"] = agreed["store"]
        /\ Holds(r, "store")
    BY <1>1, <1>2 DEF DbAt, StoreAt, PartsAt
  <1>6. Holds(r, "db") => agreed["db"] # None
    BY <1>2, <1>5 DEF AgreedIsSound
  <1>7. agreed["store"] # None
    BY <1>2, Apart DEF AgreedIsSound
  <1>8. TypeOK'
    BY <1>1, <1>2, <1>3, <1>4, <1>5 DEF TypeOK, MovedBack, AgreedIsSound
  <1>9. DbAt(r)' /\ StoreAt(r)' /\ PartsAt(r)'
    BY <1>1, <1>3, <1>4, <1>5, <1>7, PieceNames
    DEF DbAt, StoreAt, PartsAt, DbMoved, Holds, MovedBack
  <1>10. EndAt(r)'
    BY <1>1, <1>3, <1>4, <1>5, <1>6, <1>7
    DEF EndAt, LiveIsAgreed, MovedBack, DbMoved, DbUntouched
  <1>11. Accounted(r)'
    BY <1>1, <1>2, <1>3, <1>5, <1>7, PieceNames
    DEF Accounted, DbMoved, DbUntouched, Holds, MovedBack
  <1> QED
    BY <1>1, <1>2, <1>3, <1>4, <1>8, <1>9, <1>10, <1>11, GoesOn DEF MovedBack

LEMMA DbBackTooStep ==
    ASSUME IInv, NEW r \in Restores, DbBackToo(r)
    PROVE  IInv'
  <1>1. /\ Active(r) /\ pc[r] = "dbBackToo"
        /\ UNCHANGED <<journal, store, marker, parts, down, agreed, missed>>
    BY DEF DbBackToo, Active
  <1>2. /\ TypeOK /\ AgreedIsSound /\ marker = {r}
        /\ DbAt(r) /\ StoreAt(r) /\ PartsAt(r) /\ Accounted(r)
    BY <1>1, Known
  <1>3. MovedBack(r, "db", db, db')
    BY <1>2, Back, PieceNames DEF DbBackToo, MovesBack
  <1>4. /\ pc' \in [Restores -> Steps]
        /\ pc'[r] = IF aside'[r]["db"] = None THEN "journalBackToo" ELSE "unmark"
        /\ \A s \in Restores \ {r} : pc'[s] = pc[s]
    BY <1>2, Gone, StepNames DEF DbBackToo
  <1>5. /\ DbMoved(r, r) /\ Holds(r, "db") /\ Holds(r, "store")
        /\ \/ store = agreed["store"]
           \/ store \in {None, Stray} /\ aside[r]["store"] = agreed["store"]
              /\ ~clean[r]
    BY <1>1, <1>2 DEF DbAt, StoreAt, PartsAt
  <1>6. agreed["db"] # None
    BY <1>2, <1>5 DEF AgreedIsSound
  <1>7. TypeOK'
    BY <1>1, <1>2, <1>3, <1>4, <1>5
    DEF TypeOK, MovedBack, DbMoved, AgreedIsSound
  <1>8. DbAt(r)' /\ StoreAt(r)' /\ PartsAt(r)'
    BY <1>1, <1>3, <1>4, <1>5, <1>6, PieceNames
    DEF DbAt, StoreAt, PartsAt, DbMoved, Holds, MovedBack
  <1>9. EndAt(r)'
    BY <1>3, <1>4, <1>5, <1>6 DEF EndAt, DbMoved, MovedBack
  <1>10. Accounted(r)'
    BY <1>1, <1>2, <1>3, <1>5, <1>6, PieceNames
    DEF Accounted, DbMoved, Holds, MovedBack
  <1> QED
    BY <1>1, <1>2, <1>3, <1>4, <1>7, <1>8, <1>9, <1>10, GoesOn DEF MovedBack

LEMMA JournalBackTooStep ==
    ASSUME IInv, NEW r \in Restores, JournalBackToo(r)
    PROVE  IInv'
  <1>1. /\ Active(r) /\ pc[r] = "journalBackToo"
        /\ UNCHANGED <<db, store, marker, parts, down, agreed, missed>>
    BY DEF JournalBackToo, Active
  <1>2. /\ TypeOK /\ AgreedIsSound /\ marker = {r}
        /\ DbAt(r) /\ StoreAt(r) /\ PartsAt(r) /\ Accounted(r)
    BY <1>1, Known
  <1>3. MovedBack(r, "journal", journal, journal')
    BY <1>2, Back, PieceNames DEF JournalBackToo, MovesBack
  <1>4. /\ pc' \in [Restores -> Steps] /\ pc'[r] = "unmark"
        /\ \A s \in Restores \ {r} : pc'[s] = pc[s]
    BY <1>2, Gone, StepNames DEF JournalBackToo
  <1>5. /\ journal = None /\ aside[r]["journal"] = agreed["journal"]
        /\ db = agreed["db"] /\ Holds(r, "db") /\ Holds(r, "store")
        /\ \/ store = agreed["store"]
           \/ store \in {None, Stray} /\ aside[r]["store"] = agreed["store"]
              /\ ~clean[r]
    BY <1>1, <1>2 DEF DbAt, StoreAt, PartsAt
  <1>6. TypeOK'
    BY <1>1, <1>2, <1>3, <1>4, <1>5 DEF TypeOK, MovedBack, AgreedIsSound
  <1>7. DbAt(r)' /\ StoreAt(r)' /\ PartsAt(r)'
    BY <1>4 DEF DbAt, StoreAt, PartsAt
  <1>8. EndAt(r)'
    BY <1>1, <1>3, <1>5 DEF EndAt, LiveIsAgreed, MovedBack
  <1>9. Accounted(r)'
    BY <1>1, <1>2, <1>3, <1>5, PieceNames
    DEF Accounted, Holds, MovedBack
  <1> QED
    BY <1>1, <1>2, <1>3, <1>4, <1>6, <1>7, <1>8, <1>9, GoesOn DEF MovedBack

----------------------------------------------------------------------------
(* The beginning and the end of a restore, and what happens around it. *)

\* The files between restores, where nothing is marked.
LEMMA Quiet ==
    ASSUME IInv, Busy = {}, marker = {}
    PROVE  LiveIsAgreed
  BY Nobody DEF IInv, Untouched

\* Not even a restore that is staging has touched them.
LEMMA Unmarked ==
    ASSUME IInv, marker = {}
    PROVE  LiveIsAgreed
  <1>1. CASE Busy = {}
    BY <1>1, Quiet
  <1>2. CASE Busy # {}
    <2>1. PICK r \in Restores : Active(r)
      BY <1>2, Nobody
    <2>2. pc[r] \in {"stage", "mark"}
      BY <2>1 DEF IInv, OneAtWork
    <2> QED
      BY <2>2 DEF IInv, DbAt, StoreAt, DbUntouched, LiveIsAgreed
  <1> QED
    BY <1>1, <1>2

\* Who goes on without having missed a marker found them all.
LEMMA SeesAll ==
    ASSUME NEW found, NEW who, Sees(found, who), found = {}, missed' = {}
    PROVE  marker = {} /\ missed = {}
  BY DEF Sees

LEMMA BeginStep ==
    ASSUME Careful, IInv, missed' = {}, NEW r \in Restores, Begin(r)
    PROVE  IInv'
  <1>1. /\ pc[r] = "idle" /\ Busy = {}
        /\ UNCHANGED <<db, journal, store, aside, marker, parts, clean, down,
                       agreed>>
    BY DEF Begin, MayBegin, Careful, live
  <1>0. marker = {}
    BY SeesAll DEF Begin, MayBegin
  <1>2. /\ TypeOK /\ LiveIsAgreed /\ NothingAside(r) /\ clean[r]
    BY <1>0, <1>1, Quiet DEF IInv, Untouched
  <1>3. /\ pc' \in [Restores -> Steps] /\ pc'[r] = "stage"
        /\ \A s \in Restores \ {r} : pc'[s] = pc[s]
    BY <1>2, Gone, StepNames DEF Begin
  <1>4. \A s \in Restores : pc[s] \in {"idle", "done"}
    BY <1>1 DEF Busy
  <1>5. TypeOK' /\ (\A s \in Restores : parts[s] # {})' /\ AgreedIsSound'
    BY <1>1, <1>2, <1>3 DEF IInv, TypeOK, AgreedIsSound, Holds
  <1>6. OneAtWork'
    BY <1>0, <1>1, <1>3, <1>4 DEF OneAtWork, Active
  <1>7. Untouched'
    BY <1>1, <1>2, <1>3, <1>4 DEF IInv, Untouched, NothingAside, LiveIsAgreed
  <1>8. ASSUME NEW s \in Restores
        PROVE  DbAt(s)' /\ StoreAt(s)' /\ PartsAt(s)' /\ EndAt(s)'
    <2>1. CASE s = r
      BY <1>1, <1>2, <1>3, <2>1
      DEF DbAt, StoreAt, PartsAt, EndAt, DbUntouched, LiveIsAgreed, NothingAside
    <2>2. CASE s # r
      BY <1>3, <1>4, <2>2 DEF DbAt, StoreAt, PartsAt, EndAt
    <2> QED
      BY <2>1, <2>2
  <1> QED
    BY <1>0, <1>1, <1>5, <1>6, <1>7, <1>8 DEF IInv

LEMMA StageStep ==
    ASSUME IInv, NEW r \in Restores, Stage(r)
    PROVE  IInv'
  <1>1. /\ pc[r] = "stage" /\ Active(r) /\ marker = {}
        /\ UNCHANGED <<db, journal, store, aside, marker, parts, clean, down,
                       agreed, missed>>
    BY DEF Stage, IInv, OneAtWork, Active, live
  <1>2. TypeOK /\ DbUntouched(r) /\ store = agreed["store"]
        /\ aside[r]["store"] = None
    BY <1>1 DEF IInv, DbAt, StoreAt
  <1>3. PICK step \in {"mark", "done"} :
            /\ pc' \in [Restores -> Steps] /\ pc'[r] = step
            /\ \A s \in Restores \ {r} : pc'[s] = pc[s]
    BY <1>2, Gone, StepNames DEF Stage, Raises
  <1>4. \A s \in Restores \ {r} : pc[s] \in {"idle", "done"}
    BY <1>1, Alone
  <1>5. TypeOK' /\ (\A s \in Restores : parts[s] # {})' /\ AgreedIsSound'
    BY <1>1, <1>2, <1>3 DEF IInv, TypeOK, AgreedIsSound, Holds
  <1>6. OneAtWork'
    BY <1>1, <1>3, <1>4 DEF OneAtWork, Active
  <1>7. Untouched'
    BY <1>1, <1>2, <1>3, <1>4
    DEF IInv, Untouched, NothingAside, LiveIsAgreed, DbUntouched
  <1>8. ASSUME NEW s \in Restores
        PROVE  DbAt(s)' /\ StoreAt(s)' /\ PartsAt(s)' /\ EndAt(s)'
    <2>1. CASE s = r
      BY <1>1, <1>2, <1>3, <2>1 DEF DbAt, StoreAt, PartsAt, EndAt, DbUntouched
    <2>2. CASE s # r
      BY <1>3, <1>4, <2>2 DEF DbAt, StoreAt, PartsAt, EndAt
    <2> QED
      BY <2>1, <2>2
  <1> QED
    BY <1>1, <1>5, <1>6, <1>7, <1>8 DEF IInv

\* What a restore that has landed leaves is consistent in itself.
LEMMA LandedIsSound ==
    ASSUME TypeOK, AgreedIsSound, NEW r \in Restores, Accounted(r), Landed(r),
           agreed' = Live, UNCHANGED parts
    PROVE  AgreedIsSound'
  <1>1. /\ agreed'["db"] = db /\ agreed'["journal"] = journal
        /\ agreed'["store"] = store
    BY LivePieces
  <1>2. /\ Holds(r, "db") => db = r
        /\ Holds(r, "store") => store = r
    BY LandedByPart
  <1>3. store \in Generations
    BY <1>2, Apart DEF Accounted, AgreedIsSound
  <1>4. db # None /\ journal # None => journal = db
    BY DEF Accounted, AgreedIsSound
  <1>5. db = None => agreed["db"] = None
    BY <1>2, Apart DEF Accounted
  <1> QED
    BY <1>1, <1>3, <1>4, <1>5 DEF AgreedIsSound, TypeOK, Holds

LEMMA UnmarkStep ==
    ASSUME IInv, NEW r \in Restores, Unmark(r)
    PROVE  IInv'
  <1>1. /\ pc[r] = "unmark" /\ Active(r)
        /\ UNCHANGED <<db, journal, store, aside, parts, clean, down, missed>>
    BY DEF Unmark, Active, live
  <1>2. /\ TypeOK /\ AgreedIsSound /\ marker = {r} /\ Accounted(r) /\ EndAt(r)
    BY <1>1, Known
  <1>3. /\ pc' \in [Restores -> Steps] /\ pc'[r] = "done"
        /\ \A s \in Restores \ {r} : pc'[s] = pc[s]
    BY <1>2, Gone, StepNames DEF Unmark, Raises
  <1>4. \A s \in Restores : pc'[s] \in {"idle", "done"}
    BY <1>1, <1>3, Alone
  <1>5. agreed' = IF Landed(r) THEN Live ELSE agreed
    BY DEF Unmark
  <1>6. marker' \in {{}, {r}} /\ (marker' = {} => clean[r])
    BY <1>2 DEF Unmark, MayUnmark
  <1>7. Live \in [Pieces -> Generations \union {None, Stray}]
    BY <1>2, LivePieces, PieceNames DEF TypeOK, Live
  <1>8. TypeOK'
    BY <1>1, <1>2, <1>3, <1>5, <1>6, <1>7 DEF TypeOK
  <1>9. AgreedIsSound'
    BY <1>1, <1>2, <1>5, LandedIsSound DEF AgreedIsSound, Holds
  <1>10. OneAtWork'
    BY <1>3, <1>4, <1>6 DEF OneAtWork, Active
  <1>11. marker' = {} => LiveIsAgreed'
    BY <1>1, <1>2, <1>5, <1>6, LivePieces DEF EndAt, LiveIsAgreed
  <1>12. Untouched'
    BY <1>1, <1>3, <1>4, <1>11 DEF IInv, Untouched, NothingAside
  <1>13. Accounted(r)'
    <2>1. CASE Landed(r)
      BY <1>1, <1>2, <1>5, <2>1, LivePieces DEF Accounted, Holds
    <2>2. CASE ~Landed(r)
      BY <1>1, <1>2, <1>5, <2>2 DEF Accounted, Holds
    <2> QED
      BY <2>1, <2>2
  <1>14. (\A s \in Restores : DbAt(s) /\ StoreAt(s) /\ PartsAt(s) /\ EndAt(s))'
    BY <1>4 DEF DbAt, StoreAt, PartsAt, EndAt
  <1> QED
    BY <1>1, <1>6, <1>8, <1>9, <1>10, <1>12, <1>13, <1>14 DEF IInv

LEMMA KillStep ==
    ASSUME IInv, Kill
    PROVE  IInv'
  <1>1. /\ UNCHANGED <<db, journal, store, aside, marker, parts, clean,
                       agreed, missed>>
        /\ down' = TRUE
        /\ pc' = [r \in Restores |-> IF r \in Busy THEN "done" ELSE pc[r]]
    BY DEF Kill, live
  <1>2. \A r \in Restores :
            /\ pc'[r] \in {"idle", "done"}
            /\ pc'[r] = "idle" => pc[r] = "idle"
    BY <1>1 DEF Busy
  <1>3. TypeOK' /\ (\A s \in Restores : parts[s] # {})' /\ AgreedIsSound'
    BY <1>1, <1>2, StepNames DEF IInv, TypeOK, AgreedIsSound, Holds
  <1>4. OneAtWork'
    BY <1>1, <1>2 DEF IInv, OneAtWork, Active
  <1>5. marker = {} => LiveIsAgreed
    BY Unmarked
  <1>6. Untouched'
    BY <1>1, <1>2, <1>5 DEF IInv, Untouched, NothingAside, LiveIsAgreed
  <1>7. (\A r \in marker : Accounted(r))'
    BY <1>1 DEF IInv, Accounted, Holds
  <1>8. (\A s \in Restores : DbAt(s) /\ StoreAt(s) /\ PartsAt(s) /\ EndAt(s))'
    BY <1>2 DEF DbAt, StoreAt, PartsAt, EndAt
  <1> QED
    BY <1>3, <1>4, <1>6, <1>7, <1>8 DEF IInv

LEMMA RepairStep ==
    ASSUME IInv, NEW r \in Restores, Repair(r)
    PROVE  IInv'
  <1>1. /\ r \in marker /\ marker' = {}
        /\ UNCHANGED <<aside, pc, parts, clean, down, missed>>
        /\ \A s \in Restores : pc[s] \in {"idle", "done"}
        /\ TypeOK /\ AgreedIsSound /\ Accounted(r)
    BY DEF Repair, IInv, OneAtWork, Busy, run
  <1>2. /\ TypeOK' /\ AgreedIsSound' /\ LiveIsAgreed'
    <2>1. CASE Landed(r) /\ agreed' = Live /\ UNCHANGED live
      <3>1. Live \in [Pieces -> Generations \union {None, Stray}]
        BY <1>1, LivePieces, PieceNames DEF TypeOK, Live
      <3> QED
        BY <1>1, <2>1, <3>1, LandedIsSound, LivePieces
        DEF TypeOK, LiveIsAgreed, live
    <2>2. CASE /\ db' = agreed["db"] /\ journal' = agreed["journal"]
               /\ store' = agreed["store"] /\ UNCHANGED agreed
      <3>1. TypeOK'
        BY <1>1, <2>2 DEF TypeOK, AgreedIsSound
      <3> QED
        BY <1>1, <2>2, <3>1 DEF AgreedIsSound, LiveIsAgreed, Holds
    <2> QED
      BY <2>1, <2>2 DEF Repair
  <1>3. OneAtWork'
    BY <1>1 DEF OneAtWork, Active
  <1>4. Untouched'
    BY <1>1, <1>2 DEF IInv, Untouched, NothingAside
  <1>5. (\A s \in Restores : DbAt(s) /\ StoreAt(s) /\ PartsAt(s) /\ EndAt(s))'
    BY <1>1 DEF DbAt, StoreAt, PartsAt, EndAt
  <1> QED
    BY <1>1, <1>2, <1>3, <1>4, <1>5 DEF IInv

LEMMA ServeStep ==
    ASSUME IInv, Serve
    PROVE  IInv'
  <1>1. /\ UNCHANGED <<db, store, aside, marker, pc, parts, clean, down,
                       missed>>
        /\ marker = {} /\ db # None /\ journal' \in {None, db}
        /\ \A s \in Restores : pc[s] \in {"idle", "done"}
        /\ agreed' = [agreed EXCEPT !["journal"] = journal']
    BY DEF Serve, Busy, run
  <1>2. TypeOK /\ AgreedIsSound /\ LiveIsAgreed
    BY Quiet DEF Serve, IInv
  <1>3. /\ agreed'["journal"] = journal' /\ agreed'["db"] = agreed["db"]
        /\ agreed'["store"] = agreed["store"]
        /\ agreed' \in [Pieces -> Generations \union {None, Stray}]
    BY <1>1, <1>2, PieceNames DEF TypeOK
  <1>4. TypeOK' /\ AgreedIsSound' /\ LiveIsAgreed'
    BY <1>1, <1>2, <1>3 DEF TypeOK, AgreedIsSound, LiveIsAgreed, Holds
  <1>5. OneAtWork'
    BY <1>1 DEF OneAtWork, Active
  <1>6. Untouched'
    BY <1>1, <1>4 DEF IInv, Untouched, NothingAside
  <1>7. (\A s \in Restores : DbAt(s) /\ StoreAt(s) /\ PartsAt(s) /\ EndAt(s))'
    BY <1>1 DEF DbAt, StoreAt, PartsAt, EndAt
  <1> QED
    BY <1>1, <1>4, <1>5, <1>6, <1>7 DEF IInv

LEMMA IntrudeStep ==
    ASSUME IInv, Intrude
    PROVE  IInv'
  <1>1. /\ UNCHANGED <<db, journal, aside, marker, pc, parts, clean, down,
                       agreed, missed>>
        /\ store = None /\ store' = Stray
    BY DEF Intrude, run
  <1>2. PICK r \in Restores : Active(r)
    BY Nobody DEF Intrude
  <1>3. /\ TypeOK /\ AgreedIsSound /\ agreed["store"] # None
    BY Apart DEF IInv, AgreedIsSound
  <1>4. pc[r] \notin {"stage", "mark"}
    BY <1>1, <1>3 DEF IInv, StoreAt
  <1>5. /\ marker = {r} /\ Accounted(r) /\ DbAt(r) /\ StoreAt(r) /\ PartsAt(r)
        /\ EndAt(r)
    BY <1>2, <1>4, Known
  <1>6. TypeOK'
    BY <1>1, <1>3 DEF TypeOK
  <1>7. DbAt(r)' /\ StoreAt(r)' /\ PartsAt(r)'
    BY <1>1, <1>3, <1>5
    DEF DbAt, StoreAt, PartsAt, DbMoved, DbUntouched, Holds
  <1>8. Accounted(r)'
    BY <1>1, <1>3, <1>5 DEF Accounted, Holds
  <1>9. EndAt(r)'
    <2>1. SUFFICES ASSUME pc[r] = "unmark", clean[r]
                   PROVE  Landed(r)'
      BY <1>1 DEF EndAt
    <2>2. Landed(r)
      BY <1>1, <1>3, <1>5, <2>1 DEF EndAt, LiveIsAgreed
    <2>3. ~Holds(r, "store") /\ (Holds(r, "db") => db = r)
      BY <1>1, <1>3, <2>2, LandedByPart, Apart
    <2>4. \A part \in parts'[r] : part \in {"db", "store"}
      BY <1>1, <1>3 DEF TypeOK
    <2> QED
      BY <1>1, <2>3, <2>4 DEF Landed, Live, Pieces, Holds
  <1> QED
    BY <1>1, <1>2, <1>4, <1>5, <1>6, <1>7, <1>8, <1>9, GoesOn DEF Active

LEMMA BootStep ==
    ASSUME IInv, UNCHANGED <<live, aside, marker, run, agreed, missed>>,
                             down' \in BOOLEAN
    PROVE  IInv'
  <1>1. UNCHANGED <<db, journal, store, aside, marker, pc, parts, clean,
                    agreed, missed>>
    BY DEF live, run
  <1>2. TypeOK' /\ AgreedIsSound' /\ OneAtWork' /\ Untouched'
        /\ (\A s \in Restores : parts[s] # {})'
    BY <1>1 DEF IInv, TypeOK, AgreedIsSound, OneAtWork, Untouched, Active,
                NothingAside, LiveIsAgreed, Holds
  <1>3. (\A r \in marker : Accounted(r))'
    BY <1>1 DEF IInv, Accounted, Holds
  <1>4. ASSUME NEW r \in Restores
        PROVE  DbAt(r)' /\ StoreAt(r)' /\ PartsAt(r)'
    BY <1>1 DEF IInv, DbAt, StoreAt, PartsAt, DbMoved, DbUntouched, Holds
  <1>5. ASSUME NEW r \in Restores
        PROVE  EndAt(r)'
    <2>1. Live' = Live
      BY <1>1 DEF Live
    <2> QED
      BY <1>1, <2>1 DEF IInv, EndAt, Landed, LiveIsAgreed
  <1> QED
    BY <1>2, <1>3, <1>4, <1>5 DEF IInv

----------------------------------------------------------------------------
(* What holds of a restore even where it began over a marker that nobody   *)
(* could read: each piece it is about to overwrite is no longer, or is     *)
(* also set aside.  SInv says of each step which of the live files the     *)
(* restore at work has moved, and nothing of what was there before it.     *)

Belongs(d, j) == (d # None /\ j # None) => j = d

\* A piece agreed on is where the live one is, or set aside.
Found(p, now) ==
    agreed[p] \in {None, now} \/ \E s \in Restores : agreed[p] = aside[s][p]

AllFound == Found("db", db) /\ Found("journal", journal) /\ Found("store", store)

\* A restore that has not begun is nowhere.
Fresh(r) ==
    /\ NothingAside(r)
    /\ r \notin {db, journal, store}
    /\ r \notin {agreed["db"], agreed["journal"], agreed["store"]}
    /\ \A s \in Restores :
          r \notin {aside[s]["db"], aside[s]["journal"], aside[s]["store"]}

\* No store the compactor made is taken for a database.
NoStray ==
    /\ agreed["db"] # Stray /\ agreed["journal"] # Stray
    /\ \A s \in Restores : aside[s]["db"] # Stray /\ aside[s]["journal"] # Stray

Brought(r) ==
    db = r /\ journal = None /\ Belongs(aside[r]["db"], aside[r]["journal"])

\* What each step of a restore relies on, of what it may overwrite.
SafeAt(r) ==
    /\ pc[r] \in {"stage", "mark", "dbAside"} => NothingAside(r)
    /\ pc[r] = "journalAside" =>
          /\ db = None /\ Belongs(aside[r]["db"], journal)
          /\ aside[r]["journal"] = None /\ aside[r]["store"] = None
    /\ pc[r] \in {"dbSwap", "dbBack"} =>
          /\ db = None /\ journal = None /\ aside[r]["store"] = None
          /\ Belongs(aside[r]["db"], aside[r]["journal"])
    /\ pc[r] = "check" => Brought(r) /\ aside[r]["store"] = None
    /\ pc[r] \in {"storeAside", "storeSwap", "storeBack"} =>
          (Holds(r, "db") => Brought(r))
    /\ pc[r] = "storeAside" => aside[r]["store"] = None
    /\ pc[r] \in {"storeSwap", "storeBack"} => Found("store", None)
    /\ pc[r] = "dbBackToo" => Brought(r) /\ aside[r]["db"] # None
    /\ pc[r] \in {"journalBack", "journalBackToo"} =>
          journal = None /\ Belongs(db, aside[r]["journal"])

SInv ==
    /\ TypeOK
    /\ \A r, s \in Restores : Active(r) /\ Active(s) => r = s
    /\ NoStray
    /\ Belongs(agreed["db"], agreed["journal"]) /\ Belongs(db, journal)
    /\ AllFound
    /\ \A r \in Restores :
          /\ pc[r] = "idle" => Fresh(r)
          /\ Active(r) => agreed["db"] # r
          /\ SafeAt(r)

\* The invariant: SInv always, and all of IInv until a marker is missed.
Inv == SInv /\ (missed = {} => IInv)

\* A step that moves no file.
LEMMA SafeStill ==
    ASSUME SInv, TypeOK',
           UNCHANGED <<db, journal, store, aside, parts, agreed>>,
           \A s \in Restores :
               \/ pc'[s] \in {pc[s], "done"}
               \/ Active(s) /\ Active(s)' /\ SafeAt(s)'
    PROVE  SInv'
  <1>1. \A s \in Restores : Active(s)' => Active(s)
    BY DEF Active
  <1>2. NoStray' /\ AllFound' /\ Belongs(db, journal)'
        /\ Belongs(agreed["db"], agreed["journal"])'
    BY DEF SInv, NoStray, AllFound, Found, Belongs
  <1>3. ASSUME NEW s \in Restores
        PROVE  /\ (pc[s] = "idle" => Fresh(s))'
               /\ (Active(s) => agreed["db"] # s)'
               /\ SafeAt(s)'
    <2>1. (pc[s] = "idle" => Fresh(s))'
      BY DEF SInv, Fresh, NothingAside, Active
    <2>2. CASE pc'[s] = pc[s]
      BY <1>1, <2>1, <2>2
      DEF SInv, SafeAt, NothingAside, Belongs, Brought, Found, Holds
    <2>3. CASE pc'[s] = "done"
      BY <1>1, <2>1, <2>3 DEF SInv, SafeAt
    <2> QED
      BY <1>1, <2>1, <2>2, <2>3 DEF SInv
  <1> QED
    BY <1>1, <1>2, <1>3 DEF SInv

\* A step of the restore at work, which moves files of its own.
LEMMA SafeGoesOn ==
    ASSUME SInv, NEW r \in Restores, Active(r), TypeOK',
           UNCHANGED <<parts, agreed>>, pc'[r] # "idle",
           \A s \in Restores \ {r} : pc'[s] = pc[s] /\ aside'[s] = aside[s],
           \A p \in Pieces : /\ aside'[r][p] \in {None, Live[p], aside[r][p]}
                             /\ Live'[p] \in {None, r, Live[p], aside[r][p]},
           AllFound', Belongs(db, journal)', SafeAt(r)'
    PROVE  SInv'
  <1>1. \A s \in Restores \ {r} : pc[s] \in {"idle", "done"}
    BY DEF SInv, Active
  <1>2. \A s, t \in Restores : (Active(s) /\ Active(t) => s = t)'
    BY <1>1 DEF Active
  <1>3. /\ db' \in {None, r, db, aside[r]["db"]}
        /\ journal' \in {None, r, journal, aside[r]["journal"]}
        /\ store' \in {None, r, store, aside[r]["store"]}
        /\ aside'[r]["db"] \in {None, db, aside[r]["db"]}
        /\ aside'[r]["journal"] \in {None, journal, aside[r]["journal"]}
        /\ aside'[r]["store"] \in {None, store, aside[r]["store"]}
    BY LivePieces, PieceNames DEF Live
  <1>4. NoStray' /\ Belongs(agreed["db"], agreed["journal"])'
    BY <1>3, RestoreAssumption, Apart DEF SInv, TypeOK, NoStray, Belongs
  <1>5. ASSUME NEW s \in Restores, s # r
        PROVE  /\ (pc[s] = "idle" => Fresh(s))'
               /\ (Active(s) => agreed["db"] # s)'
               /\ SafeAt(s)'
    <2>1. pc'[s] \in {"idle", "done"} /\ aside'[s] = aside[s] /\ pc'[s] = pc[s]
      BY <1>1, <1>5
    <2>2. ASSUME pc[s] = "idle"
          PROVE  Fresh(s)'
      <3>1. Fresh(s) /\ s # None
        BY <2>2, Apart DEF SInv
      <3> QED
        BY <1>3, <1>5, <2>1, <3>1 DEF Fresh, NothingAside
    <2> QED
      BY <2>1, <2>2 DEF SafeAt, Active
  <1> QED
    BY <1>2, <1>4, <1>5 DEF SInv

\* What is known of the restore at work.
LEMMA SafelyKnown ==
    ASSUME SInv, NEW r \in Restores, Active(r)
    PROVE  /\ TypeOK /\ NoStray /\ AllFound /\ SafeAt(r) /\ agreed["db"] # r
           /\ Belongs(db, journal) /\ Belongs(agreed["db"], agreed["journal"])
           /\ Busy = {r}
  BY DEF SInv, Active, Busy

\* A restore that raises, or the pod that is killed, moves nothing.
LEMMA RaisesSafe ==
    ASSUME SInv, NEW r \in Restores, Raises(r),
           UNCHANGED <<db, journal, store, aside, marker, parts, clean, down,
                       agreed, missed>>
    PROVE  SInv'
  <1>1. /\ pc' \in [Restores -> Steps] /\ pc'[r] = "done"
        /\ \A s \in Restores \ {r} : pc'[s] = pc[s]
    BY Gone, StepNames DEF SInv, Raises
  <1>2. TypeOK'
    BY <1>1 DEF SInv, TypeOK
  <1>3. \A s \in Restores : pc'[s] \in {pc[s], "done"}
    BY <1>1
  <1> QED
    BY <1>2, <1>3, SafeStill

\* The steps that only look, or write a marker.
LEMMA LooksSafe ==
    ASSUME SInv, NEW r \in Restores, Stage(r) \/ Mark(r) \/ Check(r)
    PROVE  SInv'
  <1>1. /\ Active(r) /\ pc[r] \in {"stage", "mark", "check"}
        /\ UNCHANGED <<db, journal, store, aside, parts, clean, down, agreed,
                       missed>>
    BY DEF Stage, Mark, Check, Active, live
  <1>2. TypeOK /\ SafeAt(r)
    BY <1>1, SafelyKnown
  <1>3. PICK step \in {"mark", "dbAside", "storeAside", "unmark", "done"} :
            /\ Goes(r, step)
            /\ step \in {"mark", "dbAside"} => pc[r] \in {"stage", "mark"}
            /\ step = "storeAside" => pc[r] = "check" \/ ~Holds(r, "db")
    BY DEF Stage, Mark, Check, Raises
  <1>4. /\ pc' \in [Restores -> Steps] /\ pc'[r] = step
        /\ \A s \in Restores \ {r} : pc'[s] = pc[s]
    BY <1>2, <1>3, Gone, StepNames
  <1>5. marker' \subseteq Restores
    BY <1>2 DEF TypeOK, Stage, Mark, Check
  <1>6. TypeOK'
    BY <1>1, <1>2, <1>4, <1>5 DEF TypeOK
  <1>7. SafeAt(r)'
    BY <1>1, <1>2, <1>3, <1>4
    DEF SafeAt, NothingAside, Brought, Belongs, Holds
  <1>8. \A s \in Restores :
            \/ pc'[s] \in {pc[s], "done"}
            \/ Active(s) /\ Active(s)' /\ SafeAt(s)'
    BY <1>1, <1>4, <1>7 DEF Active
  <1> QED
    BY <1>1, <1>6, <1>8, SafeStill

LEMMA DbAsideSafe ==
    ASSUME SInv, NEW r \in Restores, DbAside(r)
    PROVE  SInv'
  <1>1. Active(r) /\ pc[r] = "dbAside"
    BY DEF DbAside, Active
  <1>2. /\ TypeOK /\ NoStray /\ AllFound /\ SafeAt(r)
        /\ Belongs(db, journal)
    BY <1>1, SafelyKnown
  <1>3. CASE Raises(r) /\ UNCHANGED <<db, aside>>
    BY <1>1, <1>2, <1>3, RaisesSafe DEF DbAside
  <1>4. CASE Keeps(r, "db", db) /\ db' = None /\ Goes(r, "journalAside")
    <2>1. UNCHANGED <<journal, store, marker, parts, clean, down, agreed,
                      missed>>
      BY DEF DbAside
    <2>2. /\ aside' \in
                 [Restores -> [Pieces -> Generations \union {None, Stray}]]
          /\ aside'[r]["db"] = db
          /\ \A p \in Pieces \ {"db"} : aside'[r][p] = aside[r][p]
          /\ \A s \in Restores \ {r} : aside'[s] = aside[s]
      <3>1. db \in Generations \union {None, Stray}
        BY <1>2 DEF TypeOK
      <3> QED
        BY <1>2, <1>4, <3>1, Kept, PieceNames
    <2>3. /\ pc' \in [Restores -> Steps] /\ pc'[r] = "journalAside"
          /\ \A s \in Restores \ {r} : pc'[s] = pc[s]
      BY <1>2, <1>4, Gone, StepNames
    <2>4. TypeOK'
      BY <1>2, <1>4, <2>1, <2>2, <2>3 DEF TypeOK
    <2>5. aside[r]["db"] = None
      BY <1>1, <1>2 DEF SafeAt, NothingAside
    <2>6. AllFound' /\ Belongs(db, journal)'
      BY <1>2, <1>4, <2>1, <2>2, <2>5, PieceNames
      DEF AllFound, Found, Belongs
    <2>7. SafeAt(r)'
      BY <1>1, <1>2, <1>4, <2>1, <2>2, <2>3, <2>5, <2>6, PieceNames
      DEF SafeAt, NothingAside, Belongs
    <2>8. \A p \in Pieces : /\ aside'[r][p] \in {None, Live[p], aside[r][p]}
                            /\ Live'[p] \in {None, r, Live[p], aside[r][p]}
      BY <1>4, <2>1, <2>2, LivePieces, PieceNames DEF Live
    <2> QED
      BY <1>1, <2>1, <2>2, <2>3, <2>4, <2>6, <2>7, <2>8, SafeGoesOn
  <1> QED
    BY <1>3, <1>4 DEF DbAside

LEMMA JournalAsideSafe ==
    ASSUME SInv, NEW r \in Restores, JournalAside(r)
    PROVE  SInv'
  <1>1. Active(r) /\ pc[r] = "journalAside"
    BY DEF JournalAside, Active
  <1>2. /\ TypeOK /\ NoStray /\ AllFound /\ SafeAt(r)
        /\ Belongs(db, journal)
    BY <1>1, SafelyKnown
  <1>3. CASE Raises(r) /\ UNCHANGED <<journal, aside>>
    BY <1>1, <1>2, <1>3, RaisesSafe DEF JournalAside
  <1>4. CASE Keeps(r, "journal", journal) /\ journal' = None /\ Goes(r, "dbSwap")
    <2>1. UNCHANGED <<db, store, marker, parts, clean, down, agreed, missed>>
      BY DEF JournalAside
    <2>2. /\ aside' \in
                 [Restores -> [Pieces -> Generations \union {None, Stray}]]
          /\ aside'[r]["journal"] = journal
          /\ \A p \in Pieces \ {"journal"} : aside'[r][p] = aside[r][p]
          /\ \A s \in Restores \ {r} : aside'[s] = aside[s]
      <3>1. journal \in Generations \union {None, Stray}
        BY <1>2 DEF TypeOK
      <3> QED
        BY <1>2, <1>4, <3>1, Kept, PieceNames
    <2>3. /\ pc' \in [Restores -> Steps] /\ pc'[r] = "dbSwap"
          /\ \A s \in Restores \ {r} : pc'[s] = pc[s]
      BY <1>2, <1>4, Gone, StepNames
    <2>4. TypeOK'
      BY <1>2, <1>4, <2>1, <2>2, <2>3 DEF TypeOK
    <2>5. aside[r]["journal"] = None
      BY <1>1, <1>2 DEF SafeAt, NothingAside
    <2>6. AllFound' /\ Belongs(db, journal)'
      BY <1>2, <1>4, <2>1, <2>2, <2>5, PieceNames
      DEF AllFound, Found, Belongs
    <2>7. SafeAt(r)'
      BY <1>1, <1>2, <1>4, <2>1, <2>2, <2>3, <2>5, <2>6, PieceNames
      DEF SafeAt, Belongs
    <2>8. \A p \in Pieces : /\ aside'[r][p] \in {None, Live[p], aside[r][p]}
                            /\ Live'[p] \in {None, r, Live[p], aside[r][p]}
      BY <1>4, <2>1, <2>2, LivePieces, PieceNames DEF Live
    <2> QED
      BY <1>1, <2>1, <2>2, <2>3, <2>4, <2>6, <2>7, <2>8, SafeGoesOn
  <1> QED
    BY <1>3, <1>4 DEF JournalAside

LEMMA StoreAsideSafe ==
    ASSUME SInv, NEW r \in Restores, StoreAside(r)
    PROVE  SInv'
  <1>1. Active(r) /\ pc[r] = "storeAside"
    BY DEF StoreAside, Active
  <1>2. /\ TypeOK /\ NoStray /\ AllFound /\ SafeAt(r)
        /\ Belongs(db, journal)
    BY <1>1, SafelyKnown
  <1>3. CASE Raises(r) /\ UNCHANGED <<store, aside>>
    BY <1>1, <1>2, <1>3, RaisesSafe DEF StoreAside
  <1>4. CASE Keeps(r, "store", store) /\ store' = None /\ Goes(r, "storeSwap")
    <2>1. UNCHANGED <<db, journal, marker, parts, clean, down, agreed, missed>>
      BY DEF StoreAside
    <2>2. /\ aside' \in
                 [Restores -> [Pieces -> Generations \union {None, Stray}]]
          /\ aside'[r]["store"] = store
          /\ \A p \in Pieces \ {"store"} : aside'[r][p] = aside[r][p]
          /\ \A s \in Restores \ {r} : aside'[s] = aside[s]
      <3>1. store \in Generations \union {None, Stray}
        BY <1>2 DEF TypeOK
      <3> QED
        BY <1>2, <1>4, <3>1, Kept, PieceNames
    <2>3. /\ pc' \in [Restores -> Steps] /\ pc'[r] = "storeSwap"
          /\ \A s \in Restores \ {r} : pc'[s] = pc[s]
      BY <1>2, <1>4, Gone, StepNames
    <2>4. TypeOK'
      BY <1>2, <1>4, <2>1, <2>2, <2>3 DEF TypeOK
    <2>5. aside[r]["store"] = None
      BY <1>1, <1>2 DEF SafeAt, NothingAside
    <2>6. AllFound' /\ Belongs(db, journal)'
      BY <1>2, <1>4, <2>1, <2>2, <2>5, PieceNames
      DEF AllFound, Found, Belongs
    <2>7. SafeAt(r)'
      BY <1>1, <1>2, <1>4, <2>1, <2>2, <2>3, <2>5, <2>6, PieceNames
      DEF SafeAt, AllFound, Found, Brought, Belongs, Holds
    <2>8. \A p \in Pieces : /\ aside'[r][p] \in {None, Live[p], aside[r][p]}
                            /\ Live'[p] \in {None, r, Live[p], aside[r][p]}
      BY <1>4, <2>1, <2>2, LivePieces, PieceNames DEF Live
    <2> QED
      BY <1>1, <2>1, <2>2, <2>3, <2>4, <2>6, <2>7, <2>8, SafeGoesOn
  <1> QED
    BY <1>3, <1>4 DEF StoreAside

LEMMA DbSwapSafe ==
    ASSUME SInv, NEW r \in Restores, DbSwap(r)
    PROVE  SInv'
  <1>1. /\ Active(r) /\ pc[r] = "dbSwap"
        /\ UNCHANGED <<journal, store, aside, marker, parts, clean, down,
                       agreed,
                       missed>>
    BY DEF DbSwap, Active
  <1>2. /\ TypeOK /\ NoStray /\ AllFound /\ SafeAt(r)
        /\ Belongs(db, journal)
    BY <1>1, SafelyKnown
  <1>3. PICK step \in {"check", "dbBack"} :
            /\ Goes(r, step)
            /\ \/ step = "check" /\ db = None /\ db' = r
               \/ step = "dbBack" /\ db' = db
    BY <1>1, <1>2 DEF DbSwap, SafeAt
  <1>4. /\ pc' \in [Restores -> Steps] /\ pc'[r] = step
        /\ \A s \in Restores \ {r} : pc'[s] = pc[s]
    BY <1>2, <1>3, Gone, StepNames
  <1>5. TypeOK'
    BY <1>1, <1>2, <1>3, <1>4, Apart DEF TypeOK
  <1>6. AllFound' /\ Belongs(db, journal)'
    BY <1>1, <1>2, <1>3 DEF AllFound, Found, Belongs, SafeAt
  <1>7. SafeAt(r)'
    BY <1>1, <1>2, <1>3, <1>4
    DEF SafeAt, Brought, Belongs, Holds, Found
  <1>8. \A p \in Pieces : /\ aside'[r][p] \in {None, Live[p], aside[r][p]}
                          /\ Live'[p] \in {None, r, Live[p], aside[r][p]}
    BY <1>1, <1>3, LivePieces, PieceNames DEF Live
  <1> QED
    BY <1>1, <1>4, <1>5, <1>6, <1>7, <1>8, SafeGoesOn

LEMMA StoreSwapSafe ==
    ASSUME SInv, NEW r \in Restores, StoreSwap(r)
    PROVE  SInv'
  <1>1. /\ Active(r) /\ pc[r] = "storeSwap"
        /\ UNCHANGED <<db, journal, aside, marker, parts, clean, down, agreed,
                       missed>>
    BY DEF StoreSwap, Active
  <1>2. /\ TypeOK /\ NoStray /\ AllFound /\ SafeAt(r)
        /\ Belongs(db, journal)
    BY <1>1, SafelyKnown
  <1>3. PICK step \in {"unmark", "storeBack"} :
            /\ Goes(r, step)
            /\ \/ step = "unmark" /\ store = None /\ store' = r
               \/ step = "storeBack" /\ store' = store
    BY <1>1, <1>2 DEF StoreSwap, SafeAt
  <1>4. /\ pc' \in [Restores -> Steps] /\ pc'[r] = step
        /\ \A s \in Restores \ {r} : pc'[s] = pc[s]
    BY <1>2, <1>3, Gone, StepNames
  <1>5. TypeOK'
    BY <1>1, <1>2, <1>3, <1>4, Apart DEF TypeOK
  <1>6. AllFound' /\ Belongs(db, journal)'
    BY <1>1, <1>2, <1>3 DEF AllFound, Found, Belongs, SafeAt
  <1>7. SafeAt(r)'
    BY <1>1, <1>2, <1>3, <1>4
    DEF SafeAt, Brought, Belongs, Holds, Found
  <1>8. \A p \in Pieces : /\ aside'[r][p] \in {None, Live[p], aside[r][p]}
                          /\ Live'[p] \in {None, r, Live[p], aside[r][p]}
    BY <1>1, <1>3, LivePieces, PieceNames DEF Live
  <1> QED
    BY <1>1, <1>4, <1>5, <1>6, <1>7, <1>8, SafeGoesOn

LEMMA DbBackSafe ==
    ASSUME SInv, NEW r \in Restores, DbBack(r)
    PROVE  SInv'
  <1>1. /\ Active(r) /\ pc[r] = "dbBack"
        /\ UNCHANGED <<journal, store, marker, parts, down, agreed, missed>>
    BY DEF DbBack, Active
  <1>2. /\ TypeOK /\ NoStray /\ AllFound /\ SafeAt(r)
        /\ Belongs(db, journal) /\ agreed["db"] # r
    BY <1>1, SafelyKnown
  <1>3. MovedBack(r, "db", db, db')
    BY <1>2, Back, PieceNames DEF DbBack, MovesBack
  <1>4. /\ pc' \in [Restores -> Steps] /\ pc'[r] = "journalBack"
        /\ \A s \in Restores \ {r} : pc'[s] = pc[s]
    BY <1>2, Gone, StepNames DEF DbBack
  <1>5. TypeOK'
    BY <1>1, <1>2, <1>3, <1>4 DEF TypeOK, MovedBack, NoStray, Pieces
  <1>6. AllFound' /\ Belongs(db, journal)'
    BY <1>1, <1>2, <1>3, PieceNames
    DEF AllFound, Found, Belongs, SafeAt, Brought, MovedBack
  <1>7. SafeAt(r)'
    BY <1>1, <1>2, <1>3, <1>4, <1>6, PieceNames
    DEF SafeAt, Brought, Belongs, Holds, MovedBack
  <1>8. \A p \in Pieces : /\ aside'[r][p] \in {None, Live[p], aside[r][p]}
                          /\ Live'[p] \in {None, r, Live[p], aside[r][p]}
    BY <1>1, <1>3, LivePieces, PieceNames DEF Live, MovedBack
  <1> QED
    BY <1>1, <1>3, <1>4, <1>5, <1>6, <1>7, <1>8, SafeGoesOn
    DEF MovedBack

LEMMA JournalBackSafe ==
    ASSUME SInv, NEW r \in Restores, JournalBack(r)
    PROVE  SInv'
  <1>1. /\ Active(r) /\ pc[r] = "journalBack"
        /\ UNCHANGED <<db, store, marker, parts, down, agreed, missed>>
    BY DEF JournalBack, Active
  <1>2. /\ TypeOK /\ NoStray /\ AllFound /\ SafeAt(r)
        /\ Belongs(db, journal) /\ agreed["db"] # r
    BY <1>1, SafelyKnown
  <1>3. MovedBack(r, "journal", journal, journal')
    BY <1>2, Back, PieceNames DEF JournalBack, MovesBack
  <1>4. /\ pc' \in [Restores -> Steps] /\ pc'[r] = "unmark"
        /\ \A s \in Restores \ {r} : pc'[s] = pc[s]
    BY <1>2, Gone, StepNames DEF JournalBack
  <1>5. TypeOK'
    BY <1>1, <1>2, <1>3, <1>4 DEF TypeOK, MovedBack, NoStray, Pieces
  <1>6. AllFound' /\ Belongs(db, journal)'
    BY <1>1, <1>2, <1>3, PieceNames
    DEF AllFound, Found, Belongs, SafeAt, Brought, MovedBack
  <1>7. SafeAt(r)'
    BY <1>1, <1>2, <1>3, <1>4, <1>6, PieceNames
    DEF SafeAt, Brought, Belongs, Holds, MovedBack
  <1>8. \A p \in Pieces : /\ aside'[r][p] \in {None, Live[p], aside[r][p]}
                          /\ Live'[p] \in {None, r, Live[p], aside[r][p]}
    BY <1>1, <1>3, LivePieces, PieceNames DEF Live, MovedBack
  <1> QED
    BY <1>1, <1>3, <1>4, <1>5, <1>6, <1>7, <1>8, SafeGoesOn
    DEF MovedBack

LEMMA StoreBackSafe ==
    ASSUME SInv, NEW r \in Restores, StoreBack(r)
    PROVE  SInv'
  <1>1. /\ Active(r) /\ pc[r] = "storeBack"
        /\ UNCHANGED <<db, journal, marker, parts, down, agreed, missed>>
    BY DEF StoreBack, Active
  <1>2. /\ TypeOK /\ NoStray /\ AllFound /\ SafeAt(r)
        /\ Belongs(db, journal) /\ agreed["db"] # r
    BY <1>1, SafelyKnown
  <1>3. MovedBack(r, "store", store, store')
    BY <1>2, Back, PieceNames DEF StoreBack, MovesBack
  <1>4. /\ pc' \in [Restores -> Steps] /\ pc'[r] = AfterStoreBack(r)
        /\ \A s \in Restores \ {r} : pc'[s] = pc[s]
    BY <1>2, Gone, StepNames DEF StoreBack, AfterStoreBack
  <1>5. TypeOK'
    BY <1>1, <1>2, <1>3, <1>4 DEF TypeOK, MovedBack, NoStray, Pieces
  <1>6. AllFound' /\ Belongs(db, journal)'
    BY <1>1, <1>2, <1>3, PieceNames
    DEF AllFound, Found, Belongs, SafeAt, Brought, MovedBack
  <1>7. SafeAt(r)'
    BY <1>1, <1>2, <1>3, <1>4, <1>6, PieceNames
    DEF AfterStoreBack, SafeAt, Brought, Belongs, Holds, MovedBack
  <1>8. \A p \in Pieces : /\ aside'[r][p] \in {None, Live[p], aside[r][p]}
                          /\ Live'[p] \in {None, r, Live[p], aside[r][p]}
    BY <1>1, <1>3, LivePieces, PieceNames DEF Live, MovedBack
  <1> QED
    BY <1>1, <1>3, <1>4, <1>5, <1>6, <1>7, <1>8, SafeGoesOn
    DEF MovedBack, AfterStoreBack

LEMMA DbBackTooSafe ==
    ASSUME SInv, NEW r \in Restores, DbBackToo(r)
    PROVE  SInv'
  <1>1. /\ Active(r) /\ pc[r] = "dbBackToo"
        /\ UNCHANGED <<journal, store, marker, parts, down, agreed, missed>>
    BY DEF DbBackToo, Active
  <1>2. /\ TypeOK /\ NoStray /\ AllFound /\ SafeAt(r)
        /\ Belongs(db, journal) /\ agreed["db"] # r
    BY <1>1, SafelyKnown
  <1>3. MovedBack(r, "db", db, db')
    BY <1>2, Back, PieceNames DEF DbBackToo, MovesBack
  <1>4. /\ pc' \in [Restores -> Steps] /\ pc'[r] = IF aside'[r]["db"] = None
                                             THEN "journalBackToo"
                                             ELSE "unmark"
        /\ \A s \in Restores \ {r} : pc'[s] = pc[s]
    BY <1>2, Gone, StepNames DEF DbBackToo
  <1>5. TypeOK'
    BY <1>1, <1>2, <1>3, <1>4 DEF TypeOK, MovedBack, NoStray, Pieces
  <1>6. AllFound' /\ Belongs(db, journal)'
    BY <1>1, <1>2, <1>3, PieceNames
    DEF AllFound, Found, Belongs, SafeAt, Brought, MovedBack
  <1>7. SafeAt(r)'
    BY <1>1, <1>2, <1>3, <1>4, <1>6, PieceNames
    DEF SafeAt, Brought, Belongs, Holds, MovedBack
  <1>8. \A p \in Pieces : /\ aside'[r][p] \in {None, Live[p], aside[r][p]}
                          /\ Live'[p] \in {None, r, Live[p], aside[r][p]}
    BY <1>1, <1>3, LivePieces, PieceNames DEF Live, MovedBack
  <1> QED
    BY <1>1, <1>3, <1>4, <1>5, <1>6, <1>7, <1>8, SafeGoesOn
    DEF MovedBack

LEMMA JournalBackTooSafe ==
    ASSUME SInv, NEW r \in Restores, JournalBackToo(r)
    PROVE  SInv'
  <1>1. /\ Active(r) /\ pc[r] = "journalBackToo"
        /\ UNCHANGED <<db, store, marker, parts, down, agreed, missed>>
    BY DEF JournalBackToo, Active
  <1>2. /\ TypeOK /\ NoStray /\ AllFound /\ SafeAt(r)
        /\ Belongs(db, journal) /\ agreed["db"] # r
    BY <1>1, SafelyKnown
  <1>3. MovedBack(r, "journal", journal, journal')
    BY <1>2, Back, PieceNames DEF JournalBackToo, MovesBack
  <1>4. /\ pc' \in [Restores -> Steps] /\ pc'[r] = "unmark"
        /\ \A s \in Restores \ {r} : pc'[s] = pc[s]
    BY <1>2, Gone, StepNames DEF JournalBackToo
  <1>5. TypeOK'
    BY <1>1, <1>2, <1>3, <1>4 DEF TypeOK, MovedBack, NoStray, Pieces
  <1>6. AllFound' /\ Belongs(db, journal)'
    BY <1>1, <1>2, <1>3, PieceNames
    DEF AllFound, Found, Belongs, SafeAt, Brought, MovedBack
  <1>7. SafeAt(r)'
    BY <1>1, <1>2, <1>3, <1>4, <1>6, PieceNames
    DEF SafeAt, Brought, Belongs, Holds, MovedBack
  <1>8. \A p \in Pieces : /\ aside'[r][p] \in {None, Live[p], aside[r][p]}
                          /\ Live'[p] \in {None, r, Live[p], aside[r][p]}
    BY <1>1, <1>3, LivePieces, PieceNames DEF Live, MovedBack
  <1> QED
    BY <1>1, <1>3, <1>4, <1>5, <1>6, <1>7, <1>8, SafeGoesOn
    DEF MovedBack

\* With nothing at work, the places of the restores say nothing of the files.
LEMMA AtRest ==
    ASSUME \A s \in Restores : pc'[s] \in {"idle", "done"}
    PROVE  /\ \A s, t \in Restores : (Active(s) /\ Active(t) => s = t)'
           /\ \A s \in Restores : ~Active(s)' /\ SafeAt(s)'
  BY DEF Active, SafeAt

LEMMA BeginSafe ==
    ASSUME Careful, SInv, NEW r \in Restores, Begin(r)
    PROVE  SInv'
  <1>1. /\ pc[r] = "idle" /\ Busy = {}
        /\ UNCHANGED <<db, journal, store, aside, marker, parts, clean, down,
                       agreed>>
        /\ missed' \subseteq missed \union {"begin"}
    BY DEF Begin, MayBegin, Sees, Careful, live
  <1>2. TypeOK /\ Fresh(r) /\ NothingAside(r) /\ agreed["db"] # r
    BY <1>1 DEF SInv, Fresh
  <1>3. /\ pc' \in [Restores -> Steps] /\ pc'[r] = "stage"
        /\ \A s \in Restores \ {r} : pc'[s] = pc[s]
    BY <1>2, Gone, StepNames DEF Begin
  <1>4. \A s \in Restores \ {r} : pc'[s] \in {"idle", "done"}
    BY <1>1, <1>3 DEF Busy
  <1>5. TypeOK'
    BY <1>1, <1>2, <1>3 DEF TypeOK
  <1>6. \A s, t \in Restores : (Active(s) /\ Active(t) => s = t)'
    BY <1>4 DEF Active
  <1>7. NoStray' /\ AllFound' /\ Belongs(db, journal)'
        /\ Belongs(agreed["db"], agreed["journal"])'
    BY <1>1 DEF SInv, NoStray, AllFound, Found, Belongs
  <1>8. ASSUME NEW s \in Restores
        PROVE  /\ (pc[s] = "idle" => Fresh(s))'
               /\ (Active(s) => agreed["db"] # s)'
               /\ SafeAt(s)'
    <2>1. CASE s = r
      BY <1>1, <1>2, <1>3, <2>1 DEF SafeAt, NothingAside
    <2>2. CASE s # r
      BY <1>1, <1>3, <1>4, <2>2 DEF SInv, SafeAt, Active, Fresh, NothingAside
    <2> QED
      BY <2>1, <2>2
  <1> QED
    BY <1>5, <1>6, <1>7, <1>8 DEF SInv

\* A restore that ended well, or put everything back, or was repaired by
\* hand: what is agreed on is live.
LEMMA AgreesSafe ==
    ASSUME SInv, TypeOK', UNCHANGED aside,
           agreed' \in {agreed, Live, Live'}, AllFound', Belongs(db, journal)',
           {db', journal', store'}
               \subseteq {db, journal, store, agreed["db"], agreed["journal"],
                          agreed["store"]},
           \A s \in Restores : /\ pc'[s] \in {"idle", "done"}
                               /\ pc'[s] = "idle" => pc[s] = "idle"
    PROVE  SInv'
  <1>1. \/ UNCHANGED agreed
        \/ /\ agreed'["db"] = db /\ agreed'["journal"] = journal
           /\ agreed'["store"] = store
        \/ /\ agreed'["db"] = db' /\ agreed'["journal"] = journal'
           /\ agreed'["store"] = store'
    BY LivePieces, PieceNames DEF Live
  <1>2. NoStray'
    BY <1>1, RestoreAssumption, Apart DEF SInv, TypeOK, NoStray
  <1>3. Belongs(agreed["db"], agreed["journal"])'
    BY <1>1 DEF SInv, Belongs
  <1>4. ASSUME NEW s \in Restores, pc'[s] = "idle"
        PROVE  Fresh(s)'
    <2>1. Fresh(s)
      BY <1>4 DEF SInv
    <2> QED
      BY <1>1, <2>1 DEF Fresh, NothingAside
  <1> QED
    BY <1>2, <1>3, <1>4, AtRest DEF SInv

LEMMA UnmarkSafe ==
    ASSUME SInv, NEW r \in Restores, Unmark(r)
    PROVE  SInv'
  <1>1. /\ Active(r)
        /\ UNCHANGED <<db, journal, store, aside, parts, clean, down, missed>>
    BY DEF Unmark, Active, live
  <1>2. /\ TypeOK /\ AllFound /\ Belongs(db, journal) /\ Busy = {r}
    BY <1>1, SafelyKnown
  <1>3. /\ pc' \in [Restores -> Steps] /\ pc'[r] = "done"
        /\ \A s \in Restores \ {r} : pc'[s] = pc[s]
    BY <1>2, Gone, StepNames DEF Unmark, Raises
  <1>4. \A s \in Restores : /\ pc'[s] \in {"idle", "done"}
                            /\ pc'[s] = "idle" => pc[s] = "idle"
    BY <1>2, <1>3 DEF Busy
  <1>5. agreed' \in {agreed, Live} /\ marker' \subseteq Restores
    BY <1>2 DEF Unmark, TypeOK
  <1>6. Live \in [Pieces -> Generations \union {None, Stray}]
    BY <1>2, LivePieces, PieceNames DEF TypeOK, Live
  <1>7. TypeOK'
    BY <1>1, <1>2, <1>3, <1>5, <1>6 DEF TypeOK
  <1>8. AllFound' /\ Belongs(db, journal)'
    BY <1>1, <1>2, <1>5, LivePieces DEF AllFound, Found, Belongs
  <1> QED
    BY <1>1, <1>4, <1>5, <1>7, <1>8, AgreesSafe

LEMMA RepairSafe ==
    ASSUME SInv, NEW r \in Restores, Repair(r)
    PROVE  SInv'
  <1>1. /\ marker' \subseteq marker
        /\ UNCHANGED <<aside, pc, parts, clean, down, missed>>
        /\ \A s \in Restores : pc[s] \in {"idle", "done"}
        /\ TypeOK /\ NoStray /\ AllFound /\ Belongs(db, journal)
        /\ Belongs(agreed["db"], agreed["journal"])
    BY DEF Repair, SInv, Busy, run
  <1>2. CASE agreed' = Live /\ UNCHANGED live
    <2>1. Live \in [Pieces -> Generations \union {None, Stray}]
      BY <1>1, LivePieces, PieceNames DEF TypeOK, Live
    <2>2. TypeOK'
      BY <1>1, <1>2, <2>1 DEF TypeOK, live
    <2>3. AllFound' /\ Belongs(db, journal)'
      BY <1>1, <1>2, LivePieces DEF AllFound, Found, Belongs, live
    <2> QED
      BY <1>1, <1>2, <2>2, <2>3, AgreesSafe DEF live
  <1>3. CASE /\ db' = agreed["db"] /\ journal' = agreed["journal"]
             /\ store' = agreed["store"] /\ UNCHANGED agreed
    <2>1. TypeOK'
      BY <1>1, <1>3, PieceNames DEF TypeOK, NoStray
    <2>2. AllFound' /\ Belongs(db, journal)'
      BY <1>1, <1>3 DEF AllFound, Found, Belongs
    <2> QED
      BY <1>1, <1>3, <2>1, <2>2, AgreesSafe
  <1> QED
    BY <1>2, <1>3 DEF Repair

LEMMA ServeSafe ==
    ASSUME SInv, LiveIsAgreed, Serve
    PROVE  SInv'
  <1>1. /\ UNCHANGED <<db, store, aside, marker, pc, parts, clean, down,
                       missed>>
        /\ db # None /\ journal' \in {None, db}
        /\ \A s \in Restores : pc[s] \in {"idle", "done"}
        /\ agreed' = [agreed EXCEPT !["journal"] = journal']
    BY DEF Serve, Busy, run
  <1>2. TypeOK /\ NoStray /\ AllFound /\ agreed["db"] = db
    BY DEF SInv, LiveIsAgreed
  <1>3. /\ agreed'["journal"] = journal' /\ agreed'["db"] = agreed["db"]
        /\ agreed'["store"] = agreed["store"]
        /\ agreed' \in [Pieces -> Generations \union {None, Stray}]
    BY <1>1, <1>2, PieceNames DEF TypeOK
  <1>4. TypeOK' /\ NoStray' /\ AllFound' /\ Belongs(db, journal)'
        /\ Belongs(agreed["db"], agreed["journal"])'
    BY <1>1, <1>2, <1>3, RestoreAssumption, Apart
    DEF TypeOK, NoStray, AllFound, Found, Belongs
  <1>5. ASSUME NEW s \in Restores, pc'[s] = "idle"
        PROVE  Fresh(s)'
    <2>1. Fresh(s) /\ s # None
      BY <1>1, <1>5, Apart DEF SInv
    <2> QED
      BY <1>1, <1>3, <2>1 DEF Fresh, NothingAside
  <1> QED
    BY <1>1, <1>4, <1>5, AtRest DEF SInv

LEMMA IntrudeSafe ==
    ASSUME SInv, Intrude
    PROVE  SInv'
  <1>1. /\ UNCHANGED <<db, journal, aside, marker, pc, parts, clean, down,
                       agreed, missed>>
        /\ store = None /\ store' = Stray
    BY DEF Intrude, run
  <1>2. TypeOK' /\ NoStray' /\ AllFound' /\ Belongs(db, journal)'
        /\ Belongs(agreed["db"], agreed["journal"])'
    BY <1>1 DEF SInv, TypeOK, NoStray, AllFound, Found, Belongs
  <1>3. ASSUME NEW s \in Restores
        PROVE  /\ (pc[s] = "idle" => Fresh(s))'
               /\ (Active(s) => agreed["db"] # s)'
               /\ SafeAt(s)'
    <2>1. s # Stray
      BY RestoreAssumption
    <2> QED
      BY <1>1, <2>1
      DEF SInv, Fresh, NothingAside, SafeAt, Brought, Found, Belongs, Holds,
          Active
  <1> QED
    BY <1>1, <1>2, <1>3 DEF SInv, Active

LEMMA KillSafe ==
    ASSUME SInv, Kill
    PROVE  SInv'
  <1>1. /\ UNCHANGED <<db, journal, store, aside, marker, parts, clean, agreed,
                       missed>>
        /\ down' = TRUE
        /\ pc' = [r \in Restores |-> IF r \in Busy THEN "done" ELSE pc[r]]
    BY DEF Kill, live
  <1>2. TypeOK'
    BY <1>1, StepNames DEF SInv, TypeOK
  <1>3. \A s \in Restores : pc'[s] \in {pc[s], "done"}
    BY <1>1
  <1> QED
    BY <1>1, <1>2, <1>3, SafeStill

LEMMA BootSafe ==
    ASSUME SInv, UNCHANGED <<live, aside, marker, run, agreed>>,
           down' \in BOOLEAN, missed' \subseteq missed \union {"boot"}
    PROVE  SInv'
  <1>1. UNCHANGED <<db, journal, store, aside, marker, pc, parts, clean,
                    agreed>>
    BY DEF live, run
  <1>2. TypeOK'
    BY <1>1 DEF SInv, TypeOK
  <1> QED
    BY <1>1, <1>2, SafeStill

----------------------------------------------------------------------------
(* The theorems. *)

LEMMA InitInv ==
    ASSUME Careful, Init
    PROVE  IInv
  <1>1. /\ db \in {Old, None} /\ journal \in {None, db} /\ store = Old
        /\ marker = {} /\ down = FALSE /\ agreed = Live
        /\ \A r \in Restores : /\ pc[r] = "idle" /\ clean[r] /\ parts[r] # {}
                               /\ aside[r] = Nothing
    BY DEF Init
  <1>2. /\ agreed["db"] = db /\ agreed["journal"] = journal
        /\ agreed["store"] = store
    BY <1>1, LivePieces
  <1>3. Old \in Generations
    BY DEF Generations
  <1>4. TypeOK
    <2>1. Nothing \in [Pieces -> Generations \union {None, Stray}]
      BY DEF Nothing
    <2>2. agreed \in [Pieces -> Generations \union {None, Stray}]
      BY <1>1, <1>3, LivePieces, PieceNames DEF Live
    <2> QED
      BY <1>1, <1>3, <2>1, <2>2, StepNames DEF Init, TypeOK
  <1>5. AgreedIsSound
    <2>1. db = None => \A r \in Restores : parts[r] # {"db", "store"}
      BY DEF Init, Careful
    <2>2. db = None => \A r \in Restores : ~(Holds(r, "db") /\ Holds(r, "store"))
      BY <1>4, <2>1 DEF TypeOK, Holds
    <2> QED
      BY <1>1, <1>2, <1>3, <2>2 DEF AgreedIsSound
  <1>6. OneAtWork
    BY <1>1 DEF OneAtWork, Active
  <1>7. Untouched
    BY <1>1, <1>2, PieceNames DEF Untouched, NothingAside, LiveIsAgreed, Nothing
  <1>8. \A r \in Restores : DbAt(r) /\ StoreAt(r) /\ PartsAt(r) /\ EndAt(r)
    BY <1>1, <1>2, PieceNames
    DEF DbAt, StoreAt, PartsAt, EndAt, DbUntouched, Nothing
  <1> QED
    BY <1>1, <1>4, <1>5, <1>6, <1>7, <1>8 DEF IInv

LEMMA InitSafe ==
    ASSUME Init, IInv
    PROVE  SInv
  <1>1. /\ db \in {Old, None} /\ journal \in {None, db} /\ store = Old
        /\ \A r \in Restores : pc[r] = "idle" /\ aside[r] = Nothing
        /\ agreed["db"] = db /\ agreed["journal"] = journal
        /\ agreed["store"] = store
    BY LivePieces DEF Init
  <1>2. \A r \in Restores : NothingAside(r)
    BY <1>1, PieceNames DEF Nothing, NothingAside
  <1>3. NoStray /\ AllFound /\ Belongs(db, journal)
        /\ Belongs(agreed["db"], agreed["journal"])
    BY <1>1, <1>2, RestoreAssumption
    DEF NoStray, AllFound, Found, Belongs, NothingAside
  <1>4. \A r \in Restores : Fresh(r) /\ ~Active(r) /\ SafeAt(r)
    BY <1>1, <1>2, RestoreAssumption
    DEF Fresh, NothingAside, Active, SafeAt
  <1> QED
    BY <1>3, <1>4 DEF IInv, SInv

\* While no marker is missed, all of the first invariant goes on.
LEMMA NextAgrees ==
    ASSUME Careful, IInv, [Next]_vars, missed' = {}
    PROVE  IInv'
  <1>1. ASSUME NEW r \in Restores, Moves(r)
        PROVE  IInv'
    BY <1>1, BeginStep, StageStep, MarkStep, DbAsideStep, JournalAsideStep,
       DbSwapStep, CheckStep, StoreAsideStep, StoreSwapStep, DbBackStep,
       JournalBackStep, StoreBackStep, DbBackTooStep, JournalBackTooStep,
       UnmarkStep
    DEF Moves
  <1>2. ASSUME NEW r \in Restores, Repair(r)
        PROVE  IInv'
    BY <1>2, RepairStep
  <1>3. CASE Boot
    <2>1. /\ UNCHANGED <<live, aside, marker, run, agreed, missed>>
          /\ down' \in BOOLEAN
      BY <1>3 DEF Boot, Sees
    <2> QED
      BY <2>1, BootStep
  <1>4. CASE UNCHANGED vars
    <2>1. /\ UNCHANGED <<live, aside, marker, run, agreed, missed>>
          /\ down' \in BOOLEAN
      BY <1>4 DEF vars, IInv, TypeOK
    <2> QED
      BY <2>1, BootStep
  <1> QED
    BY <1>1, <1>2, <1>3, <1>4, ServeStep, IntrudeStep, KillStep DEF Next

\* Every step keeps SInv; OpenWebUI serves only where no marker was missed.
LEMMA NextSafe ==
    ASSUME Careful, Inv, [Next]_vars
    PROVE  SInv'
  <1>0. SInv
    BY DEF Inv
  <1>1. ASSUME NEW r \in Restores, Moves(r)
        PROVE  SInv'
    BY <1>0, <1>1, BeginSafe, LooksSafe, DbAsideSafe, JournalAsideSafe,
       DbSwapSafe, StoreAsideSafe, StoreSwapSafe, DbBackSafe,
       JournalBackSafe, StoreBackSafe, DbBackTooSafe, JournalBackTooSafe,
       UnmarkSafe
    DEF Moves
  <1>2. ASSUME NEW r \in Restores, Repair(r)
        PROVE  SInv'
    BY <1>0, <1>2, RepairSafe
  <1>3. CASE Serve
    <2>1. LiveIsAgreed
      BY <1>3, Quiet DEF Serve, Inv
    <2> QED
      BY <1>0, <1>3, <2>1, ServeSafe
  <1>4. CASE Boot
    <2>1. /\ UNCHANGED <<live, aside, marker, run, agreed>>
          /\ down' \in BOOLEAN /\ missed' \subseteq missed \union {"boot"}
      BY <1>4 DEF Boot, Sees
    <2> QED
      BY <1>0, <2>1, BootSafe
  <1>5. CASE UNCHANGED vars
    <2>1. /\ UNCHANGED <<live, aside, marker, run, agreed>>
          /\ down' \in BOOLEAN /\ missed' \subseteq missed \union {"boot"}
      BY <1>0, <1>5 DEF vars, SInv, TypeOK
    <2> QED
      BY <1>0, <2>1, BootSafe
  <1> QED
    BY <1>0, <1>1, <1>2, <1>3, <1>4, <1>5, IntrudeSafe, KillSafe DEF Next

\* A marker that was missed stays missed.
LEMMA MissedStays ==
    ASSUME [Next]_vars, missed' = {}
    PROVE  missed = {}
  <1>1. CASE Next
    <2>1. ASSUME NEW r \in Restores, Moves(r)
          PROVE  missed = {}
      BY <2>1 DEF Moves, Begin, Sees, Stage, Mark, DbAside, JournalAside,
                  DbSwap, Check, StoreAside, StoreSwap, DbBack, JournalBack,
                  StoreBack, DbBackToo, JournalBackToo, Unmark
    <2> QED
      BY <1>1, <2>1 DEF Next, Repair, Serve, Intrude, Kill, Boot, Sees
  <1> QED
    BY <1>1 DEF vars

\* The strengthening is an invariant.
THEOREM Invariant ==
    ASSUME Careful
    PROVE  Spec => []Inv
  <1>1. Init => Inv
    BY InitInv, InitSafe DEF Inv
  <1>2. Inv /\ [Next]_vars => Inv'
    BY NextAgrees, NextSafe, MissedStays DEF Inv
  <1> QED
    BY <1>1, <1>2, PTL DEF Spec

\* Every variable of a restore keeps to its type.
THEOREM TypeCorrect ==
    ASSUME Careful
    PROVE  Spec => []TypeOK
  <1>1. Inv => TypeOK
    BY DEF Inv, SInv
  <1> QED
    BY <1>1, Invariant, PTL

\* Where no marker lies and none was missed, the files are of one generation.
THEOREM UnmarkedAgrees ==
    ASSUME Careful
    PROVE  Spec => []UnmarkedIsAgreed
  <1>1. Inv => UnmarkedIsAgreed
    BY Quiet, LiveByPiece DEF Inv, IInv, UnmarkedIsAgreed
  <1> QED
    BY <1>1, Invariant, PTL

\* At no step does a journal lie beside the database of another generation,
\* also where a restore began over a marker it could not read.
THEOREM JournalBelongs ==
    ASSUME Careful
    PROVE  Spec => []NoForeignJournal
  <1>1. Inv => NoForeignJournal
    BY DEF Inv, SInv, Belongs, NoForeignJournal
  <1> QED
    BY <1>1, Invariant, PTL

\* What was last agreed on is live or set aside, at every step, also where a
\* restore began over a marker it could not read.
THEOREM NothingLost ==
    ASSUME Careful
    PROVE  Spec => []NothingDestroyed
  <1>1. Inv => NothingDestroyed
    BY LivePieces, PieceNames DEF Inv, SInv, AllFound, Found, NothingDestroyed
  <1> QED
    BY <1>1, Invariant, PTL

\* The container comes up on files of one generation, unless this start or
\* something before it went on over a marker it could not read.
THEOREM BootIsWhole ==
    ASSUME Careful
    PROVE  Spec => BootsOneGeneration
  <1>1. Inv /\ [Next]_vars
            => [(down /\ ~down') => Live' = agreed' \/ missed' # {}]_vars
    <2>1. SUFFICES ASSUME Inv, Next, down, ~down', missed' = {}
                   PROVE  Live' = agreed'
      OBVIOUS
    <2>2. \A r \in Restores : ~Moves(r) /\ ~Repair(r)
      BY <2>1 DEF Moves, Begin, Stage, Mark, DbAside, JournalAside, DbSwap,
                  Check, StoreAside, StoreSwap, DbBack, JournalBack, StoreBack,
                  DbBackToo, JournalBackToo, Unmark, Repair
    <2>3. Boot
      BY <2>1, <2>2 DEF Next, Serve, Intrude, Kill
    <2>4. UNCHANGED <<db, journal, store, agreed>>
      BY <2>3 DEF Boot, live
    <2>5. marker = {} /\ missed = {}
      BY <2>1, <2>3, SeesAll DEF Boot, MayBoot
    <2>6. Live = agreed
      BY <2>1, <2>5, Unmarked, LiveByPiece DEF Inv, IInv
    <2>7. Live' = Live
      BY <2>4 DEF Live
    <2> QED
      BY <2>4, <2>6, <2>7
  <1> QED
    BY <1>1, Invariant, PTL DEF Spec, BootsOneGeneration
=============================================================================
