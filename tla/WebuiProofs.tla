---------------------------- MODULE WebuiProofs ----------------------------
(***************************************************************************)
(* Proofs about Webui: every variable keeps to its type, and the snapshot  *)
(* on the volume implements DurableCopy: every step of the boot, of a sync *)
(* and of a fault either publishes, damages or seals a whole image that    *)
(* the live database has held, or leaves the snapshot as it is.            *)
(*                                                                         *)
(* The step needs the strengthening IInv: the files only ever hold images  *)
(* the live database has held, one sync is at work and holds the lock, and *)
(* a sync about to rename has a flushed copy and no sealed snapshot.       *)
(***************************************************************************)
EXTENDS Webui, TLAPS

\* Whatever a file holds, the live database has held.
FilesAreHeld ==
    /\ NoRows \in held /\ local.rows \in held /\ ltmp.rows \in held
    /\ snap.rows \in held /\ dtmp.rows \in held

\* The snapshot is there and whole, or damaged, or it is not there.
SnapIsWhole ==
    /\ snap.kind \in {"none", "whole", "rotten"}
    /\ snap.kind = "none" => snap.rows = NoRows

\* A sync at work is on a pod that is up, and holds the lock.
OneSync == \A p \in Procs : pc[p] # "idle" => pod = "up" /\ lock = p

\* Up to its rename, a sync has no sealed snapshot before it; at the rename
\* its copy has been flushed and compared.
Ready ==
    \A p \in Procs :
        /\ pc[p] \in {"backup", "guard", "copy", "copied", "flush", "replace"}
              => ~Sealed
        /\ pc[p] = "replace" => dtmp.kind = "whole"

\* The type of the files, and of everything else.
FileTypes == local \in File /\ ltmp \in File /\ snap \in File /\ dtmp \in File

Places == {"idle", "backup", "guard", "copy", "copied", "flush", "replace",
           "stamp", "end"}

BootTypes ==
    /\ sidecar \in {"none", "own", "orphan", "foreign"} /\ marker \in BOOLEAN
    /\ aside \subseteq Images /\ held \subseteq Images /\ misread \in BOOLEAN
    /\ clock \in 1 .. MaxClock /\ faults \in 0 .. MaxFaults
    /\ pod \in {"down", "check", "asideSidecar", "asideDb", "asideBare",
                "orphans", "restore", "land", "verify", "up", "refused"}

SyncTypes ==
    /\ pc \in [Procs -> Places] /\ seen \in [Procs -> 0 .. MaxClock]
    /\ lock \in Procs \union {Free}
    /\ override \in BOOLEAN /\ error \in BOOLEAN /\ unscanned \subseteq Procs

Types == FileTypes /\ BootTypes /\ SyncTypes

IInv == Types /\ FilesAreHeld /\ SnapIsWhole /\ OneSync /\ Ready

----------------------------------------------------------------------------
(* Types, files and counters. *)

LEMMA TypeParts == TypeOK <=> Types
  BY DEF TypeOK, Types, FileTypes, BootTypes, SyncTypes, Places

LEMMA FileFields ==
    ASSUME NEW f \in File
    PROVE  f.kind \in Kinds /\ f.rows \in Images /\ f.mtime \in 0 .. MaxClock
  BY DEF File

LEMMA NewFile ==
    ASSUME NEW rows \in Images, NEW t \in 0 .. MaxClock
    PROVE  [kind |-> "whole", rows |-> rows, mtime |-> t] \in File
  BY DEF File, Kinds

\* A file of another kind, or of another date, holds the same rows.
LEMMA Refiled ==
    ASSUME NEW f \in File, NEW k \in Kinds, NEW g, g = [f EXCEPT !.kind = k]
    PROVE  g \in File /\ g.rows = f.rows /\ g.kind = k
  BY DEF File

LEMMA Redated ==
    ASSUME NEW f \in File, NEW t \in 0 .. MaxClock, NEW g,
           g = [f EXCEPT !.mtime = t]
    PROVE  g \in File /\ g.rows = f.rows /\ g.kind = f.kind
  BY DEF File

LEMMA NoRowsIsImage == NoRows \in Images
  BY WebuiAssumption DEF NoRows, Images, Absent, Row

LEMMA MissingIsFile ==
    Missing \in File /\ Missing.kind = "none" /\ Missing.rows = NoRows
  BY NoRowsIsImage, WebuiAssumption DEF Missing, File, Kinds

LEMMA Clocks ==
    ASSUME BootTypes
    PROVE  /\ clock \in 0 .. MaxClock
           /\ clock < MaxClock => /\ clock + 1 \in 1 .. MaxClock
                                  /\ clock + 1 \in 0 .. MaxClock
  BY WebuiAssumption DEF BootTypes

LEMMA FaultCount ==
    ASSUME BootTypes, Fault
    PROVE  faults' \in 0 .. MaxFaults
  BY WebuiAssumption DEF BootTypes, Fault

----------------------------------------------------------------------------
(* What a step that leaves the syncs alone has to keep. *)

\* On a pod that is not up no sync is at work, so a step of the boot keeps
\* the invariant if it keeps the files.
LEMMA BootGoesOn ==
    ASSUME IInv, pod # "up", FileTypes', BootTypes', FilesAreHeld',
           SnapIsWhole', UNCHANGED sync
    PROVE  IInv'
  <1>1. SyncTypes' /\ UNCHANGED <<pc, lock>>
    BY DEF IInv, Types, SyncTypes, sync
  <1>2. \A p \in Procs : pc'[p] = "idle"
    BY <1>1 DEF IInv, OneSync
  <1>3. OneSync' /\ Ready'
    BY <1>2 DEF OneSync, Ready
  <1> QED
    BY <1>1, <1>3 DEF IInv, Types

\* So does a step that kills every process.
LEMMA DiesWell ==
    ASSUME IInv, ProcessesDie, FileTypes', BootTypes', FilesAreHeld',
           SnapIsWhole'
    PROVE  IInv'
  <1>1. SyncTypes'
    <2>1. 0 \in 0 .. MaxClock /\ "idle" \in Places
      BY WebuiAssumption DEF Places
    <2> QED
      BY <2>1 DEF ProcessesDie, SyncTypes
  <1>2. \A p \in Procs : pc'[p] = "idle"
    BY DEF ProcessesDie
  <1>3. OneSync' /\ Ready'
    BY <1>2 DEF OneSync, Ready
  <1> QED
    BY <1>1, <1>3 DEF IInv, Types

\* While the pod is up, a step outside the syncs keeps the invariant if it
\* leaves the temporary files, the marker and the presence of the snapshot.
LEMMA WritesOn ==
    ASSUME IInv, FileTypes', BootTypes', FilesAreHeld', SnapIsWhole',
           UNCHANGED <<sync, pod, marker, dtmp>>, There(snap)' = There(snap)
    PROVE  IInv'
  <1>1. SyncTypes' /\ UNCHANGED <<pc, lock>>
    BY DEF IInv, Types, SyncTypes, sync
  <1>2. OneSync' /\ Ready'
    BY <1>1 DEF IInv, OneSync, Ready, Sealed
  <1> QED
    BY <1>1, <1>2 DEF IInv, Types

----------------------------------------------------------------------------
(* OpenWebUI and the boot. *)

LEMMA CreateSchemaStep ==
    ASSUME IInv, CreateSchema
    PROVE  IInv'
  <1>1. /\ local' = [kind |-> "whole", rows |-> NoRows, mtime |-> clock]
        /\ sidecar' \in {sidecar, "foreign"}
        /\ UNCHANGED <<ltmp, marker, snap, dtmp, aside, clock, pod, sync, faults, held, misread>>
    BY DEF CreateSchema, Journal, volume
  <1>2. /\ FileTypes /\ BootTypes /\ FilesAreHeld /\ SnapIsWhole
    BY DEF IInv, Types
  <1>3. local' \in File /\ local'.rows = NoRows
    BY <1>1, <1>2, NewFile, Clocks, NoRowsIsImage
  <1>4. FileTypes' /\ BootTypes' /\ FilesAreHeld' /\ SnapIsWhole'
    BY <1>1, <1>2, <1>3 DEF FileTypes, BootTypes, FilesAreHeld, SnapIsWhole
  <1> QED
    BY <1>1, <1>4, WritesOn DEF There

LEMMA OpenWebUIStep ==
    ASSUME IInv, NEW c \in Chats, OpenWebUI(c)
    PROVE  IInv'
  <1>1. /\ FileTypes /\ BootTypes /\ FilesAreHeld /\ SnapIsWhole
    BY DEF IInv, Types
  <1>2. /\ clock < MaxClock /\ clock' = clock + 1
        /\ UNCHANGED <<sidecar, ltmp, marker, snap, dtmp, aside, pod, sync, faults, misread>>
    BY DEF OpenWebUI, volume
  <1>3. PICK row \in Written(c) :
            /\ local' = [kind |-> "whole", rows |-> [local.rows EXCEPT ![c] = row],
                         mtime |-> clock + 1]
            /\ held' = held \union {[local.rows EXCEPT ![c] = row]}
    BY DEF OpenWebUI
  <1>4. row \in Row
    <2>1. Absent \in Row
      BY WebuiAssumption DEF Absent, Row
    <2>2. \A long \in BOOLEAN : [at |-> clock + 1, long |-> long] \in Row
      BY <1>1, <1>2, Clocks DEF Row
    <2> QED
      BY <2>1, <2>2 DEF Written
  <1> DEFINE rows == [local.rows EXCEPT ![c] = row]
  <1>5. rows \in Images
    BY <1>1, <1>4, FileFields DEF FileTypes, Images
  <1> HIDE DEF rows
  <1>6. /\ local' = [kind |-> "whole", rows |-> rows, mtime |-> clock + 1]
        /\ held' = held \union {rows}
    BY <1>3 DEF rows
  <1>7. local' \in File /\ local'.rows = rows
    BY <1>1, <1>2, <1>5, <1>6, NewFile, Clocks
  <1>8. FileTypes' /\ BootTypes' /\ FilesAreHeld' /\ SnapIsWhole'
    <2>1. clock' \in 1 .. MaxClock
      BY <1>1, <1>2, Clocks
    <2> QED
      BY <1>1, <1>2, <1>5, <1>6, <1>7, <2>1
      DEF FileTypes, BootTypes, FilesAreHeld, SnapIsWhole
  <1> QED
    BY <1>2, <1>8, WritesOn DEF There

LEMMA BootCheckStep ==
    ASSUME IInv, BootCheck
    PROVE  IInv'
  <1>1. /\ FileTypes /\ BootTypes /\ FilesAreHeld /\ SnapIsWhole
    BY DEF IInv, Types
  <1>2. /\ pod = "check"
        /\ UNCHANGED <<ltmp, marker, snap, dtmp, aside, clock, sync, faults, held>>
        /\ sidecar' \in {sidecar, "none"} /\ misread' \in {misread, TRUE, FALSE}
    BY DEF BootCheck, Replayed, volume
  <1>3. pod' \in {"asideSidecar", "up", "refused", "orphans"}
    BY DEF BootCheck, BootVerdict
  <1>4. PICK k \in Kinds :
            local' = local \/ local' = [local EXCEPT !.kind = k]
    BY DEF BootCheck, Opened, Kinds
  <1>5. local' \in File /\ local'.rows = local.rows
    BY <1>1, <1>4, Refiled DEF FileTypes
  <1>6. FileTypes' /\ BootTypes' /\ FilesAreHeld' /\ SnapIsWhole'
    BY <1>1, <1>2, <1>3, <1>5 DEF FileTypes, BootTypes, FilesAreHeld, SnapIsWhole
  <1> QED
    BY <1>2, <1>6, BootGoesOn

\* The steps of the boot that move no file into place.
LEMMA BootMovesOn ==
    ASSUME IInv, pod # "up", UNCHANGED <<snap, dtmp, ltmp, clock, sync, faults, held>>,
           misread' \in {misread, FALSE},
           local' \in {local, Missing}, marker' \in BOOLEAN,
           sidecar' \in {sidecar, "none", "own"},
           aside' \in {aside, {local.rows}, {}},
           pod' \in {"check", "asideBare", "asideDb", "orphans", "restore",
                     "land", "up", "refused"}
    PROVE  IInv'
  <1>1. /\ FileTypes /\ BootTypes /\ FilesAreHeld /\ SnapIsWhole
    BY DEF IInv, Types
  <1>2. aside' \subseteq Images
    BY <1>1, FileFields DEF BootTypes, FileTypes
  <1>3. FileTypes' /\ BootTypes' /\ FilesAreHeld' /\ SnapIsWhole'
    BY <1>1, <1>2, MissingIsFile
    DEF FileTypes, BootTypes, FilesAreHeld, SnapIsWhole
  <1> QED
    BY <1>3, BootGoesOn

LEMMA BootStep ==
    ASSUME IInv, Boot \/ EmptyStart \/ AsideSidecar \/ AsideDb \/ ClearOrphans
                 \/ RestoreCheck \/ Verify
    PROVE  IInv'
  <1>1. marker \in BOOLEAN
    BY DEF IInv, Types, BootTypes
  <1>2. CASE Boot
    BY <1>1, <1>2, BootMovesOn DEF Boot, overlay
  <1>3. CASE EmptyStart
    BY <1>1, <1>3, BootMovesOn DEF EmptyStart, volume
  <1>4. CASE AsideSidecar
    BY <1>1, <1>4, BootMovesOn DEF AsideSidecar, volume
  <1>5. CASE AsideDb
    BY <1>1, <1>5, BootMovesOn DEF AsideDb, AsideFails
  <1>6. CASE ClearOrphans
    BY <1>1, <1>6, BootMovesOn DEF ClearOrphans, volume
  <1>7. CASE RestoreCheck
    BY <1>1, <1>7, BootMovesOn DEF RestoreCheck, overlay, volume
  <1>8. CASE Verify
    <2>1. marker' \in BOOLEAN /\ local' \in {local, Missing}
          /\ aside' \in {aside, {local.rows}} /\ pod' \in {"up", "refused"}
      BY <1>1, <1>8 DEF Verify
    <2> QED
      BY <1>8, <2>1, BootMovesOn DEF Verify
  <1> QED
    BY <1>2, <1>3, <1>4, <1>5, <1>6, <1>7, <1>8

LEMMA LandStep ==
    ASSUME IInv, Land
    PROVE  IInv'
  <1>1. /\ FileTypes /\ BootTypes /\ FilesAreHeld /\ SnapIsWhole
    BY DEF IInv, Types
  <1>2. /\ pod = "land" /\ pod' \in {"verify", "refused"}
        /\ UNCHANGED <<ltmp, marker, snap, dtmp, aside, clock, sync, faults, held, misread>>
        /\ sidecar' \in {sidecar, "foreign"}
    BY DEF Land, Journal, volume
  <1>3. PICK k \in Kinds :
            local' = local \/ local' = [snap EXCEPT !.kind = k]
    BY DEF Land, Kinds
  <1>4. local' \in File /\ local'.rows \in held
    BY <1>1, <1>3, Refiled DEF FileTypes, FilesAreHeld
  <1>5. FileTypes' /\ BootTypes' /\ FilesAreHeld' /\ SnapIsWhole'
    BY <1>1, <1>2, <1>4 DEF FileTypes, BootTypes, FilesAreHeld, SnapIsWhole
  <1> QED
    BY <1>2, <1>5, BootGoesOn

----------------------------------------------------------------------------
(* The syncs. *)

\* While a sync is at work no other is, and it holds the lock.
LEMMA SyncAlone ==
    ASSUME IInv, NEW p \in Procs, pc[p] # "idle"
    PROVE  /\ pod = "up" /\ lock = p
           /\ \A q \in Procs \ {p} : pc[q] = "idle"
  BY DEF IInv, OneSync

\* A sync goes to a place, or to its end.
LEMMA SyncMoves ==
    ASSUME SyncTypes, NEW p \in Procs, NEW step \in Places,
           \/ Goes(p, step)
           \/ step = "end" /\ \E failed \in BOOLEAN : EndsWith(p, failed)
    PROVE  /\ pc' \in [Procs -> Places] /\ pc'[p] = step /\ error' \in BOOLEAN
           /\ \A q \in Procs \ {p} : pc'[q] = pc[q]
  BY DEF SyncTypes, Goes, EndsWith

LEMMA PlaceNames ==
    Places = {"idle", "backup", "guard", "copy", "copied", "flush", "replace",
              "stamp", "end"}
  BY DEF Places

\* A sync that goes on keeps the invariant if it keeps the files, meets no
\* sealed snapshot it has not looked at, and renames only what is whole.
LEMMA SyncGoesOn ==
    ASSUME IInv, NEW p \in Procs, pc[p] # "idle", NEW step \in Places,
           \/ Goes(p, step)
           \/ step = "end" /\ \E failed \in BOOLEAN : EndsWith(p, failed),
           FileTypes', FilesAreHeld', SnapIsWhole',
           UNCHANGED <<sidecar, marker, aside, clock, pod, seen, override, lock,
                       faults, held, misread>>,
           unscanned' \subseteq unscanned \union {p},
           step \in {"backup", "guard", "copy", "copied", "flush", "replace"}
              => /\ pc[p] \in {"backup", "guard", "copy", "copied", "flush"}
                 /\ There(snap)' = There(snap),
           step = "replace" => dtmp'.kind = "whole"
    PROVE  IInv'
  <1>1. /\ pod = "up" /\ lock = p
        /\ \A q \in Procs \ {p} : pc[q] = "idle"
    BY SyncAlone
  <1>2. BootTypes /\ SyncTypes
    BY DEF IInv, Types
  <1>3. /\ pc' \in [Procs -> Places] /\ pc'[p] = step /\ error' \in BOOLEAN
        /\ \A q \in Procs \ {p} : pc'[q] = pc[q]
    BY <1>2, SyncMoves
  <1>4. BootTypes' /\ SyncTypes'
    BY <1>2, <1>3 DEF BootTypes, SyncTypes
  <1>5. OneSync'
    BY <1>1, <1>3 DEF OneSync
  <1>6. Ready'
    <2>1. ASSUME step \in {"backup", "guard", "copy", "copied", "flush", "replace"}
          PROVE  ~Sealed'
      BY <2>1 DEF IInv, Ready, Sealed
    <2> QED
      BY <1>1, <1>3, <2>1 DEF Ready
  <1> QED
    BY <1>4, <1>5, <1>6 DEF IInv, Types

LEMMA StartStep ==
    ASSUME LockDegrades = FALSE, IInv, NEW p \in Procs, Start(p)
    PROVE  IInv'
  <1>1. /\ pod = "up" /\ pc[p] = "idle" /\ lock = Free /\ lock' = p
        /\ ltmp' = Missing /\ dtmp' = Missing
        /\ seen' = [seen EXCEPT ![p] = local.mtime]
        /\ UNCHANGED <<local, sidecar, marker, snap, aside, clock, pod, faults, held, misread,
                       unscanned>>
    BY DEF Start, Locks, Swept
  <1>2. FileTypes /\ BootTypes /\ SyncTypes /\ FilesAreHeld /\ SnapIsWhole
    BY DEF IInv, Types
  <1>3. override' \in BOOLEAN
    BY <1>2 DEF Start, SyncTypes
  <1>4. PICK step \in {"backup", "end"} :
            /\ \/ Goes(p, step)
               \/ step = "end" /\ \E failed \in BOOLEAN : EndsWith(p, failed)
            /\ step = "backup" => ~Sealed
    BY DEF Start
  <1>5. /\ pc' \in [Procs -> Places] /\ pc'[p] = step /\ error' \in BOOLEAN
        /\ \A q \in Procs \ {p} : pc'[q] = pc[q]
    BY <1>2, <1>4, SyncMoves, PlaceNames
  <1>6. \A q \in Procs : pc[q] = "idle"
    BY <1>1, WebuiAssumption DEF IInv, OneSync
  <1>7. FileTypes' /\ BootTypes' /\ FilesAreHeld' /\ SnapIsWhole'
    BY <1>1, <1>2, MissingIsFile
    DEF FileTypes, BootTypes, FilesAreHeld, SnapIsWhole
  <1>8. SyncTypes'
    <2>1. seen' \in [Procs -> 0 .. MaxClock]
      BY <1>1, <1>2, FileFields DEF SyncTypes, FileTypes
    <2> QED
      BY <1>1, <1>2, <1>3, <1>5, <2>1 DEF SyncTypes
  <1>9. OneSync' /\ Ready'
    BY <1>1, <1>4, <1>5, <1>6 DEF OneSync, Ready, Sealed
  <1> QED
    BY <1>7, <1>8, <1>9 DEF IInv, Types

LEMMA BackupStep ==
    ASSUME IInv, NEW p \in Procs, Backup(p)
    PROVE  IInv'
  <1>1. /\ pc[p] = "backup" /\ ltmp' = [local EXCEPT !.mtime = clock]
        /\ UNCHANGED <<local, sidecar, marker, snap, dtmp, aside, clock, pod,
                       seen, override, lock, faults, held, misread,
                       unscanned>>
    BY DEF Backup, volume
  <1>2. FileTypes /\ BootTypes /\ FilesAreHeld /\ SnapIsWhole
    BY DEF IInv, Types
  <1>3. ltmp' \in File /\ ltmp'.rows = local.rows
    BY <1>1, <1>2, Redated, Clocks DEF FileTypes
  <1>4. FileTypes' /\ FilesAreHeld' /\ SnapIsWhole'
    BY <1>1, <1>2, <1>3 DEF FileTypes, FilesAreHeld, SnapIsWhole
  <1>5. PICK step \in {"guard", "end"} :
            \/ Goes(p, step)
            \/ step = "end" /\ EndsWith(p, TRUE)
    BY DEF Backup
  <1> QED
    BY <1>1, <1>4, <1>5, SyncGoesOn, PlaceNames DEF There

LEMMA GuardStep ==
    ASSUME IInv, NEW p \in Procs, Guard(p)
    PROVE  IInv'
  <1>1. /\ pc[p] = "guard"
        /\ UNCHANGED <<local, sidecar, ltmp, marker, snap, dtmp, aside, clock,
                       pod, seen, override, lock, faults, held, misread>>
        /\ unscanned' \subseteq unscanned \union {p}
    BY DEF Guard, overlay, volume
  <1>2. FileTypes' /\ FilesAreHeld' /\ SnapIsWhole'
    BY <1>1 DEF IInv, Types, FileTypes, FilesAreHeld, SnapIsWhole
  <1>3. PICK step \in {"copy", "end"} :
            \/ Goes(p, step)
            \/ step = "end" /\ EndsWith(p, TRUE)
    BY DEF Guard
  <1> QED
    BY <1>1, <1>2, <1>3, SyncGoesOn, PlaceNames DEF There

LEMMA CopyStep ==
    ASSUME IInv, NEW p \in Procs, Copy(p)
    PROVE  IInv'
  <1>1. /\ pc[p] = "copy" /\ dtmp' = [ltmp EXCEPT !.kind = "part"]
        /\ Goes(p, "copied")
        /\ UNCHANGED <<local, sidecar, ltmp, marker, snap, aside, clock, pod,
                       seen, override, lock, faults, held, misread,
                       unscanned>>
    BY DEF Copy, overlay
  <1>2. FileTypes /\ FilesAreHeld /\ SnapIsWhole
    BY DEF IInv, Types
  <1>3. dtmp' \in File /\ dtmp'.rows = ltmp.rows
    BY <1>1, <1>2, Refiled DEF FileTypes, Kinds
  <1>4. FileTypes' /\ FilesAreHeld' /\ SnapIsWhole'
    BY <1>1, <1>2, <1>3 DEF FileTypes, FilesAreHeld, SnapIsWhole
  <1> QED
    BY <1>1, <1>4, SyncGoesOn, PlaceNames DEF There

LEMMA CopiedStep ==
    ASSUME IInv, NEW p \in Procs, Copied(p)
    PROVE  IInv'
  <1>1. /\ pc[p] = "copied"
        /\ UNCHANGED <<local, sidecar, ltmp, marker, snap, aside, clock, pod,
                       seen, override, lock, faults, held, misread,
                       unscanned>>
    BY DEF Copied, overlay
  <1>2. FileTypes /\ FilesAreHeld /\ SnapIsWhole
    BY DEF IInv, Types
  <1>3. PICK k \in Kinds :
            dtmp' = dtmp \/ dtmp' = [ltmp EXCEPT !.kind = k]
    BY DEF Copied, Kinds
  <1>4. dtmp' \in File /\ dtmp'.rows \in held
    BY <1>2, <1>3, Refiled DEF FileTypes, FilesAreHeld
  <1>5. FileTypes' /\ FilesAreHeld' /\ SnapIsWhole'
    BY <1>1, <1>2, <1>4 DEF FileTypes, FilesAreHeld, SnapIsWhole
  <1>6. PICK step \in {"flush", "end"} :
            \/ Goes(p, step)
            \/ step = "end" /\ EndsWith(p, TRUE)
    BY DEF Copied
  <1> QED
    BY <1>1, <1>5, <1>6, SyncGoesOn, PlaceNames DEF There

LEMMA FlushStep ==
    ASSUME IInv, NEW p \in Procs, Flush(p)
    PROVE  IInv'
  <1>1. /\ pc[p] = "flush"
        /\ UNCHANGED <<local, sidecar, ltmp, marker, snap, aside, clock, pod,
                       seen, override, lock, faults, held, misread,
                       unscanned>>
    BY DEF Flush, overlay
  <1>2. FileTypes /\ FilesAreHeld /\ SnapIsWhole
    BY DEF IInv, Types
  <1>3. CASE dtmp' = [dtmp EXCEPT !.kind = "whole"] /\ Goes(p, "replace")
    <2>1. dtmp' \in File /\ dtmp'.rows = dtmp.rows /\ dtmp'.kind = "whole"
      BY <1>2, <1>3, Refiled DEF FileTypes, Kinds
    <2>2. FileTypes' /\ FilesAreHeld' /\ SnapIsWhole'
      BY <1>1, <1>2, <2>1 DEF FileTypes, FilesAreHeld, SnapIsWhole
    <2> QED
      BY <1>1, <1>3, <2>1, <2>2, SyncGoesOn, PlaceNames DEF There
  <1>4. CASE UNCHANGED dtmp /\ EndsWith(p, TRUE)
    <2>1. FileTypes' /\ FilesAreHeld' /\ SnapIsWhole'
      BY <1>1, <1>2, <1>4 DEF FileTypes, FilesAreHeld, SnapIsWhole
    <2> QED
      BY <1>1, <1>4, <2>1, SyncGoesOn, PlaceNames
  <1> QED
    BY <1>3, <1>4 DEF Flush

LEMMA ReplaceStep ==
    ASSUME IInv, NEW p \in Procs, Replace(p)
    PROVE  IInv'
  <1>1. /\ pc[p] = "replace" /\ dtmp.kind = "whole"
        /\ snap' = dtmp /\ dtmp' = Missing /\ Goes(p, "stamp")
        /\ UNCHANGED <<local, sidecar, ltmp, marker, aside, clock, pod, seen,
                       override, lock, faults, held, misread,
                       unscanned>>
    BY DEF IInv, Ready, Replace, There, overlay
  <1>2. FileTypes /\ FilesAreHeld /\ SnapIsWhole
    BY DEF IInv, Types
  <1>3. FileTypes' /\ FilesAreHeld' /\ SnapIsWhole'
    BY <1>1, <1>2, MissingIsFile DEF FileTypes, FilesAreHeld, SnapIsWhole
  <1> QED
    BY <1>1, <1>3, SyncGoesOn, PlaceNames

LEMMA StampStep ==
    ASSUME IInv, NEW p \in Procs, Stamp(p)
    PROVE  IInv'
  <1>1. /\ pc[p] = "stamp" /\ EndsWith(p, FALSE)
        /\ UNCHANGED <<local, sidecar, ltmp, marker, dtmp, aside, clock, pod,
                       seen, override, lock, faults, held, misread,
                       unscanned>>
        /\ snap' = snap \/ snap' = [snap EXCEPT !.mtime = seen[p]]
    BY DEF Stamp, overlay
  <1>2. FileTypes /\ SyncTypes /\ FilesAreHeld /\ SnapIsWhole
    BY DEF IInv, Types
  <1>3. seen[p] \in 0 .. MaxClock
    BY <1>2 DEF SyncTypes
  <1>4. snap' \in File /\ snap'.rows = snap.rows /\ snap'.kind = snap.kind
    BY <1>1, <1>2, <1>3, Redated DEF FileTypes
  <1>5. FileTypes' /\ FilesAreHeld' /\ SnapIsWhole'
    BY <1>1, <1>2, <1>4 DEF FileTypes, FilesAreHeld, SnapIsWhole
  <1> QED
    BY <1>1, <1>5, SyncGoesOn, PlaceNames

LEMMA EndStep ==
    ASSUME IInv, NEW p \in Procs, End(p)
    PROVE  IInv'
  <1>1. /\ pc[p] = "end" /\ ltmp' = Missing /\ dtmp' = Missing
        /\ pc' = [pc EXCEPT ![p] = "idle"] /\ seen' = [seen EXCEPT ![p] = 0]
        /\ UNCHANGED <<local, sidecar, marker, snap, aside, clock, pod, error,
                       faults, held, misread>>
        /\ unscanned' = unscanned \ {p}
    BY DEF End
  <1>2. FileTypes /\ BootTypes /\ SyncTypes /\ FilesAreHeld /\ SnapIsWhole
    BY DEF IInv, Types
  <1>3. \A q \in Procs \ {p} : pc[q] = "idle"
    BY <1>1, SyncAlone
  <1>4. \A q \in Procs : pc'[q] = "idle"
    BY <1>1, <1>2, <1>3 DEF SyncTypes
  <1>5. FileTypes' /\ BootTypes' /\ FilesAreHeld' /\ SnapIsWhole'
    BY <1>1, <1>2, MissingIsFile
    DEF FileTypes, BootTypes, FilesAreHeld, SnapIsWhole
  <1>6. SyncTypes'
    <2>1. pc' \in [Procs -> Places]
      BY <1>1, <1>2, PlaceNames DEF SyncTypes
    <2>2. seen' \in [Procs -> 0 .. MaxClock]
      <3>1. 0 \in 0 .. MaxClock
        BY WebuiAssumption
      <3> QED
        BY <1>1, <1>2, <3>1 DEF SyncTypes
    <2>3. lock' \in Procs \union {Free} /\ override' \in BOOLEAN
      BY <1>2 DEF End, SyncTypes
    <2> QED
      BY <1>1, <1>2, <2>1, <2>2, <2>3 DEF SyncTypes
  <1>7. OneSync' /\ Ready'
    BY <1>4 DEF OneSync, Ready
  <1> QED
    BY <1>5, <1>6, <1>7 DEF IInv, Types

----------------------------------------------------------------------------
(* Faults. *)

LEMMA KillStep ==
    ASSUME IInv, Kill
    PROVE  IInv'
  <1>1. /\ ProcessesDie
        /\ sidecar' \in {sidecar, "own"}
        /\ UNCHANGED <<ltmp, marker, snap, dtmp, aside, clock, held, misread>>
    BY DEF Kill, volume
  <1>2. FileTypes /\ BootTypes /\ FilesAreHeld /\ SnapIsWhole
    BY DEF IInv, Types
  <1>3. local' = local \/ local' = [local EXCEPT !.kind = "hot"]
    BY DEF Kill
  <1>4. local' \in File /\ local'.rows = local.rows
    BY <1>2, <1>3, Refiled DEF FileTypes, Kinds
  <1>5. faults' \in 0 .. MaxFaults
    BY <1>2, FaultCount DEF Kill
  <1>6. FileTypes' /\ BootTypes' /\ FilesAreHeld' /\ SnapIsWhole'
    BY <1>1, <1>2, <1>4, <1>5
    DEF FileTypes, BootTypes, FilesAreHeld, SnapIsWhole, ProcessesDie
  <1> QED
    BY <1>1, <1>6, DiesWell

\* A file that was not on the volume yet is torn, another is as it was.
LEMMA TornFile ==
    ASSUME NEW f \in File
    PROVE  /\ Torn(f) \in File /\ Torn(f).rows = f.rows
           /\ f.kind # "cached" => Torn(f) = f
  <1>1. CASE f.kind = "cached"
    BY <1>1, Refiled DEF Torn, Kinds
  <1>2. CASE f.kind # "cached"
    BY <1>2 DEF Torn
  <1> QED
    BY <1>1, <1>2

LEMMA RecreateStep ==
    ASSUME IInv, Recreate
    PROVE  IInv'
  <1>1. /\ ProcessesDie
        /\ local' = Missing /\ sidecar' = "none" /\ ltmp' = Missing
        /\ marker' = FALSE /\ snap' = Torn(snap) /\ dtmp' = Torn(dtmp)
        /\ UNCHANGED <<aside, clock, held, misread>>
    BY DEF Recreate
  <1>2. FileTypes /\ BootTypes /\ FilesAreHeld /\ SnapIsWhole
    BY DEF IInv, Types
  <1>3. snap' = snap /\ dtmp' \in File /\ dtmp'.rows = dtmp.rows
    BY <1>1, <1>2, TornFile DEF FileTypes, SnapIsWhole
  <1>4. faults' \in 0 .. MaxFaults
    BY <1>2, FaultCount DEF Recreate
  <1>5. FileTypes' /\ BootTypes' /\ FilesAreHeld' /\ SnapIsWhole'
    BY <1>1, <1>2, <1>3, <1>4, MissingIsFile
    DEF FileTypes, BootTypes, FilesAreHeld, SnapIsWhole, ProcessesDie
  <1> QED
    BY <1>1, <1>5, DiesWell

LEMMA RotStep ==
    ASSUME IInv, Rot
    PROVE  IInv'
  <1>1. /\ sidecar' \in {sidecar, "own"}
        /\ UNCHANGED <<ltmp, marker, dtmp, aside, clock, pod, sync, held, misread>>
    BY DEF Rot
  <1>2. FileTypes /\ BootTypes /\ FilesAreHeld /\ SnapIsWhole
    BY DEF IInv, Types
  <1>3. /\ local' = local \/ local' = [local EXCEPT !.kind = "rotten"]
        /\ \/ snap' = snap
           \/ snap.kind = "whole" /\ snap' = [snap EXCEPT !.kind = "rotten"]
    BY DEF Rot
  <1>4. local' \in File /\ local'.rows = local.rows
    BY <1>2, <1>3, Refiled DEF FileTypes, Kinds
  <1>5. /\ snap' \in File /\ snap'.rows = snap.rows
        /\ \/ snap'.kind = snap.kind
           \/ snap.kind = "whole" /\ snap'.kind = "rotten"
    BY <1>2, <1>3, Refiled DEF FileTypes, Kinds
  <1>6. faults' \in 0 .. MaxFaults
    BY <1>2, FaultCount DEF Rot
  <1>7. FileTypes' /\ BootTypes' /\ FilesAreHeld' /\ SnapIsWhole'
    BY <1>1, <1>2, <1>4, <1>5, <1>6
    DEF FileTypes, BootTypes, FilesAreHeld, SnapIsWhole
  <1> QED
    BY <1>1, <1>5, <1>7, WritesOn DEF There

LEMMA RecoverStep ==
    ASSUME IInv, Recover
    PROVE  IInv'
  <1>1. /\ snap.kind = "rotten" /\ snap' = [snap EXCEPT !.kind = "whole"]
        /\ UNCHANGED <<local, sidecar, ltmp, marker, dtmp, aside, clock, pod,
                       sync, faults, held, misread>>
    BY DEF Recover, overlay
  <1>2. FileTypes /\ BootTypes /\ FilesAreHeld /\ SnapIsWhole
    BY DEF IInv, Types
  <1>3. snap' \in File /\ snap'.rows = snap.rows /\ snap'.kind = "whole"
    BY <1>1, <1>2, Refiled DEF FileTypes, Kinds
  <1>4. FileTypes' /\ BootTypes' /\ FilesAreHeld' /\ SnapIsWhole'
    BY <1>1, <1>2, <1>3 DEF FileTypes, BootTypes, FilesAreHeld, SnapIsWhole
  <1> QED
    BY <1>1, <1>3, <1>4, WritesOn DEF There

LEMMA ByHandStep ==
    ASSUME IInv, ByHand
    PROVE  IInv'
  <1>1. /\ pod # "up"
        /\ UNCHANGED <<ltmp, marker, snap, dtmp, pod, sync, held, misread>>
    BY DEF ByHand
  <1>2. FileTypes /\ BootTypes /\ FilesAreHeld /\ SnapIsWhole
    BY DEF IInv, Types
  <1>3. local.rows \in Images
    BY <1>2, FileFields DEF FileTypes
  <1>4. /\ local' \in File /\ local'.rows \in held
        /\ clock' \in 1 .. MaxClock
        /\ sidecar' \in {"none", "own", "orphan", "foreign"}
        /\ aside' \subseteq Images
    <2>1. CASE /\ local' = Missing /\ aside' = {local.rows} /\ UNCHANGED clock
               /\ sidecar' = IF sidecar = "own" THEN "orphan" ELSE sidecar
      BY <1>2, <1>3, <2>1, MissingIsFile DEF BootTypes, FilesAreHeld
    <2>2. ASSUME NEW rows \in held, clock < MaxClock, clock' = clock + 1,
                 local' = [kind |-> "whole", rows |-> rows, mtime |-> clock + 1],
                 aside' = (IF There(local) THEN aside \union {local.rows} ELSE aside),
                 sidecar' = sidecar
          PROVE  /\ local' \in File /\ local'.rows \in held
                 /\ clock' \in 1 .. MaxClock
                 /\ sidecar' \in {"none", "own", "orphan", "foreign"}
                 /\ aside' \subseteq Images
      <3>1. rows \in Images
        BY <1>2 DEF BootTypes
      <3>2. local' \in File /\ local'.rows = rows
        BY <1>2, <2>2, <3>1, NewFile, Clocks
      <3> QED
        BY <1>2, <1>3, <2>2, <3>2, Clocks DEF BootTypes
    <2> QED
      BY <2>1, <2>2 DEF ByHand
  <1>5. faults' \in 0 .. MaxFaults
    BY <1>2, FaultCount DEF ByHand
  <1>6. FileTypes' /\ BootTypes' /\ FilesAreHeld' /\ SnapIsWhole'
    BY <1>1, <1>2, <1>4, <1>5
    DEF FileTypes, BootTypes, FilesAreHeld, SnapIsWhole
  <1> QED
    BY <1>1, <1>6, BootGoesOn

----------------------------------------------------------------------------
(* The theorems. *)

LEMMA InitInv ==
    ASSUME Init
    PROVE  IInv
  <1>1. snap \in File /\ snap.kind \in {"none", "whole"}
        /\ (snap.kind = "none" => snap.rows = NoRows)
    <2>1. CASE snap = Missing
      BY <2>1, MissingIsFile
    <2>2. CASE snap = [kind |-> "whole", mtime |-> 1,
                       rows |-> [c \in Chats |-> [at |-> 1, long |-> TRUE]]]
      <3>1. 1 \in 0 .. MaxClock
        BY WebuiAssumption
      <3>2. [c \in Chats |-> [at |-> 1, long |-> TRUE]] \in Images
        BY <3>1 DEF Images, Row
      <3> QED
        BY <2>2, <3>1, <3>2, NewFile
    <2> QED
      BY <2>1, <2>2 DEF Init
  <1>2. FileTypes
    BY <1>1, MissingIsFile DEF Init, FileTypes
  <1>3. BootTypes
    <2>1. held \subseteq Images
      BY <1>1, FileFields, NoRowsIsImage DEF Init
    <2>2. clock \in 1 .. MaxClock /\ faults \in 0 .. MaxFaults
      BY WebuiAssumption DEF Init
    <2> QED
      BY <2>1, <2>2 DEF Init, BootTypes
  <1>4. SyncTypes
    <2>1. 0 \in 0 .. MaxClock
      BY WebuiAssumption
    <2> QED
      BY <2>1, PlaceNames DEF Init, SyncTypes
  <1>5. FilesAreHeld
    BY MissingIsFile DEF Init, FilesAreHeld
  <1>6. SnapIsWhole
    BY <1>1 DEF SnapIsWhole
  <1>7. OneSync /\ Ready
    BY DEF Init, OneSync, Ready
  <1> QED
    BY <1>2, <1>3, <1>4, <1>5, <1>6, <1>7 DEF IInv, Types

LEMMA NextInv ==
    ASSUME LockDegrades = FALSE, IInv, [Next]_vars
    PROVE  IInv'
  <1>1. ASSUME NEW p \in Procs, Sync(p)
        PROVE  IInv'
    BY <1>1, StartStep, BackupStep, GuardStep, CopyStep, CopiedStep, FlushStep,
       ReplaceStep, StampStep, EndStep
    DEF Sync
  <1>2. CASE Program
    BY <1>1, <1>2, BootCheckStep, BootStep, LandStep DEF Program
  <1>3. ASSUME NEW c \in Chats, OpenWebUI(c)
        PROVE  IInv'
    BY <1>3, OpenWebUIStep
  <1>4. CASE UNCHANGED vars
    BY <1>4 DEF vars, overlay, volume, sync, IInv, Types, FileTypes, BootTypes,
                SyncTypes, FilesAreHeld, SnapIsWhole, OneSync, Ready, Sealed, There
  <1> QED
    BY <1>2, <1>3, <1>4, BootStep, CreateSchemaStep, KillStep, RecreateStep,
       RotStep, RecoverStep, ByHandStep
    DEF Next

\* The strengthening is an invariant where the lock file can be opened.
THEOREM Invariant ==
    ASSUME LockDegrades = FALSE
    PROVE  Spec => []IInv
  <1>1. Init => IInv
    BY InitInv
  <1>2. IInv /\ [Next]_vars => IInv'
    BY NextInv
  <1> QED
    BY <1>1, <1>2, PTL DEF Spec

\* Every variable keeps to its type.
THEOREM TypeCorrect ==
    ASSUME LockDegrades = FALSE
    PROVE  Spec => []TypeOK
  <1>1. IInv => TypeOK
    BY TypeParts DEF IInv
  <1> QED
    BY <1>1, Invariant, PTL

----------------------------------------------------------------------------
(* The snapshot implements DurableCopy. *)

\* A step that leaves the held images, the content and the state of the
\* snapshot, and the marker is a step the abstract specification does not
\* see.
LEMMA Stutters ==
    ASSUME UNCHANGED <<held, marker>>,
           snap'.rows = snap.rows, snap'.kind = snap.kind
    PROVE  UNCHANGED Durable!vars
  BY DEF Durable!vars, Image

\* One that changes the marker only seals or unseals the copy.
LEMMA Seals ==
    ASSUME marker \in BOOLEAN, marker' \in BOOLEAN, UNCHANGED held,
           snap'.rows = snap.rows, snap'.kind = snap.kind
    PROVE  [Durable!Next]_(Durable!vars)
  <1>1. CASE marker' = marker
    BY <1>1, Stutters
  <1>2. CASE marker' = ~marker
    <2>1. Durable!Seal
      BY <1>2 DEF Durable!Seal, Image
    <2> QED
      BY <2>1 DEF Durable!Next
  <1> QED
    BY <1>1, <1>2

\* One that holds another image is a write of the program.
LEMMA Writes ==
    ASSUME NEW rows, held' = held \union {rows}, UNCHANGED <<marker, snap>>
    PROVE  Durable!Next
  <1>1. {Image("whole", r) : r \in held'}
           = {Image("whole", r) : r \in held} \union {Image("whole", rows)}
    OBVIOUS
  <1>2. Image("whole", rows) \in {Image("whole", r) : r \in held'}
    OBVIOUS
  <1>3. Durable!Write
    BY <1>1, <1>2 DEF Durable!Write, Image
  <1> QED
    BY <1>3 DEF Durable!Next

\* Damage and repair.
LEMMA Damages ==
    ASSUME UNCHANGED <<held, marker>>, snap'.rows = snap.rows,
           \/ snap.kind = "whole" /\ snap'.kind = "rotten"
           \/ snap.kind = "rotten" /\ snap'.kind = "whole"
    PROVE  Durable!Next
  <1>1. Durable!Damage
    BY DEF Durable!Damage, Image
  <1> QED
    BY <1>1 DEF Durable!Next

\* The rename of a sync publishes: its copy is whole and has been held, and
\* there was no snapshot or no seal.
LEMMA Publishes ==
    ASSUME IInv, NEW p \in Procs, Replace(p)
    PROVE  Durable!Next
  <1>1. /\ ~Sealed /\ dtmp.kind = "whole" /\ dtmp.rows \in held
        /\ snap.kind = "none" => snap.rows = NoRows
    BY DEF IInv, Ready, Replace, FilesAreHeld, SnapIsWhole
  <1>2. snap' = dtmp /\ UNCHANGED <<marker, held>>
    BY <1>1 DEF Replace, There, overlay
  <1>3. Durable!Publish
    BY <1>1, <1>2 DEF Durable!Publish, Image, Sealed, There
  <1> QED
    BY <1>3 DEF Durable!Next

LEMMA StepImplements ==
    ASSUME LockDegrades = FALSE, IInv, [Next]_vars
    PROVE  [Durable!Next]_(Durable!vars)
  <1>1. FileTypes /\ marker \in BOOLEAN /\ SnapIsWhole
    BY DEF IInv, Types, BootTypes
  <1>2. marker' \in BOOLEAN
    BY NextInv DEF IInv, Types, BootTypes
  <1>3. ASSUME NEW p \in Procs, Sync(p)
        PROVE  [Durable!Next]_(Durable!vars)
    <2>1. CASE Replace(p)
      BY <2>1, Publishes
    <2>2. CASE Stamp(p)
      <3>1. seen[p] \in 0 .. MaxClock
        BY DEF IInv, Types, SyncTypes
      <3>2. snap' = snap \/ snap' = [snap EXCEPT !.mtime = seen[p]]
        BY <2>2 DEF Stamp
      <3>3. snap'.rows = snap.rows /\ snap'.kind = snap.kind
        BY <1>1, <3>1, <3>2, Redated DEF FileTypes
      <3> QED
        BY <2>2, <3>3, Stutters DEF Stamp, overlay
    <2>3. CASE Start(p) \/ Backup(p) \/ Guard(p) \/ Copy(p) \/ Copied(p)
               \/ Flush(p) \/ End(p)
      <3>1. UNCHANGED <<snap, marker, held>>
        BY <2>3 DEF Start, Backup, Guard, Copy, Copied, Flush, End, overlay, volume
      <3> QED
        BY <3>1, Stutters
    <2> QED
      BY <1>3, <2>1, <2>2, <2>3 DEF Sync
  <1>4. CASE \/ BootCheck \/ AsideSidecar \/ AsideDb \/ ClearOrphans
             \/ RestoreCheck \/ Land \/ Verify \/ Boot \/ EmptyStart \/ CreateSchema
             \/ Kill \/ ByHand \/ UNCHANGED vars
    <2>1. UNCHANGED <<snap, held>>
      BY <1>4 DEF BootCheck, AsideSidecar, AsideDb, ClearOrphans, RestoreCheck,
                  Land, Verify, Boot, EmptyStart, CreateSchema, Kill, ByHand,
                  vars, overlay, volume
    <2> QED
      BY <1>1, <1>2, <2>1, Seals
  <1>5. CASE Recreate
    <2>1. snap' = snap /\ UNCHANGED held
      BY <1>1, <1>5, TornFile DEF Recreate, FileTypes, SnapIsWhole
    <2> QED
      BY <1>1, <1>2, <2>1, Seals
  <1>6. ASSUME NEW c \in Chats, OpenWebUI(c)
        PROVE  [Durable!Next]_(Durable!vars)
    <2>1. PICK rows : held' = held \union {rows}
      BY <1>6 DEF OpenWebUI
    <2> QED
      BY <1>6, <2>1, Writes DEF OpenWebUI, volume
  <1>7. CASE Rot
    <2>1. UNCHANGED <<held, marker>>
      BY <1>7 DEF Rot
    <2>2. CASE snap' = snap
      BY <2>1, <2>2, Stutters
    <2>3. CASE snap.kind = "whole" /\ snap' = [snap EXCEPT !.kind = "rotten"]
      BY <1>1, <2>1, <2>3, Refiled, Damages DEF FileTypes, Kinds
    <2> QED
      BY <1>7, <2>2, <2>3 DEF Rot
  <1>8. CASE Recover
    <2>1. UNCHANGED <<held, marker>>
      BY <1>8 DEF Recover, overlay
    <2> QED
      BY <1>1, <1>8, <2>1, Refiled, Damages DEF Recover, FileTypes, Kinds
  <1> QED
    BY <1>3, <1>4, <1>5, <1>6, <1>7, <1>8 DEF Next, Program

\* Whatever happens on the pod, and whatever the volume does, the snapshot
\* is one whole image the live database has held, exchanged in one step, and
\* never while an empty start has sealed it.
THEOREM SnapshotIsDurable ==
    ASSUME LockDegrades = FALSE
    PROVE  Spec => DurableSnapshot
  <1>1. Init => Durable!Init
    <2>1. SUFFICES ASSUME Init
                   PROVE  Durable!Init
      OBVIOUS
    <2>2. /\ held = {snap.rows, NoRows} /\ marker = FALSE
          /\ \/ snap.kind = "none" /\ snap.rows = NoRows
             \/ snap.kind = "whole"
      BY <2>1, InitInv, MissingIsFile DEF Init
    <2>3. held \subseteq Images
      BY <2>1, InitInv DEF IInv, Types, BootTypes
    <2> QED
      BY <2>2, <2>3 DEF Durable!Init, Image
  <1>2. IInv /\ [Next]_vars => [Durable!Next]_(Durable!vars)
    BY StepImplements
  <1> QED
    BY <1>1, <1>2, Invariant, PTL DEF Spec, DurableSnapshot, Durable!Spec

----------------------------------------------------------------------------
(* No conversation goes back. *)

\* Every conversation of the snapshot that a file still has, it has in the
\* same version or a later one.
Forward(f) ==
    \A c \in Has(snap) :
        f.rows[c] = Absent \/ f.rows[c].at >= snap.rows[c].at

\* From the comparison to the rename, the image of a sync goes forward, or
\* the operator has said not to mind, or the sync compared no rows and the
\* image has half of the conversations.
Passed(p) == Forward(ltmp) \/ Allowed(p) \/ (p \in unscanned /\ ~Fewer(ltmp))

Compared ==
    \A p \in Procs :
        /\ pc[p] \in {"copy", "copied", "flush", "replace"}
              => Passed(p)
        /\ pc[p] = "replace" => dtmp.rows = ltmp.rows

\* A row of an image has a number for its date.
LEMMA RowDates ==
    ASSUME NEW f \in File, NEW c \in Chats
    PROVE  f.rows[c].at \in Nat
  <1>1. f.rows[c] \in Row
    BY FileFields DEF Images
  <1> QED
    BY <1>1, WebuiAssumption DEF Row

LEMMA ReplaceableIsForward ==
    ASSUME IInv, NEW p \in Procs, NEW scanned \in BOOLEAN,
           Replaceable(p, scanned)
    PROVE  Forward(ltmp) \/ Allowed(p) \/ (~scanned /\ Regresses /\ ~Fewer(ltmp))
  <1>1. FileTypes /\ SnapIsWhole
    BY DEF IInv, Types
  <1>2. CASE ~There(snap)
    <2>1. snap.rows = NoRows
      BY <1>1, <1>2 DEF There, SnapIsWhole
    <2>2. Has(snap) = {}
      BY <2>1 DEF Has, NoRows
    <2> QED
      BY <2>2 DEF Forward
  <1>3. CASE ~Regresses
    <2>1. SUFFICES ASSUME NEW c \in Has(snap), ltmp.rows[c] # Absent
                   PROVE  ltmp.rows[c].at >= snap.rows[c].at
      BY DEF Forward
    <2>2. c \in Chats /\ c \in Has(ltmp)
      BY <2>1 DEF Has
    <2>3. ~(ltmp.rows[c].at < snap.rows[c].at)
      BY <1>3, <2>1, <2>2 DEF Regresses, WentBackwards
    <2>4. ltmp.rows[c].at \in Nat /\ snap.rows[c].at \in Nat
      BY <1>1, <2>2, RowDates DEF FileTypes
    <2> QED
      BY <2>3, <2>4
  <1> QED
    BY <1>2, <1>3 DEF Replaceable

\* A step that leaves what is compared as it is keeps the comparison.
LEMMA ComparedStays ==
    ASSUME Compared, UNCHANGED <<pc, override, ltmp, dtmp, unscanned>>,
           snap'.rows = snap.rows
    PROVE  Compared'
  BY DEF Compared, Passed, Fewer, Forward, Allowed, Has

\* So does one after which no sync is at work.
LEMMA ComparedIdle ==
    ASSUME \A p \in Procs : pc'[p] = "idle"
    PROVE  Compared'
  BY DEF Compared

LEMMA ComparedSync ==
    ASSUME LockDegrades = FALSE, IInv, Compared, NEW p \in Procs, Sync(p)
    PROVE  Compared'
  <1>1. SyncTypes /\ FileTypes
    BY DEF IInv, Types
  <1>2. ASSUME pc[p] # "idle"
        PROVE  \A q \in Procs \ {p} : pc[q] = "idle"
    BY <1>2, SyncAlone
  <1>3. ASSUME NEW step \in Places \ {"copy", "copied", "flush", "replace"},
               pc[p] # "idle",
               \/ Goes(p, step)
               \/ step = "end" /\ \E failed \in BOOLEAN : EndsWith(p, failed)
        PROVE  Compared'
    <2>1. pc'[p] = step /\ \A q \in Procs \ {p} : pc'[q] = "idle"
      BY <1>1, <1>2, <1>3, SyncMoves
    <2> QED
      BY <1>3, <2>1 DEF Compared
  <1>4. ASSUME NEW step \in {"copy", "copied", "flush", "replace"},
               pc[p] # "idle", Goes(p, step), UNCHANGED <<ltmp, snap, override>>,
               \/ Passed(p) /\ UNCHANGED unscanned
               \/ Forward(ltmp) \/ Allowed(p)
               \/ p \in unscanned' /\ ~Fewer(ltmp),
               step = "replace" => dtmp'.rows = ltmp.rows
        PROVE  Compared'
    <2>1. pc'[p] = step /\ \A q \in Procs \ {p} : pc'[q] = "idle"
      BY <1>1, <1>2, <1>4, SyncMoves, PlaceNames
    <2> QED
      BY <1>4, <2>1 DEF Compared, Passed, Fewer, Forward, Allowed, Has
  <1>5. CASE Start(p)
    <2>1. \A q \in Procs : pc[q] = "idle"
      BY <1>5, WebuiAssumption DEF Start, Locks, IInv, OneSync
    <2>2. PICK step \in {"backup", "end"} :
              \/ Goes(p, step)
              \/ step = "end" /\ \E failed \in BOOLEAN : EndsWith(p, failed)
      BY <1>5 DEF Start
    <2>3. pc'[p] = step /\ \A q \in Procs \ {p} : pc'[q] = "idle"
      BY <1>1, <2>1, <2>2, SyncMoves, PlaceNames
    <2> QED
      BY <2>2, <2>3 DEF Compared
  <1>6. CASE Backup(p)
    BY <1>3, <1>6, PlaceNames DEF Backup
  <1>7. CASE Guard(p)
    <2>1. ASSUME NEW scanned \in BOOLEAN, Replaceable(p, scanned),
                 Goes(p, "copy"),
                 unscanned' = IF scanned \/ ~Regresses THEN unscanned
                              ELSE unscanned \union {p}
          PROVE  Compared'
      <3>1. \/ Forward(ltmp) \/ Allowed(p)
            \/ p \in unscanned' /\ ~Fewer(ltmp)
        BY <2>1, ReplaceableIsForward
      <3> QED
        BY <1>4, <1>7, <2>1, <3>1 DEF Guard, overlay, volume
    <2>2. CASE EndsWith(p, TRUE)
      BY <1>3, <1>7, <2>2, PlaceNames DEF Guard
    <2> QED
      BY <1>7, <2>1, <2>2 DEF Guard, Reads
  <1>8. CASE Copy(p)
    BY <1>4, <1>8 DEF Copy, overlay, Compared
  <1>9. CASE Copied(p)
    <2>1. CASE Goes(p, "flush")
      BY <1>4, <1>9, <2>1 DEF Copied, overlay, Compared
    <2>2. CASE EndsWith(p, TRUE)
      BY <1>3, <1>9, <2>2, PlaceNames DEF Copied
    <2> QED
      BY <1>9, <2>1, <2>2 DEF Copied
  <1>10. CASE Flush(p)
    <2>1. CASE /\ dtmp.rows = ltmp.rows /\ dtmp' = [dtmp EXCEPT !.kind = "whole"]
               /\ Goes(p, "replace")
      <3>1. dtmp'.rows = ltmp.rows
        BY <1>1, <2>1, Refiled DEF FileTypes, Kinds
      <3> QED
        BY <1>4, <1>10, <2>1, <3>1 DEF Flush, overlay, Compared
    <2>2. CASE EndsWith(p, TRUE)
      BY <1>3, <1>10, <2>2, PlaceNames DEF Flush
    <2> QED
      BY <1>10, <2>1, <2>2 DEF Flush
  <1>11. CASE Replace(p)
    <2>1. PICK step \in {"stamp", "end"} :
              Goes(p, step) \/ (step = "end" /\ EndsWith(p, TRUE))
      BY <1>11 DEF Replace
    <2> QED
      BY <1>3, <1>11, <2>1, PlaceNames DEF Replace
  <1>12. CASE Stamp(p)
    BY <1>3, <1>12, PlaceNames DEF Stamp
  <1>13. CASE End(p)
    <2>1. \A q \in Procs : pc'[q] = "idle"
      BY <1>1, <1>2, <1>13 DEF End, SyncTypes
    <2> QED
      BY <2>1, ComparedIdle
  <1> QED
    BY <1>5, <1>6, <1>7, <1>8, <1>9, <1>10, <1>11, <1>12, <1>13 DEF Sync

LEMMA ComparedNext ==
    ASSUME LockDegrades = FALSE, IInv, Compared, [Next]_vars
    PROVE  Compared'
  <1>1. FileTypes
    BY DEF IInv, Types
  <1>2. ASSUME NEW p \in Procs, Sync(p)
        PROVE  Compared'
    BY <1>2, ComparedSync
  <1>3. CASE pod # "up" /\ UNCHANGED pc
    BY <1>3, ComparedIdle DEF IInv, OneSync
  <1>4. CASE \/ BootCheck \/ AsideSidecar \/ AsideDb \/ ClearOrphans
             \/ RestoreCheck \/ Land \/ Verify \/ Boot \/ EmptyStart \/ Recover
    BY <1>3, <1>4 DEF BootCheck, AsideSidecar, AsideDb, ClearOrphans,
       RestoreCheck, Land, Verify, Boot, EmptyStart, Recover, sync
  <1>5. CASE Kill \/ Recreate
    BY <1>5, ComparedIdle DEF Kill, Recreate, ProcessesDie
  <1>6. CASE CreateSchema \/ ByHand \/ \E c \in Chats : OpenWebUI(c)
    BY <1>6, ComparedStays DEF CreateSchema, ByHand, OpenWebUI, sync, volume
  <1>7. CASE Rot
    <2>1. snap' = snap \/ snap' = [snap EXCEPT !.kind = "rotten"]
      BY <1>7 DEF Rot
    <2>2. snap'.rows = snap.rows
      BY <1>1, <2>1, Refiled DEF FileTypes, Kinds
    <2> QED
      BY <1>7, <2>2, ComparedStays DEF Rot, sync
  <1>8. CASE UNCHANGED vars
    BY <1>8, ComparedStays DEF vars, sync, overlay, volume
  <1> QED
    BY <1>2, <1>4, <1>5, <1>6, <1>7, <1>8 DEF Next, Program

\* No sync replaces a conversation in the snapshot by an older version of
\* it, unless the operator's overrides say so or it could not read the rows
\* of the snapshot; it then leaves half of the conversations.
THEOREM RowsGoForward ==
    ASSUME LockDegrades = FALSE
    PROVE  Spec => NoRowGoesBack
  <1>1. Init => Compared
    BY DEF Init, Compared
  <1>2. IInv /\ Compared /\ [Next]_vars => Compared'
    BY ComparedNext
  <1>3. ASSUME IInv, Compared, Next
        PROVE  \/ \A c \in Has(snap) :
                     snap'.rows[c] = Absent \/ snap'.rows[c].at >= snap.rows[c].at
               \/ \E p \in Procs :
                     /\ pc[p] = "replace"
                     /\ Allowed(p) \/ (p \in unscanned /\ ~Fewer(snap'))
    <2>1. FileTypes /\ SnapIsWhole
      BY <1>3 DEF IInv, Types
    <2>2. CASE snap'.rows = snap.rows
      <3>1. ASSUME NEW c \in Has(snap)
            PROVE  snap.rows[c].at \in Nat
        BY <2>1, RowDates DEF Has, FileTypes
      <3> QED
        BY <2>2, <3>1
    <2>3. ASSUME NEW p \in Procs, Sync(p)
          PROVE  \/ snap'.rows = snap.rows
                 \/ \A c \in Has(snap) :
                       snap'.rows[c] = Absent \/ snap'.rows[c].at >= snap.rows[c].at
                 \/ /\ pc[p] = "replace"
                    /\ Allowed(p) \/ (p \in unscanned /\ ~Fewer(snap'))
      <3>1. CASE Replace(p)
        <4>1. /\ pc[p] = "replace" /\ dtmp.rows = ltmp.rows
              /\ Passed(p)
          BY <1>3, <3>1 DEF Compared, Replace
        <4>2. CASE snap' = dtmp
          <5>1. Fewer(snap') => Fewer(ltmp)
            BY <4>1, <4>2 DEF Fewer, Has
          <5> QED
            BY <4>1, <4>2, <5>1 DEF Passed, Forward
        <4> QED
          BY <3>1, <4>2 DEF Replace
      <3>2. CASE Stamp(p)
        <4>1. seen[p] \in 0 .. MaxClock
          BY <1>3 DEF IInv, Types, SyncTypes
        <4> QED
          BY <2>1, <3>2, <4>1, Redated DEF Stamp, FileTypes
      <3>3. CASE Start(p) \/ Backup(p) \/ Guard(p) \/ Copy(p) \/ Copied(p)
                 \/ Flush(p) \/ End(p)
        BY <3>3 DEF Start, Backup, Guard, Copy, Copied, Flush, End, volume
      <3> QED
        BY <2>3, <3>1, <3>2, <3>3 DEF Sync
    <2>4. CASE \/ BootCheck \/ AsideSidecar \/ AsideDb \/ ClearOrphans
               \/ RestoreCheck \/ Land \/ Verify \/ Boot \/ EmptyStart
               \/ CreateSchema \/ Kill \/ ByHand \/ \E c \in Chats : OpenWebUI(c)
      BY <2>2, <2>4 DEF BootCheck, AsideSidecar, AsideDb, ClearOrphans,
         RestoreCheck, Land, Verify, Boot, EmptyStart, CreateSchema, Kill,
         ByHand, OpenWebUI, volume
    <2>5. CASE Recreate
      BY <2>1, <2>2, <2>5, TornFile DEF Recreate, FileTypes
    <2>6. CASE Rot
      <3>1. snap' = snap \/ snap' = [snap EXCEPT !.kind = "rotten"]
        BY <2>6 DEF Rot
      <3> QED
        BY <2>1, <2>2, <3>1, Refiled DEF FileTypes, Kinds
    <2>7. CASE Recover
      BY <2>1, <2>2, <2>7, Refiled DEF Recover, FileTypes, Kinds
    <2> QED
      BY <1>3, <2>2, <2>3, <2>4, <2>5, <2>6, <2>7 DEF Next, Program
  <1> QED
    BY <1>1, <1>2, <1>3, Invariant, PTL DEF Spec, NoRowGoesBack

----------------------------------------------------------------------------
(* No empty start over history. *)

\* A snapshot has chats, and so has the image of a sync; what a restore has
\* brought into place is what the snapshot holds.
Filled ==
    /\ There(snap) => Has(snap) # {}
    /\ \A p \in Procs :
          pc[p] \in {"guard", "copy", "copied", "flush", "replace"}
             => Has(ltmp) # {}
    /\ pod \in {"land", "verify"} => There(snap)
    /\ pod = "verify" => local.rows = snap.rows

LEMMA FilledSync ==
    ASSUME LockDegrades = FALSE, IInv, Compared, Filled, NEW p \in Procs, Sync(p)
    PROVE  Filled'
  <1>1. SyncTypes /\ FileTypes /\ BootTypes
    BY DEF IInv, Types
  <1>2. pod = "up" /\ UNCHANGED pod
    BY SyncAlone DEF Sync, Start, Backup, Guard, Copy, Copied, Flush, Replace,
       Stamp, End, overlay, volume
  <1>3. \A q \in Procs \ {p} : pc[q] = "idle"
    <2>1. CASE pc[p] # "idle"
      BY <2>1, SyncAlone
    <2>2. CASE Start(p)
      BY <2>2, WebuiAssumption DEF Start, Locks, IInv, OneSync
    <2> QED
      BY <2>1, <2>2 DEF Sync, Backup, Guard, Copy, Copied, Flush, Replace,
                        Stamp, End
  <1>4. \A q \in Procs \ {p} : pc'[q] = "idle"
    BY <1>1, <1>3 DEF Sync, Start, Backup, Guard, Copy, Copied, Flush, Replace,
       Stamp, End, Goes, EndsWith, SyncTypes
  <1>5. There(snap)' => Has(snap)' # {}
    <2>1. CASE Replace(p)
      <3>1. dtmp.rows = ltmp.rows /\ Has(ltmp) # {}
        BY <2>1 DEF Compared, Filled, Replace
      <3> QED
        BY <2>1, <3>1 DEF Replace, Filled, Has
    <2>2. CASE Stamp(p)
      <3>1. seen[p] \in 0 .. MaxClock
        BY <1>1 DEF SyncTypes
      <3>2. snap'.rows = snap.rows /\ snap'.kind = snap.kind
        BY <1>1, <2>2, <3>1, Redated DEF Stamp, FileTypes
      <3> QED
        BY <3>2 DEF Filled, There, Has
    <2>3. CASE Start(p) \/ Backup(p) \/ Guard(p) \/ Copy(p) \/ Copied(p)
               \/ Flush(p) \/ End(p)
      <3>1. snap' = snap
        BY <2>3 DEF Start, Backup, Guard, Copy, Copied, Flush, End, volume
      <3> QED
        BY <3>1 DEF Filled, There, Has
    <2> QED
      BY <2>1, <2>2, <2>3 DEF Sync
  <1>6. pc'[p] \in {"guard", "copy", "copied", "flush", "replace"}
           => Has(ltmp)' # {}
    <2>1. CASE Backup(p)
      <3>1. ltmp'.rows = local.rows
        BY <1>1, <2>1, Redated, Clocks DEF Backup, FileTypes
      <3>2. pc'[p] \in {"guard", "end"}
            /\ (pc'[p] = "guard" => Has(local) # {})
        BY <1>1, <2>1 DEF Backup, Goes, EndsWith, SyncTypes
      <3> QED
        BY <3>1, <3>2 DEF Has
    <2>2. CASE Guard(p) \/ Copy(p) \/ Copied(p) \/ Flush(p)
      BY <2>2 DEF Guard, Copy, Copied, Flush, Filled, Has, overlay
    <2>3. CASE Start(p) \/ Replace(p) \/ Stamp(p) \/ End(p)
      BY <1>1, <2>3 DEF Start, Replace, Stamp, End, Goes, EndsWith, SyncTypes
    <2> QED
      BY <2>1, <2>2, <2>3 DEF Sync
  <1> QED
    BY <1>2, <1>4, <1>5, <1>6 DEF Filled

LEMMA FilledNext ==
    ASSUME LockDegrades = FALSE, IInv, Compared, Filled, [Next]_vars
    PROVE  Filled'
  <1>1. FileTypes
    BY DEF IInv, Types
  <1>2. ASSUME NEW p \in Procs, Sync(p)
        PROVE  Filled'
    BY <1>2, FilledSync
  <1>3. ASSUME snap'.rows = snap.rows, snap'.kind = snap.kind
        PROVE  There(snap)' => Has(snap)' # {}
    BY <1>3 DEF Filled, There, Has
  <1>4. ASSUME \A p \in Procs : pc'[p] = "idle"
        PROVE  \A p \in Procs :
                  pc'[p] \in {"guard", "copy", "copied", "flush", "replace"}
                     => Has(ltmp)' # {}
    BY <1>4
  <1>5. CASE \/ BootCheck \/ AsideSidecar \/ AsideDb \/ ClearOrphans
             \/ Boot \/ EmptyStart \/ Kill
    <2>1. snap' = snap /\ pod' \notin {"land", "verify"}
      BY <1>5 DEF BootCheck, BootVerdict, AsideSidecar, AsideDb, AsideFails,
         ClearOrphans, Boot, EmptyStart, Kill, ProcessesDie, volume
    <2>2. \A p \in Procs : pc'[p] = "idle"
      BY <1>5 DEF BootCheck, AsideSidecar, AsideDb, ClearOrphans, Boot,
         EmptyStart, Kill, ProcessesDie, sync, IInv, OneSync
    <2> QED
      BY <1>3, <1>4, <2>1, <2>2 DEF Filled
  <1>6. CASE RestoreCheck \/ Verify
    <2>1. /\ snap' = snap /\ pod' # "verify"
          /\ pod' = "land" => There(snap)
      BY <1>6 DEF RestoreCheck, Verify, volume
    <2>2. \A p \in Procs : pc'[p] = "idle"
      BY <1>6 DEF RestoreCheck, Verify, sync, IInv, OneSync
    <2> QED
      BY <1>3, <1>4, <2>1, <2>2 DEF Filled, There
  <1>7. CASE Land
    <2>1. /\ pod = "land" /\ snap' = snap /\ pod' \in {"verify", "refused"}
          /\ UNCHANGED sync
      BY <1>7 DEF Land, volume
    <2>2. \A p \in Procs : pc'[p] = "idle"
      BY <2>1 DEF sync, IInv, OneSync
    <2>3. pod' = "verify" => local'.rows = snap.rows
      <3>1. SUFFICES ASSUME pod' = "verify"
                     PROVE  local'.rows = snap.rows
        OBVIOUS
      <3>2. PICK k \in Kinds : local' = [snap EXCEPT !.kind = k]
        BY <1>7, <3>1 DEF Land, Kinds
      <3> QED
        BY <1>1, <3>2, Refiled DEF FileTypes
    <2> QED
      BY <1>3, <1>4, <2>1, <2>2, <2>3 DEF Filled, There
  <1>8. CASE Recreate
    <2>1. snap' = snap
      BY <1>1, <1>8, TornFile DEF Recreate, IInv, SnapIsWhole, FileTypes
    <2> QED
      BY <1>3, <1>4, <1>8, <2>1 DEF Recreate, ProcessesDie, Filled
  <1>9. CASE CreateSchema \/ (\E c \in Chats : OpenWebUI(c)) \/ ByHand
    BY <1>9 DEF CreateSchema, OpenWebUI, ByHand, sync, volume, Filled, There, Has
  <1>10. CASE Rot
    <2>1. snap' = snap \/ (There(snap) /\ snap' = [snap EXCEPT !.kind = "rotten"])
      BY <1>10 DEF Rot, There
    <2>2. snap'.rows = snap.rows /\ There(snap)' = There(snap)
      BY <1>1, <2>1, Refiled DEF FileTypes, Kinds, There
    <2>3. local'.rows = local.rows
      BY <1>1, <1>10, Refiled DEF Rot, FileTypes, Kinds
    <2> QED
      BY <1>10, <2>2, <2>3 DEF Rot, sync, Filled, Has
  <1>11. CASE Recover
    <2>1. snap'.rows = snap.rows /\ There(snap)' = There(snap)
      BY <1>1, <1>11, Refiled DEF Recover, FileTypes, Kinds, There
    <2> QED
      BY <1>11, <2>1 DEF Recover, sync, overlay, Filled, Has
  <1>12. CASE UNCHANGED vars
    BY <1>12 DEF vars, sync, overlay, volume, Filled, There, Has
  <1> QED
    BY <1>2, <1>5, <1>6, <1>7, <1>8, <1>9, <1>10, <1>11, <1>12 DEF Next, Program

LEMMA FilledInit ==
    ASSUME Init
    PROVE  Filled
  <1>1. CASE snap = Missing
    BY <1>1, MissingIsFile DEF Init, Filled, There
  <1>2. CASE snap = [kind |-> "whole", mtime |-> 1,
                     rows |-> [c \in Chats |-> [at |-> 1, long |-> TRUE]]]
    <2>1. PICK c \in Chats : TRUE
      BY WebuiAssumption
    <2>2. snap.rows[c] # Absent
      BY <1>2 DEF Absent
    <2> QED
      BY <2>2 DEF Init, Filled, Has
  <1> QED
    BY <1>1, <1>2 DEF Init

\* The pod never comes up without chats over a snapshot, except on an empty
\* start that is marked, or over a healthy one that could not be counted.
THEOREM NoEmptyStart ==
    ASSUME LockDegrades = FALSE
    PROVE  Spec => NeverEmptyOverHistory
  <1>1. Init => Compared /\ Filled
    BY FilledInit DEF Init, Compared
  <1>2. IInv /\ Compared /\ Filled /\ [Next]_vars => Compared' /\ Filled'
    BY ComparedNext, FilledNext
  <1>3. ASSUME IInv, Filled, Next, pod # "up", pod' = "up"
        PROVE  \/ Has(local') # {} \/ marker' \/ Has(snap) = {}
               \/ misread' /\ Sound(snap)
    <2>0. ~There(snap) => Has(snap) = {}
      BY <1>3 DEF There, IInv, SnapIsWhole, Has, NoRows
    <2>1. CASE EmptyStart
      BY <2>1 DEF EmptyStart
    <2>2. CASE BootCheck
      <3>1. PICK answered \in Answers, counted \in Reads :
                /\ BootVerdict(answered, counted) = "up"
                /\ misread' = (~counted /\ pod' = "up" /\ Has(Opened) = {})
        BY <1>3, <2>2 DEF BootCheck
      <3>2. Has(local') = Has(Opened)
        BY <1>3, <2>2 DEF BootCheck
      <3>3. \/ Has(Opened) # {} \/ ~There(snap) \/ Has(snap) = {}
            \/ ~counted /\ Sound(snap)
        BY <3>1 DEF BootVerdict
      <3> QED
        BY <1>3, <2>0, <3>1, <3>2, <3>3
    <2>3. CASE RestoreCheck
      BY <1>3, <2>0, <2>3 DEF RestoreCheck
    <2>4. CASE Verify
      <3>1. There(snap) /\ Has(snap) # {} /\ local.rows = snap.rows
        BY <1>3, <2>4 DEF Verify, Filled
      <3>2. local' = local
        BY <1>3, <2>4 DEF Verify
      <3>3. Has(local') = Has(snap)
        BY <3>1, <3>2 DEF Has
      <3> QED
        BY <3>1, <3>3
    <2>5. ASSUME NEW p \in Procs
          PROVE  ~Sync(p)
      BY <1>3, SyncAlone DEF Sync, Start, Backup, Guard, Copy, Copied, Flush,
         Replace, Stamp, End
    <2> QED
      BY <1>3, <2>1, <2>2, <2>3, <2>4, <2>5
      DEF Next, Program, AsideSidecar, AsideDb, AsideFails, ClearOrphans, Land,
          Boot, CreateSchema, OpenWebUI, Kill, Recreate, ProcessesDie, Rot,
          Recover, ByHand
  <1> QED
    BY <1>1, <1>2, <1>3, Invariant, PTL DEF Spec, NeverEmptyOverHistory

----------------------------------------------------------------------------
(* A skipped cycle has nothing to copy. *)

\* If the database is no younger than t, a file has every write that the
\* database has.
Covers(t, f) ==
    t >= local.mtime => \A c \in Chats : local.rows[c].at <= f.rows[c].at

\* No date is in the future, the snapshot covers what its date says, and a
\* sync has an image, then a snapshot, that covers what it has read.
Past ==
    /\ local.mtime <= clock /\ snap.mtime <= clock
    /\ ltmp.mtime <= clock /\ dtmp.mtime <= clock
    /\ \A p \in Procs : seen[p] <= clock

Dated ==
    /\ Past
    /\ There(snap) => Covers(snap.mtime, snap)
    /\ \A p \in Procs :
          /\ pc[p] \in {"guard", "copy", "copied", "flush", "replace"}
                => Covers(ltmp.mtime, ltmp) /\ Covers(seen[p], ltmp)
          /\ pc[p] \in {"flush", "replace"} => dtmp.mtime = ltmp.mtime
          /\ pc[p] = "stamp" => Covers(seen[p], snap)

LEMMA Dates ==
    ASSUME IInv
    PROVE  /\ clock \in Nat /\ local.mtime \in Nat /\ snap.mtime \in Nat
           /\ ltmp.mtime \in Nat /\ dtmp.mtime \in Nat
           /\ \A p \in Procs : seen[p] \in Nat
           /\ \A c \in Chats : /\ local.rows[c].at \in Nat
                               /\ ltmp.rows[c].at \in Nat
                               /\ snap.rows[c].at \in Nat
  <1>1. FileTypes /\ BootTypes /\ SyncTypes
    BY DEF IInv, Types
  <1>2. \A f \in File : f.mtime \in Nat
    BY FileFields, WebuiAssumption
  <1>3. clock \in Nat /\ \A p \in Procs : seen[p] \in Nat
    BY <1>1, WebuiAssumption DEF BootTypes, SyncTypes
  <1> QED
    BY <1>1, <1>2, <1>3, RowDates DEF FileTypes

\* The fields of a file that has changed its kind.
LEMMA KindOnly ==
    ASSUME NEW f \in File, NEW k \in Kinds, NEW g, g = [f EXCEPT !.kind = k]
    PROVE  g.rows = f.rows /\ g.mtime = f.mtime
  BY DEF File

\* Where no sync is at work, only the database and the snapshot matter.
LEMMA DatedIdle ==
    ASSUME \A p \in Procs : pc'[p] = "idle", Past',
           There(snap)' => Covers(snap.mtime, snap)'
    PROVE  Dated'
  BY DEF Dated

\* A step that leaves the database, the clock and the snapshot.
LEMMA DatedStays ==
    ASSUME Dated, local'.rows = local.rows, local'.mtime = local.mtime,
           snap'.rows = snap.rows, snap'.mtime = snap.mtime,
           There(snap)' => There(snap),
           UNCHANGED <<pc, seen, ltmp, dtmp, clock>>
    PROVE  Dated'
  BY DEF Dated, Past, Covers

\* A write is younger than any date there is.
LEMMA DatedYounger ==
    ASSUME IInv, Dated, UNCHANGED <<pc, seen, ltmp, dtmp, snap>>,
           clock' = clock + 1, local'.mtime = clock + 1
    PROVE  Dated'
  <1>1. \A t \in Nat : t <= clock => ~(t >= local'.mtime)
    BY Dates
  <1>2. Past'
    BY Dates DEF Dated, Past
  <1>3. ASSUME NEW t \in Nat, t <= clock, NEW f
        PROVE  t >= local'.mtime => \A c \in Chats : local'.rows[c].at <= f.rows[c].at
    BY <1>1, <1>3
  <1>4. There(snap)' => Covers(snap.mtime, snap)'
    BY <1>3, Dates DEF Dated, Past, Covers
  <1>5. \A p \in Procs : /\ Covers(ltmp.mtime, ltmp)'
                         /\ Covers(seen[p], ltmp)' /\ Covers(seen[p], snap)'
    BY <1>3, Dates DEF Dated, Past, Covers
  <1> QED
    BY <1>2, <1>4, <1>5 DEF Dated

\* A database without chats is covered by anything.
LEMMA NoRowsCovered ==
    ASSUME NEW f \in File, NEW c \in Chats
    PROVE  NoRows[c].at <= f.rows[c].at
  <1>1. NoRows[c].at = 0
    BY DEF NoRows, Absent
  <1>2. f.rows[c].at \in Nat
    BY RowDates
  <1> QED
    BY <1>1, <1>2

LEMMA DatedSync ==
    ASSUME LockDegrades = FALSE, IInv, Compared, Dated, NEW p \in Procs, Sync(p)
    PROVE  Dated'
  <1>1. SyncTypes /\ FileTypes /\ BootTypes
    BY DEF IInv, Types
  <1>2. UNCHANGED <<local, clock>>
    BY DEF Sync, Start, Backup, Guard, Copy, Copied, Flush, Replace, Stamp,
       End, overlay
  <1>3. \A q \in Procs \ {p} : pc[q] = "idle"
    <2>1. CASE pc[p] # "idle"
      BY <2>1, SyncAlone
    <2>2. CASE Start(p)
      BY <2>2, WebuiAssumption DEF Start, Locks, IInv, OneSync
    <2> QED
      BY <2>1, <2>2 DEF Sync, Backup, Guard, Copy, Copied, Flush, Replace,
                        Stamp, End
  <1>4. \A q \in Procs \ {p} : pc'[q] = "idle"
    BY <1>1, <1>3 DEF Sync, Start, Backup, Guard, Copy, Copied, Flush, Replace,
       Stamp, End, Goes, EndsWith, SyncTypes
  <1>5. ASSUME Past', There(snap)' => Covers(snap.mtime, snap)',
               pc'[p] \in {"guard", "copy", "copied", "flush", "replace"}
                  => Covers(ltmp.mtime, ltmp)' /\ Covers(seen[p], ltmp)',
               pc'[p] \in {"flush", "replace"} => dtmp'.mtime = ltmp'.mtime,
               pc'[p] = "stamp" => Covers(seen[p], snap)'
        PROVE  Dated'
    BY <1>4, <1>5 DEF Dated
  <1>6. CASE Start(p)
    <2>1. /\ ltmp' = Missing /\ dtmp' = Missing /\ snap' = snap
          /\ seen' = [seen EXCEPT ![p] = local.mtime]
          /\ pc'[p] \in {"backup", "end"}
      BY <1>1, <1>6 DEF Start, Swept, Goes, EndsWith, SyncTypes
    <2>2. Missing.mtime = 0
      BY DEF Missing
    <2>3. Past'
      BY <1>1, <1>2, <2>1, <2>2, Dates DEF Dated, Past, SyncTypes
    <2> QED
      BY <1>2, <1>5, <2>1, <2>3 DEF Dated, There, Covers
  <1>7. CASE Backup(p)
    <2>1. /\ snap' = snap /\ dtmp' = dtmp /\ seen' = seen
          /\ ltmp' = [local EXCEPT !.mtime = clock]
          /\ pc'[p] \in {"guard", "end"}
      BY <1>1, <1>7 DEF Backup, Goes, EndsWith, SyncTypes, volume
    <2>2. ltmp'.rows = local.rows /\ ltmp'.mtime = clock
      BY <1>1, <2>1 DEF FileTypes, File
    <2>3. Past'
      BY <1>2, <2>1, <2>2, Dates DEF Dated, Past
    <2>4. Covers(ltmp.mtime, ltmp)' /\ Covers(seen[p], ltmp)'
      BY <1>2, <2>2, Dates DEF Covers
    <2> QED
      BY <1>2, <1>5, <2>1, <2>3, <2>4 DEF Dated, There, Covers
  <1>8. CASE Guard(p)
    <2>1. UNCHANGED <<snap, dtmp, seen, ltmp>> /\ pc'[p] \in {"copy", "end"}
      BY <1>1, <1>8 DEF Guard, Goes, EndsWith, SyncTypes, overlay, volume
    <2> QED
      BY <1>2, <1>5, <1>8, <2>1 DEF Guard, Dated, Past, There, Covers
  <1>9. CASE Copy(p)
    <2>1. /\ UNCHANGED <<snap, seen, ltmp>> /\ pc'[p] = "copied"
          /\ dtmp' = [ltmp EXCEPT !.kind = "part"]
      BY <1>1, <1>9 DEF Copy, Goes, SyncTypes, overlay
    <2>2. dtmp'.mtime = ltmp.mtime
      BY <1>1, <2>1, KindOnly DEF FileTypes, Kinds
    <2> QED
      BY <1>2, <1>5, <1>9, <2>1, <2>2 DEF Copy, Dated, Past, There, Covers
  <1>10. CASE Copied(p)
    <2>1. UNCHANGED <<snap, seen, ltmp>>
      BY <1>10 DEF Copied, overlay
    <2>2. \/ pc'[p] = "end" /\ UNCHANGED dtmp
          \/ pc'[p] = "flush" /\ dtmp'.mtime = ltmp.mtime
      <3>1. \/ pc'[p] = "end" /\ UNCHANGED dtmp
            \/ pc'[p] = "flush"
               /\ \E k \in Kinds : dtmp' = [ltmp EXCEPT !.kind = k]
        BY <1>1, <1>10 DEF Copied, Goes, EndsWith, SyncTypes, Kinds
      <3> QED
        BY <1>1, <3>1, KindOnly DEF FileTypes
    <2> QED
      BY <1>2, <1>5, <1>10, <2>1, <2>2 DEF Copied, Dated, Past, There, Covers
  <1>11. CASE Flush(p)
    <2>1. UNCHANGED <<snap, seen, ltmp>>
      BY <1>11 DEF Flush, overlay
    <2>2. /\ pc'[p] \in {"replace", "end"}
          /\ dtmp' = dtmp \/ dtmp' = [dtmp EXCEPT !.kind = "whole"]
      BY <1>1, <1>11 DEF Flush, Goes, EndsWith, SyncTypes
    <2>3. dtmp'.mtime = dtmp.mtime
      BY <1>1, <2>2, KindOnly DEF FileTypes, Kinds
    <2> QED
      BY <1>2, <1>5, <1>11, <2>1, <2>2, <2>3 DEF Flush, Dated, Past, There, Covers
  <1>12. CASE Replace(p)
    <2>1. /\ pc[p] = "replace" /\ UNCHANGED <<seen, ltmp>>
          /\ dtmp.kind = "whole" /\ snap' = dtmp /\ dtmp' = Missing
          /\ pc'[p] = "stamp"
      BY <1>1, <1>12
      DEF Replace, There, Goes, SyncTypes, overlay, IInv, Ready
    <2>2. dtmp.rows = ltmp.rows /\ dtmp.mtime = ltmp.mtime
      BY <2>1 DEF Compared, Dated
    <2>3. Missing.mtime = 0
      BY DEF Missing
    <2>4. Past'
      BY <1>2, <2>1, <2>3, Dates DEF Dated, Past
    <2> QED
      BY <1>2, <1>5, <2>1, <2>2, <2>4 DEF Dated, Covers
  <1>13. CASE Stamp(p)
    <2>1. /\ pc[p] = "stamp" /\ UNCHANGED <<seen, ltmp, dtmp>> /\ pc'[p] = "end"
          /\ snap' = snap \/ snap' = [snap EXCEPT !.mtime = seen[p]]
      BY <1>1, <1>13 DEF Stamp, EndsWith, SyncTypes, overlay
    <2>2. /\ snap'.rows = snap.rows /\ There(snap)' = There(snap)
          /\ snap'.mtime \in {snap.mtime, seen[p]}
      BY <1>1, <2>1 DEF FileTypes, File, There
    <2>3. Past'
      BY <1>2, <2>1, <2>2, Dates DEF Dated, Past
    <2> QED
      BY <1>2, <1>5, <2>1, <2>2, <2>3 DEF Dated, Covers
  <1>14. CASE End(p)
    <2>1. /\ snap' = snap /\ ltmp' = Missing /\ dtmp' = Missing
          /\ pc'[p] = "idle" /\ seen' = [seen EXCEPT ![p] = 0]
      BY <1>1, <1>14 DEF End, SyncTypes
    <2>2. Missing.mtime = 0
      BY DEF Missing
    <2>3. Past'
      BY <1>1, <1>2, <2>1, <2>2, Dates DEF Dated, Past, SyncTypes
    <2> QED
      BY <1>2, <1>5, <2>1, <2>3 DEF Dated, There, Covers
  <1> QED
    BY <1>6, <1>7, <1>8, <1>9, <1>10, <1>11, <1>12, <1>13, <1>14 DEF Sync

LEMMA DatedNext ==
    ASSUME LockDegrades = FALSE, IInv, Compared, Dated, [Next]_vars
    PROVE  Dated'
  <1>1. FileTypes /\ SyncTypes
    BY DEF IInv, Types
  <1>2. ASSUME NEW p \in Procs, Sync(p)
        PROVE  Dated'
    BY <1>2, DatedSync
  <1>3. ASSUME pod # "up", UNCHANGED sync
        PROVE  \A p \in Procs : pc'[p] = "idle"
    BY <1>3 DEF sync, IInv, OneSync
  <1>4. Missing.mtime = 0 /\ Missing.rows = NoRows
    BY DEF Missing
  <1>5. ASSUME local' = Missing, snap' = snap
        PROVE  There(snap)' => Covers(snap.mtime, snap)'
    <2>1. \A c \in Chats : NoRows[c].at <= snap.rows[c].at
      BY <1>1, NoRowsCovered DEF FileTypes
    <2> QED
      BY <1>4, <1>5, <2>1 DEF Covers
  <1>6. CASE AsideSidecar \/ ClearOrphans \/ RestoreCheck \/ Boot \/ EmptyStart
             \/ UNCHANGED vars
    BY <1>6, DatedStays DEF AsideSidecar, ClearOrphans, RestoreCheck, Boot,
       EmptyStart, vars, sync, overlay, volume, There
  <1>7. CASE BootCheck
    <2>1. /\ UNCHANGED <<snap, sync, ltmp, dtmp, clock>>
          /\ \/ local' = local
             \/ \E k \in Kinds : local' = [local EXCEPT !.kind = k]
      BY <1>7 DEF BootCheck, Opened, Kinds, volume
    <2>2. local'.rows = local.rows /\ local'.mtime = local.mtime
      BY <1>1, <2>1, KindOnly DEF FileTypes
    <2> QED
      BY <2>1, <2>2, DatedStays DEF sync, There
  <1>8. CASE AsideDb \/ Verify
    <2>1. /\ UNCHANGED <<snap, sync, ltmp, dtmp, clock>> /\ pod # "up"
          /\ local' \in {local, Missing}
      BY <1>8 DEF AsideDb, AsideFails, Verify
    <2>2. CASE local' = local
      BY <2>1, <2>2, DatedStays DEF sync, There
    <2>3. CASE local' = Missing
      <3>1. Past'
        BY <1>4, <2>1, <2>3, Dates DEF Dated, Past, sync
      <3> QED
        BY <1>3, <1>5, <2>1, <2>3, <3>1, DatedIdle
    <2> QED
      BY <2>1, <2>2, <2>3
  <1>9. CASE Land
    <2>1. /\ UNCHANGED <<snap, sync, ltmp, dtmp, clock>> /\ pod # "up"
          /\ \/ local' = local
             \/ \E k \in Kinds : local' = [snap EXCEPT !.kind = k]
      BY <1>9 DEF Land, Kinds, volume
    <2>2. CASE local' = local
      BY <2>1, <2>2, DatedStays DEF sync, There
    <2>3. ASSUME NEW k \in Kinds, local' = [snap EXCEPT !.kind = k]
          PROVE  Dated'
      <3>1. local'.rows = snap.rows /\ local'.mtime = snap.mtime
        BY <1>1, <2>3, KindOnly DEF FileTypes
      <3>2. Past'
        BY <2>1, <3>1 DEF Dated, Past, sync
      <3>3. Covers(snap.mtime, snap)'
        BY <2>1, <3>1, Dates DEF Covers
      <3> QED
        BY <1>3, <2>1, <3>2, <3>3, DatedIdle
    <2> QED
      BY <2>1, <2>2, <2>3
  <1>10. CASE CreateSchema
    <2>1. /\ UNCHANGED <<snap, sync, ltmp, dtmp, clock>>
          /\ local' = [kind |-> "whole", rows |-> NoRows, mtime |-> clock]
      BY <1>10 DEF CreateSchema, volume
    <2>2. local'.rows = NoRows /\ local'.mtime = clock
      BY <2>1
    <2>3. Past'
      BY <2>1, <2>2, Dates DEF Dated, Past, sync
    <2>4. \A f \in File : \A c \in Chats : local'.rows[c].at <= f.rows[c].at
      BY <2>2, NoRowsCovered
    <2>5. /\ Covers(snap.mtime, snap)' /\ Covers(ltmp.mtime, ltmp)'
          /\ \A p \in Procs : Covers(seen[p], snap)' /\ Covers(seen[p], ltmp)'
      BY <1>1, <2>1, <2>4 DEF Covers, FileTypes
    <2> QED
      BY <2>1, <2>3, <2>5 DEF Dated, sync
  <1>11. ASSUME NEW c \in Chats, OpenWebUI(c)
         PROVE  Dated'
    <2>1. UNCHANGED <<pc, seen, ltmp, dtmp, snap>> /\ clock' = clock + 1
      BY <1>11 DEF OpenWebUI, sync, volume
    <2>2. local'.mtime = clock + 1
      BY <1>11 DEF OpenWebUI
    <2> QED
      BY <2>1, <2>2, DatedYounger
  <1>12. CASE Kill \/ Recreate
    <2>1. /\ \A p \in Procs : pc'[p] = "idle"
          /\ seen' = [p \in Procs |-> 0] /\ UNCHANGED clock
      BY <1>12 DEF Kill, Recreate, ProcessesDie
    <2>2. snap' = snap
      BY <1>1, <1>12, TornFile
      DEF Kill, Recreate, volume, IInv, SnapIsWhole, FileTypes
    <2>3. /\ ltmp'.mtime \in {0, ltmp.mtime} /\ dtmp'.mtime = dtmp.mtime
      <3>1. CASE Kill
        BY <3>1 DEF Kill, volume
      <3>2. CASE Recreate
        <4>1. Torn(dtmp).mtime = dtmp.mtime
          BY <1>1, KindOnly DEF Torn, FileTypes, Kinds
        <4> QED
          BY <1>4, <3>2, <4>1 DEF Recreate
      <3> QED
        BY <1>12, <3>1, <3>2
    <2>4. \/ local' = Missing
          \/ local'.rows = local.rows /\ local'.mtime = local.mtime
      BY <1>1, <1>12, KindOnly DEF Kill, Recreate, FileTypes, Kinds
    <2>5. Past'
      BY <1>4, <2>1, <2>2, <2>3, <2>4, Dates DEF Dated, Past
    <2>6. There(snap)' => Covers(snap.mtime, snap)'
      BY <1>5, <2>2, <2>4 DEF Dated, There, Covers
    <2> QED
      BY <2>1, <2>5, <2>6, DatedIdle
  <1>13. CASE Rot
    <2>1. /\ UNCHANGED <<sync, ltmp, dtmp, clock>>
          /\ local' = local \/ local' = [local EXCEPT !.kind = "rotten"]
          /\ \/ snap' = snap
             \/ There(snap) /\ snap' = [snap EXCEPT !.kind = "rotten"]
      BY <1>13 DEF Rot, There
    <2>2. /\ local'.rows = local.rows /\ local'.mtime = local.mtime
          /\ snap'.rows = snap.rows /\ snap'.mtime = snap.mtime
          /\ There(snap)' => There(snap)
      BY <1>1, <2>1, KindOnly DEF FileTypes, Kinds, There
    <2> QED
      BY <2>1, <2>2, DatedStays DEF sync
  <1>14. CASE Recover
    <2>1. /\ UNCHANGED <<sync, local, ltmp, dtmp, clock>> /\ There(snap)
          /\ snap' = [snap EXCEPT !.kind = "whole"]
      BY <1>14 DEF Recover, overlay, There
    <2>2. snap'.rows = snap.rows /\ snap'.mtime = snap.mtime
      BY <1>1, <2>1, KindOnly DEF FileTypes, Kinds
    <2> QED
      BY <2>1, <2>2, DatedStays DEF sync
  <1>15. CASE ByHand
    <2>1. UNCHANGED <<snap, sync, ltmp, dtmp>> /\ pod # "up"
      BY <1>15 DEF ByHand
    <2>2. CASE local' = Missing /\ UNCHANGED clock
      <3>1. Past'
        BY <1>4, <2>1, <2>2, Dates DEF Dated, Past, sync
      <3> QED
        BY <1>3, <1>5, <2>1, <2>2, <3>1, DatedIdle
    <2>3. CASE local'.mtime = clock + 1 /\ clock' = clock + 1
      BY <2>1, <2>3, DatedYounger DEF sync
    <2> QED
      BY <1>15, <2>2, <2>3 DEF ByHand
  <1> QED
    BY <1>2, <1>6, <1>7, <1>8, <1>9, <1>10, <1>11, <1>12, <1>13, <1>14, <1>15
    DEF Next, Program

LEMMA DatedInit ==
    ASSUME Init
    PROVE  Dated
  <1>1. IInv
    BY InitInv
  <1>2. snap.mtime \in {0, 1} /\ Missing.mtime = 0 /\ Missing.rows = NoRows
    BY DEF Init, Missing
  <1>3. Past
    BY <1>2 DEF Init, Past
  <1>4. Covers(snap.mtime, snap)
    BY <1>1, <1>2, NoRowsCovered DEF Init, Covers, IInv, Types, FileTypes
  <1> QED
    BY <1>3, <1>4 DEF Init, Dated

\* A cycle that skips because nothing has changed since the snapshot was
\* taken has nothing to copy.
THEOREM SkippingIsSound ==
    ASSUME LockDegrades = FALSE
    PROVE  Spec => []SkipIsSound
  <1>1. Init => Compared /\ Dated
    BY DatedInit DEF Init, Compared
  <1>2. IInv /\ Compared /\ Dated /\ [Next]_vars => Compared' /\ Dated'
    BY ComparedNext, DatedNext
  <1>3. Dated => SkipIsSound
    BY DEF Dated, Covers, SkipIsSound, Unchanged
  <1> QED
    BY <1>1, <1>2, <1>3, Invariant, PTL DEF Spec
=============================================================================
