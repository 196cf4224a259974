------------------------- MODULE PortabilityProofs -------------------------
(***************************************************************************)
(* Proofs about Portability, for any conversations, facts, tails, failing  *)
(* reads and number of operations: what a merge reported stays, nothing    *)
(* leaves a conversation but by an overwrite or a cleanup, and what these  *)
(* remove is kept.                                                         *)
(*                                                                         *)
(* The properties speak of what a step finds; what it writes was read      *)
(* earlier.  The strengthening says what became of it: a tail that holds   *)
(* the lock has the facts of the store, until a merge it crossed has saved *)
(* (Held); a merge about to save has at least the facts of the store, and  *)
(* whatever was promised, unless somebody crossed it (Based); and a        *)
(* snapshot, with what came after it, covers the store (Covered).          *)
(***************************************************************************)
EXTENDS Portability, TLAPS

\* Until a merge that was crossed has saved, nobody's facts are out of date.
Current(c) == c \notin crossed \/ InWindow(c)

\* A tail at work holds the lock of its conversation and, while they are
\* current, has its facts.
Held ==
    /\ \A t \in Tails : tail[t].conv \in Convs =>
          /\ lock[tail[t].conv] = t
          /\ tail[t].pins \subseteq tail[t].facts
          /\ Current(tail[t].conv) =>
                /\ tail[t].facts = store[tail[t].conv]["facts"]
                /\ tail[t].pins = pins[tail[t].conv]
    /\ \A c \in Convs : lock[c] # Nobody => tail[lock[c]].conv = c

\* Who crosses a merge is in its window or still at work, and nobody else
\* holds the lock of its destination.
Crossing ==
    \A c \in Convs :
        /\ c \in crossed => InWindow(c) \/ lock[c] # Nobody
        /\ InWindow(c) /\ c \notin crossed => lock[c] = Nobody

\* What a merge is about to save has what was promised and, if nobody
\* crossed it, what is there.
Based ==
    merge.step = "save" =>
        /\ merge.basePins \subseteq merge.base
        /\ promised[merge.dst].facts \subseteq merge.base
        /\ promised[merge.dst].pins \subseteq merge.basePins
        /\ merge.dst \notin crossed =>
              /\ store[merge.dst]["facts"] \subseteq merge.base
              /\ pins[merge.dst] \subseteq merge.basePins

\* A promise is kept while what was read is current.
Merged ==
    \A c \in Convs : Current(c) =>
        /\ promised[c].facts \subseteq store[c]["facts"]
        /\ promised[c].pins \subseteq pins[c]

\* A pin is a pin of a fact that is there.
PinsKnown ==
    /\ \A c \in Convs : pins[c] \subseteq store[c]["facts"]
    /\ merge.from.pins \subseteq merge.from.content["facts"]

\* What a snapshot is known to have: not the layers that could not be
\* measured, nor the chapters where the export failed to read them.
Proven(s) == Layers \ (s.unverified \union (s.unread \intersect {"summary"}))

\* The snapshot of the cleanup, with what was written since, has all that
\* the layers have that it is known to have.
Covered ==
    cleanup.now \in Convs =>
        \A l \in Proven(cleanup.kept) :
            store[cleanup.now][l] \subseteq cleanup.kept.content[l] \union late[l]

----------------------------------------------------------------------------
(* The type. *)

LEMMA ContentsIs ==
    ASSUME NEW k
    PROVE  k \in Contents <=>
             /\ k \in [Layers -> SUBSET (Facts \union Exchanges \union Chapters)]
             /\ k["facts"] \subseteq Facts /\ k["index"] \subseteq Exchanges
             /\ k["summary"] \subseteq Chapters
  BY DEF Contents, Layers, Items

LEMMA NothingType ==
    /\ Nothing \in Contents /\ Empty \in Bundle /\ NoSnapshot \in Snapshot
    /\ NoPromise \in [facts : SUBSET Facts, pins : SUBSET Facts]
  BY ContentsIs DEF Nothing, Layers, Empty, Bundle, NoSnapshot, Snapshot, NoPromise

LEMMA OfType ==
    ASSUME NEW k \in SUBSET Facts, NEW x \in SUBSET Exchanges,
           NEW h \in SUBSET Chapters
    PROVE  /\ Of(k, x, h) \in Contents
           /\ Of(k, x, h)["facts"] = k /\ Of(k, x, h)["index"] = x
           /\ Of(k, x, h)["summary"] = h
  BY ContentsIs DEF Of, Nothing, Layers

LEMMA ExportType ==
    ASSUME TypeOK, NEW c \in Convs, NEW failed
    PROVE  Export(c, failed) \in Contents
  <1>1. store[c] \in Contents
    BY DEF TypeOK
  <1> QED
    BY <1>1, ContentsIs DEF Export, Layers

LEMMA ExportsType ==
    ASSUME TypeOK, NEW c \in Convs, NEW b \in Exports(c)
    PROVE  b \in Bundle /\ b.pins \subseteq b.content["facts"]
  <1>1. PICK failed \in SUBSET Flickers :
            b = [content |-> Export(c, failed),
                 pins |-> pins[c] \intersect Export(c, failed)["facts"]]
    BY DEF Exports
  <1>2. Export(c, failed) \in Contents /\ pins[c] \in SUBSET Facts
    BY ExportType DEF TypeOK
  <1> QED
    BY <1>1, <1>2 DEF Bundle

LEMMA SnapshotsType ==
    ASSUME TypeOK, NEW c \in Convs, NEW s \in Snapshots(c)
    PROVE  /\ s \in Snapshot
           /\ \A l \in Proven(s) : s.content[l] = store[c][l]
  <1>0. PICK failed \in SUBSET Flickers : \E unmeasured \in SUBSET failed :
            s = [content |-> Export(c, failed), pins |-> pins[c],
                 unverified |-> torn[c] \union unmeasured,
                 unread |-> failed \ Checked]
    BY DEF Snapshots
  <1>1. PICK unmeasured \in SUBSET failed :
            s = [content |-> Export(c, failed), pins |-> pins[c],
                 unverified |-> torn[c] \union unmeasured,
                 unread |-> failed \ Checked]
    BY <1>0
  <1>2. \A l \in Checked \ s.unverified : s.content[l] = store[c][l]
    BY DEF Snapshots
  <1>3. s \in Snapshot
    <2>1. torn[c] \union unmeasured \in SUBSET Layers
          /\ failed \ Checked \in SUBSET Layers
      BY PortabilityAssumption DEF TypeOK
    <2>2. Export(c, failed) \in Contents /\ pins[c] \in SUBSET Facts
      BY ExportType DEF TypeOK
    <2> QED
      BY <1>1, <2>1, <2>2 DEF Snapshot
  <1>4. "summary" \in Proven(s) => s.content["summary"] = store[c]["summary"]
    BY <1>1 DEF Proven, Checked, Export, Layers
  <1> QED
    BY <1>2, <1>3, <1>4 DEF Proven, Checked, Layers

\* A layer of a conversation is changed within its type.
LEMMA Changes ==
    ASSUME TypeOK, NEW c \in Convs, NEW k \in SUBSET Facts,
           NEW x \in SUBSET Exchanges, NEW h \in SUBSET Chapters
    PROVE  [store EXCEPT ![c]["facts"] = k, ![c]["index"] = x,
                         ![c]["summary"] = h] \in [Convs -> Contents]
  <1>1. store[c] \in Contents
    BY DEF TypeOK
  <1>2. [store[c] EXCEPT !["facts"] = k, !["index"] = x, !["summary"] = h]
            \in Contents
    BY <1>1, ContentsIs DEF Layers
  <1> QED
    BY <1>2 DEF TypeOK

LEMMA ChangesOne ==
    ASSUME TypeOK, NEW c \in Convs
    PROVE  /\ \A k \in SUBSET Facts :
                 [store EXCEPT ![c]["facts"] = k] \in [Convs -> Contents]
           /\ \A x \in SUBSET Exchanges :
                 [store EXCEPT ![c]["index"] = x] \in [Convs -> Contents]
  <1>1. store[c] \in Contents
    BY DEF TypeOK
  <1>2. \A k \in SUBSET Facts : [store[c] EXCEPT !["facts"] = k] \in Contents
    BY <1>1, ContentsIs DEF Layers
  <1>3. \A x \in SUBSET Exchanges : [store[c] EXCEPT !["index"] = x] \in Contents
    BY <1>1, ContentsIs DEF Layers
  <1> QED
    BY <1>2, <1>3 DEF TypeOK

LEMMA NotedType ==
    ASSUME TypeOK, NEW c \in Convs, store' \in [Convs -> Contents], Noted(c)
    PROVE  late' \in Contents
  <1>1. late \in Contents /\ store'[c] \in Contents
    BY DEF TypeOK
  <1>2. [l \in Layers |-> late[l] \union (store'[c][l] \ store[c][l])] \in Contents
    BY <1>1, ContentsIs DEF Layers
  <1> QED
    BY <1>1, <1>2 DEF Noted

LEMMA RemovesType ==
    ASSUME TypeOK, NEW c \in Convs, NEW kept \in Snapshot, NEW since,
           Removes(c, kept, since)
    PROVE  removal' \in [conv : Convs \union {Nobody}, lost : Contents,
                         unread : SUBSET Layers]
  <1>1. store[c] \in Contents /\ kept.unread \in SUBSET Layers
    BY DEF TypeOK, Snapshot
  <1>2. [l \in Layers |->
            IF l \in kept.unverified THEN {}
            ELSE (store[c][l] \ store'[c][l]) \ (kept.content[l] \union since[l])]
                \in Contents
    BY <1>1, ContentsIs DEF Layers
  <1> QED
    BY <1>1, <1>2 DEF Removes

LEMMA NoRemovalType ==
    NoRemoval \in [conv : Convs \union {Nobody}, lost : Contents,
                   unread : SUBSET Layers]
  BY NothingType DEF NoRemoval

----------------------------------------------------------------------------
(* What the steps that change the store do to it. *)

\* Only c changes, within its type.
Touches(c) ==
    /\ store' \in [Convs -> Contents] /\ pins' \in [Convs -> SUBSET Facts]
    /\ \A d \in Convs \ {c} : store'[d] = store[d] /\ pins'[d] = pins[d]

\* Nothing of c goes.
Grows(c) ==
    /\ \A l \in Layers : store[c][l] \subseteq store'[c][l]
    /\ pins[c] \subseteq pins'[c]

LEMMA TailWritesIs ==
    ASSUME TypeOK, NEW t \in Tails, TailWrites(t)
    PROVE  LET c == tail[t].conv IN
           /\ c \in Convs /\ Touches(c) /\ Noted(c)
           /\ tail[t].facts \subseteq store'[c]["facts"]
           /\ store[c]["index"] \subseteq store'[c]["index"]
           /\ store[c]["summary"] \subseteq store'[c]["summary"]
           /\ tail[t].pins \subseteq pins'[c]
           /\ tail[t].pins \subseteq tail[t].facts
                => pins'[c] \subseteq store'[c]["facts"]
  <1> DEFINE c == tail[t].conv
  <1>1. c \in Convs /\ Noted(c)
    BY DEF TailWrites
  <1>2. PICK f \in Facts, x \in Exchanges, h \in SUBSET Chapters :
        \E pin \in SUBSET {f} :
          /\ store' = [store EXCEPT
              ![c]["facts"] = tail[t].facts \union {f},
              ![c]["index"] = IF Readable(c, "index") THEN @ \union {x} ELSE @,
              ![c]["summary"] = IF Readable(c, "summary") THEN @ \union h ELSE @]
          /\ pins' = [pins EXCEPT ![c] = tail[t].pins \union pin]
    BY DEF TailWrites
  <1>3. PICK pin \in SUBSET {f} :
          /\ store' = [store EXCEPT
              ![c]["facts"] = tail[t].facts \union {f},
              ![c]["index"] = IF Readable(c, "index") THEN @ \union {x} ELSE @,
              ![c]["summary"] = IF Readable(c, "summary") THEN @ \union h ELSE @]
          /\ pins' = [pins EXCEPT ![c] = tail[t].pins \union pin]
    BY <1>2
  <1>4. store[c] \in Contents /\ tail[t].facts \in SUBSET Facts
        /\ tail[t].pins \in SUBSET Facts
    BY <1>1 DEF TypeOK
  <1>5. PICK y \in SUBSET Exchanges, g \in SUBSET Chapters :
          /\ store[c]["index"] \subseteq y /\ store[c]["summary"] \subseteq g
          /\ store' = [store EXCEPT ![c]["facts"] = tail[t].facts \union {f},
                            ![c]["index"] = y, ![c]["summary"] = g]
    <2>1. store[c]["index"] \union {x} \in SUBSET Exchanges
          /\ store[c]["index"] \in SUBSET Exchanges
          /\ store[c]["summary"] \union h \in SUBSET Chapters
          /\ store[c]["summary"] \in SUBSET Chapters
      BY <1>4, ContentsIs
    <2> DEFINE y == IF Readable(c, "index") THEN store[c]["index"] \union {x}
                                            ELSE store[c]["index"]
               g == IF Readable(c, "summary") THEN store[c]["summary"] \union h
                                              ELSE store[c]["summary"]
    <2>2. y \in SUBSET Exchanges /\ g \in SUBSET Chapters
          /\ store[c]["index"] \subseteq y /\ store[c]["summary"] \subseteq g
      BY <2>1
    <2>3. store' = [store EXCEPT ![c]["facts"] = tail[t].facts \union {f},
                            ![c]["index"] = y, ![c]["summary"] = g]
      BY <1>1, <1>3, <1>4 DEF TypeOK, Contents, Layers
    <2> QED
      BY <2>2, <2>3
  <1>6. tail[t].facts \union {f} \in SUBSET Facts
    BY <1>4
  <1>7. store' \in [Convs -> Contents]
    BY <1>1, <1>5, <1>6, Changes
  <1>8. /\ store'[c]["facts"] = tail[t].facts \union {f}
        /\ store'[c]["index"] = y /\ store'[c]["summary"] = g
        /\ \A d \in Convs \ {c} : store'[d] = store[d]
    BY <1>1, <1>4, <1>5 DEF TypeOK, Contents, Layers
  <1>9. /\ pins' \in [Convs -> SUBSET Facts] /\ pins'[c] = tail[t].pins \union pin
        /\ \A d \in Convs \ {c} : pins'[d] = pins[d]
    BY <1>1, <1>3, <1>4 DEF TypeOK
  <1> QED
    BY <1>1, <1>5, <1>7, <1>8, <1>9 DEF Touches

LEMMA ImportedIs ==
    ASSUME TypeOK, NEW c \in Convs, NEW b \in Bundle, NEW done \in 0 .. 3,
           NEW indexed \in SUBSET b.content["index"],
           Imported(c, b, done, indexed)
    PROVE  /\ Touches(c) /\ torn' \in [Convs -> SUBSET Layers]
           /\ \/ store'[c]["facts"] = b.content["facts"] /\ pins'[c] = b.pins
              \/ store'[c]["facts"] = store[c]["facts"] /\ pins'[c] = pins[c]
  <1> DEFINE k == IF done >= 1 THEN b.content["facts"] ELSE store[c]["facts"]
             h == IF done >= 2 THEN b.content["summary"] ELSE store[c]["summary"]
             x == IF done = 3 /\ Readable(c, "index") THEN indexed
                                                     ELSE store[c]["index"]
  <1>1. store[c] \in Contents /\ b.content \in Contents /\ b.pins \in SUBSET Facts
    BY DEF TypeOK, Bundle
  <1>2. k \in SUBSET Facts /\ h \in SUBSET Chapters /\ x \in SUBSET Exchanges
    BY <1>1, ContentsIs
  <1> DEFINE v == [store[c] EXCEPT !["facts"] = k, !["summary"] = h, !["index"] = x]
  <1>3. store' = [store EXCEPT ![c] = v]
    BY <1>1 DEF Imported, TypeOK, Contents, Layers
  <1>4. v \in Contents /\ v["facts"] = k
    BY <1>1, <1>2, ContentsIs DEF Layers
  <1>5. /\ store' \in [Convs -> Contents] /\ store'[c]["facts"] = k
        /\ \A d \in Convs \ {c} : store'[d] = store[d]
    BY <1>3, <1>4 DEF TypeOK
  <1>6. /\ pins' \in [Convs -> SUBSET Facts]
        /\ pins'[c] = (IF done >= 1 THEN b.pins ELSE pins[c])
        /\ \A d \in Convs \ {c} : pins'[d] = pins[d]
    BY <1>1 DEF Imported, TypeOK
  <1>7. torn' \in [Convs -> SUBSET Layers]
    BY DEF Imported, TypeOK
  <1> QED
    BY <1>5, <1>6, <1>7 DEF Touches

LEMMA ImportIs ==
    ASSUME TypeOK, NEW c \in Convs, ImportOver(c) \/ ImportFresh(c)
    PROVE  /\ Touches(c) /\ Noted(c) /\ torn' \in [Convs -> SUBSET Layers]
           /\ lock[c] = Nobody /\ Crosses(c)
           /\ PinsKnown => pins'[c] \subseteq store'[c]["facts"]
           /\ UNCHANGED <<lock, tail, merge, cleanup>>
  <1>1. PICK b \in UNION {Exports(d) : d \in Convs} :
        \E done \in 0 .. 3, indexed \in SUBSET b.content["index"] :
          Imported(c, b, done, indexed)
    BY DEF ImportOver, ImportFresh
  <1>2. PICK done \in 0 .. 3, indexed \in SUBSET b.content["index"] :
          Imported(c, b, done, indexed)
    BY <1>1
  <1>3. b \in Bundle /\ b.pins \subseteq b.content["facts"]
    BY ExportsType
  <1>4. /\ Touches(c) /\ torn' \in [Convs -> SUBSET Layers]
        /\ PinsKnown => pins'[c] \subseteq store'[c]["facts"]
    BY <1>2, <1>3, ImportedIs DEF PinsKnown
  <1> QED
    BY <1>4 DEF ImportOver, ImportFresh, MayImport

LEMMA WipesIs ==
    ASSUME TypeOK, NEW c \in Convs, CleanupWipes(c)
    PROVE  /\ Touches(c)
           /\ \/ store'[c]["facts"] = {} /\ pins'[c] = {}
              \/ store'[c]["facts"] = store[c]["facts"] /\ pins'[c] = pins[c]
  <1>1. store[c] \in Contents
    BY DEF TypeOK
  <1>2. [l \in Layers |-> IF Readable(c, l) THEN {} ELSE store[c][l]] \in Contents
    BY <1>1, ContentsIs DEF Layers
  <1>3. store' = [store EXCEPT ![c] =
                    [l \in Layers |-> IF Readable(c, l) THEN {} ELSE store[c][l]]]
    BY DEF CleanupWipes, TypeOK
  <1> QED
    BY <1>2, <1>3 DEF CleanupWipes, Touches, TypeOK, Layers

LEMMA MergeType ==
    ASSUME TypeOK
    PROVE  /\ merge.src \in Convs \union {Nobody}
           /\ merge.dst \in Convs \union {Nobody}
           /\ merge.from.content \in Contents /\ merge.from.pins \in SUBSET Facts
           /\ merge.base \in SUBSET Facts /\ merge.basePins \in SUBSET Facts
           /\ merge.new \in SUBSET Exchanges
  BY DEF TypeOK, Bundle

\* A merge under way is between two conversations.
AtWork ==
    merge.step # "idle" => merge.src \in Convs /\ merge.dst \in Convs

LEMMA MergeSaveIs ==
    ASSUME TypeOK, AtWork, MergeSave
    PROVE  LET d == merge.dst IN
           /\ d \in Convs /\ Touches(d) /\ Noted(d)
           /\ store'[d]["facts"] = merge.base \union merge.from.content["facts"]
           /\ store'[d]["index"] = store[d]["index"]
           /\ store'[d]["summary"] = store[d]["summary"]
           /\ pins'[d] = merge.basePins \union merge.from.pins
           /\ promised' \in [Convs -> [facts : SUBSET Facts, pins : SUBSET Facts]]
           /\ promised'[d].facts =
                promised[d].facts \union merge.from.content["facts"]
           /\ promised'[d].pins = promised[d].pins \union merge.from.pins
           /\ \A c \in Convs \ {d} : promised'[c] = promised[c]
  <1> DEFINE d == merge.dst
             k == merge.base \union merge.from.content["facts"]
  <1>1. d \in Convs /\ Noted(d)
        /\ store' = [store EXCEPT ![d]["facts"] = k]
        /\ pins' = [pins EXCEPT ![d] = merge.basePins \union merge.from.pins]
        /\ promised' = [promised EXCEPT
              ![d].facts = @ \union merge.from.content["facts"],
              ![d].pins = @ \union merge.from.pins]
    BY DEF AtWork, MergeSave, Saved, Fold
  <1>2. merge.from.content["facts"] \in SUBSET Facts
    BY MergeType, ContentsIs
  <1>3. k \in SUBSET Facts
    BY <1>2, MergeType
  <1>4. store' \in [Convs -> Contents]
    BY <1>1, <1>3, ChangesOne
  <1>5. store[d] \in Contents
    BY <1>1 DEF TypeOK
  <1>6. /\ store'[d]["facts"] = k /\ store'[d]["index"] = store[d]["index"]
        /\ store'[d]["summary"] = store[d]["summary"]
        /\ \A c \in Convs \ {d} : store'[c] = store[c]
    BY <1>1, <1>5 DEF TypeOK, Contents, Layers
  <1>7. /\ pins' \in [Convs -> SUBSET Facts]
        /\ pins'[d] = merge.basePins \union merge.from.pins
        /\ \A c \in Convs \ {d} : pins'[c] = pins[c]
    BY <1>1, MergeType DEF TypeOK
  <1>8. promised[d] \in [facts : SUBSET Facts, pins : SUBSET Facts]
    BY <1>1 DEF TypeOK
  <1> DEFINE p == [promised[d] EXCEPT
              !.facts = @ \union merge.from.content["facts"],
              !.pins = @ \union merge.from.pins]
  <1>9. /\ p \in [facts : SUBSET Facts, pins : SUBSET Facts]
        /\ p.facts = promised[d].facts \union merge.from.content["facts"]
        /\ p.pins = promised[d].pins \union merge.from.pins
    BY <1>2, <1>8, MergeType
  <1>10. promised' = [promised EXCEPT ![d] = p]
    BY <1>1, <1>8 DEF TypeOK
  <1>11. /\ promised' \in [Convs -> [facts : SUBSET Facts, pins : SUBSET Facts]]
         /\ promised'[d] = p /\ \A c \in Convs \ {d} : promised'[c] = promised[c]
    BY <1>1, <1>9, <1>10 DEF TypeOK
  <1> QED
    BY <1>1, <1>4, <1>6, <1>7, <1>9, <1>11 DEF Touches

LEMMA MergeIndexIs ==
    ASSUME TypeOK, AtWork, MergeIndex
    PROVE  LET d == merge.dst IN
           /\ d \in Convs /\ Touches(d) /\ Noted(d) /\ Grows(d)
           /\ store'[d]["facts"] = store[d]["facts"] /\ pins' = pins
  <1> DEFINE d == merge.dst
  <1>1. d \in Convs /\ Noted(d) /\ pins' = pins
    BY DEF AtWork, MergeIndex
  <1>2. PICK x \in SUBSET merge.new :
          store' = [store EXCEPT ![d]["index"] =
                        IF Readable(d, "index") THEN @ \union x ELSE @]
    BY DEF MergeIndex
  <1> DEFINE y == IF Readable(d, "index") THEN store[d]["index"] \union x
                                          ELSE store[d]["index"]
  <1>3. store[d] \in Contents
    BY <1>1 DEF TypeOK
  <1>4. y \in SUBSET Exchanges
    BY <1>3, MergeType, ContentsIs
  <1>5. store' = [store EXCEPT ![d]["index"] = y]
    BY <1>1, <1>2, <1>3 DEF TypeOK, Contents, Layers
  <1>6. store' \in [Convs -> Contents]
    BY <1>1, <1>4, <1>5, ChangesOne
  <1>7. /\ store'[d]["facts"] = store[d]["facts"] /\ store'[d]["index"] = y
        /\ store'[d]["summary"] = store[d]["summary"]
        /\ \A c \in Convs \ {d} : store'[c] = store[c]
    BY <1>1, <1>3, <1>5 DEF TypeOK, Contents, Layers
  <1> QED
    BY <1>1, <1>6, <1>7 DEF Touches, Grows, Layers, TypeOK

----------------------------------------------------------------------------
(* The type is kept. *)

LEMMA TailType ==
    ASSUME NEW v, NEW t \in Tails, TypeOK,
           v \in [conv : Convs \union {Nobody, Over}, facts : SUBSET Facts,
                  pins : SUBSET Facts]
    PROVE  [tail EXCEPT ![t] = v] \in
                [Tails -> [conv : Convs \union {Nobody, Over},
                           facts : SUBSET Facts, pins : SUBSET Facts]]
  BY DEF TypeOK

LEMMA RunTypes ==
    ASSUME TypeOK, NEW c \in Convs
    PROVE  LET T == [conv : Convs \union {Nobody, Over}, facts : SUBSET Facts,
                     pins : SUBSET Facts] IN
           /\ NotRun \in T /\ HasRun \in T
           /\ [conv |-> c, facts |-> store[c]["facts"], pins |-> pins[c]] \in T
  <1>1. store[c] \in Contents /\ pins[c] \in SUBSET Facts
    BY DEF TypeOK
  <1>2. store[c]["facts"] \in SUBSET Facts
    BY <1>1, ContentsIs
  <1>3. HasRun = [conv |-> Over, facts |-> {}, pins |-> {}]
    BY DEF HasRun, NotRun
  <1> QED
    BY <1>1, <1>2, <1>3 DEF NotRun

LEMMA TypeInit == Init => TypeOK
  <1> SUFFICES ASSUME Init PROVE TypeOK
    OBVIOUS
  <1>1. store \in [Convs -> Contents]
    <2>1. Known \in SUBSET Facts
      BY PortabilityAssumption
    <2>2. Of(Known, Exchanges, {}) \in Contents
      BY <2>1, OfType
    <2> QED
      BY <2>2, NothingType DEF Init
  <1>2. tail \in [Tails -> [conv : Convs \union {Nobody, Over},
                            facts : SUBSET Facts, pins : SUBSET Facts]]
    BY DEF Init, NotRun
  <1>3. ops \in 0 .. MaxOps
    BY PortabilityAssumption DEF Init
  <1>4. merge \in [step : {"idle", "preview", "test", "reload", "save", "index"},
                  src : Convs \union {Nobody}, dst : Convs \union {Nobody},
                  from : Bundle, base : SUBSET Facts, basePins : SUBSET Facts,
                  new : SUBSET Exchanges]
    BY NothingType DEF Init, Idle
  <1>5. cleanup \in [now : Convs \union {Nobody}, todo : SUBSET Convs,
                    on : BOOLEAN, kept : Snapshot]
    BY NothingType DEF Init, Off
  <1> QED
    BY <1>1, <1>2, <1>3, <1>4, <1>5, NothingType, NoRemovalType DEF Init, TypeOK

MergeTypes == [step : {"idle", "preview", "test", "reload", "save", "index"},
               src : Convs \union {Nobody}, dst : Convs \union {Nobody},
               from : Bundle, base : SUBSET Facts, basePins : SUBSET Facts,
               new : SUBSET Exchanges]

LEMMA MergeStepTypes ==
    ASSUME TypeOK
    PROVE  /\ merge \in MergeTypes /\ Idle \in MergeTypes
           /\ \A c, d \in Convs, b \in Bundle :
                [Idle EXCEPT !.step = "preview", !.src = c, !.dst = d, !.from = b]
                    \in MergeTypes
           /\ [merge EXCEPT !.step = "reload"] \in MergeTypes
           /\ [merge EXCEPT !.step = "index"] \in MergeTypes
           /\ \A k, p \in SUBSET Facts :
                [merge EXCEPT !.step = "save", !.base = k, !.basePins = p] \in MergeTypes
           /\ \A k, p \in SUBSET Facts, x \in SUBSET Exchanges :
                [merge EXCEPT !.step = "test", !.base = k, !.basePins = p, !.new = x]
                    \in MergeTypes
  <1>1. merge \in MergeTypes
    BY DEF TypeOK, MergeTypes
  <1> QED
    BY <1>1, NothingType DEF MergeTypes, Idle

LEMMA AskedType ==
    ASSUME TypeOK, Asked
    PROVE  ops' \in 0 .. MaxOps
  <1>1. MaxOps \in Nat
    BY PortabilityAssumption
  <1> QED
    BY <1>1 DEF Asked, TypeOK

CleanupTypes == [now : Convs \union {Nobody}, todo : SUBSET Convs,
                 on : BOOLEAN, kept : Snapshot]

LEMMA CleanupStepTypes ==
    ASSUME TypeOK
    PROVE  /\ Off \in CleanupTypes
           /\ \A s \in SUBSET Convs : [Off EXCEPT !.todo = s, !.on = TRUE] \in CleanupTypes
           /\ \A c \in Convs, s \in Snapshot : [cleanup EXCEPT !.now = c,
                !.todo = @ \ {c}, !.kept = s] \in CleanupTypes
           /\ \A c \in Convs : [cleanup EXCEPT !.todo = @ \ {c}] \in CleanupTypes
           /\ [cleanup EXCEPT !.now = Nobody, !.kept = NoSnapshot] \in CleanupTypes
  <1>1. cleanup \in CleanupTypes
    BY DEF TypeOK, CleanupTypes
  <1> QED
    BY <1>1, NothingType DEF CleanupTypes, Off

LEMMA TypeNext ==
    ASSUME TypeOK, AtWork, [Next]_vars
    PROVE  TypeOK'
  <1> USE NoRemovalType
  <1>1. CASE UNCHANGED vars
    BY <1>1 DEF vars, data, history, TypeOK
  <1>2. ASSUME NEW t \in Tails, NEW c \in Convs, TailReads(t, c)
        PROVE  TypeOK'
    <2>1. tail' \in [Tails -> [conv : Convs \union {Nobody, Over},
                               facts : SUBSET Facts, pins : SUBSET Facts]]
      BY <1>2, RunTypes, TailType DEF TailReads
    <2>2. lock' \in [Convs -> Tails \union {Nobody}]
      BY <1>2 DEF TailReads, TypeOK
    <2>3. crossed' \subseteq Convs
      BY <1>2 DEF TailReads, Crosses, TypeOK
    <2> QED
      BY <1>2, <2>1, <2>2, <2>3 DEF TailReads, data, TypeOK
  <1>3. ASSUME NEW t \in Tails, TailWrites(t)
        PROVE  TypeOK'
    <2>1. tail[t].conv \in Convs /\ Touches(tail[t].conv) /\ Noted(tail[t].conv)
      BY <1>3, TailWritesIs
    <2>2. tail' \in [Tails -> [conv : Convs \union {Nobody, Over},
                               facts : SUBSET Facts, pins : SUBSET Facts]]
      BY <1>3, <2>1, RunTypes, TailType DEF TailWrites
    <2>3. lock' \in [Convs -> Tails \union {Nobody}]
      BY <1>3 DEF TailWrites, TypeOK
    <2>4. late' \in Contents
      BY <2>1, NotedType DEF Touches
    <2>5. crossed' \subseteq Convs
      BY <1>3 DEF TailWrites, TypeOK
    <2>6. promised' \in [Convs -> [facts : SUBSET Facts, pins : SUBSET Facts]]
      BY <1>3, NothingType DEF TailWrites, TypeOK
    <2>7. UNCHANGED <<ops, torn, merge, cleanup>> /\ removal' = NoRemoval
      BY <1>3 DEF TailWrites
    <2> QED
      BY <2>1, <2>2, <2>3, <2>4, <2>5, <2>6, <2>7 DEF Touches, TypeOK
  <1>4. ASSUME NEW c \in Convs, Tear(c)
        PROVE  TypeOK'
    <2>1. torn' \in [Convs -> SUBSET Layers]
      BY <1>4 DEF Tear, TypeOK
    <2> QED
      BY <1>4, <2>1 DEF Tear, TypeOK
  <1>5. ASSUME NEW c \in Convs, ImportOver(c) \/ ImportFresh(c)
        PROVE  TypeOK'
    <2>1. /\ Touches(c) /\ Noted(c) /\ torn' \in [Convs -> SUBSET Layers]
          /\ UNCHANGED <<lock, tail, merge, cleanup>>
      BY <1>5, ImportIs
    <2>2. late' \in Contents
      BY <2>1, NotedType DEF Touches
    <2>3. ops' \in 0 .. MaxOps
      BY <1>5, AskedType DEF ImportOver, ImportFresh
    <2>4. removal' \in [conv : Convs \union {Nobody}, lost : Contents,
                        unread : SUBSET Layers]
      BY <1>5, RemovesType, SnapshotsType DEF ImportOver, ImportFresh
    <2>5. promised' \in [Convs -> [facts : SUBSET Facts, pins : SUBSET Facts]]
      BY <1>5, NothingType DEF ImportOver, ImportFresh, TypeOK
    <2>6. crossed' \subseteq Convs
      BY <1>5, ImportIs DEF Crosses, TypeOK
    <2> QED
      BY <2>1, <2>2, <2>3, <2>4, <2>5, <2>6 DEF Touches, TypeOK
  <1>6. ASSUME NEW src \in Convs, NEW dst \in Convs, MergeExport(src, dst)
        PROVE  TypeOK'
    <2>1. PICK x \in Reads(src, "index") :
            merge' = [Idle EXCEPT !.step = "preview", !.src = src, !.dst = dst,
              !.from = [content |-> [Nothing EXCEPT !["facts"] = store[src]["facts"],
                                                    !["index"] = x],
                        pins |-> pins[src]]]
      BY <1>6 DEF MergeExport
    <2>2. store[src] \in Contents /\ pins[src] \in SUBSET Facts
      BY DEF TypeOK
    <2>3. x \in SUBSET Exchanges /\ store[src]["facts"] \in SUBSET Facts
      BY <2>2, ContentsIs DEF Reads
    <2>4. [Nothing EXCEPT !["facts"] = store[src]["facts"], !["index"] = x] \in Contents
      BY <2>3, ContentsIs DEF Nothing, Layers
    <2>5. [content |-> [Nothing EXCEPT !["facts"] = store[src]["facts"],
                                       !["index"] = x],
           pins |-> pins[src]] \in Bundle
      BY <2>2, <2>4 DEF Bundle
    <2>6. merge' \in MergeTypes
      BY <2>1, <2>5, MergeStepTypes
    <2>7. ops' \in 0 .. MaxOps
      BY <1>6, AskedType DEF MergeExport
    <2> QED
      BY <1>6, <2>6, <2>7 DEF MergeExport, data, MergeTypes,
         TypeOK
  <1>7. CASE MergePreview
    <2>1. merge.dst \in Convs
      BY <1>7 DEF MergePreview, AtWork
    <2>2. store[merge.dst] \in Contents /\ pins[merge.dst] \in SUBSET Facts
      BY <2>1 DEF TypeOK
    <2>3. store[merge.dst]["facts"] \in SUBSET Facts
          /\ merge.from.content["index"] \in SUBSET Exchanges
      BY <2>2, MergeType, ContentsIs
    <2>4. ASSUME NEW x \in Reads(merge.dst, "index"),
                 merge' = [merge EXCEPT !.step = "test",
                              !.base = store[merge.dst]["facts"],
                              !.basePins = pins[merge.dst],
                              !.new = merge.from.content["index"] \ x]
          PROVE  merge' \in MergeTypes
      <3>1. merge.from.content["index"] \ x \in SUBSET Exchanges
        BY <2>3
      <3> QED
        BY <2>2, <2>3, <2>4, <3>1, MergeStepTypes
    <2>5. merge' \in MergeTypes
      BY <1>7, <2>4, MergeStepTypes DEF MergePreview
    <2> QED
      BY <1>7, <2>5 DEF MergePreview, data, MergeTypes,
         TypeOK
  <1>8. CASE MergeTest
    BY <1>8, MergeStepTypes DEF MergeTest, MergeTypes, data,
       TypeOK
  <1>9. CASE MergeReload
    <2>1. merge.dst \in Convs
      BY <1>9 DEF MergeReload, AtWork
    <2>2. store[merge.dst] \in Contents /\ pins[merge.dst] \in SUBSET Facts
      BY <2>1 DEF TypeOK
    <2>3. Fresh.facts \in SUBSET Facts /\ Fresh.pins \in SUBSET Facts
      BY <2>2, ContentsIs DEF Fresh
    <2>4. \/ merge' = [merge EXCEPT !.step = "save", !.base = Fresh.facts,
                                     !.basePins = Fresh.pins]
          \/ merge' = Idle
      BY <1>9, Zenon DEF MergeReload
    <2>5. /\ Idle \in MergeTypes
          /\ \A k, p \in SUBSET Facts :
                [merge EXCEPT !.step = "save", !.base = k, !.basePins = p] \in MergeTypes
      BY MergeStepTypes
    <2>6. [merge EXCEPT !.step = "save", !.base = Fresh.facts, !.basePins = Fresh.pins]
             \in MergeTypes
      BY <2>3, <2>5, Zenon
    <2>7. merge' \in MergeTypes
      BY <2>4, <2>5, <2>6, Zenon
    <2>8. crossed' \subseteq Convs
      BY <1>9 DEF MergeReload, Settles, TypeOK
    <2> QED
      BY <1>9, <2>7, <2>8 DEF MergeReload, data, MergeTypes,
         TypeOK
  <1>10. CASE MergeSave
    <2>1. /\ merge.dst \in Convs /\ Touches(merge.dst) /\ Noted(merge.dst)
          /\ promised' \in [Convs -> [facts : SUBSET Facts, pins : SUBSET Facts]]
      BY <1>10, MergeSaveIs
    <2>2. late' \in Contents
      BY <2>1, NotedType DEF Touches
    <2>3. torn' \in [Convs -> SUBSET Layers]
      BY <1>10 DEF MergeSave, TypeOK
    <2>4. merge' \in MergeTypes
      BY <1>10, MergeStepTypes DEF MergeSave
    <2>5. crossed' \subseteq Convs
      BY <1>10 DEF MergeSave, Settles, TypeOK
    <2> QED
      BY <1>10, <2>1, <2>2, <2>3, <2>4, <2>5 DEF MergeSave, Touches, MergeTypes,
         TypeOK
  <1>11. CASE MergeIndex
    <2>1. merge.dst \in Convs /\ Touches(merge.dst) /\ Noted(merge.dst)
      BY <1>11, MergeIndexIs
    <2>2. late' \in Contents
      BY <2>1, NotedType DEF Touches
    <2>3. merge' \in MergeTypes
      BY <1>11, MergeStepTypes DEF MergeIndex
    <2> QED
      BY <1>11, <2>1, <2>2, <2>3 DEF MergeIndex, Touches, MergeTypes,
         TypeOK
  <1>12. CASE CleanupFinds
    <2>1. {c \in TestConvs : ~Substantial(c)} \in SUBSET Convs
      BY PortabilityAssumption
    <2>2. cleanup' \in CleanupTypes
      BY <1>12, <2>1, CleanupStepTypes DEF CleanupFinds
    <2> QED
      BY <1>12, <2>2, AskedType DEF CleanupFinds, data, CleanupTypes,
         TypeOK
  <1>13. ASSUME NEW c \in Convs, CleanupKeeps(c)
         PROVE  TypeOK'
    <2>1. \A k \in Snapshots(c) : k \in Snapshot
      BY SnapshotsType
    <2>2. cleanup' \in CleanupTypes
      <3>1. CASE \E s \in Snapshots(c) : cleanup' =
              [cleanup EXCEPT !.now = c, !.todo = @ \ {c}, !.kept = s]
        <4>1. PICK s \in Snapshots(c) : cleanup' =
              [cleanup EXCEPT !.now = c, !.todo = @ \ {c}, !.kept = s]
          BY <3>1
        <4> QED
          BY <2>1, <4>1, CleanupStepTypes
      <3>2. CASE cleanup' = [cleanup EXCEPT !.todo = @ \ {c}]
        BY <3>2, CleanupStepTypes
      <3> QED
        BY <1>13, <3>1, <3>2 DEF CleanupKeeps
    <2> QED
      BY <1>13, <2>2, NothingType DEF CleanupKeeps, data, CleanupTypes,
         TypeOK
  <1>14. ASSUME NEW c \in Convs, CleanupWipes(c)
         PROVE  TypeOK'
    <2>1. Touches(c)
      BY <1>14, WipesIs
    <2>2. cleanup' \in CleanupTypes
      BY <1>14, CleanupStepTypes DEF CleanupWipes
    <2>3. removal' \in [conv : Convs \union {Nobody}, lost : Contents,
                        unread : SUBSET Layers]
      BY <1>14, RemovesType DEF CleanupWipes, TypeOK
    <2>4. promised' \in [Convs -> [facts : SUBSET Facts, pins : SUBSET Facts]]
      BY <1>14, NothingType DEF CleanupWipes, TypeOK
    <2> QED
      BY <1>14, <2>1, <2>2, <2>3, <2>4 DEF CleanupWipes, Touches, CleanupTypes,
         TypeOK
  <1>15. CASE CleanupEnds
    BY <1>15, CleanupStepTypes DEF CleanupEnds, CleanupTypes,
       data, TypeOK
  <1> QED
    BY <1>1, <1>2, <1>3, <1>4, <1>5, <1>6, <1>7, <1>8, <1>9, <1>10, <1>11,
       <1>12, <1>13, <1>14, <1>15 DEF Next, Merges, Cleans

----------------------------------------------------------------------------
(* What was read is what is there. *)

\* How the merge moves from step to step.
LEMMA MergeMoves ==
    ASSUME TypeOK, AtWork, [Next]_vars
    PROVE  \/ merge' = merge \/ merge' = Idle
           \/ \E src, dst \in Convs : MergeExport(src, dst)
           \/ /\ merge'.src = merge.src /\ merge'.dst = merge.dst
              /\ merge'.from = merge.from /\ merge.step # "idle"
              /\ MergePreview \/ MergeTest \/ MergeReload \/ MergeSave
  <1>1. merge \in MergeTypes
    BY MergeStepTypes
  <1>2. CASE MergePreview
    BY <1>1, <1>2 DEF MergePreview, MergeTypes
  <1>3. CASE MergeTest
    BY <1>1, <1>3 DEF MergeTest, MergeTypes
  <1>4. CASE MergeReload
    BY <1>1, <1>4 DEF MergeReload, MergeTypes
  <1>5. CASE MergeSave
    BY <1>1, <1>5 DEF MergeSave, MergeTypes
  <1>6. CASE MergeIndex
    BY <1>6 DEF MergeIndex
  <1>7. CASE Cleans
    BY <1>7 DEF Cleans, CleanupFinds, CleanupEnds, CleanupKeeps, CleanupWipes
  <1>8. ASSUME NEW c \in Convs, Tear(c) \/ ImportOver(c) \/ ImportFresh(c)
        PROVE  merge' = merge
    BY <1>8, ImportIs DEF Tear
  <1>9. ASSUME NEW t \in Tails, TailWrites(t) \/ \E c \in Convs : TailReads(t, c)
        PROVE  merge' = merge
    BY <1>9 DEF TailWrites, TailReads
  <1>10. CASE UNCHANGED vars
    BY <1>10 DEF vars
  <1> QED
    BY <1>2, <1>3, <1>4, <1>5, <1>6, <1>7, <1>8, <1>9, <1>10 DEF Next, Merges

LEMMA NextAtWork ==
    ASSUME TypeOK, AtWork, [Next]_vars
    PROVE  AtWork'
  <1>1. ASSUME NEW src \in Convs, NEW dst \in Convs, MergeExport(src, dst)
        PROVE  merge'.src = src /\ merge'.dst = dst
    BY <1>1 DEF MergeExport, Idle
  <1>2. Idle.step = "idle"
    BY DEF Idle
  <1> QED
    BY <1>1, <1>2, MergeMoves DEF AtWork

ReadIsCurrent == Held /\ Crossing /\ Based /\ Merged /\ PinsKnown

IInv == TypeOK /\ AtWork /\ ReadIsCurrent

\* What of the state the strengthening speaks of.
shared == <<store, pins, lock, tail, merge, promised, crossed>>

\* Held, with the conversation of each tail named.
LEMMA HeldNow ==
    ASSUME \A t \in Tails, c \in Convs : tail'[t].conv = c =>
              /\ lock'[c] = t
              /\ tail'[t].pins \subseteq tail'[t].facts
              /\ Current(c)' => /\ tail'[t].facts = store'[c]["facts"]
                               /\ tail'[t].pins = pins'[c],
           \A c \in Convs : lock'[c] # Nobody => tail'[lock'[c]].conv = c
    PROVE  Held'
  BY DEF Held, Current, InWindow

LEMMA SharedIs ==
    ASSUME ReadIsCurrent, UNCHANGED shared
    PROVE  ReadIsCurrent'
  BY DEF shared, ReadIsCurrent, Held, Crossing, Based, Merged, PinsKnown,
     Current, InWindow

\* A merge outside its window changes nothing of what was read.
LEMMA OutsideKeeps ==
    ASSUME ReadIsCurrent,
           UNCHANGED <<store, pins, lock, tail, promised, crossed>>,
           merge.step \notin {"reload", "save"},
           merge'.step \notin {"reload", "save"},
           merge'.from.pins \subseteq merge'.from.content["facts"]
    PROVE  ReadIsCurrent'
  <1>1. \A c \in Convs : ~InWindow(c) /\ ~InWindow(c)'
    BY DEF InWindow
  <1> QED
    BY <1>1 DEF ReadIsCurrent, Held, Crossing, Based, Merged, PinsKnown, Current

LEMMA ExportKeeps ==
    ASSUME IInv, NEW src \in Convs, NEW dst \in Convs, MergeExport(src, dst)
    PROVE  ReadIsCurrent'
  <1>1. PICK x \in Reads(src, "index") :
          merge' = [Idle EXCEPT !.step = "preview", !.src = src, !.dst = dst,
            !.from = [content |-> [Nothing EXCEPT !["facts"] = store[src]["facts"],
                                                  !["index"] = x],
                      pins |-> pins[src]]]
    BY DEF MergeExport
  <1>2. merge'.step = "preview" /\ merge'.from.pins = pins[src]
        /\ merge'.from.content = [Nothing EXCEPT
                !["facts"] = store[src]["facts"], !["index"] = x]
    BY <1>1 DEF Idle
  <1>3. merge'.from.content["facts"] = store[src]["facts"]
    BY <1>2 DEF Nothing, Layers
  <1>4. merge'.from.pins \subseteq merge'.from.content["facts"]
    BY <1>2, <1>3 DEF IInv, ReadIsCurrent, PinsKnown
  <1> QED
    BY <1>2, <1>4, OutsideKeeps DEF IInv, MergeExport, data

LEMMA PreviewKeeps ==
    ASSUME IInv, MergePreview
    PROVE  ReadIsCurrent'
  <1>1. merge \in MergeTypes
    BY MergeStepTypes DEF IInv
  <1>2. \/ merge' = Idle
        \/ merge'.step = "test" /\ merge'.from = merge.from
    BY <1>1 DEF MergePreview, MergeTypes
  <1>3. Idle.step = "idle" /\ Idle.from.pins \subseteq Idle.from.content["facts"]
    BY DEF Idle, Empty
  <1>4. merge.from.pins \subseteq merge.from.content["facts"]
    BY DEF IInv, ReadIsCurrent, PinsKnown
  <1>5. UNCHANGED <<store, pins, lock, tail, promised, crossed>>
        /\ merge.step = "preview"
    BY DEF MergePreview, data
  <1> QED
    BY <1>2, <1>3, <1>4, <1>5, OutsideKeeps DEF IInv

LEMMA IndexKeeps ==
    ASSUME IInv, MergeIndex
    PROVE  ReadIsCurrent'
  <1> DEFINE d == merge.dst
  <1>1. /\ d \in Convs /\ Touches(d) /\ pins' = pins
        /\ store'[d]["facts"] = store[d]["facts"]
    BY MergeIndexIs DEF IInv
  <1>2. \A c \in Convs : store'[c]["facts"] = store[c]["facts"]
    BY <1>1 DEF Touches
  <1>3. /\ merge' = Idle /\ merge.step = "index"
        /\ UNCHANGED <<lock, tail, promised, crossed>>
    BY DEF MergeIndex
  <1>4. Idle.step = "idle" /\ Idle.from.pins \subseteq Idle.from.content["facts"]
    BY DEF Idle, Empty
  <1>5. \A c \in Convs : ~InWindow(c) /\ ~InWindow(c)'
    BY <1>3, <1>4 DEF InWindow
  <1> QED
    BY <1>1, <1>2, <1>3, <1>4, <1>5 DEF IInv, ReadIsCurrent, Held, Crossing,
       Based, Merged, PinsKnown, Current

LEMMA TestKeeps ==
    ASSUME IInv, MergeTest
    PROVE  ReadIsCurrent'
  <1> USE DEF IInv
  <1>1. /\ merge.step = "test" /\ merge.dst \in Convs
        /\ UNCHANGED <<store, pins, lock, tail, promised, crossed>>
    BY DEF MergeTest, AtWork, data
  <1>2. CASE merge' = Idle
    <2>1. Idle.step = "idle" /\ Idle.from.pins \subseteq Idle.from.content["facts"]
      BY DEF Idle, Empty
    <2> QED
      BY <1>1, <1>2, <2>1, OutsideKeeps
  <1>3. CASE Unlocked /\ merge' = [merge EXCEPT !.step = "reload"]
    <2>1. merge'.step = "reload" /\ merge'.dst = merge.dst /\ merge'.from = merge.from
      BY <1>3, MergeStepTypes DEF MergeTypes
    <2>2. lock[merge.dst] = Nobody
      BY <1>3 DEF Unlocked
    <2>3. \A c \in Convs : ~InWindow(c) /\ (InWindow(c)' <=> c = merge.dst)
      BY <1>1, <2>1 DEF InWindow
    <2>4. merge.dst \notin crossed
      BY <1>1, <2>2, <2>3 DEF ReadIsCurrent, Crossing
    <2>5. \A c \in Convs : Current(c)' => Current(c)
      BY <1>1, <2>3, <2>4 DEF Current
    <2>6. Held'
      BY <1>1, <2>5 DEF ReadIsCurrent, Held
    <2>7. Crossing' /\ Based'
      BY <1>1, <2>1, <2>2, <2>3 DEF ReadIsCurrent, Crossing, Based
    <2>8. Merged' /\ PinsKnown'
      BY <1>1, <2>1, <2>5 DEF ReadIsCurrent, Merged, PinsKnown
    <2> QED
      BY <2>6, <2>7, <2>8 DEF ReadIsCurrent
  <1> QED
    BY <1>2, <1>3 DEF MergeTest

LEMMA ReloadKeeps ==
    ASSUME IInv, MergeReload
    PROVE  ReadIsCurrent'
  <1> USE DEF IInv
  <1> DEFINE d == merge.dst
  <1>1. /\ merge.step = "reload" /\ d \in Convs
        /\ UNCHANGED <<store, pins, lock, tail, promised>>
    BY DEF MergeReload, AtWork, data
  <1>2. InWindow(d) /\ Current(d) /\ \A c \in Convs \ {d} : ~InWindow(c)
    BY <1>1 DEF InWindow, Current
  <1>3. CASE merge' = Idle /\ crossed' = crossed \ {d}
    <2>1. Idle.step = "idle" /\ Idle.from.pins \subseteq Idle.from.content["facts"]
      BY DEF Idle, Empty
    <2>2. \A c \in Convs : ~InWindow(c)' /\ (Current(c)' => Current(c))
      BY <1>2, <1>3, <2>1 DEF InWindow, Current
    <2>3. Held'
      BY <1>1, <2>2 DEF ReadIsCurrent, Held
    <2>4. Crossing' /\ Based'
      BY <1>1, <1>2, <1>3, <2>1, <2>2 DEF ReadIsCurrent, Crossing, Based
    <2>5. Merged' /\ PinsKnown'
      BY <1>1, <1>3, <2>1, <2>2 DEF ReadIsCurrent, Merged, PinsKnown
    <2> QED
      BY <2>3, <2>4, <2>5 DEF ReadIsCurrent
  <1>4. CASE /\ merge' = [merge EXCEPT !.step = "save", !.base = Fresh.facts,
                                       !.basePins = Fresh.pins]
             /\ Settles
    <2>1. /\ merge'.step = "save" /\ merge'.dst = d /\ merge'.from = merge.from
          /\ merge'.base = store[d]["facts"] /\ merge'.basePins = pins[d]
      BY <1>4, MergeStepTypes DEF MergeTypes, Fresh
    <2>2. \A c \in Convs : InWindow(c)' <=> c = d
      BY <2>1 DEF InWindow
    <2>3. /\ lock[d] = Nobody => crossed' = crossed \ {d}
          /\ lock[d] # Nobody => crossed' = crossed
      BY <1>4 DEF Settles
    <2>4. \A c \in Convs : Current(c)' => Current(c)
      BY <1>2, <2>2, <2>3 DEF Current
    <2>5. Held'
      BY <1>1, <2>4 DEF ReadIsCurrent, Held
    <2>6. Crossing'
      BY <1>1, <1>2, <2>2, <2>3 DEF ReadIsCurrent, Crossing
    <2>7. Based'
      <3>1. pins[d] \subseteq store[d]["facts"]
        BY <1>1 DEF ReadIsCurrent, PinsKnown
      <3>2. promised[d].facts \subseteq store[d]["facts"] /\ promised[d].pins \subseteq pins[d]
        BY <1>1, <1>2 DEF ReadIsCurrent, Merged
      <3> QED
        BY <1>1, <2>1, <3>1, <3>2 DEF Based
    <2>8. Merged' /\ PinsKnown'
      BY <1>1, <2>1, <2>4 DEF ReadIsCurrent, Merged, PinsKnown
    <2> QED
      BY <2>5, <2>6, <2>7, <2>8 DEF ReadIsCurrent
  <1> QED
    BY <1>3, <1>4 DEF MergeReload

LEMMA SaveKeeps ==
    ASSUME IInv, MergeSave
    PROVE  ReadIsCurrent'
  <1> USE DEF IInv
  <1> DEFINE d == merge.dst
  <1>1. /\ d \in Convs /\ Touches(d)
        /\ store'[d]["facts"] = merge.base \union merge.from.content["facts"]
        /\ pins'[d] = merge.basePins \union merge.from.pins
        /\ promised'[d].facts = promised[d].facts \union merge.from.content["facts"]
        /\ promised'[d].pins = promised[d].pins \union merge.from.pins
        /\ \A c \in Convs \ {d} : promised'[c] = promised[c]
    BY MergeSaveIs
  <1>2. merge.step = "save" /\ UNCHANGED <<lock, tail>>
    BY DEF MergeSave
  <1>3. merge'.step = "index" /\ merge'.from = merge.from /\ merge'.dst = d
    BY MergeStepTypes DEF MergeSave, MergeTypes
  <1>4. /\ lock[d] = Nobody => crossed' = crossed \ {d}
        /\ lock[d] # Nobody => crossed' = crossed /\ d \in crossed
    <2>1. InWindow(d)
      BY <1>2 DEF InWindow
    <2> QED
      BY <1>1, <2>1 DEF MergeSave, Settles, ReadIsCurrent, Crossing
  <1>5. \A c \in Convs : ~InWindow(c)'
    BY <1>3 DEF InWindow
  <1>6. \A c \in Convs \ {d} : Current(c)' => Current(c)
    BY <1>4, <1>5 DEF Current
  <1>7. ASSUME NEW c \in Convs, c = d, Current(c)'
        PROVE  lock[c] = Nobody
    BY <1>1, <1>4, <1>5, <1>7 DEF Current
  <1>8. Held'
    <2>1. ASSUME NEW t \in Tails, NEW c \in Convs, tail[t].conv = c, Current(c)'
          PROVE  tail[t].facts = store'[c]["facts"] /\ tail[t].pins = pins'[c]
      <3>1. lock[c] = t /\ t # Nobody
        BY <2>1, PortabilityAssumption DEF ReadIsCurrent, Held
      <3>2. c # d
        BY <1>7, <2>1, <3>1
      <3> QED
        BY <1>1, <1>6, <2>1, <3>2 DEF ReadIsCurrent, Held, Touches
    <2>2. /\ \A t \in Tails, c \in Convs : tail[t].conv = c =>
                lock[c] = t /\ tail[t].pins \subseteq tail[t].facts
          /\ \A c \in Convs : lock[c] # Nobody => tail[lock[c]].conv = c
      BY DEF ReadIsCurrent, Held
    <2> QED
      BY <1>2, <2>1, <2>2, HeldNow
  <1>9. Crossing' /\ Based'
    <2>1. \A c \in Convs \ {d} : c \in crossed => lock[c] # Nobody
      BY DEF ReadIsCurrent, Crossing, InWindow
    <2> QED
      BY <1>2, <1>3, <1>4, <1>5, <2>1 DEF Crossing, Based
  <1>10. Merged'
    <2>1. promised[d].facts \subseteq merge.base /\ promised[d].pins \subseteq merge.basePins
      BY <1>2 DEF ReadIsCurrent, Based
    <2> QED
      BY <1>1, <1>6, <2>1 DEF ReadIsCurrent, Merged, Touches
  <1>11. PinsKnown'
    <2>1. merge.basePins \subseteq merge.base
          /\ merge.from.pins \subseteq merge.from.content["facts"]
      BY <1>2 DEF ReadIsCurrent, Based, PinsKnown
    <2> QED
      BY <1>1, <1>3, <2>1 DEF ReadIsCurrent, PinsKnown, Touches
  <1> QED
    BY <1>8, <1>9, <1>10, <1>11 DEF ReadIsCurrent

\* An import without overwrite finds nothing, nothing promised included.
LEMMA FreshIsEmpty ==
    ASSUME ReadIsCurrent, NEW c \in Convs, ImportFresh(c)
    PROVE  /\ \A l \in Layers : store[c][l] = {}
           /\ pins[c] = {} /\ Current(c)
           /\ promised[c].facts = {} /\ promised[c].pins = {}
  <1>1. \A l \in Layers : store[c][l] = {}
    BY DEF ImportFresh, Nothing
  <1>2. pins[c] = {}
    BY <1>1 DEF ReadIsCurrent, PinsKnown, Layers
  <1>3. Current(c)
    BY DEF ReadIsCurrent, Crossing, Current, ImportFresh, MayImport
  <1> QED
    BY <1>1, <1>2, <1>3 DEF ReadIsCurrent, Merged, Layers

LEMMA ImportKeeps ==
    ASSUME IInv, NEW c \in Convs, ImportOver(c) \/ ImportFresh(c)
    PROVE  ReadIsCurrent'
  <1> USE DEF IInv
  <1>1. /\ Touches(c) /\ lock[c] = Nobody /\ Crosses(c)
        /\ pins'[c] \subseteq store'[c]["facts"]
        /\ UNCHANGED <<lock, tail, merge>>
    BY ImportIs DEF ReadIsCurrent
  <1>2. /\ promised'[c].facts = {} /\ promised'[c].pins = {}
        /\ \A d \in Convs \ {c} : promised'[d] = promised[d]
    <2>1. CASE ImportOver(c)
      BY <2>1 DEF ImportOver, NoPromise, TypeOK
    <2>2. CASE ImportFresh(c)
      BY <2>2, FreshIsEmpty DEF ImportFresh
    <2> QED
      BY <2>1, <2>2
  <1>3. /\ \A d \in Convs \ {c} : d \in crossed' <=> d \in crossed
        /\ c \in crossed' <=> (c \in crossed \/ InWindow(c))
        /\ \A d \in Convs : InWindow(d)' <=> InWindow(d)
    BY <1>1 DEF Crosses, InWindow
  <1>4. \A d \in Convs \ {c} : Current(d)' => Current(d)
    BY <1>3 DEF Current
  <1>5. Held'
    <2>1. ASSUME NEW t \in Tails, tail[t].conv \in Convs
          PROVE  tail[t].conv # c
      BY <1>1, <2>1, PortabilityAssumption DEF ReadIsCurrent, Held
    <2> QED
      BY <1>1, <1>4, <2>1 DEF ReadIsCurrent, Held, Touches
  <1>6. Crossing'
    BY <1>1, <1>3 DEF ReadIsCurrent, Crossing
  <1>7. Based'
    <2>1. merge.step = "save" /\ merge.dst = c => c \in crossed'
      BY <1>3 DEF InWindow
    <2>2. merge.step = "save" => merge.dst \in Convs
      BY DEF AtWork
    <2> QED
      BY <1>1, <1>2, <1>3, <2>1, <2>2 DEF ReadIsCurrent, Based, Touches
  <1>8. Merged'
    BY <1>1, <1>2, <1>4 DEF ReadIsCurrent, Merged, Touches
  <1>9. PinsKnown'
    BY <1>1 DEF ReadIsCurrent, PinsKnown, Touches
  <1> QED
    BY <1>5, <1>6, <1>7, <1>8, <1>9 DEF ReadIsCurrent

LEMMA WipeKeeps ==
    ASSUME IInv, NEW c \in Convs, CleanupWipes(c)
    PROVE  ReadIsCurrent'
  <1> USE DEF IInv
  <1>1. /\ Touches(c) /\ lock[c] = Nobody /\ UNCHANGED <<lock, tail, merge, crossed>>
        /\ promised'[c].facts = {} /\ promised'[c].pins = {}
        /\ \A d \in Convs \ {c} : promised'[d] = promised[d]
    BY WipesIs DEF CleanupWipes, NoPromise, TypeOK
  <1>2. /\ store'[c]["facts"] \subseteq store[c]["facts"] /\ pins'[c] \subseteq pins[c]
        /\ pins[c] \subseteq store[c]["facts"] => pins'[c] \subseteq store'[c]["facts"]
    BY WipesIs
  <1>3. \A d \in Convs : (InWindow(d)' <=> InWindow(d)) /\ (Current(d)' <=> Current(d))
    BY <1>1 DEF InWindow, Current
  <1>4. Held'
    <2>1. ASSUME NEW t \in Tails, tail[t].conv \in Convs
          PROVE  tail[t].conv # c
      BY <1>1, <2>1, PortabilityAssumption DEF ReadIsCurrent, Held
    <2> QED
      BY <1>1, <1>3, <2>1 DEF ReadIsCurrent, Held, Touches
  <1>5. Crossing'
    BY <1>1, <1>3 DEF ReadIsCurrent, Crossing
  <1>6. Based'
    <2>1. merge.step = "save" => merge.dst \in Convs
      BY DEF AtWork
    <2> QED
      BY <1>1, <1>2, <2>1 DEF ReadIsCurrent, Based, Touches
  <1>7. Merged' /\ PinsKnown'
    BY <1>1, <1>2, <1>3 DEF ReadIsCurrent, Merged, PinsKnown, Touches
  <1> QED
    BY <1>4, <1>5, <1>6, <1>7 DEF ReadIsCurrent

LEMMA ReadsKeeps ==
    ASSUME IInv, NEW t \in Tails, NEW c \in Convs, TailReads(t, c)
    PROVE  ReadIsCurrent'
  <1> USE DEF IInv
  <1> USE PortabilityAssumption
  <1>1. /\ lock[c] = Nobody /\ tail[t].conv = Nobody
        /\ UNCHANGED <<store, pins, merge, promised>> /\ Crosses(c)
        /\ lock' = [lock EXCEPT ![c] = t]
        /\ tail' = [tail EXCEPT ![t] =
                  [conv |-> c, facts |-> store[c]["facts"], pins |-> pins[c]]]
    BY DEF TailReads, NotRun, data
  <1>2. /\ tail'[t] = [conv |-> c, facts |-> store[c]["facts"], pins |-> pins[c]]
        /\ \A s \in Tails \ {t} : tail'[s] = tail[s]
        /\ lock'[c] = t /\ \A d \in Convs \ {c} : lock'[d] = lock[d]
    BY <1>1 DEF TypeOK
  <1>3. /\ \A d \in Convs \ {c} : d \in crossed' <=> d \in crossed
        /\ c \in crossed' <=> (c \in crossed \/ InWindow(c))
        /\ \A d \in Convs : InWindow(d)' <=> InWindow(d)
    BY <1>1 DEF Crosses, InWindow
  <1>4. Current(c)
    BY <1>1 DEF ReadIsCurrent, Crossing, Current
  <1>5. \A d \in Convs : Current(d)' => Current(d)
    BY <1>3, <1>4 DEF Current
  <1>6. Held'
    <2>1. ASSUME NEW s \in Tails, NEW d \in Convs, tail'[s].conv = d
          PROVE  /\ lock'[d] = s
                 /\ tail'[s].pins \subseteq tail'[s].facts
                 /\ Current(d)' => /\ tail'[s].facts = store'[d]["facts"]
                                  /\ tail'[s].pins = pins'[d]
      <3>1. CASE s = t
        <4>1. /\ d = c /\ tail'[s].facts = store[c]["facts"]
              /\ tail'[s].pins = pins[c] /\ lock'[c] = s
          BY <1>2, <2>1, <3>1
        <4>2. pins[c] \subseteq store[c]["facts"]
          BY DEF ReadIsCurrent, PinsKnown
        <4> QED
          BY <1>1, <4>1, <4>2
      <3>2. CASE s # t
        <4>1. tail'[s] = tail[s] /\ lock[tail[s].conv] = s
          BY <1>2, <2>1, <3>2 DEF ReadIsCurrent, Held
        <4>2. tail[s].conv # c
          BY <1>1, <4>1
        <4> QED
          BY <1>1, <1>2, <1>5, <2>1, <4>1, <4>2 DEF ReadIsCurrent, Held
      <3> QED
        BY <3>1, <3>2
    <2>2. ASSUME NEW d \in Convs, lock'[d] # Nobody
          PROVE  tail'[lock'[d]].conv = d
      <3>1. CASE d = c
        BY <1>2, <3>1
      <3>2. CASE d # c
        <4>1. lock'[d] = lock[d] /\ lock[d] \in Tails /\ tail[lock[d]].conv = d
          BY <1>2, <2>2, <3>2 DEF ReadIsCurrent, Held, TypeOK
        <4>2. lock[d] # t
          BY <1>1, <4>1
        <4> QED
          BY <1>2, <4>1, <4>2
      <3> QED
        BY <3>1, <3>2
    <2> QED
      BY <2>1, <2>2, HeldNow
  <1>7. Crossing'
    BY <1>2, <1>3 DEF ReadIsCurrent, Crossing
  <1>8. Based'
    <2>1. merge.step = "save" => merge.dst \in Convs
      BY DEF AtWork
    <2> QED
      BY <1>1, <1>3, <2>1 DEF ReadIsCurrent, Based
  <1>9. Merged' /\ PinsKnown'
    BY <1>1, <1>5 DEF ReadIsCurrent, Merged, PinsKnown
  <1> QED
    BY <1>6, <1>7, <1>8, <1>9 DEF ReadIsCurrent

LEMMA WritesKeeps ==
    ASSUME IInv, NEW t \in Tails, TailWrites(t)
    PROVE  ReadIsCurrent'
  <1> USE DEF IInv
  <1> USE PortabilityAssumption
  <1> DEFINE c == tail[t].conv
  <1>1. /\ c \in Convs /\ lock[c] = t /\ Touches(c) /\ merge' = merge
        /\ lock' = [lock EXCEPT ![c] = Nobody]
        /\ tail' = [tail EXCEPT ![t] = HasRun]
    BY TailWritesIs DEF ReadIsCurrent, Held, TailWrites
  <1>2. tail'[t].conv \notin Convs /\ \A s \in Tails \ {t} : tail'[s] = tail[s]
    <2>1. HasRun.conv = Over
      BY DEF HasRun, NotRun
    <2> QED
      BY <1>1, <2>1 DEF TypeOK
  <1>3. lock'[c] = Nobody /\ \A d \in Convs \ {c} : lock'[d] = lock[d]
    BY <1>1 DEF TypeOK
  <1>4. /\ \A d \in Convs \ {c} : d \in crossed' <=> d \in crossed
        /\ c \in crossed' <=> InWindow(c)
        /\ \A d \in Convs : InWindow(d)' <=> InWindow(d)
    <2>1. InWindow(c) => c \in crossed
      BY <1>1 DEF ReadIsCurrent, Crossing
    <2>2. \A d \in Convs : InWindow(d)' <=> InWindow(d)
      BY <1>1 DEF InWindow
    <2> QED
      BY <2>1, <2>2 DEF TailWrites
  <1>5. /\ \A d \in Convs \ {c} : promised'[d] = promised[d]
        /\ promised'[c] = promised[c] \/ promised'[c] = NoPromise
        /\ c \in crossed /\ ~InWindow(c) => promised'[c] = NoPromise
    BY <1>1, <1>4 DEF TailWrites, TypeOK
  <1>6. \A d \in Convs \ {c} : Current(d)' => Current(d)
    BY <1>4 DEF Current
  <1>7. Current(c) => /\ store[c]["facts"] \subseteq store'[c]["facts"]
                      /\ pins[c] \subseteq pins'[c]
    BY <1>1, TailWritesIs DEF ReadIsCurrent, Held
  <1>8. Held'
    <2>1. ASSUME NEW s \in Tails, NEW d \in Convs, tail'[s].conv = d
          PROVE  /\ lock'[d] = s
                 /\ tail'[s].pins \subseteq tail'[s].facts
                 /\ Current(d)' => /\ tail'[s].facts = store'[d]["facts"]
                                  /\ tail'[s].pins = pins'[d]
      <3>1. s # t /\ tail'[s] = tail[s] /\ lock[tail[s].conv] = s
        BY <1>2, <2>1 DEF ReadIsCurrent, Held
      <3>2. tail[s].conv # c
        BY <1>1, <3>1
      <3> QED
        BY <1>1, <1>3, <1>6, <2>1, <3>1, <3>2 DEF ReadIsCurrent, Held, Touches
    <2>2. ASSUME NEW d \in Convs, lock'[d] # Nobody
          PROVE  tail'[lock'[d]].conv = d
      <3>1. d # c /\ lock'[d] = lock[d] /\ lock[d] \in Tails /\ tail[lock[d]].conv = d
        BY <1>3, <2>2 DEF ReadIsCurrent, Held, TypeOK
      <3>2. lock[d] # t
        BY <3>1
      <3> QED
        BY <1>2, <3>1, <3>2
    <2> QED
      BY <2>1, <2>2, HeldNow
  <1>9. Crossing'
    BY <1>3, <1>4 DEF ReadIsCurrent, Crossing
  <1>10. Based'
    <2>1. merge.step = "save" => merge.dst \in Convs
      BY DEF AtWork
    <2>2. merge.step = "save" /\ merge.dst = c => c \in crossed'
      BY <1>4 DEF InWindow
    <2> QED
      BY <1>1, <1>4, <1>5, <2>1, <2>2 DEF ReadIsCurrent, Based, Touches, NoPromise
  <1>11. Merged'
    <2>1. CASE Current(c)
      BY <1>1, <1>5, <1>6, <1>7, <2>1 DEF ReadIsCurrent, Merged, Touches, NoPromise
    <2>2. CASE ~Current(c)
      BY <1>1, <1>5, <1>6, <2>2 DEF ReadIsCurrent, Merged, Touches, NoPromise, Current
    <2> QED
      BY <2>1, <2>2
  <1>12. PinsKnown'
    <2>1. pins'[c] \subseteq store'[c]["facts"]
      BY <1>1, TailWritesIs DEF ReadIsCurrent, Held
    <2> QED
      BY <1>1, <2>1 DEF ReadIsCurrent, PinsKnown, Touches
  <1> QED
    BY <1>8, <1>9, <1>10, <1>11, <1>12 DEF ReadIsCurrent

LEMMA InitIInv == Init => IInv
  <1> SUFFICES ASSUME Init PROVE IInv
    OBVIOUS
  <1>1. AtWork /\ Held /\ Crossing /\ Based
    BY PortabilityAssumption DEF Init, AtWork, Held, Crossing, Based, InWindow,
       Idle, NotRun
  <1>2. Merged /\ PinsKnown
    BY DEF Init, Merged, PinsKnown, Idle, Empty, NoPromise
  <1> QED
    BY <1>1, <1>2, TypeInit DEF IInv, ReadIsCurrent

LEMMA NextIInv == IInv /\ [Next]_vars => IInv'
  <1> SUFFICES ASSUME IInv, [Next]_vars
               PROVE  ReadIsCurrent'
    BY TypeNext, NextAtWork DEF IInv
  <1>1. \/ UNCHANGED shared
        \/ \E t \in Tails : TailWrites(t) \/ \E c \in Convs : TailReads(t, c)
        \/ \E c \in Convs : ImportOver(c) \/ ImportFresh(c) \/ CleanupWipes(c)
        \/ Merges
    BY DEF Next, Cleans, Tear, CleanupFinds, CleanupKeeps, CleanupEnds, vars,
       data, history, shared
  <1>2. CASE Merges
    BY <1>2, ExportKeeps, PreviewKeeps, TestKeeps, ReloadKeeps, SaveKeeps,
       IndexKeeps DEF Merges
  <1>3. CASE UNCHANGED shared
    BY <1>3, SharedIs DEF IInv
  <1> QED
    BY <1>1, <1>2, <1>3, ReadsKeeps, WritesKeeps, ImportKeeps, WipeKeeps

THEOREM Invariant == Spec => []IInv
  BY InitIInv, NextIInv, PTL DEF Spec

\* Imports, forks, merges, cleanups and tails keep the type of what they
\* share, whoever is at work in between.
THEOREM TypeCorrect == Spec => []TypeOK
  <1>1. Init => TypeOK /\ AtWork
    BY TypeInit DEF Init, AtWork, Idle
  <1>2. (TypeOK /\ AtWork) /\ [Next]_vars => (TypeOK /\ AtWork)'
    BY TypeNext, NextAtWork
  <1> QED
    BY <1>1, <1>2, PTL DEF Spec

----------------------------------------------------------------------------
(* Nothing vanishes, and what was merged is there. *)

LEMMA OthersGrow ==
    ASSUME IInv, [Next]_vars, NEW c \in Convs
    PROVE  Grows(c) \/ c \in crossed \/ removal'.conv = c
  <1> USE DEF IInv
  <1>1. ASSUME UNCHANGED <<store, pins>>
        PROVE  Grows(c)
    BY <1>1 DEF Grows
  <1>2. ASSUME NEW t \in Tails, TailWrites(t)
        PROVE  Grows(c) \/ c \in crossed
    <2>1. CASE c = tail[t].conv /\ c \notin crossed
      <3>1. tail[t].facts = store[c]["facts"] /\ tail[t].pins = pins[c]
        BY <2>1 DEF ReadIsCurrent, Held, Current
      <3> QED
        BY <1>2, <2>1, <3>1, TailWritesIs DEF Grows, Layers
    <2>2. CASE c # tail[t].conv
      BY <1>2, <2>2, TailWritesIs DEF Touches, Grows
    <2> QED
      BY <2>1, <2>2
  <1>3. CASE MergeSave
    <2>1. CASE c = merge.dst /\ c \notin crossed
      <3>1. /\ store[c]["facts"] \subseteq merge.base
            /\ pins[c] \subseteq merge.basePins
        BY <1>3, <2>1 DEF ReadIsCurrent, Based, MergeSave
      <3> QED
        BY <1>3, <2>1, <3>1, MergeSaveIs DEF ReadIsCurrent, Grows, Layers
    <2>2. CASE c # merge.dst
      BY <1>3, <2>2, MergeSaveIs DEF ReadIsCurrent, Touches, Grows
    <2> QED
      BY <2>1, <2>2
  <1>4. CASE MergeIndex
    BY <1>4, MergeIndexIs DEF ReadIsCurrent, Touches, Grows
  <1>5. ASSUME NEW d \in Convs, ImportOver(d)
        PROVE  Grows(c) \/ removal'.conv = c
    <2>1. removal'.conv = d
      BY <1>5 DEF ImportOver, Removes
    <2> QED
      BY <1>5, <2>1, ImportIs DEF Touches, Grows
  <1>6. ASSUME NEW d \in Convs, ImportFresh(d)
        PROVE  Grows(c)
    <2>1. CASE d = c
      BY <1>6, <2>1, FreshIsEmpty DEF ReadIsCurrent, Grows
    <2>2. CASE d # c
      BY <1>6, <2>2, ImportIs DEF Touches, Grows
    <2> QED
      BY <2>1, <2>2
  <1>7. ASSUME NEW d \in Convs, CleanupWipes(d)
        PROVE  Grows(c) \/ removal'.conv = c
    <2>1. removal'.conv = d
      BY <1>7 DEF CleanupWipes, Removes
    <2> QED
      BY <1>7, <2>1, WipesIs DEF Touches, Grows
  <1>8. \/ UNCHANGED <<store, pins>>
        \/ \E t \in Tails : TailWrites(t)
        \/ MergeSave \/ MergeIndex
        \/ \E d \in Convs : ImportOver(d) \/ ImportFresh(d) \/ CleanupWipes(d)
    BY DEF Next, Merges, Cleans, TailReads, Tear, MergeExport, MergePreview,
       MergeTest, MergeReload, CleanupFinds, CleanupKeeps, CleanupEnds, vars, data
  <1> QED
    BY <1>1, <1>2, <1>3, <1>4, <1>5, <1>6, <1>7, <1>8

\* No fact, pin, exchange or chapter leaves a conversation but by the
\* overwrite or the cleanup an operator asked for, or while a merge that was
\* crossed and who crossed it write what they had read.
THEOREM NothingGoes == Spec => NothingVanishes
  <1>1. IInv /\ [Next]_vars =>
          [\A c \in Convs \ ({removal'.conv} \union crossed) :
             /\ \A l \in Layers : store[c][l] \subseteq store'[c][l]
             /\ pins[c] \subseteq pins'[c]]_vars
    BY OthersGrow DEF Grows
  <1> QED
    BY <1>1, Invariant, PTL DEF Spec, NothingVanishes

\* What a merge reported as merged is in the destination, pins included,
\* unless somebody who crossed a merge into it is still at work, or has
\* written since.
THEOREM MergedStays == Spec => []MergedIsThere
  <1>1. IInv => MergedIsThere
    BY DEF IInv, ReadIsCurrent, Merged, Current, MergedIsThere
  <1> QED
    BY <1>1, Invariant, PTL

----------------------------------------------------------------------------
(* What is removed is kept. *)

LEMMA ChangesAreNoted ==
    ASSUME TypeOK, AtWork, [Next]_vars, NEW c \in Convs, store'[c] # store[c]
    PROVE  Noted(c) \/ CleanupWipes(c)
  <1>1. ASSUME NEW t \in Tails, TailWrites(t)
        PROVE  Noted(c)
    BY <1>1, TailWritesIs DEF Touches
  <1>2. CASE MergeSave
    BY <1>2, MergeSaveIs DEF Touches
  <1>3. CASE MergeIndex
    BY <1>3, MergeIndexIs DEF Touches
  <1>4. ASSUME NEW d \in Convs, ImportOver(d) \/ ImportFresh(d)
        PROVE  Noted(c)
    BY <1>4, ImportIs DEF Touches
  <1>5. ASSUME NEW d \in Convs, CleanupWipes(d)
        PROVE  CleanupWipes(c)
    BY <1>5, WipesIs DEF Touches
  <1>6. store' # store
    OBVIOUS
  <1> QED
    BY <1>1, <1>2, <1>3, <1>4, <1>5, <1>6 DEF Next, Merges, Cleans, TailReads,
       Tear, MergeExport, MergePreview, MergeTest, MergeReload, CleanupFinds,
       CleanupKeeps, CleanupEnds, vars, data

LEMMA NextCovered ==
    ASSUME TypeOK, AtWork, Covered, [Next]_vars
    PROVE  Covered'
  <1>1. ASSUME cleanup' = cleanup, cleanup.now \in Convs
        PROVE  Covered'
    <2> DEFINE c == cleanup.now
    <2>1. ~CleanupWipes(c)
      <3>1. cleanup.now # Nobody
        BY <1>1, PortabilityAssumption
      <3> QED
        BY <1>1, <3>1, CleanupStepTypes DEF CleanupWipes, CleanupTypes, TypeOK
    <2>2. CASE store'[c] = store[c]
      <3>1. ASSUME NEW d \in Convs, Noted(d)
            PROVE  \A l \in Layers : late[l] \subseteq late'[l]
        BY <3>1 DEF Noted
      <3>2. ~\E d \in Convs : CleanupKeeps(d)
        BY <1>1, PortabilityAssumption DEF CleanupKeeps
      <3>3. late' = late \/ \E d \in Convs : Noted(d)
        BY <3>2, TailWritesIs, MergeSaveIs, MergeIndexIs, ImportIs
           DEF Next, Merges, Cleans, TailReads, Tear, MergeExport, MergePreview,
           MergeTest, MergeReload, CleanupFinds, CleanupWipes, CleanupEnds,
           vars, history
      <3> QED
        BY <1>1, <2>2, <3>1, <3>3 DEF Covered, Proven
    <2>3. CASE Noted(c)
      BY <1>1, <2>3 DEF Covered, Noted, Proven
    <2> QED
      BY <1>1, <2>1, <2>2, <2>3, ChangesAreNoted
  <1>2. CASE cleanup'.now \notin Convs
    BY <1>2 DEF Covered
  <1>3. ASSUME NEW c \in Convs, CleanupKeeps(c)
        PROVE  Covered'
    <2>1. CASE cleanup' = [cleanup EXCEPT !.todo = @ \ {c}]
      BY <1>2, <1>3, <2>1, CleanupStepTypes, PortabilityAssumption
         DEF CleanupKeeps, CleanupTypes, TypeOK
    <2>2. ASSUME NEW s \in Snapshots(c),
                 cleanup' = [cleanup EXCEPT !.now = c, !.todo = @ \ {c}, !.kept = s]
          PROVE  Covered'
      <3>1. cleanup'.now = c /\ cleanup'.kept = s
        BY <2>2 DEF TypeOK
      <3>2. UNCHANGED store
        BY <1>3 DEF CleanupKeeps, data
      <3> QED
        BY <3>1, <3>2, SnapshotsType DEF Covered
    <2> QED
      BY <1>3, <2>1, <2>2 DEF CleanupKeeps
  <1>4. CASE CleanupFinds \/ CleanupEnds \/ \E c \in Convs : CleanupWipes(c)
    <2>1. cleanup'.now = Nobody
      <3>1. cleanup \in CleanupTypes
        BY DEF TypeOK, CleanupTypes
      <3>2. [cleanup EXCEPT !.now = Nobody, !.kept = NoSnapshot].now = Nobody
        BY <3>1 DEF CleanupTypes
      <3>3. Off.now = Nobody /\ \A s : [Off EXCEPT !.todo = s, !.on = TRUE].now = Nobody
        BY DEF Off
      <3> QED
        BY <1>4, <3>2, <3>3 DEF CleanupFinds, CleanupEnds, CleanupWipes
    <2> QED
      BY <1>2, <2>1, PortabilityAssumption
  <1>5. \/ cleanup' = cleanup
        \/ CleanupFinds \/ CleanupEnds
        \/ \E c \in Convs : CleanupWipes(c) \/ CleanupKeeps(c)
    BY ImportIs DEF Next, Merges, Cleans, TailReads, TailWrites, Tear,
       MergeExport, MergePreview, MergeTest, MergeReload, MergeSave, MergeIndex,
       vars
  <1> QED
    BY <1>1, <1>2, <1>3, <1>4, <1>5 DEF Covered

LEMMA NextKept ==
    ASSUME TypeOK, AtWork, Covered, RemovedIsKept, [Next]_vars
    PROVE  RemovedIsKept'
  <1>1. NoRemoval.lost = Nothing
    BY DEF NoRemoval
  <1>2. ASSUME removal'.lost = Nothing
        PROVE  RemovedIsKept'
    BY <1>2 DEF RemovedIsKept, Nothing
  <1>3. ASSUME NEW c \in Convs, NEW s, NEW since, Removes(c, s, since),
               \A l \in Proven(s) : store[c][l] \subseteq s.content[l] \union since[l]
        PROVE  RemovedIsKept'
    <2>1. removal'.unread = s.unread
          /\ removal'.lost = [l \in Layers |-> IF l \in s.unverified THEN {}
               ELSE (store[c][l] \ store'[c][l]) \ (s.content[l] \union since[l])]
      BY <1>3 DEF Removes
    <2>2. ASSUME NEW l \in Layers, removal'.lost[l] # {}
          PROVE  l = "summary" /\ l \in removal'.unread
      <3>1. l \notin s.unverified /\ ~(store[c][l] \subseteq s.content[l] \union since[l])
        BY <2>1, <2>2
      <3> QED
        BY <1>3, <2>1, <3>1 DEF Proven
    <2> QED
      BY <2>2 DEF RemovedIsKept
  <1>4. ASSUME NEW c \in Convs, CleanupWipes(c)
        PROVE  RemovedIsKept'
    BY <1>3, <1>4 DEF CleanupWipes, Covered
  <1>5. ASSUME NEW c \in Convs, ImportOver(c)
        PROVE  RemovedIsKept'
    <2>1. PICK s \in Snapshots(c) : Removes(c, s, Nothing)
      BY <1>5 DEF ImportOver
    <2>2. \A l \in Proven(s) : store[c][l] \subseteq s.content[l] \union Nothing[l]
      BY SnapshotsType
    <2> QED
      BY <1>3, <2>1, <2>2
  <1>6. CASE removal' = removal
    BY <1>6 DEF RemovedIsKept
  <1>7. \/ removal' = removal \/ removal' = NoRemoval
        \/ \E c \in Convs : ImportOver(c) \/ CleanupWipes(c)
    BY DEF Next, Merges, Cleans, TailReads, TailWrites, Tear, ImportFresh,
       MergeExport, MergePreview, MergeTest, MergeReload, MergeSave, MergeIndex,
       CleanupFinds, CleanupKeeps, CleanupEnds, vars, history
  <1> QED
    BY <1>1, <1>2, <1>4, <1>5, <1>6, <1>7

\* What an overwrite or a cleanup removes is in the quarantine snapshot, was
\* written after it, or is in a layer the snapshot says it could not read; of
\* the chapters, only if the export could read them.
THEOREM RemovedStays == Spec => []RemovedIsKept
  <1> DEFINE Inv == TypeOK /\ AtWork /\ Covered /\ RemovedIsKept
  <1>1. Init => Inv
    <2>1. Init => AtWork /\ Covered /\ RemovedIsKept
      BY PortabilityAssumption DEF Init, AtWork, Idle, Covered, Off, NoRemoval,
         RemovedIsKept, Nothing
    <2> QED
      BY <2>1, TypeInit
  <1>2. Inv /\ [Next]_vars => Inv'
    BY TypeNext, NextAtWork, NextCovered, NextKept
  <1> QED
    BY <1>1, <1>2, PTL DEF Spec
=============================================================================
