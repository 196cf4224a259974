---------------------------- MODULE Portability ----------------------------
(***************************************************************************)
(* compactor/portability.py and its endpoints in main.py: a conversation   *)
(* is exported, imported over another, forked, merged into another, or     *)
(* cleaned up as a leftover of a test, beside the tails of requests.       *)
(*                                                                         *)
(* Import and fork run on the event loop without yielding; a merge runs in *)
(* a thread of its own, and a cleanup awaits between its steps.  What they *)
(* remove goes first into a quarantine snapshot.  A read of a layer fails  *)
(* for good (torn) or for once (Flickers).                                 *)
(***************************************************************************)
EXTENDS Naturals, FiniteSets

CONSTANTS
    Convs,     \* conversations
    TestConvs, \* those with a name only a test gives
    Facts,
    Known,     \* facts a conversation may have before
    Exchanges,
    Chapters,
    Tails,     \* requests whose tail may still write
    Few,       \* SUBSTANTIAL_FACTS and _EPISODIC
    Flickers,  \* layers of which a read may fail for once
    MaxOps,    \* imports, forks, merges and cleanups: a bound for TLC
    MayTear    \* whether a layer may become unreadable

Layers == {"facts", "index", "summary"}
Nobody == "nobody"
Over == "over"

ASSUME PortabilityAssumption ==
    /\ \A S \in {Convs, Facts, Exchanges, Chapters, Tails} : IsFiniteSet(S)
    /\ TestConvs \subseteq Convs /\ Few \in Nat /\ MaxOps \in Nat
    /\ Known \subseteq Facts
    /\ Flickers \subseteq Layers
    /\ MayTear \in BOOLEAN
    /\ Nobody \notin Convs \union Tails /\ Over \notin Convs

Items(l) == CASE l = "facts" -> Facts [] l = "index" -> Exchanges
              [] l = "summary" -> Chapters
Nothing == [l \in Layers |-> {}]
Contents == {k \in [Layers -> SUBSET (Facts \union Exchanges \union Chapters)] :
                \A l \in Layers : k[l] \subseteq Items(l)}
Bundle == [content : Contents, pins : SUBSET Facts]
Snapshot == [content : Contents, pins : SUBSET Facts,
             unverified : SUBSET Layers, unread : SUBSET Layers]

VARIABLES
    store,    \* the layers of each conversation
    pins,     \* its pinned facts
    torn,     \* its layers that cannot be read
    lock,     \* who holds its conv_lock
    tail,     \* where each tail is, and the facts it has read
    merge,    \* the merge in its thread
    cleanup,  \* the cleanup in flight
    ops,      \* operations asked for so far
    late,     \* history: what was written since the cleanup's snapshot
    promised, \* history: what finished merges have put into a conversation
    removal,  \* history: of what the last step may have removed, what of
              \* that no snapshot has, and what the snapshot failed to read
    crossed   \* history: destinations somebody took between a merge's test
              \* of their lock and its save, until both are done

data == <<store, pins, torn>>
history == <<late, promised, removal, crossed>>
vars == <<data, lock, tail, merge, cleanup, ops, history>>

Empty == [content |-> Nothing, pins |-> {}]
NoPromise == [facts |-> {}, pins |-> {}]
NoSnapshot == [content |-> Nothing, pins |-> {}, unverified |-> {},
               unread |-> {}]
NoRemoval == [conv |-> Nobody, lost |-> Nothing, unread |-> {}]
Idle == [step |-> "idle", src |-> Nobody, dst |-> Nobody, from |-> Empty,
         base |-> {}, basePins |-> {}, new |-> {}]
Off == [now |-> Nobody, todo |-> {}, on |-> FALSE, kept |-> NoSnapshot]
NotRun == [conv |-> Nobody, facts |-> {}, pins |-> {}]
HasRun == [NotRun EXCEPT !.conv = Over]

TypeOK ==
    /\ store \in [Convs -> Contents] /\ pins \in [Convs -> SUBSET Facts]
    /\ torn \in [Convs -> SUBSET Layers]
    /\ lock \in [Convs -> Tails \union {Nobody}]
    /\ tail \in [Tails -> [conv : Convs \union {Nobody, Over},
                           facts : SUBSET Facts, pins : SUBSET Facts]]
    /\ late \in Contents /\ ops \in 0 .. MaxOps
    /\ merge \in [step : {"idle", "preview", "test", "reload", "save", "index"},
                  src : Convs \union {Nobody}, dst : Convs \union {Nobody},
                  from : Bundle, base : SUBSET Facts, basePins : SUBSET Facts,
                  new : SUBSET Exchanges]
    /\ cleanup \in [now : Convs \union {Nobody}, todo : SUBSET Convs,
                    on : BOOLEAN, kept : Snapshot]
    /\ promised \in [Convs -> [facts : SUBSET Facts, pins : SUBSET Facts]]
    /\ removal \in [conv : Convs \union {Nobody}, lost : Contents,
                    unread : SUBSET Layers]
    /\ crossed \subseteq Convs

Of(facts, index, summary) ==
    [Nothing EXCEPT !["facts"] = facts, !["index"] = index,
                    !["summary"] = summary]

Init ==
    /\ store \in [Convs -> {Nothing, Of(Known, Exchanges, {})}]
    /\ pins = [c \in Convs |-> {}]
    /\ torn = [c \in Convs |-> {}] /\ lock = [c \in Convs |-> Nobody]
    /\ tail = [t \in Tails |-> NotRun]
    /\ late = Nothing
    /\ merge = Idle /\ cleanup = Off /\ ops = 0
    /\ promised = [c \in Convs |-> NoPromise] /\ removal = NoRemoval
    /\ crossed = {}

----------------------------------------------------------------------------
(* The rest of the program. *)

Asked == ops < MaxOps /\ ops' = ops + 1

Readable(c, l) == l \notin torn[c]

\* Between a merge's test of the locks and its save nothing keeps others off
\* its destination: it runs in a thread of its own.
InWindow(c) == c = merge.dst /\ merge.step \in {"reload", "save"}

Crosses(c) == crossed' = crossed \union {d \in {c} : InWindow(d)}

\* What a step writes into a conversation whose snapshot is taken.
Noted(c) ==
    late' = IF cleanup.now # c THEN late
            ELSE [l \in Layers |-> late[l] \union (store'[c][l] \ store[c][l])]

\* The extraction tail takes the lock and reads the facts, ...
TailReads(t, c) ==
    /\ tail[t] = NotRun /\ lock[c] = Nobody /\ Readable(c, "facts")
    /\ Crosses(c)
    /\ lock' = [lock EXCEPT ![c] = t]
    /\ tail' = [tail EXCEPT ![t] =
                    [conv |-> c, facts |-> store[c]["facts"], pins |-> pins[c]]]
    /\ removal' = NoRemoval
    /\ UNCHANGED <<ops, data, late, merge, cleanup, promised>>

\* ... and writes them with what it learned, pinned or not, with its exchange
\* and, when a chunk is full, a chapter.
TailWrites(t) ==
    LET c == tail[t].conv IN
    /\ c \in Convs
    /\ \E f \in Facts, x \in Exchanges, h \in SUBSET Chapters :
       \E pin \in SUBSET {f} :
        /\ store' = [store EXCEPT
              ![c]["facts"] = tail[t].facts \union {f},
              ![c]["index"] = IF Readable(c, "index") THEN @ \union {x} ELSE @,
              ![c]["summary"] = IF Readable(c, "summary") THEN @ \union h ELSE @]
        /\ pins' = [pins EXCEPT ![c] = tail[t].pins \union pin]
    /\ Noted(c)
    /\ lock' = [lock EXCEPT ![c] = Nobody]
    /\ tail' = [tail EXCEPT ![t] = HasRun]
    /\ removal' = NoRemoval
    /\ crossed' = IF InWindow(c) THEN crossed ELSE crossed \ {c}
    /\ promised' = [promised EXCEPT
                      ![c] = IF c \in crossed \ crossed' THEN NoPromise ELSE @]
    /\ UNCHANGED <<ops, torn, merge, cleanup>>

\* A crash cuts a file short, the vector store goes away; one layer at a
\* time is a bound for TLC.
Tear(c) ==
    /\ MayTear /\ \A d \in Convs : torn[d] = {}
    /\ \E l \in Layers : torn' = [torn EXCEPT ![c] = @ \union {l}]
    /\ removal' = NoRemoval
    /\ UNCHANGED <<ops, store, pins, lock, tail, late, merge, cleanup,
                   promised, crossed>>

----------------------------------------------------------------------------
(* Export, quarantine, import, fork. *)

\* What a best-effort read of a layer returns: unknown is read as empty.
Reads(c, l) ==
    (IF Readable(c, l) THEN {store[c][l]} ELSE {{}}) \union
    (IF l \in Flickers THEN {{}} ELSE {})

Strict(c) == Readable(c, "facts") /\ Readable(c, "summary")

\* An export is best effort: what of it fails for once comes out empty.
Export(c, failed) ==
    [l \in Layers |-> IF l \in torn[c] \union failed THEN {} ELSE store[c][l]]

Exports(c) ==
    {[content |-> Export(c, failed),
      pins |-> pins[c] \intersect Export(c, failed)["facts"]] :
        failed \in SUBSET Flickers}

\* Mutant: only the facts of a snapshot are compared with the store.
CheckedOnce == {"facts"}

\* The layers whose count is compared with what the store held a moment ago.
Checked == {"facts", "index"}

\* The snapshots quarantine_conversation may publish: a layer that cannot be
\* measured is recorded as unverified (the bytes of a torn file are kept), a
\* checked one that comes back short refuses the snapshot.  A measurement
\* that fails where the export does not changes only the record.
Snapshots(c) ==
    {s \in UNION {{[content |-> Export(c, failed), pins |-> pins[c],
                    unverified |-> torn[c] \union unmeasured,
                    unread |-> failed \ Checked] :
                        unmeasured \in SUBSET failed} :
                failed \in SUBSET Flickers} :
        \A l \in Checked \ s.unverified : s.content[l] = store[c][l]}

\* What a step removes from a conversation and no snapshot has, but what was
\* written since it was taken.
Removes(c, kept, since) ==
    removal' = [conv |-> c, unread |-> kept.unread, lost |-> [l \in Layers |->
        IF l \in kept.unverified THEN {}
        ELSE (store[c][l] \ store'[c][l]) \ (kept.content[l] \union since[l])]]

\* Mutant: an import does not ask who holds the lock.
MayImportAnyway(c) == TRUE

MayImport(c) == lock[c] = Nobody

\* import_conversation writes the facts, the summary, then clears the index
\* and fills it again; a failure ends it after any of these.
Imported(c, b, done, indexed) ==
    /\ store' = [store EXCEPT
          ![c]["facts"] = IF done >= 1 THEN b.content["facts"] ELSE @,
          ![c]["summary"] = IF done >= 2 THEN b.content["summary"] ELSE @,
          ![c]["index"] = IF done = 3 /\ Readable(c, "index") THEN indexed
                                                             ELSE @]
    /\ pins' = [pins EXCEPT ![c] = IF done >= 1 THEN b.pins ELSE @]
    /\ torn' = [torn EXCEPT ![c] = @ \ ((IF done >= 1 THEN {"facts"} ELSE {})
                          \union (IF done >= 2 THEN {"summary"} ELSE {}))]

\* The endpoint with overwrite: no import without a snapshot.
ImportOver(c) ==
    /\ Asked
    /\ MayImport(c) /\ Crosses(c)
    /\ \E b \in UNION {Exports(d) : d \in Convs} :
       \E done \in 0 .. 3, indexed \in SUBSET b.content["index"] :
          Imported(c, b, done, indexed)
    /\ \E s \in Snapshots(c) : Removes(c, s, Nothing)
    /\ Noted(c)
    /\ promised' = [promised EXCEPT ![c] = NoPromise]
    /\ UNCHANGED <<lock, tail, merge, cleanup>>

\* Without it, and in a fork of another conversation, the target must be
\* empty and known to be.
ImportFresh(c) ==
    /\ Asked
    /\ MayImport(c) /\ Crosses(c)
    /\ store[c] = Nothing /\ torn[c] = {}
    /\ \E b \in UNION {Exports(d) : d \in Convs} :
       \E done \in 0 .. 3, indexed \in SUBSET b.content["index"] :
          Imported(c, b, done, indexed)
    /\ Noted(c)
    /\ removal' = NoRemoval
    /\ UNCHANGED <<lock, tail, merge, cleanup, promised>>

----------------------------------------------------------------------------
(* Merge: what it reads, tests and writes, a step each. *)

\* The source is exported, strictly; an empty one is refused.
MergeExport(src, dst) ==
    /\ Asked
    /\ merge.step = "idle" /\ src # dst /\ Strict(src)
    /\ \E x \in Reads(src, "index") :
        /\ store[src]["facts"] \union x # {}
        /\ merge' = [Idle EXCEPT !.step = "preview", !.src = src, !.dst = dst,
              !.from = [content |-> [Nothing EXCEPT !["facts"] = store[src]["facts"],
                                                    !["index"] = x],
                        pins |-> pins[src]]]
    /\ removal' = NoRemoval
    /\ UNCHANGED <<data, lock, tail, late, cleanup, promised, crossed>>

\* The destination is read for the counts and the exchanges it lacks.
MergePreview ==
    /\ merge.step = "preview"
    /\ \/ /\ Readable(merge.dst, "facts")
          /\ \E x \in Reads(merge.dst, "index") : merge' =
                [merge EXCEPT !.step = "test", !.base = store[merge.dst]["facts"],
                              !.basePins = pins[merge.dst],
                              !.new = merge.from.content["index"] \ x]
       \/ ~Readable(merge.dst, "facts") /\ merge' = Idle
    /\ removal' = NoRemoval
    /\ UNCHANGED <<ops, data, lock, tail, late, cleanup, promised, crossed>>

Unlocked == lock[merge.dst] = Nobody /\ lock[merge.src] = Nobody

\* Mutant: the facts of the preview are written.
FreshNot == [facts |-> merge.base, pins |-> merge.basePins]

\* The facts of the destination are read again.
Fresh == [facts |-> store[merge.dst]["facts"], pins |-> pins[merge.dst]]

\* Mutant: a fact both have keeps the pin it had.
FoldKeeps(had) == had.pins \union (merge.from.pins \ had.facts)

\* _merge_fact_pin_and_recency: a pin on either side is kept.
Fold(had) == had.pins \union merge.from.pins

Saved(had) ==
    LET d == merge.dst IN
    /\ store' = [store EXCEPT ![d]["facts"] =
                    had.facts \union merge.from.content["facts"]]
    /\ pins' = [pins EXCEPT ![d] = Fold(had)]
    /\ promised' = [promised EXCEPT
          ![d].facts = @ \union merge.from.content["facts"],
          ![d].pins = @ \union merge.from.pins]
    /\ Noted(d)

\* Whoever crossed the merge and has let go again does so no more.
Settles ==
    crossed' = IF lock[merge.dst] = Nobody THEN crossed \ {merge.dst}
                                          ELSE crossed

\* The locks are tested, not taken, ...
MergeTest ==
    /\ merge.step = "test"
    /\ merge' = IF Unlocked THEN [merge EXCEPT !.step = "reload"] ELSE Idle
    /\ removal' = NoRemoval
    /\ UNCHANGED <<ops, data, lock, tail, late, cleanup, promised, crossed>>

\* ... the facts are read again, ...
MergeReload ==
    /\ merge.step = "reload"
    /\ \/ /\ Readable(merge.dst, "facts")
          /\ merge' = [merge EXCEPT !.step = "save", !.base = Fresh.facts,
                                    !.basePins = Fresh.pins]
          /\ Settles
       \/ /\ ~Readable(merge.dst, "facts")
          /\ merge' = Idle /\ crossed' = crossed \ {merge.dst}
    /\ removal' = NoRemoval
    /\ UNCHANGED <<ops, data, lock, tail, late, cleanup, promised>>

\* ... and saved with those of the source.
MergeSave ==
    /\ merge.step = "save"
    /\ Saved([facts |-> merge.base, pins |-> merge.basePins])
    /\ merge' = [merge EXCEPT !.step = "index"]
    /\ torn' = [torn EXCEPT ![merge.dst] = @ \ {"facts"}]
    /\ Settles
    /\ removal' = NoRemoval
    /\ UNCHANGED <<ops, lock, tail, cleanup>>

\* The exchanges follow; one that fails is left out.
MergeIndex ==
    LET d == merge.dst IN
    /\ merge.step = "index"
    /\ \E x \in SUBSET merge.new :
          store' = [store EXCEPT ![d]["index"] =
                        IF Readable(d, "index") THEN @ \union x ELSE @]
    /\ Noted(d)
    /\ merge' = Idle
    /\ removal' = NoRemoval
    /\ UNCHANGED <<ops, pins, torn, lock, tail, cleanup, promised, crossed>>

Merges ==
    \/ \E src, dst \in Convs : MergeExport(src, dst)
    \/ MergePreview \/ MergeTest \/ MergeReload \/ MergeSave \/ MergeIndex

----------------------------------------------------------------------------
(* Cleanup of what tests left. *)

\* _substantial_reasons: what cannot be read is substantial.
Substantial(c) ==
    \/ torn[c] # {}
    \/ Cardinality(store[c]["facts"]) > Few
    \/ Cardinality(store[c]["index"]) > Few
    \/ store[c]["summary"] # {}

\* find_test_conversations: a name of a test and nothing substantial.
CleanupFinds ==
    /\ Asked
    /\ ~cleanup.on
    /\ cleanup' = [Off EXCEPT !.todo = {c \in TestConvs : ~Substantial(c)},
                              !.on = TRUE]
    /\ removal' = NoRemoval
    /\ UNCHANGED <<data, lock, tail, late, merge, promised, crossed>>

\* Each is put into the quarantine, or left in place, ...
CleanupKeeps(c) ==
    /\ cleanup.now = Nobody /\ c \in cleanup.todo
    /\ \/ \E s \in Snapshots(c) : cleanup' =
              [cleanup EXCEPT !.now = c, !.todo = @ \ {c}, !.kept = s]
       \/ cleanup' = [cleanup EXCEPT !.todo = @ \ {c}]
    /\ late' = Nothing
    /\ removal' = NoRemoval
    /\ UNCHANGED <<ops, data, lock, tail, merge, promised, crossed>>

\* ... and wiped once its writer is done (_wipe_all_layers).
CleanupWipes(c) ==
    /\ cleanup.now = c /\ lock[c] = Nobody
    /\ store' = [store EXCEPT ![c] = [l \in Layers |->
                    IF Readable(c, l) THEN {} ELSE @[l]]]
    /\ pins' = [pins EXCEPT ![c] = IF Readable(c, "facts") THEN {} ELSE @]
    /\ cleanup' = [cleanup EXCEPT !.now = Nobody, !.kept = NoSnapshot]
    /\ promised' = [promised EXCEPT ![c] = NoPromise]
    /\ Removes(c, cleanup.kept, late)
    /\ UNCHANGED <<ops, torn, lock, tail, late, merge, crossed>>

CleanupEnds ==
    /\ cleanup.on /\ cleanup.now = Nobody /\ cleanup.todo = {}
    /\ cleanup' = Off
    /\ removal' = NoRemoval
    /\ UNCHANGED <<ops, data, lock, tail, late, merge, promised, crossed>>

Cleans == CleanupFinds \/ CleanupEnds
          \/ \E c \in Convs : CleanupKeeps(c) \/ CleanupWipes(c)

----------------------------------------------------------------------------
Next ==
    \/ \E t \in Tails : TailWrites(t) \/ \E c \in Convs : TailReads(t, c)
    \/ \E c \in Convs : Tear(c) \/ ImportOver(c) \/ ImportFresh(c)
    \/ Merges \/ Cleans

Spec == Init /\ [][Next]_vars

----------------------------------------------------------------------------
(* Properties. *)

\* No fact, pin, exchange or chapter leaves a conversation but by the
\* overwrite or the cleanup an operator asked for: not by a tail that had
\* read before an import or a merge, nor by a merge that had read before a
\* tail (portability.py:1119, :1744); unless a tail took the lock, or an
\* import came, between the merge's test of the lock and its save, a window
\* the code leaves open (portability.py:1662 to :1711).
NothingVanishes ==
    [][\A c \in Convs \ ({removal'.conv} \union crossed) :
        /\ \A l \in Layers : store[c][l] \subseteq store'[c][l]
        /\ pins[c] \subseteq pins'[c]]_vars

\* The same without the exception.  The comment at the test says that a merge
\* can "refuse to write underneath a holder", whose save would otherwise lose
\* "the merged facts ... with no error anywhere" (portability.py:1652).
NothingIsOverwritten ==
    [][\A c \in Convs \ {removal'.conv} :
        /\ \A l \in Layers : store[c][l] \subseteq store'[c][l]
        /\ pins[c] \subseteq pins'[c]]_vars

\* What a merge reported as merged is in the destination, pins included
\* (portability.py:1281, :1744); nothing is claimed while one that crossed
\* the merge is at work, nor after it has written.
MergedIsThere ==
    \A c \in Convs \ crossed :
        /\ promised[c].facts \subseteq store[c]["facts"]
        /\ promised[c].pins \subseteq pins[c]

\* What an overwrite or a cleanup removes is in the quarantine snapshot, was
\* written after it, or is in a layer the snapshot says it could not read
\* (portability.py:284); of the chapters, only if the export could read them,
\* for these are not counted against what it brought.
RemovedIsKept ==
    \A l \in Layers : removal.lost[l] # {} =>
        l = "summary" /\ l \in removal.unread

\* The same of all layers: the docstring of quarantine_conversation has it
\* refuse where "the snapshot cannot be proven to hold at least what the store
\* held a moment ago" (portability.py:285).
SnapshotHoldsIt == removal.lost = Nothing
=============================================================================
