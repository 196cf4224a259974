----------------------------- MODULE Hierarchy -----------------------------
(***************************************************************************)
(* compactor/summarizer.py: the hierarchical summaries of one              *)
(* conversation.  A rollup pass reads the window of turns a client sent,   *)
(* works out how far the conversation has come, and summarises the turns   *)
(* past the watermark in chunks of L1Size; chunks fold into chapters,      *)
(* chapters into the story so far.  A chunk also records which turns it    *)
(* read, because a later request has the turns of the record replaced by   *)
(* the summaries.                                                          *)
(*                                                                         *)
(* The passes of a conversation run one at a time, under its lock: behind  *)
(* a reply (main._rollup_hierarchy), from the lazy backfill, or from the   *)
(* administrator's compact, which rebuilds the transcript out of the       *)
(* episodic index.  Meanwhile the user goes on: she sends, regenerates,    *)
(* edits and deletes turns, and the client sends at most Cap of them.      *)
(*                                                                         *)
(* A turn is an integer that stands for its role and text; a summary is    *)
(* the set of the turns its text was made from.  Not modelled: turns with  *)
(* images or without text, adoption of the state files of releases before  *)
(* the record, entries of the state file the program does not recognise,   *)
(* and the worker thread of a save that outlives its pass (see Forget).    *)
(***************************************************************************)
EXTENDS Integers, FiniteSets, Sequences, SequencesExt

CONSTANTS
    L1Size, L2Size, L3Size, \* COMPACTOR_L1/L2/L3_CHUNK_SIZE
    AnchorTurns,   \* _ANCHOR_TURNS
    TailCalls,     \* TAIL_ROLLUP_MAX_CALLS, model calls of a pass
    CompactCalls,  \* max_calls of the administrator's compact
    Cap,           \* turns the client sends at most
    Histories,     \* turns the conversation may have before the first pass
    Writes,        \* bound: turns written since, other than echoes
    MaxWaiting,    \* bound: backfills and tails before their pass
    MaxTroubles    \* bound: changes to the history, compacts, windows read twice
                   \* or out of order, failed writes, cancellations and crashes,
                   \* together

ASSUME HierarchyAssumption ==
    /\ L1Size \in Nat \ {0} /\ L2Size \in Nat \ {0} /\ L3Size \in Nat \ {0}
    /\ AnchorTurns \in Nat \ {0} /\ Cap \in Nat \ {0}
    /\ TailCalls \in Nat /\ CompactCalls \in Nat \ {0}
    /\ Histories \subseteq Nat /\ \A n \in Histories : n % 2 = 0
    /\ Writes \in Nat
    /\ MaxWaiting \in Nat /\ MaxTroubles \in Nat

VARIABLES
    disk,       \* the summary file
    archive,    \* the chapters of the archive file
    story,      \* the conversation as the client holds it
    written,    \* turns written so far, other than echoes
    indexed,    \* the rows of the episodic index: slot, user turn, reply
    waiting,    \* backfills and tails before their pass, oldest first
    pass,       \* the pass that holds the lock
    compact,    \* the administrator's compact
    troubles    \* troubles so far

client == <<story, written, indexed>>
vars == <<disk, archive, client, waiting, pass, compact, troubles>>

-----------------------------------------------------------------------------
(* Turns.  A turn whose text is degenerate is negative: the rollup reads   *)
(* Placeholder in its place, the record keeps the turn as the client has   *)
(* it.                                                                     *)

Unknown == 0        \* _FP_UNKNOWN
Echo == 1           \* a user turn that says what an earlier one said
Placeholder == 2    \* _DEGENERATE_HISTORY_PLACEHOLDER
Gap == <<3, 4>>     \* _UNINDEXED_TURN_PLACEHOLDER, user and assistant
Fresh(n) == 4 + n

Shown(t) == IF t < 0 THEN Placeholder ELSE t
ShownAll(turns) == [i \in DOMAIN turns |-> Shown(turns[i])]

AssumedNewTurns == 2

LastOf(n, s) == IF Len(s) <= n THEN s ELSE SubSeq(s, Len(s) - n + 1, Len(s))

Largest(S) == CHOOSE m \in S : \A n \in S : n <= m
Smallest(S) == CHOOSE m \in S : \A n \in S : m <= n

\* The entries of s at some of its places, in their order.
Kept(s, places) ==
    LET before(i) == {j \in places : j < i}
    IN [k \in 1..Cardinality(places) |->
           s[CHOOSE i \in places : Cardinality(before(i)) = k - 1]]

-----------------------------------------------------------------------------
(* What a state says, and how far it has come.                             *)

Empty == [l1 |-> <<>>, l2 |-> <<>>, l3 |-> <<>>, mark |-> 0, seen |-> 0,
          anchor |-> <<>>, head |-> Unknown, width |-> 0,
          record |-> <<>>, extra |-> <<>>]

Chunks(s) == s.l3 \o s.l2 \o s.l1

Said(s) == UNION {c.says : c \in ToSet(Chunks(s))}

HighestChunk(s) == Largest({0} \union {c.last : c \in ToSet(Chunks(s))})

Recorded(s) == Largest({s.seen, s.mark, HighestChunk(s)})

\* The turns from the first on that the spans of the chunks cover.
CoveredPrefix(s) ==
    Largest({n \in 0..HighestChunk(s) : \A k \in 1..n :
                \E c \in ToSet(Chunks(s)) : c.first <= k /\ k <= c.last})

\* The record in the order of the conversation: entry k of a covered turn,
\* then the turns that a chunk read again and that come after it.
RecordSequence(s) ==
    LET reach == Smallest({CoveredPrefix(s), Len(s.record)})
        Reread(k) == Kept(s.extra, {i \in DOMAIN s.extra :
                                       s.extra[i].after = k /\ s.extra[i].owner <= reach})
        At(k) == (IF k = 0 THEN <<>> ELSE <<[turn |-> s.record[k], pos |-> k]>>)
                 \o [i \in DOMAIN Reread(k) |-> [turn |-> Reread(k)[i].turn, pos |-> k]]
    IN IF reach = 0 THEN <<>> ELSE FlattenSeq([k \in 1..reach + 1 |-> At(k - 1)])

NeedsL1(s, position) == position - s.mark >= L1Size
NeedsL2(s) == Len(s.l1) >= L2Size
NeedsL3(s) ==
    /\ Len(s.l2) >= L3Size
    /\ \A c \in ToSet(s.l3) : <<c.first, c.last>> # <<s.l2[1].first, Last(s.l2).last>>

-----------------------------------------------------------------------------
(* Where the conversation is: _observed_position.                          *)

\* For every place where the window holds a prefix of the anchor, the turns
\* that came after the anchor.
AlignCandidates(anchor, seen) ==
    LET Ends(m) == {j \in m..Len(seen) : SubSeq(seen, j - m + 1, j) = SubSeq(anchor, 1, m)}
        New(m, j) == Largest({0, Len(seen) - j - (Len(anchor) - m)})
    IN UNION {{New(m, j) : j \in Ends(m)} : m \in DOMAIN anchor}

\* Mutant: of the places where the anchor fits, the earliest counts.
NewTurnsEarliest(s, seen) ==
    LET new == AlignCandidates(s.anchor, seen)
    IN CASE s.anchor = <<>> /\ Len(seen) >= HighestChunk(s) -> 0
         [] s.anchor # <<>> /\ new # {} -> Largest(new)
         [] OTHER -> AssumedNewTurns

NewTurns(s, seen) ==
    LET new == AlignCandidates(s.anchor, seen)
        unchanged == Len(seen) = s.width /\ seen[1] = s.head
        suffix == Len(seen) < Recorded(s)
    IN CASE s.anchor = <<>> ->
              IF Len(seen) < HighestChunk(s) THEN AssumedNewTurns ELSE 0
         [] s.anchor # <<>> /\ new = {} -> AssumedNewTurns
         [] s.anchor # <<>> /\ 0 \in new /\ new # {0} /\ ~(unchanged /\ ~suffix) ->
              Smallest(new \ {0})
         [] OTHER -> Smallest(new)

\* Mutant: the position is the length of the window.
ObserveLength(s, turns) ==
    LET seen == ShownAll(turns) IN
    [s EXCEPT !.seen = Len(seen), !.anchor = LastOf(AnchorTurns, seen),
              !.head = seen[1], !.width = Len(seen)]

\* Mutant: the anchor is the whole window.
ObserveAll(s, turns) ==
    LET seen == ShownAll(turns) IN
    [s EXCEPT !.seen = Largest({Len(seen), Recorded(s) + NewTurns(s, seen)}),
              !.anchor = seen, !.head = seen[1], !.width = Len(seen)]

Observe(s, turns) ==
    LET seen == ShownAll(turns) IN
    [s EXCEPT !.seen = Largest({Len(seen), Recorded(s) + NewTurns(s, seen)}),
              !.anchor = LastOf(AnchorTurns, seen),
              !.head = seen[1],
              !.width = Len(seen)]

\* _repair_watermark_below_chunks
Repair(s) == [s EXCEPT !.mark = Largest({@, HighestChunk(s)})]

-----------------------------------------------------------------------------
(* Which turns of a window the record holds: _pairing.  Turns that occur   *)
(* once on both sides are anchors, as many as are in the same order on     *)
(* both; the turns between two anchors pair first come, first served.      *)

Anchors(record, now) ==
    LET Once(t, s) == \E i \in DOMAIN s : {j \in DOMAIN s : s[j] = t} = {i}
        both == {p \in (DOMAIN now) \X (DOMAIN record) :
                    /\ now[p[1]] = record[p[2]] /\ record[p[2]] # Unknown
                    /\ Once(now[p[1]], now) /\ Once(now[p[1]], record)}
        ordered == {A \in SUBSET both :
                       \A a, b \in A : a[1] < b[1] => a[2] < b[2]}
    IN {A \in ordered : \A B \in ordered : Cardinality(B) <= Cardinality(A)}

\* The place in the record of the last turn paired up to turn j, where it is
\* last up to the one before.
Paired(record, now, anchors, j, last) ==
    LET at == {a[2] : a \in {a \in anchors : a[1] = j}}
        later == {a[2] : a \in {a \in anchors : a[1] > j}}
        free == {k \in last + 1 .. Smallest({Len(record) + 1} \union later) - 1 :
                    record[k] = now[j]}
    IN CASE at # {} -> Smallest(at)
         [] at = {} /\ free # {} -> Smallest(free)
         [] OTHER -> last

PairedUpTo(record, now, anchors) ==
    LET paired[j \in 0..Len(now)] ==
            IF j = 0 THEN 0 ELSE Paired(record, now, anchors, j, paired[j - 1])
    IN paired

\* Mutant: the last turn is left out.
UnreadButLast(paired, n) ==
    Kept([j \in 1..n |-> j], {j \in 1..n - 1 : paired[j] = paired[j - 1]})

Unread(paired, n) ==
    Kept([j \in 1..n |-> j], {j \in 1..n : paired[j] = paired[j - 1]})

\* The turns before the next chunk that no chunk has read as they are now,
\* each with the covered turn it comes after: what the chunk reads again.
PatchCandidates(s, turns, before, anchors) ==
    LET sequence == RecordSequence(s)
        paired == PairedUpTo([k \in DOMAIN sequence |-> sequence[k].turn], turns, anchors)
        After(j) == IF paired[j] = 0 THEN 0 ELSE sequence[paired[j]].pos
        unread == Unread(paired, Smallest({Len(turns), before}))
        rows == [i \in DOMAIN unread |-> [at |-> unread[i], after |-> After(unread[i])]]
    IN IF sequence = <<>> THEN <<>> ELSE SubSeq(rows, 1, Smallest({L1Size, Len(rows)}))

-----------------------------------------------------------------------------
(* What a chunk records: _record_chunk_fps, _record_patch_fps.             *)

RecordChunk(record, first, turns) ==
    LET reach == Largest({Len(record), first - 1 + Len(turns)})
        Held(k) == IF k <= Len(record) THEN record[k] ELSE Unknown
    IN [k \in 1..reach |->
           IF Held(k) = Unknown /\ k >= first /\ k < first + Len(turns)
           THEN turns[k - first + 1] ELSE Held(k)]

RecordPatch(extra, owner, rows) ==
    LET Same(s, r) == Cardinality({i \in DOMAIN s : /\ s[i].after = r.after
                                                    /\ s[i].turn = r.turn})
        new == Kept(rows, {i \in DOMAIN rows :
                              Same(SubSeq(rows, 1, i), rows[i]) > Same(extra, rows[i])})
    IN extra \o [i \in DOMAIN new |-> [after |-> new[i].after, owner |-> owner,
                                       turn |-> new[i].turn]]

-----------------------------------------------------------------------------
(* The user and her client.                                                *)

\* The history-cap filter: of a window that would begin with a reply, the reply
\* is dropped.  The turns of a story alternate, the user's first.
Window(turns) ==
    LET kept == LastOf(Cap, turns)
    IN IF Len(kept) % 2 = Len(turns) % 2 THEN kept ELSE Tail(kept)

Trouble(n) == troubles + n <= MaxTroubles /\ troubles' = troubles + n

\* A request may start the lazy backfill; behind the reply comes a tail, whose
\* rollup without the reply needs a history.  Either may be shed.  Without the
\* reply the two read one window, a trouble of its own.
RollupsQueued(asked, reply, remembered, changes) ==
    LET backfill == <<[kind |-> "backfill", turns |-> asked]>>
        tail == IF remembered THEN <<[kind |-> "answered", turns |-> Append(asked, reply)]>>
                ELSE IF Len(asked) > 1 THEN <<[kind |-> "tail", turns |-> asked]>>
                ELSE <<>>
    IN \E b \in {<<>>, backfill}, t \in {<<>>, tail} :
         /\ Len(waiting \o b \o t) <= MaxWaiting
         /\ waiting' = waiting \o b \o t
         /\ Trouble(changes + IF ~remembered /\ b # <<>> /\ t # <<>> THEN 1 ELSE 0)

\* The model answers the request that ends with the last of the turns.  A
\* degenerate reply is not remembered.
Answers(turns, reply, changes) ==
    /\ RollupsQueued(Window(turns), reply, reply > 0, changes)
    /\ story' = Append(turns, reply)
    /\ UNCHANGED <<disk, archive, indexed, pass, compact>>

\* The slot that retrieval._next_turn_index allocates.
Slot(asks) == Largest({asks + 1} \union {r.slot + 2 : r \in ToSet(indexed)})

\* The first thing a tail does; what cannot be embedded gets no row.
Indexes ==
    \E i \in DOMAIN waiting :
        /\ waiting[i].kind = "answered"
        /\ Trouble(IF i = 1 THEN 0 ELSE 1)
        /\ waiting' = [waiting EXCEPT ![i].kind = "tail"]
        /\ LET turns == waiting[i].turns
               n == Len(turns)
               row == [slot |-> Slot(n - 1), user |-> turns[n - 1], reply |-> turns[n]]
           IN indexed' \in {indexed, Append(indexed, row)}
        /\ UNCHANGED <<disk, archive, story, written, pass, compact>>

Exchange ==
    \/ /\ written + 2 <= Writes
       /\ written' = written + 2
       /\ \E reply \in {Fresh(written + 2), -Fresh(written + 2)} :
              Answers(Append(story, Fresh(written + 1)), reply, 0)
    \/ /\ written + 1 <= Writes
       /\ written' = written + 1
       /\ \E reply \in {Fresh(written + 1), -Fresh(written + 1)} :
              Answers(Append(story, Echo), reply, 0)

Regenerate ==
    /\ Len(story) > 1
    /\ written + 1 <= Writes
    /\ written' = written + 1
    /\ Answers(Front(story), Fresh(written + 1), 1)

DeleteExchange ==
    /\ Len(story) > 1
    /\ Trouble(1)
    /\ story' = SubSeq(story, 1, Len(story) - 2)
    /\ UNCHANGED <<disk, archive, written, indexed, waiting, pass, compact>>

EditTurn ==
    /\ Trouble(1)
    /\ written + 1 <= Writes
    /\ written' = written + 1
    /\ \E i \in DOMAIN story : story' = [story EXCEPT ![i] = Fresh(written + 1)]
    /\ UNCHANGED <<disk, archive, indexed, waiting, pass, compact>>

-----------------------------------------------------------------------------
(* The administrator's compact.                                            *)

Idle == [kind |-> "none"]

\* The rows, whose slots are even and only grow, at the distances of their
\* slots, with pairs of placeholders in the gaps: _rebuild_transcript_by_slot.
Rebuilt(rows) ==
    LET At(r) == r.slot - rows[1].slot
        Pairs(n) == {<<r.user, r.reply>> : r \in {r \in ToSet(rows) : At(r) = n}}
        PairAt(n) == IF Pairs(n) = {} THEN Gap ELSE CHOOSE p \in Pairs(n) : TRUE
    IN [k \in 1..At(Last(rows)) + 2 |->
           IF k % 2 = 1 THEN PairAt(k - 1)[1] ELSE PairAt(k - 2)[2]]

\* The transcript must reach the recorded position, and more of it must be
\* there than missing.  Read without the lock.
CompactChecks ==
    LET turns == Rebuilt(indexed)
        gaps == Cardinality({i \in DOMAIN turns : turns[i] \in ToSet(Gap)})
    IN /\ compact = Idle
       /\ Trouble(1)
       /\ indexed # <<>>
       /\ Len(turns) >= Recorded(disk)
       /\ gaps <= Len(turns) - gaps
       /\ compact' = [kind |-> "checked", turns |-> turns, mark |-> 0,
                     calls |-> CompactCalls, passes |-> CompactCalls]
       /\ UNCHANGED <<disk, archive, client, waiting, pass>>

\* Under the lock: the anchor of the live window would misplace a transcript
\* that begins at turn 1.
CompactDropsAnchor ==
    /\ compact.kind = "checked"
    /\ pass = Idle
    /\ disk' = [disk EXCEPT !.anchor = <<>>,
                            !.head = IF disk.anchor = <<>> THEN @ ELSE Unknown,
                            !.width = IF disk.anchor = <<>> THEN @ ELSE 0]
    /\ compact' = [compact EXCEPT !.kind = "draining", !.mark = disk.mark]
    /\ UNCHANGED <<archive, client, waiting, pass, troubles>>

-----------------------------------------------------------------------------
(* A pass: _maybe_rollup_body, under the lock.                             *)

Start(kind, turns, calls) ==
    LET state == Observe(Repair(disk), turns)
        before == state.mark - (state.seen - Len(turns))
        sequence == RecordSequence(state)
        patches == IF kind # "compact" /\ NeedsL1(state, state.seen)
                   THEN {PatchCandidates(state, turns, before, a) :
                           a \in Anchors([k \in DOMAIN sequence |-> sequence[k].turn], turns)}
                   ELSE {<<>>}
    IN \E patch \in patches :
         pass' = [kind |-> kind, turns |-> turns, state |-> state, patch |-> patch,
                  calls |-> calls, tried |-> {}]

PassStarts ==
    /\ pass = Idle
    /\ \E i \in DOMAIN waiting :
        /\ waiting[i].kind # "answered"
        /\ Trouble(IF i = 1 THEN 0 ELSE 1)
        /\ waiting' = RemoveAt(waiting, i)
        /\ IF waiting[i].kind = "backfill" /\ Recorded(disk) > Len(waiting[i].turns)
           THEN UNCHANGED pass
           ELSE Start(waiting[i].kind, waiting[i].turns, TailCalls)
    /\ UNCHANGED <<disk, archive, client, compact>>

CompactPassStarts ==
    /\ pass = Idle
    /\ compact.kind = "draining" /\ compact.passes > 0
    /\ compact' = [compact EXCEPT !.kind = "passing", !.passes = @ - 1]
    /\ Start("compact", compact.turns, compact.calls)
    /\ UNCHANGED <<disk, archive, client, waiting, troubles>>

Mem == pass.state
Offset == Mem.seen - Len(pass.turns)

DueL3 == "l3" \notin pass.tried /\ NeedsL3(Mem)
DueL2 == ~DueL3 /\ "l2" \notin pass.tried /\ NeedsL2(Mem)
DueL1 == ~DueL3 /\ ~DueL2 /\ NeedsL1(Mem, Mem.seen)

\* A tier is begun while calls are left, and may overdraw them.
Begins(due) == pass # Idle /\ pass.calls > 0 /\ due
CallsLeft(n) == Largest({0, pass.calls - n})

Rolls(with) ==
    /\ pass' = with
    /\ UNCHANGED <<disk, client, waiting, compact, troubles>>

Merged(chunks) == [says |-> UNION {c.says : c \in ToSet(chunks)},
                   first |-> Head(chunks).first, last |-> Last(chunks).last]

\* Mutant: the story is told anew from the chapters at hand.
StoryAfresh(prior, chapters) == [Merged(chapters) EXCEPT !.first = Head(prior \o chapters).first]

\* The story so far goes on with every chapter, after the chapters have been
\* copied to the archive.
Story(prior, chapters) == Merged(prior \o chapters)

\* Mutant: the archive is written anew.
ArchivedAnew(chapters) == ToSet(chapters)

Archived(chapters) == archive \union ToSet(chapters)

RefreshesL3 ==
    /\ Begins(DueL3)
    /\ archive' = Archived(Mem.l2)
    /\ Rolls([pass EXCEPT !.state.l3 = <<Story(Mem.l3, Mem.l2)>>, !.state.l2 = <<>>,
                          !.tried = @ \union {"l3"},
                          !.calls = CallsLeft(1 + Len(Mem.l3))])

\* Mutant: off by one.
UnfoldedButOne(l1) == SubSeq(l1, L2Size, Len(l1))

Unfolded(l1) == SubSeq(l1, L2Size + 1, Len(l1))

FoldsL2 ==
    /\ Begins(DueL2)
    /\ Rolls([pass EXCEPT !.state.l2 = Append(@, Merged(SubSeq(Mem.l1, 1, L2Size))),
                          !.state.l1 = Unfolded(@),
                          !.calls = CallsLeft(1)])
    /\ UNCHANGED archive

\* Mutant: the tier is tried again in the same pass.
TierFailsAgain ==
    /\ Begins(DueL3 \/ DueL2)
    /\ Rolls([pass EXCEPT !.calls = CallsLeft(1)])
    /\ UNCHANGED archive

\* The model answers nothing, or the archive cannot be written: the tier
\* waits for the next pass.
TierFails ==
    /\ \E tier \in {"l3", "l2"} :
        /\ Begins(IF tier = "l3" THEN DueL3 ELSE DueL2)
        /\ Rolls([pass EXCEPT !.tried = @ \union {tier}, !.calls = CallsLeft(1)])
    /\ UNCHANGED archive

\* The watermark is so far behind the window that no turn of the next chunk
\* is left in it.
SkipsL1 ==
    /\ Begins(DueL1)
    /\ Mem.mark + L1Size <= Offset
    /\ Rolls([pass EXCEPT !.state.mark = Offset, !.patch = <<>>])
    /\ UNCHANGED archive

\* The chunk after the watermark, or what the window still has of it, and the
\* turns it reads again.  It never has the span of a chunk that exists: the
\* watermark is at or past them all.
ChunkFirst == Largest({Mem.mark, Offset}) + 1
ChunkLast == Mem.mark + L1Size
TurnsRead == SubSeq(pass.turns, ChunkFirst - Offset, ChunkLast - Offset)

\* Mutant: the record catches up with the window, read or not.
NewRecordCatchingUp ==
    RecordChunk(Mem.record, Offset + 1, SubSeq(pass.turns, 1, ChunkLast - Offset))

NewRecord == RecordChunk(Mem.record, ChunkFirst, TurnsRead)

ReadsL1 ==
    /\ Begins(DueL1)
    /\ Mem.mark + L1Size > Offset
    /\ LET patch == Kept(pass.patch, {i \in DOMAIN pass.patch :
                                       pass.patch[i].at < ChunkFirst - Offset})
           again == [i \in DOMAIN patch |-> [after |-> patch[i].after,
                                             turn |-> pass.turns[patch[i].at]]]
           says == {Shown(t) : t \in ToSet(TurnsRead) \union {r.turn : r \in ToSet(again)}}
           chunk == [says |-> says, first |-> ChunkFirst, last |-> ChunkLast]
       IN Rolls([pass EXCEPT !.state.l1 = Append(@, chunk),
                             !.state.mark = ChunkLast,
                             !.state.record = NewRecord,
                             !.state.extra = RecordPatch(@, ChunkLast, again),
                             !.patch = <<>>, !.calls = CallsLeft(1)])
    /\ UNCHANGED archive

\* When no tier is due, or no calls are left for one that is; and wherever the
\* model answers a chunk with nothing, any tier raises an exception, or the
\* input of one takes more calls than its least.  A write that fails leaves
\* the file as it was.  A compact goes on while its passes advance the
\* watermark.
PassEnds ==
    /\ pass # Idle
    /\ \/ disk' = Mem /\ UNCHANGED troubles
       \/ disk' = disk /\ Trouble(1)
    /\ pass' = Idle
    /\ compact' = IF pass.kind # "compact" THEN compact
                  ELSE IF disk'.mark > compact.mark /\ pass.calls > 0 /\ compact.passes > 0
                       THEN [compact EXCEPT !.kind = "draining", !.mark = disk'.mark,
                                            !.calls = pass.calls]
                       ELSE Idle
    /\ UNCHANGED <<archive, client, waiting>>

-----------------------------------------------------------------------------
(* A drain's timeout cancels a pass; the process dies.                     *)

Cancelled ==
    /\ pass # Idle /\ pass.kind # "compact"
    /\ Trouble(1)
    /\ pass' = Idle
    /\ UNCHANGED <<disk, archive, client, waiting, compact>>

Crash ==
    /\ Trouble(1)
    /\ waiting' = <<>> /\ pass' = Idle /\ compact' = Idle
    /\ UNCHANGED <<disk, archive, client>>

-----------------------------------------------------------------------------
Init ==
    /\ disk = Empty
    /\ archive = {}
    /\ \E n \in Histories : story = [i \in 1..n |-> Fresh(Writes + i)]
    /\ written = 0
    /\ indexed = <<>>
    /\ waiting = <<>>
    /\ pass = Idle
    /\ compact = Idle
    /\ troubles = 0

UserNext == Exchange \/ Regenerate \/ DeleteExchange \/ EditTurn
TierNext == RefreshesL3 \/ FoldsL2 \/ TierFails \/ SkipsL1 \/ ReadsL1
CompactNext == CompactChecks \/ CompactDropsAnchor \/ CompactPassStarts

Next == UserNext \/ CompactNext \/ Indexes \/ PassStarts \/ TierNext \/ PassEnds \/ Cancelled \/ Crash

Spec == Init /\ [][Next]_vars

-----------------------------------------------------------------------------
(* Properties.                                                             *)

IsChunk(c) ==
    /\ DOMAIN c = {"says", "first", "last"}
    /\ c.says \subseteq Nat \ {Unknown}
    /\ 1 <= c.first /\ c.first <= c.last

IsState(s) ==
    /\ DOMAIN s = DOMAIN Empty
    /\ \A c \in ToSet(Chunks(s)) : IsChunk(c)
    /\ Len(s.l3) <= 1
    /\ s.mark \in Nat /\ s.seen \in Nat /\ s.width \in Nat
    /\ Len(s.anchor) <= AnchorTurns
    /\ \A t \in ToSet(s.record) : t \in Int
    /\ \A e \in ToSet(s.extra) : e.after < e.owner

TypeOK ==
    /\ IsState(disk)
    /\ \A c \in archive : IsChunk(c)
    /\ pass # Idle => /\ IsState(Mem)
                      /\ pass.kind \in {"tail", "backfill", "compact"}
                      /\ pass.tried \subseteq {"l3", "l2"}
                      /\ pass.calls \in 0..Largest({TailCalls, CompactCalls})
    /\ (pass # Idle /\ pass.kind = "compact") <=> compact.kind = "passing"
    /\ \A w \in ToSet(waiting) : w.kind \in {"answered", "tail", "backfill"}
    /\ troubles \in 0..MaxTroubles

\* What stands in for a turn says it: every turn of the covered-turn record
\* that a request can match, is among the turns that the stored summaries
\* were made from, whatever was edited, deleted or rebuilt meanwhile.  A
\* degenerate reply is said as its placeholder.
RecordIsTrue ==
    \A e \in ToSet(RecordSequence(disk)) :
        e.turn # Unknown => Shown(e.turn) \in Said(disk)

\* The labels of the chunks follow one another from the story so far to the
\* last scene without overlap, and the watermark is at or past them all, in a
\* pass and on disk.
SpansOrdered(s) ==
    /\ \A i \in 1..Len(Chunks(s)) - 1 : Chunks(s)[i].last < Chunks(s)[i + 1].first
    /\ HighestChunk(s) <= s.mark

LabelsOrdered == SpansOrdered(disk) /\ (pass # Idle => SpansOrdered(Mem))

\* The position and the watermark of the stored state never go back.
PositionForward == [][disk.seen <= disk'.seen /\ disk.mark <= disk'.mark]_vars

\* What the stored summaries once said they go on saying.
SaidStays == [][Said(disk) \subseteq Said(disk')]_vars

\* A chapter leaves the state only for the archive, and stays there.
ChaptersKept ==
    [][archive \union ToSet(disk.l2) \subseteq archive' \union ToSet(disk'.l2)]_vars

\* When the first chunk of a pass has been read, the summaries say every turn
\* of the window up to its end, unless there were more to read again than one
\* chunk takes (summarizer.py:1465, :3314).
NothingSkipped ==
    [][(/\ ReadsL1 /\ pass.kind # "compact" /\ Mem.mark = disk.mark
        /\ RecordSequence(Mem) # <<>>
        /\ Len(pass.patch) < L1Size)
       => \A i \in 1..ChunkLast - Offset : Shown(pass.turns[i]) \in Said(Mem')]_vars

\* The position is a lower bound: it never exceeds the turns the conversation
\* has had, with passes that were shed, replies that repeat each other and a
\* window that slides, as long as nobody changes the history and the passes
\* keep their order and read each window once.
NeverOverCounts == troubles = 0 => disk.seen <= Len(story)

\* Every step of a pass leaves it less to do, so that it ends without a budget
\* of calls as well, and a tier that fails does not keep the tiers below it
\* from their turn.
ToDo(p) == 3 * (p.state.seen - p.state.mark) + 2 * Len(p.state.l1) + Len(p.state.l2)
           + Cardinality({"l3", "l2"} \ p.tried)

PassAdvances ==
    [][pass # Idle /\ pass' # Idle => ToDo(pass') \in Nat /\ ToDo(pass') < ToDo(pass)]_pass

=============================================================================
