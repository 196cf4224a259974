-------------------------------- MODULE Facts --------------------------------
(***************************************************************************)
(* The pure part of the facts layer: compactor/facts.py and the merge of   *)
(* compactor/dedup.py.  A stored fact is a record                           *)
(*     [text, last, pin]                                                    *)
(* whose text is abstracted to the set of claims it states: an extracted   *)
(* or remembered fact states one claim, a fact merged by the deduplicator  *)
(* states every claim of the facts it replaces.  `last' is last_used in    *)
(* ticks.  added_turn only orders the rendering of a block, and is left    *)
(* out; where it breaks a tie between equally recent facts every order is  *)
(* allowed.  A list of facts is a set: two entries of one text differ in   *)
(* `last' or `pin', or count once.                                         *)
(***************************************************************************)
EXTENDS Integers, FiniteSets, FiniteSetsExt

CONSTANTS
    Claims,     \* what can be said about the conversation
    Budget      \* token budget of the facts block, one token per claim

ASSUME FactsAssumption == IsFiniteSet(Claims) /\ Budget \in Nat

Fact == [text : (SUBSET Claims) \ {{}}, last : Nat, pin : BOOLEAN]

\* The claims a set of facts states.
Carried(F) == UNION {f.text : f \in F}

\* Mutant: the entry is stored before its text is known.
EmptyFact(c, now) == [text |-> {}, last |-> now, pin |-> FALSE]

\* A fact as extraction and /remember create it.
NewFact(c, now) == [text |-> {c}, last |-> now, pin |-> FALSE]

----------------------------------------------------------------------------
(* The budget split of _lru_split: walk the facts from the most recently   *)
(* used one, pinned facts first, and keep each one that still fits.        *)

Cost(f) == Cardinality(f.text)

\* The claims of all the facts, each counted in every fact that states it.
TotalCost(F) == Cardinality({p \in F \X Claims : p[2] \in p[1].text})

\* Mutant: recency alone decides, as before pins were sorted last.
OlderByRecency(f, g) == f.last < g.last

\* The sort key (pin, last_used): f comes before g, so it is kept after g.
Older(f, g) == \/ ~f.pin /\ g.pin
               \/ f.pin = g.pin /\ f.last < g.last

\* The orders the sort may produce.
Rankings(F) ==
    {rank \in [F -> 1 .. Cardinality(F)] :
        \A f, g \in F : f # g => /\ rank[f] # rank[g]
                                 /\ Older(f, g) => rank[f] < rank[g]}

\* The sets of facts that the split may keep; the rest is evicted.
LruKept(F) ==
    IF TotalCost(F) <= Budget
    THEN {F}
    ELSE {K \in SUBSET F :
            \E rank \in Rankings(F) : \A f \in F :
                f \in K <=> TotalCost({g \in K : rank[g] > rank[f]}) + Cost(f)
                              <= Budget}

----------------------------------------------------------------------------
(* What the operations of the store compute.                               *)

\* archive_facts: an incoming fact replaces the archived copies of its text.
Archived(archive, incoming) ==
    {f \in archive : \A g \in incoming : g.text # f.text} \union incoming

\* Mutant: the snapshot of the request is written back.
SnapshotWins(onDisk, snapshot) == snapshot

\* _merge_touched: the facts on disk, their recency raised from a snapshot
\* the request took earlier.  The snapshot adds no fact.
MergeTouched(onDisk, snapshot) ==
    {[f EXCEPT !.last = Max({f.last} \union
                            {s.last : s \in {t \in snapshot : t.text = f.text}})]
        : f \in onDisk}

\* touch_facts on the injected part of a snapshot.
Touched(F, injected, now) ==
    (F \ injected) \union {[f EXCEPT !.last = now] : f \in injected}

Matching(F, c) == {f \in F : c \in f.text}

\* set_pinned
SetPinned(F, c, pinned) ==
    (F \ Matching(F, c)) \union {[f EXCEPT !.pin = pinned] : f \in Matching(F, c)}

\* restore_from_archive: what comes back is as recent as can be.
Refreshed(F, now) == {[f EXCEPT !.last = now] : f \in F}

\* archive_stale_facts
Stale(F, cutoff) == {f \in F : ~f.pin /\ f.last < cutoff}

\* Mutant: the merged fact is as old as its oldest source.
MergedFactOldest(C) == [text |-> Carried(C),
                        last |-> Min({f.last : f \in C}),
                        pin |-> \E f \in C : f.pin]

\* _merge_metadata, for a cluster the model merged into one sentence.
MergedFact(C) == [text |-> Carried(C),
                  last |-> Max({f.last : f \in C}),
                  pin |-> \E f \in C : f.pin]

\* dedup_facts: no cluster is merged, or one is (the language model refuses
\* at will; a pass that merges several clusters is several such passes).
DedupOutcomes(F) ==
    {F} \union {(F \ C) \union {MergedFact(C)} :
                    C \in {D \in SUBSET F : Cardinality(D) >= 2}}

============================================================================
