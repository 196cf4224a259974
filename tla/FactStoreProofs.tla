--------------------------- MODULE FactStoreProofs ---------------------------
(***************************************************************************)
(* The facts of a conversation are never lost silently, never come back    *)
(* from a stale list, and keep their recency and their pins, for any       *)
(* claims, tails, budget and clock.                                        *)
(*                                                                         *)
(* NoSilentLoss is not inductive: it needs to know that the list in the    *)
(* hands of the coroutine that holds the lock still carries what is on     *)
(* disk, and that the replacement about to happen keeps, together with the *)
(* other file, all that is owed.  The lemmas about the operators of Facts  *)
(* come first: what each of them does to the claims a set of facts         *)
(* carries, and to the bound of their recency.  Recency and pins have an   *)
(* invariant of their own, ListsKeep, of the same shape.  A third one,     *)
(* OwnInv, bounds them from the other side - a list in hand says nothing   *)
(* that is neither on disk nor its job's own - and with it the two files   *)
(* implement FactMemory, one memory whose operations are one step each.    *)
(***************************************************************************)
EXTENDS FactStore, FiniteSetTheorems, WellFoundedInduction, TLAPS

----------------------------------------------------------------------------
(* The operators of Facts. *)

\* Facts used no later than n.
FactsUpTo(n) == [text : (SUBSET Claims) \ {{}}, last : 0 .. n, pin : BOOLEAN]

\* A bounded, non-empty set of naturals has a greatest element.
LEMMA MaxOfBounded ==
    ASSUME NEW n \in Nat, NEW S \in SUBSET (0 .. n), S # {}
    PROVE  Max(S) \in S /\ \A y \in S : Max(S) >= y
<1> DEFINE T == {n - x : x \in S}
<1>1. T \subseteq Nat /\ T # {}
  <2>1. PICK x \in S : TRUE
    OBVIOUS
  <2>2. n - x \in T
    OBVIOUS
  <2>3. \A y \in S : n - y \in Nat
    OBVIOUS
  <2>4. QED BY <2>2, <2>3
<1>2. PICK m \in T : \A y \in T : ~ (<<y, m>> \in OpToRel(<, Nat))
  <2>1. IsWellFoundedOn(OpToRel(<, Nat), Nat)
    BY NatLessThanWellFounded
  <2> HIDE DEF T
  <2>2. QED BY <1>1, <2>1, WFMin
<1>3. \A y \in T : ~ (y < m)
  BY <1>1, <1>2 DEF OpToRel
<1>4. PICK x \in S : m = n - x
  OBVIOUS
<1>5. \A y \in S : x >= y
  BY <1>3, <1>4
<1>6. QED
  BY <1>5 DEF Max

\* What it means to carry a claim.
LEMMA CarriedBy ==
    \A F : \A c : c \in Carried(F) <=> \E f \in F : c \in f.text
BY DEF Carried

\* Two sets of facts with the same texts carry the same claims.
LEMMA SameTexts ==
    ASSUME NEW F, NEW G,
           \A f \in F : \E g \in G : g.text = f.text,
           \A g \in G : \E f \in F : f.text = g.text
    PROVE  Carried(F) = Carried(G)
<1>1. \A c \in Carried(F) : c \in Carried(G)
  BY CarriedBy
<1>2. \A c \in Carried(G) : c \in Carried(F)
  BY CarriedBy
<1>3. QED BY <1>1, <1>2

LEMMA FactsUpToGrows ==
    ASSUME NEW n \in Nat
    PROVE  FactsUpTo(n) \subseteq FactsUpTo(n + 1) /\ FactsUpTo(n) \subseteq Fact
BY DEF FactsUpTo, Fact

\* Facts within the bound carry claims only.
LEMMA CarriedType ==
    ASSUME NEW n \in Nat, NEW F \in SUBSET FactsUpTo(n)
    PROVE  Carried(F) \in SUBSET Claims
BY CarriedBy DEF FactsUpTo

\* New facts state the claims they were made for.
LEMMA NewFactsState ==
    ASSUME NEW n \in Nat, NEW C \in SUBSET Claims
    PROVE  /\ {NewFact(c, n) : c \in C} \in SUBSET FactsUpTo(n)
           /\ Carried({NewFact(c, n) : c \in C}) = C
<1> DEFINE N == {NewFact(c, n) : c \in C}
<1>1. \A c \in C : /\ NewFact(c, n) \in FactsUpTo(n)
                   /\ NewFact(c, n).text = {c}
  BY DEF NewFact, FactsUpTo
<1>2. N \in SUBSET FactsUpTo(n)
  BY <1>1
<1>3. \A c : c \in Carried(N) <=> \E d \in C : c \in NewFact(d, n).text
  <2>1. \A c : c \in Carried(N) <=> \E f \in N : c \in f.text
    BY CarriedBy
  <2>2. QED BY <2>1
<1>4. \A c : c \in Carried(N) <=> c \in C
  BY <1>1, <1>3
<1> HIDE DEF N
<1>5. N \in SUBSET FactsUpTo(n) /\ Carried(N) = C
  BY <1>2, <1>4
<1>6. QED
  BY <1>5 DEF N

\* Raising the recency of what is on disk neither adds nor loses a claim.
LEMMA MergeTouchedKeeps ==
    ASSUME NEW n \in Nat, NEW F \in SUBSET FactsUpTo(n),
           NEW S \in SUBSET FactsUpTo(n)
    PROVE  /\ MergeTouched(F, S) \in SUBSET FactsUpTo(n)
           /\ Carried(MergeTouched(F, S)) = Carried(F)
<1> DEFINE Lasts(f) == {f.last} \union {s.last : s \in {t \in S : t.text = f.text}}
<1>1. \A f \in F : Max(Lasts(f)) \in 0 .. n
  <2>1. SUFFICES ASSUME NEW f \in F PROVE Max(Lasts(f)) \in 0 .. n
    OBVIOUS
  <2>2. Lasts(f) \in SUBSET (0 .. n) /\ Lasts(f) # {}
    BY DEF FactsUpTo
  <2> HIDE DEF Lasts
  <2>3. QED BY <2>2, MaxOfBounded
<1>2. MergeTouched(F, S) = {[f EXCEPT !.last = Max(Lasts(f))] : f \in F}
  BY DEF MergeTouched
<1> HIDE DEF Lasts
<1>3. \A f \in F : /\ [f EXCEPT !.last = Max(Lasts(f))] \in FactsUpTo(n)
                   /\ [f EXCEPT !.last = Max(Lasts(f))].text = f.text
  BY <1>1 DEF FactsUpTo
<1>4. Carried(MergeTouched(F, S)) = Carried(F)
  <2>1. \A g \in MergeTouched(F, S) : \E f \in F : f.text = g.text
    BY <1>2, <1>3
  <2>2. \A f \in F : \E g \in MergeTouched(F, S) : g.text = f.text
    BY <1>2, <1>3
  <2>3. QED BY <2>1, <2>2, SameTexts
<1>5. QED
  BY <1>2, <1>3, <1>4

\* Touching a snapshot keeps its claims.
LEMMA TouchedKeeps ==
    ASSUME NEW n \in Nat, NEW F \in SUBSET FactsUpTo(n), NEW I \in SUBSET F
    PROVE  Touched(F, I, n) \in SUBSET FactsUpTo(n)
BY DEF Touched, FactsUpTo

\* Pinning and unpinning keep the claims.
LEMMA SetPinnedKeeps ==
    ASSUME NEW n \in Nat, NEW F \in SUBSET FactsUpTo(n), NEW c,
           NEW pinned \in BOOLEAN
    PROVE  /\ SetPinned(F, c, pinned) \in SUBSET FactsUpTo(n)
           /\ Carried(SetPinned(F, c, pinned)) = Carried(F)
<1>1. \A f \in F : /\ [f EXCEPT !.pin = pinned] \in FactsUpTo(n)
                   /\ [f EXCEPT !.pin = pinned].text = f.text
  BY DEF FactsUpTo
<1>2. SetPinned(F, c, pinned) \in SUBSET FactsUpTo(n)
  BY <1>1 DEF SetPinned, Matching
<1>3. Carried(SetPinned(F, c, pinned)) = Carried(F)
  <2>1. \A g \in SetPinned(F, c, pinned) : \E f \in F : f.text = g.text
    BY <1>1 DEF SetPinned, Matching
  <2>2. \A f \in F : \E g \in SetPinned(F, c, pinned) : g.text = f.text
    BY <1>1 DEF SetPinned, Matching
  <2>3. QED BY <2>1, <2>2, SameTexts
<1>4. QED
  BY <1>2, <1>3

\* The sidecar keeps what it had and gains what comes in.
LEMMA ArchivedKeeps ==
    ASSUME NEW n \in Nat, NEW A \in SUBSET FactsUpTo(n),
           NEW E \in SUBSET FactsUpTo(n)
    PROVE  /\ Archived(A, E) \in SUBSET FactsUpTo(n)
           /\ Carried(Archived(A, E)) = Carried(A) \union Carried(E)
<1>1. Archived(A, E) \in SUBSET FactsUpTo(n)
  BY DEF Archived
<1>2. \A c \in Carried(Archived(A, E)) : c \in Carried(A) \/ c \in Carried(E)
  BY CarriedBy DEF Archived
<1>3. \A c \in Carried(E) : c \in Carried(Archived(A, E))
  BY CarriedBy DEF Archived
<1>4. \A c \in Carried(A) : c \in Carried(Archived(A, E))
  <2>1. SUFFICES ASSUME NEW c, NEW f \in A, c \in f.text
                 PROVE  \E g \in Archived(A, E) : c \in g.text
    BY CarriedBy
  <2>2. CASE \A g \in E : g.text # f.text
    BY <2>1, <2>2 DEF Archived
  <2>3. CASE \E g \in E : g.text = f.text
    BY <2>1, <2>3 DEF Archived
  <2>4. QED BY <2>2, <2>3
<1>5. QED
  BY <1>1, <1>2, <1>3, <1>4

\* Refreshing keeps the claims.
LEMMA RefreshedKeeps ==
    ASSUME NEW n \in Nat, NEW F \in SUBSET FactsUpTo(n)
    PROVE  /\ Refreshed(F, n) \in SUBSET FactsUpTo(n)
           /\ Carried(Refreshed(F, n)) = Carried(F)
<1>1. \A f \in F : /\ [f EXCEPT !.last = n] \in FactsUpTo(n)
                   /\ [f EXCEPT !.last = n].text = f.text
  BY DEF FactsUpTo
<1>2. Refreshed(F, n) \in SUBSET FactsUpTo(n)
  BY <1>1 DEF Refreshed
<1>3. Carried(Refreshed(F, n)) = Carried(F)
  <2>1. \A g \in Refreshed(F, n) : \E f \in F : f.text = g.text
    BY <1>1 DEF Refreshed
  <2>2. \A f \in F : \E g \in Refreshed(F, n) : g.text = f.text
    BY <1>1 DEF Refreshed
  <2>3. QED BY <2>1, <2>2, SameTexts
<1>4. QED
  BY <1>2, <1>3

\* The deduplicator neither adds nor loses a claim.
LEMMA DedupKeeps ==
    ASSUME NEW n \in Nat, NEW F \in SUBSET FactsUpTo(n),
           NEW R \in DedupOutcomes(F)
    PROVE  R \in SUBSET FactsUpTo(n) /\ Carried(R) = Carried(F)
<1>1. CASE R = F
  BY <1>1
<1>2. CASE R # F
  <2>1. PICK C \in SUBSET F : Cardinality(C) >= 2 /\ R = (F \ C) \union {MergedFact(C)}
    BY <1>2 DEF DedupOutcomes
  <2>2. C # {}
    BY <2>1, FS_EmptySet
  <2>3. Max({f.last : f \in C}) \in 0 .. n
    <3>1. {f.last : f \in C} \in SUBSET (0 .. n) /\ {f.last : f \in C} # {}
      BY <2>2 DEF FactsUpTo
    <3>2. QED BY <3>1, MaxOfBounded
  <2>4. Carried(C) \in (SUBSET Claims) \ {{}}
    BY <2>2, CarriedBy DEF FactsUpTo
  <2>5. MergedFact(C) \in FactsUpTo(n) /\ MergedFact(C).text = Carried(C)
    BY <2>3, <2>4 DEF MergedFact, FactsUpTo
  <2>6. \A c \in Carried(R) : c \in Carried(F)
    BY <2>1, <2>5, CarriedBy
  <2>7. \A c \in Carried(F) : c \in Carried(R)
    BY <2>1, <2>5, CarriedBy
  <2>8. QED
    BY <2>1, <2>5, <2>6, <2>7
<1>3. QED
  BY <1>1, <1>2

\* What the budget split keeps is part of what it was given.
LEMMA LruKeptPart ==
    ASSUME NEW F, NEW K \in LruKept(F)
    PROVE  K \in SUBSET F
BY DEF LruKept

----------------------------------------------------------------------------
(* The facts of a conversation. *)


TypeInv ==
    /\ clock \in Nat
    /\ active \in SUBSET FactsUpTo(clock)
    /\ archive \in SUBSET FactsUpTo(clock)
    /\ readable \in [Files -> BOOLEAN]
    /\ lock \in Jobs \union {NoOne}
    /\ pc \in [Jobs -> {"idle", "parked", "extracting", "merging", "saving"}]
    /\ snap \in [Jobs -> SUBSET FactsUpTo(clock)]
    /\ work \in [Jobs -> SUBSET FactsUpTo(clock)]
    /\ news \in [Jobs -> SUBSET Claims]
    /\ news[AdminDedup] = {}
    /\ pending \in [op : {"none", "store", "forget", "unpin"}, file : Files,
                    content : SUBSET FactsUpTo(clock),
                    owner : Jobs \union {NoOne},
                    adds : SUBSET Claims, drops : SUBSET Claims]
    /\ held \in SUBSET Claims
    /\ gone \in SUBSET Claims

\* A replacement belongs to the holder of the lock, who is saving, or to a
\* command that took the free lock for one step.
PendingOwned ==
    pending # Quiet => /\ lock = pending.owner
                       /\ pending.owner # NoOne => pc[pending.owner] = "saving"

\* A job that awaits the deduplicator carries all that is on disk, and of
\* what was forgotten only what its own exchange states again.
WorkCurrent ==
    \A j \in Jobs : pc[j] = "merging" =>
        /\ Carried(active) \subseteq Carried(work[j])
        /\ Carried(work[j]) \intersect gone \subseteq news[j]
        /\ news[j] \subseteq Carried(work[j])

\* The files as they will be once the replacement has happened.
ActiveNext == IF pending.file = "active" THEN pending.content ELSE active
ArchiveNext == IF pending.file = "archive" THEN pending.content ELSE archive

PendingSafe ==
    pending # Quiet =>
        /\ (held \union pending.adds) \ pending.drops
              \subseteq Carried(ActiveNext) \union Carried(ArchiveNext)
        /\ Carried(ActiveNext) \intersect (gone \union pending.drops)
              \subseteq pending.adds

IInv == /\ TypeInv
        /\ LockHeldAcrossAwaits
        /\ PendingOwned
        /\ WorkCurrent
        /\ PendingSafe
        /\ NoSilentLoss
        /\ NoResurrection

----------------------------------------------------------------------------
LEMMA JobsAreSomeone == NoOne \notin Jobs
BY HolderAssumption DEF Jobs

LEMMA InitIInv == Init => IInv
<1> SUFFICES ASSUME Init PROVE IInv
  OBVIOUS
<1>1. TypeInv
  BY DEF Init, TypeInv, Quiet, Files, Jobs
<1>2. Carried(active) = {} /\ pending = Quiet /\ held = {} /\ gone = {}
  BY CarriedBy DEF Init
<1>3. QED
  BY <1>1, <1>2 DEF Init, IInv, LockHeldAcrossAwaits, PendingOwned, WorkCurrent,
     PendingSafe, NoSilentLoss, NoResurrection

\* The effect of pruning a list and asking for it to be saved.
LEMMA PruneKeeps ==
    ASSUME TypeInv, NEW F \in SUBSET FactsUpTo(clock),
           NEW owner \in Jobs \union {NoOne}, NEW adds \in SUBSET Claims,
           PruneThenSave(F, owner, adds)
    PROVE  /\ archive' \in SUBSET FactsUpTo(clock)
           /\ Carried(archive) \subseteq Carried(archive')
           /\ \E kept \in SUBSET F :
                /\ pending' = [op |-> "store", file |-> "active",
                               content |-> kept, owner |-> owner,
                               adds |-> adds, drops |-> {}]
                /\ Carried(kept) \subseteq Carried(F)
                /\ Carried(F) \subseteq Carried(kept) \union Carried(archive')
<1>1. PICK K \in LruKept(F) :
        \/ /\ archive' = Archived(archive, F \ K)
           /\ Replace("active", K, "store", owner, adds, {})
        \/ /\ archive' = archive
           /\ Replace("active", F, "store", owner, adds, {})
  BY DEF PruneThenSave
<1>2. K \in SUBSET F
  BY LruKeptPart
<1>3. CASE archive' = archive /\ Replace("active", F, "store", owner, adds, {})
  BY <1>3 DEF Replace, TypeInv
<1>4. CASE archive' = Archived(archive, F \ K)
           /\ Replace("active", K, "store", owner, adds, {})
  <2>1. /\ archive' \in SUBSET FactsUpTo(clock)
        /\ Carried(archive') = Carried(archive) \union Carried(F \ K)
    BY <1>2, <1>4, ArchivedKeeps DEF TypeInv
  <2>2. \A c \in Carried(F) : c \in Carried(K) \/ c \in Carried(F \ K)
    BY CarriedBy
  <2>3. \A c \in Carried(K) : c \in Carried(F)
    BY <1>2, CarriedBy
  <2>4. QED
    BY <1>2, <1>4, <2>1, <2>2, <2>3 DEF Replace
<1>5. QED
  BY <1>1, <1>3, <1>4

\* Replacing the active file next, by a list that carries what is owed.
LEMMA ReplaceActiveSafe ==
    ASSUME IInv, TypeInv', NEW F, NEW owner, NEW adds,
           pending' = [op |-> "store", file |-> "active", content |-> F,
                       owner |-> owner, adds |-> adds, drops |-> {}],
           UNCHANGED <<active, held, gone>>,
           Carried(archive) \subseteq Carried(archive'),
           Carried(active) \union adds \subseteq Carried(F) \union Carried(archive'),
           Carried(F) \intersect gone \subseteq adds
    PROVE  PendingSafe' /\ NoSilentLoss' /\ NoResurrection'
<1>1. /\ Carried(active)' = Carried(active)
      /\ Carried(archive)' = Carried(archive')
      /\ Carried(ActiveNext)' = Carried(F)
      /\ Carried(ArchiveNext)' = Carried(archive')
  BY DEF ActiveNext, ArchiveNext
<1>2. held \subseteq Carried(active) \union Carried(archive)
  BY DEF IInv, NoSilentLoss
<1>3. PendingSafe'
  BY <1>1, <1>2 DEF PendingSafe
<1>4. NoSilentLoss'
  BY <1>1, <1>2 DEF NoSilentLoss
<1>5. NoResurrection'
  BY <1>1 DEF IInv, NoResurrection
<1>6. QED BY <1>3, <1>4, <1>5

----------------------------------------------------------------------------
(* One lemma per action: it preserves the invariant.                       *)

\* Steps that leave the files, the replacement and the history alone, and
\* only move a job that is not awaiting the deduplicator.
LEMMA QuietStep ==
    ASSUME IInv, TypeInv', UNCHANGED <<active, archive, pending, held, gone>>,
           PendingOwned', LockHeldAcrossAwaits',
           \A j \in Jobs : pc'[j] = "merging" =>
               pc[j] = "merging" /\ work'[j] = work[j] /\ news'[j] = news[j]
    PROVE  IInv'
<1>1. /\ Carried(active)' = Carried(active)
      /\ Carried(archive)' = Carried(archive)
      /\ Carried(ActiveNext)' = Carried(ActiveNext)
      /\ Carried(ArchiveNext)' = Carried(ArchiveNext)
  BY DEF ActiveNext, ArchiveNext
<1>2. WorkCurrent'
  BY <1>1 DEF IInv, WorkCurrent
<1>3. PendingSafe' /\ NoSilentLoss' /\ NoResurrection'
  BY <1>1 DEF IInv, PendingSafe, NoSilentLoss, NoResurrection
<1>4. QED
  BY <1>2, <1>3 DEF IInv

LEMMA RequestStep == ASSUME IInv, NEW t \in Tails, Request(t) PROVE IInv'
<1> t \in Jobs /\ t # AdminDedup /\ AdminDedup \in Jobs
  BY HolderAssumption DEF Jobs
<1>1. PICK injected \in SUBSET active :
        snap' = [snap EXCEPT ![t] = IF readable["active"]
                                    THEN Touched(active, injected, clock)
                                    ELSE {}]
  BY DEF Request
<1>2. Touched(active, injected, clock) \in SUBSET FactsUpTo(clock)
  BY TouchedKeeps DEF IInv, TypeInv
<1>3. TypeInv'
  BY <1>1, <1>2 DEF IInv, TypeInv, Request, disk, history
<1>4. PendingOwned' /\ LockHeldAcrossAwaits'
  BY DEF IInv, TypeInv, PendingOwned, LockHeldAcrossAwaits, Request, LoopFree
<1>5. QED
  BY <1>3, <1>4, QuietStep DEF IInv, TypeInv, Request, disk, history

LEMMA TailSkippedStep == ASSUME IInv, NEW t \in Tails, TailSkipped(t) PROVE IInv'
<1> t \in Jobs /\ t # AdminDedup /\ AdminDedup \in Jobs
  BY HolderAssumption DEF Jobs
<1>1. TypeInv'
  BY DEF IInv, TypeInv, TailSkipped, Ended, MovesOn, disk, history
<1>2. PendingOwned' /\ LockHeldAcrossAwaits'
  BY DEF IInv, TypeInv, PendingOwned, LockHeldAcrossAwaits, TailSkipped, Ended,
     MovesOn, LoopFree
<1>3. QED
  BY <1>1, <1>2, QuietStep DEF IInv, TypeInv, TailSkipped, Ended, MovesOn, disk, history

LEMMA TailLocksStep == ASSUME IInv, NEW t \in Tails, TailLocks(t) PROVE IInv'
<1> t \in Jobs /\ t # AdminDedup /\ AdminDedup \in Jobs
  BY HolderAssumption DEF Jobs
<1>1. TypeInv'
  BY DEF IInv, TypeInv, TailLocks, disk, history
<1>2. PendingOwned' /\ LockHeldAcrossAwaits'
  BY JobsAreSomeone
     DEF IInv, TypeInv, PendingOwned, LockHeldAcrossAwaits, TailLocks, CanLock, LoopFree
<1>3. QED
  BY <1>1, <1>2, QuietStep DEF IInv, TypeInv, TailLocks, disk, history

LEMMA TouchedSaveStep == ASSUME IInv, NEW t \in Tails, TouchedSave(t) PROVE IInv'
<1> t \in Jobs /\ t # AdminDedup /\ AdminDedup \in Jobs
  BY HolderAssumption DEF Jobs
<1>1. CASE readable["active"] /\ active # {}
  <2> DEFINE M == MergeTouched(active, snap[t])
  <2>1. M \in SUBSET FactsUpTo(clock) /\ Carried(M) = Carried(active)
    BY MergeTouchedKeeps DEF IInv, TypeInv
  <2>2. /\ pending' = [op |-> "store", file |-> "active", content |-> M,
                       owner |-> t, adds |-> {}, drops |-> {}]
        /\ pc' = [pc EXCEPT ![t] = "saving"] /\ lock' = t /\ lock = NoOne
        /\ UNCHANGED <<active, archive, readable, clock, held, gone>>
        /\ snap' = [snap EXCEPT ![t] = {}]
        /\ work' = [work EXCEPT ![t] = {}] /\ news' = [news EXCEPT ![t] = {}]
    BY <1>1 DEF TouchedSave, Replace, MovesOn, CanLock, disk, history
  <2> HIDE DEF M
  <2>3. TypeInv'
    BY <2>1, <2>2 DEF IInv, TypeInv, Files
  <2>4. PendingOwned' /\ LockHeldAcrossAwaits'
    BY <2>2, JobsAreSomeone DEF IInv, TypeInv, PendingOwned, LockHeldAcrossAwaits
  <2>5. WorkCurrent'
    BY <2>2, JobsAreSomeone DEF IInv, TypeInv, WorkCurrent, LockHeldAcrossAwaits
  <2>6. PendingSafe' /\ NoSilentLoss' /\ NoResurrection'
    <3>1. Carried(M) \intersect gone \subseteq {}
      BY <2>1 DEF IInv, NoResurrection
    <3>2. QED BY <2>1, <2>2, <2>3, <3>1, ReplaceActiveSafe
  <2>7. QED BY <2>3, <2>4, <2>5, <2>6 DEF IInv
<1>2. CASE ~(readable["active"] /\ active # {})
  <2>1. Ended(t) /\ UNCHANGED <<lock, pending, disk, clock, history>> /\ pc[t] = "parked"
    BY <1>2 DEF TouchedSave
  <2>2. TypeInv'
    BY <2>1 DEF IInv, TypeInv, Ended, MovesOn, disk, history
  <2>3. PendingOwned' /\ LockHeldAcrossAwaits'
    BY <2>1 DEF IInv, TypeInv, PendingOwned, LockHeldAcrossAwaits, Ended, MovesOn
  <2>4. QED
    BY <2>1, <2>2, <2>3, QuietStep DEF IInv, TypeInv, Ended, MovesOn, disk, history
<1>3. QED BY <1>1, <1>2

LEMMA ExtractedStep == ASSUME IInv, NEW t \in Tails, Extracted(t) PROVE IInv'
<1> t \in Jobs /\ t # AdminDedup /\ AdminDedup \in Jobs
  BY HolderAssumption DEF Jobs
<1> DEFINE Combined(new) == MergeTouched(active, snap[t])
                              \union {NewFact(c, clock) : c \in new}
<1>1. \A new \in SUBSET Claims : /\ Combined(new) \in SUBSET FactsUpTo(clock)
                                 /\ Carried(Combined(new)) = Carried(active) \union new
  <2>1. SUFFICES ASSUME NEW new \in SUBSET Claims
                 PROVE  /\ Combined(new) \in SUBSET FactsUpTo(clock)
                        /\ Carried(Combined(new)) = Carried(active) \union new
    OBVIOUS
  <2> DEFINE M == MergeTouched(active, snap[t])
             N == {NewFact(c, clock) : c \in new}
  <2>2. M \in SUBSET FactsUpTo(clock) /\ Carried(M) = Carried(active)
    BY MergeTouchedKeeps DEF IInv, TypeInv
  <2>3. N \in SUBSET FactsUpTo(clock) /\ Carried(N) = new
    BY NewFactsState DEF IInv, TypeInv
  <2>4. \A c : c \in Carried(M \union N) <=> c \in Carried(M) \/ c \in Carried(N)
    <3> HIDE DEF M, N
    <3>1. QED BY CarriedBy
  <2>5. QED BY <2>2, <2>3, <2>4
<1> HIDE DEF Combined
<1>2. PICK new \in SUBSET Claims :
        \/ /\ Ended(t)
           /\ lock' = NoOne
           /\ UNCHANGED <<archive, pending>>
        \/ /\ MovesOn(t, "merging", Combined(new), new)
           /\ UNCHANGED <<lock, archive, pending>>
        \/ /\ MovesOn(t, "saving", {}, {})
           /\ PruneThenSave(Combined(new), t, new)
           /\ UNCHANGED lock
  BY DEF Extracted, Combined
<1>3. /\ pending = Quiet /\ pc[t] = "extracting" /\ lock = t
      /\ UNCHANGED <<active, readable, clock, held, gone>>
  BY DEF Extracted, LoopFree, IInv, LockHeldAcrossAwaits, history
<1>4. CASE Ended(t) /\ lock' = NoOne /\ UNCHANGED <<archive, pending>>
  <2>1. TypeInv'
    BY <1>3, <1>4 DEF IInv, TypeInv, Ended, MovesOn
  <2>2. PendingOwned' /\ LockHeldAcrossAwaits'
    BY <1>3, <1>4 DEF IInv, TypeInv, PendingOwned, LockHeldAcrossAwaits, Ended, MovesOn
  <2>3. QED
    BY <1>3, <1>4, <2>1, <2>2, QuietStep DEF IInv, TypeInv, Ended, MovesOn
<1>5. CASE MovesOn(t, "merging", Combined(new), new) /\ UNCHANGED <<lock, archive, pending>>
  <2>1. TypeInv'
    BY <1>1, <1>3, <1>5 DEF IInv, TypeInv, MovesOn
  <2>2. PendingOwned' /\ LockHeldAcrossAwaits'
    BY <1>3, <1>5 DEF IInv, TypeInv, PendingOwned, LockHeldAcrossAwaits, MovesOn
  <2>3. WorkCurrent'
    <3>1. /\ Carried(active) \subseteq Carried(Combined(new))
          /\ Carried(Combined(new)) \intersect gone \subseteq new
          /\ new \subseteq Carried(Combined(new))
      BY <1>1 DEF IInv, NoResurrection
    <3>2. QED
      BY <1>3, <1>5, <3>1 DEF IInv, TypeInv, WorkCurrent, MovesOn, LockHeldAcrossAwaits
  <2>4. PendingSafe' /\ NoSilentLoss' /\ NoResurrection'
    BY <1>3, <1>5 DEF IInv, PendingSafe, NoSilentLoss, NoResurrection
  <2>5. QED BY <2>1, <2>2, <2>3, <2>4 DEF IInv
<1>6. CASE /\ MovesOn(t, "saving", {}, {})
           /\ PruneThenSave(Combined(new), t, new)
           /\ UNCHANGED lock
  <2>1. /\ archive' \in SUBSET FactsUpTo(clock)
        /\ Carried(archive) \subseteq Carried(archive')
    BY <1>1, <1>6, PruneKeeps DEF IInv
  <2>2. PICK kept \in SUBSET Combined(new) :
           /\ pending' = [op |-> "store", file |-> "active", content |-> kept,
                          owner |-> t, adds |-> new, drops |-> {}]
           /\ Carried(kept) \subseteq Carried(Combined(new))
           /\ Carried(Combined(new)) \subseteq Carried(kept) \union Carried(archive')
    BY <1>1, <1>6, PruneKeeps DEF IInv
  <2>3. TypeInv'
    BY <1>1, <1>3, <1>6, <2>1, <2>2 DEF IInv, TypeInv, MovesOn, Files
  <2>4. PendingOwned' /\ LockHeldAcrossAwaits'
    BY <1>3, <1>6, <2>2 DEF IInv, TypeInv, PendingOwned, LockHeldAcrossAwaits, MovesOn
  <2>5. WorkCurrent'
    BY <1>3, <1>6 DEF IInv, TypeInv, WorkCurrent, MovesOn, LockHeldAcrossAwaits
  <2>6. PendingSafe' /\ NoSilentLoss' /\ NoResurrection'
    <3>1. Carried(kept) \intersect gone \subseteq new
      BY <1>1, <2>2 DEF IInv, NoResurrection
    <3>2. Carried(active) \union new \subseteq Carried(kept) \union Carried(archive')
      BY <1>1, <2>2
    <3>3. QED BY <1>3, <2>1, <2>2, <2>3, <3>1, <3>2, ReplaceActiveSafe
  <2>7. QED BY <2>3, <2>4, <2>5, <2>6 DEF IInv
<1>7. QED
  BY <1>2, <1>4, <1>5, <1>6

LEMMA MergedStep == ASSUME IInv, NEW j \in Jobs, Merged(j) PROVE IInv'
<1> AdminDedup \in Jobs
  BY DEF Jobs
<1>1. PICK R \in DedupOutcomes(work[j]) :
        \/ Ended(j) /\ lock' = NoOne /\ UNCHANGED <<archive, pending>>
        \/ /\ MovesOn(j, "saving", {}, {})
           /\ lock' = lock
           /\ \/ Replace("active", R, "store", j, {}, {}) /\ archive' = archive
                   /\ j = AdminDedup
              \/ PruneThenSave(R, j, news[j])
  BY DEF Merged
<1>2. /\ pending = Quiet /\ pc[j] = "merging" /\ lock = j
      /\ UNCHANGED <<active, readable, clock, held, gone>>
  BY DEF Merged, LoopFree, IInv, LockHeldAcrossAwaits, history
<1>3. R \in SUBSET FactsUpTo(clock) /\ Carried(R) = Carried(work[j])
  BY DedupKeeps DEF IInv, TypeInv
<1>4. /\ Carried(active) \subseteq Carried(R)
      /\ Carried(R) \intersect gone \subseteq news[j]
      /\ news[j] \subseteq Carried(R)
  BY <1>2, <1>3 DEF IInv, WorkCurrent
<1>5. CASE Ended(j) /\ lock' = NoOne /\ UNCHANGED <<archive, pending>>
  <2>1. TypeInv'
    BY <1>2, <1>5 DEF IInv, TypeInv, Ended, MovesOn
  <2>2. PendingOwned' /\ LockHeldAcrossAwaits'
    BY <1>2, <1>5 DEF IInv, TypeInv, PendingOwned, LockHeldAcrossAwaits, Ended, MovesOn
  <2>3. QED
    BY <1>2, <1>5, <2>1, <2>2, QuietStep DEF IInv, TypeInv, Ended, MovesOn
<1>6. ASSUME MovesOn(j, "saving", {}, {}), lock' = lock,
             archive' \in SUBSET FactsUpTo(clock),
             Carried(archive) \subseteq Carried(archive'),
             NEW kept \in SUBSET R, NEW adds \in SUBSET Claims,
             pending' = [op |-> "store", file |-> "active", content |-> kept,
                         owner |-> j, adds |-> adds, drops |-> {}],
             Carried(active) \union adds \subseteq Carried(kept) \union Carried(archive'),
             Carried(kept) \intersect gone \subseteq adds
      PROVE  IInv'
  <2>1. TypeInv'
    BY <1>2, <1>3, <1>6 DEF IInv, TypeInv, MovesOn, Files
  <2>2. PendingOwned' /\ LockHeldAcrossAwaits'
    BY <1>2, <1>6 DEF IInv, TypeInv, PendingOwned, LockHeldAcrossAwaits, MovesOn
  <2>3. WorkCurrent'
    BY <1>2, <1>6 DEF IInv, TypeInv, WorkCurrent, MovesOn, LockHeldAcrossAwaits
  <2>4. PendingSafe' /\ NoSilentLoss' /\ NoResurrection'
    BY <1>2, <1>6, <2>1, ReplaceActiveSafe
  <2>5. QED BY <2>1, <2>2, <2>3, <2>4 DEF IInv
<1>7. CASE /\ MovesOn(j, "saving", {}, {}) /\ lock' = lock
           /\ Replace("active", R, "store", j, {}, {}) /\ archive' = archive
           /\ j = AdminDedup
  <2>1. Carried(R) \intersect gone \subseteq {}
    BY <1>4, <1>7 DEF IInv, TypeInv
  <2>2. QED
    BY <1>3, <1>4, <1>6, <1>7, <2>1 DEF Replace, IInv, TypeInv
<1>8. CASE /\ MovesOn(j, "saving", {}, {}) /\ lock' = lock
           /\ PruneThenSave(R, j, news[j])
  <2>1. news[j] \in SUBSET Claims
    BY DEF IInv, TypeInv
  <2>2. /\ archive' \in SUBSET FactsUpTo(clock)
        /\ Carried(archive) \subseteq Carried(archive')
    BY <1>3, <1>8, <2>1, PruneKeeps DEF IInv
  <2>3. PICK kept \in SUBSET R :
           /\ pending' = [op |-> "store", file |-> "active", content |-> kept,
                          owner |-> j, adds |-> news[j], drops |-> {}]
           /\ Carried(kept) \subseteq Carried(R)
           /\ Carried(R) \subseteq Carried(kept) \union Carried(archive')
    BY <1>3, <1>8, <2>1, PruneKeeps DEF IInv
  <2>4. /\ Carried(active) \union news[j] \subseteq Carried(kept) \union Carried(archive')
        /\ Carried(kept) \intersect gone \subseteq news[j]
    BY <1>4, <2>3
  <2>5. QED BY <1>6, <1>8, <2>1, <2>2, <2>3, <2>4
<1>9. QED
  BY <1>1, <1>5, <1>7, <1>8

LEMMA DedupLocksStep == ASSUME IInv, DedupLocks PROVE IInv'
<1> AdminDedup \in Jobs
  BY DEF Jobs
<1>1. TypeInv'
  BY DEF IInv, TypeInv, DedupLocks, MovesOn, disk, history
<1>2. PendingOwned' /\ LockHeldAcrossAwaits'
  BY JobsAreSomeone DEF IInv, TypeInv, PendingOwned, LockHeldAcrossAwaits,
     DedupLocks, MovesOn, CanLock, LoopFree
<1>3. WorkCurrent'
  BY JobsAreSomeone DEF IInv, TypeInv, WorkCurrent, LockHeldAcrossAwaits,
     NoResurrection, DedupLocks, MovesOn, CanLock, disk, history
<1>4. PendingSafe' /\ NoSilentLoss' /\ NoResurrection'
  BY DEF IInv, PendingSafe, NoSilentLoss, NoResurrection, DedupLocks, CanLock,
     LoopFree, disk, history
<1>5. QED BY <1>1, <1>2, <1>3, <1>4 DEF IInv

\* A command took the free lock, and all it did was to prepare a replacement
\* that is safe; it may already have added to the sidecar.
LEMMA CommandStep ==
    ASSUME IInv, CanLock, UNCHANGED <<active, readable, lock, jobs, clock, history>>,
           archive' \in SUBSET FactsUpTo(clock),
           Carried(archive) \subseteq Carried(archive'),
           NEW op \in {"store", "forget", "unpin"}, NEW file \in Files,
           NEW content \in SUBSET FactsUpTo(clock),
           NEW adds \in SUBSET Claims, NEW drops \in SUBSET Claims,
           pending' = [op |-> op, file |-> file, content |-> content,
                       owner |-> NoOne, adds |-> adds, drops |-> drops],
           PendingSafe'
    PROVE  IInv'
<1>1. TypeInv'
  BY DEF IInv, TypeInv, jobs, history
<1>2. PendingOwned' /\ LockHeldAcrossAwaits' /\ WorkCurrent'
  BY DEF IInv, PendingOwned, LockHeldAcrossAwaits, WorkCurrent, CanLock, jobs, history
<1>3. NoSilentLoss' /\ NoResurrection'
  BY DEF IInv, NoSilentLoss, NoResurrection, history
<1>4. PendingSafe'
  OBVIOUS
<1>5. QED BY <1>1, <1>2, <1>3, <1>4 DEF IInv

LEMMA RememberStep == ASSUME IInv, NEW c \in Claims, Remember(c) PROVE IInv'
<1> DEFINE F == active \union {NewFact(c, clock)}
<1>1. F \in SUBSET FactsUpTo(clock) /\ Carried(F) = Carried(active) \union {c}
  <2>1. /\ NewFact(c, clock) \in FactsUpTo(clock)
        /\ NewFact(c, clock).text = {c}
    BY DEF NewFact, FactsUpTo, IInv, TypeInv
  <2>2. \A d : d \in Carried(F) <=> d \in Carried(active) \/ d = c
    BY <2>1, CarriedBy
  <2>3. F \in SUBSET FactsUpTo(clock)
    BY <2>1 DEF IInv, TypeInv
  <2> HIDE DEF F
  <2>4. QED BY <2>2, <2>3
<1>2. CanLock /\ UNCHANGED <<active, readable, lock, jobs, clock, history>>
      /\ PruneThenSave(F, NoOne, {c})
  BY DEF Remember, CommandRuns
<1> HIDE DEF F
<1>3. /\ archive' \in SUBSET FactsUpTo(clock)
      /\ Carried(archive) \subseteq Carried(archive')
  BY <1>1, <1>2, PruneKeeps DEF IInv
<1>4. PICK kept \in SUBSET F :
        /\ pending' = [op |-> "store", file |-> "active", content |-> kept,
                       owner |-> NoOne, adds |-> {c}, drops |-> {}]
        /\ Carried(kept) \subseteq Carried(F)
        /\ Carried(F) \subseteq Carried(kept) \union Carried(archive')
  BY <1>1, <1>2, PruneKeeps DEF IInv
<1>5. /\ Carried(active) \union {c} \subseteq Carried(kept) \union Carried(archive')
      /\ Carried(kept) \intersect gone \subseteq {c}
  BY <1>1, <1>4 DEF IInv, NoResurrection
<1>6. TypeInv'
  BY <1>1, <1>2, <1>3, <1>4 DEF IInv, TypeInv, jobs, history, Files
<1>7. PendingSafe'
  BY <1>2, <1>3, <1>4, <1>5, <1>6, ReplaceActiveSafe DEF history
<1>8. QED
  BY <1>1, <1>2, <1>3, <1>4, <1>7, CommandStep DEF Files

LEMMA PinStep ==
    ASSUME IInv, NEW c \in Claims, NEW pinned \in BOOLEAN, Pin(c, pinned)
    PROVE  IInv'
<1> DEFINE F == SetPinned(active, c, pinned)
           op == IF pinned THEN "store" ELSE "unpin"
<1>1. F \in SUBSET FactsUpTo(clock) /\ Carried(F) = Carried(active)
  BY SetPinnedKeeps DEF IInv, TypeInv
<1>2. /\ CanLock /\ UNCHANGED <<active, archive, readable, lock, jobs, clock, history>>
      /\ pending' = [op |-> op, file |-> "active", content |-> F,
                     owner |-> NoOne, adds |-> {}, drops |-> {}]
  BY DEF Pin, CommandRuns, Replace
<1>3. op \in {"store", "forget", "unpin"}
  OBVIOUS
<1> HIDE DEF F, op
<1>4. PendingSafe'
  BY <1>1, <1>2 DEF IInv, PendingSafe, NoSilentLoss, NoResurrection, ActiveNext,
     ArchiveNext, history
<1>5. QED
  BY <1>1, <1>2, <1>3, <1>4, CommandStep DEF IInv, TypeInv, Files

\* Dropping facts from the active file takes away no claim but theirs.
LEMMA ForgetStep ==
    ASSUME IInv, CanLock,
           UNCHANGED <<active, archive, readable, lock, jobs, clock, history>>,
           NEW rest \in SUBSET active,
           pending' = [op |-> "forget", file |-> "active", content |-> rest,
                       owner |-> NoOne, adds |-> {},
                       drops |-> Carried(active) \ Carried(rest)]
    PROVE  IInv'
<1>1. Carried(rest) \subseteq Carried(active) /\ Carried(active) \in SUBSET Claims
  BY CarriedBy, CarriedType DEF IInv, TypeInv
<1>2. PendingSafe'
  BY <1>1 DEF IInv, PendingSafe, NoSilentLoss, NoResurrection, ActiveNext,
     ArchiveNext, history
<1>3. QED
  BY <1>1, <1>2, CommandStep DEF IInv, TypeInv, Files

LEMMA ForgetMatchingStep ==
    ASSUME IInv, NEW c \in Claims, ForgetMatching(c) PROVE IInv'
BY ForgetStep DEF ForgetMatching, CommandRuns, Replace

LEMMA ClearFactsStep == ASSUME IInv, ClearFacts PROVE IInv'
<1>1. Carried(active) = Carried(active) \ Carried({})
  BY CarriedBy
<1>2. QED
  BY <1>1, ForgetStep DEF ClearFacts, CommandRuns, Replace

LEMMA ClearArchiveStep == ASSUME IInv, ClearArchive PROVE IInv'
<1> DEFINE drops == Carried(archive) \ Carried(active)
<1>1. /\ CanLock /\ UNCHANGED <<active, archive, readable, lock, jobs, clock, history>>
      /\ pending' = [op |-> "forget", file |-> "archive", content |-> {},
                     owner |-> NoOne, adds |-> {}, drops |-> drops]
  BY DEF ClearArchive, CommandRuns, Replace
<1>2. drops \in SUBSET Claims
  BY CarriedType DEF IInv, TypeInv
<1>3. PendingSafe'
  BY <1>1 DEF IInv, PendingSafe, NoSilentLoss, NoResurrection, ActiveNext,
     ArchiveNext, history
<1>4. QED
  BY <1>1, <1>2, <1>3, CommandStep DEF IInv, TypeInv, Files

LEMMA ArchiveStaleStep ==
    ASSUME IInv, NEW age \in 0 .. MaxClock, ArchiveStale(age) PROVE IInv'
<1> DEFINE stale == Stale(active, clock - age)
           rest == active \ stale
<1>1. stale \in SUBSET active
  BY DEF Stale
<1>2. /\ CanLock /\ UNCHANGED <<active, readable, lock, jobs, clock, history>>
      /\ archive' = Archived(archive, stale)
      /\ pending' = [op |-> "store", file |-> "active", content |-> rest,
                     owner |-> NoOne, adds |-> {}, drops |-> {}]
  BY DEF ArchiveStale, CommandRuns, Replace
<1> HIDE DEF stale
<1>3. /\ archive' \in SUBSET FactsUpTo(clock)
      /\ Carried(archive') = Carried(archive) \union Carried(stale)
  BY <1>1, <1>2, ArchivedKeeps DEF IInv, TypeInv
<1>4. /\ Carried(active) \subseteq Carried(rest) \union Carried(archive')
      /\ Carried(rest) \subseteq Carried(active)
  <2>1. \A c \in Carried(active) : c \in Carried(rest) \/ c \in Carried(stale)
    BY CarriedBy
  <2>2. \A c \in Carried(rest) : c \in Carried(active)
    BY CarriedBy
  <2>3. QED BY <1>3, <2>1, <2>2
<1> HIDE DEF rest
<1>5. rest \in SUBSET FactsUpTo(clock)
  BY DEF rest, IInv, TypeInv
<1>6. TypeInv'
  BY <1>2, <1>3, <1>5 DEF IInv, TypeInv, jobs, history, Files
<1>7. PendingSafe'
  <2>1. Carried(rest) \intersect gone \subseteq {}
    BY <1>4 DEF IInv, NoResurrection
  <2>2. QED
    BY <1>2, <1>3, <1>4, <1>6, <2>1, ReplaceActiveSafe DEF history
<1>8. QED
  BY <1>2, <1>3, <1>5, <1>7, CommandStep DEF Files

LEMMA RestoreStep == ASSUME IInv, NEW c \in Claims, Restore(c) PROVE IInv'
<1> DEFINE back == Matching(archive, c)
           rest == archive \ back
           fresh == Refreshed(back, clock)
<1>1. back \in SUBSET archive
  BY DEF Matching
<1>2. fresh \in SUBSET FactsUpTo(clock) /\ Carried(fresh) = Carried(back)
  BY <1>1, RefreshedKeeps DEF IInv, TypeInv
<1>3. /\ CanLock /\ UNCHANGED <<archive, readable, lock, jobs, clock>>
      /\ active' = active \union fresh
      /\ held' = held \union Carried(back)
      /\ gone' = gone \ Carried(back)
      /\ pending' = [op |-> "store", file |-> "archive", content |-> rest,
                     owner |-> NoOne, adds |-> {}, drops |-> {}]
  BY DEF Restore, Replace
<1> HIDE DEF back, fresh
<1>4. Carried(active') = Carried(active) \union Carried(back)
  <2>1. \A d : d \in Carried(active') <=> d \in Carried(active) \/ d \in Carried(fresh)
    BY <1>3, CarriedBy
  <2>2. QED BY <1>2, <2>1
<1>5. \A d \in Carried(archive) : d \in Carried(rest) \/ d \in Carried(back)
  BY CarriedBy
<1>6. Carried(back) \in SUBSET Claims
  BY <1>1, CarriedType DEF IInv, TypeInv
<1>7. TypeInv'
  <2>1. rest \in SUBSET FactsUpTo(clock)
    BY DEF IInv, TypeInv
  <2> HIDE DEF rest
  <2>2. QED
    BY <1>2, <1>3, <1>6, <2>1 DEF IInv, TypeInv, jobs, Files
<1> HIDE DEF rest
<1>8. /\ Carried(active)' = Carried(active')
      /\ Carried(archive)' = Carried(archive)
      /\ Carried(ActiveNext)' = Carried(active')
      /\ Carried(ArchiveNext)' = Carried(rest)
  BY <1>3 DEF ActiveNext, ArchiveNext
<1>9. PendingOwned' /\ LockHeldAcrossAwaits'
  BY <1>3 DEF IInv, PendingOwned, LockHeldAcrossAwaits, CanLock, jobs
<1>10. WorkCurrent'
  BY <1>3, JobsAreSomeone DEF IInv, TypeInv, WorkCurrent, LockHeldAcrossAwaits, CanLock, jobs
<1>11. NoSilentLoss' /\ NoResurrection'
  BY <1>3, <1>4, <1>8 DEF IInv, NoSilentLoss, NoResurrection
<1>12. PendingSafe'
  BY <1>3, <1>4, <1>5, <1>8 DEF IInv, PendingSafe, NoSilentLoss, NoResurrection
<1>13. QED
  BY <1>7, <1>9, <1>10, <1>11, <1>12 DEF IInv

\* However an operation ends, its job is idle and its lock is free.
LEMMA OperationOverFrees ==
    ASSUME IInv, ~LoopFree, OperationOver
    PROVE  /\ pending' = Quiet
           /\ lock' = NoOne
           /\ \A j \in Jobs : pc'[j] \notin {"extracting", "merging", "saving"}
           /\ pc' \in [Jobs -> {"idle", "parked", "extracting", "merging", "saving"}]
           /\ snap' \in [Jobs -> SUBSET FactsUpTo(clock)]
           /\ work' \in [Jobs -> SUBSET FactsUpTo(clock)]
           /\ news' \in [Jobs -> SUBSET Claims]
           /\ news'[AdminDedup] = {}
<1> AdminDedup \in Jobs
  BY DEF Jobs
<1>1. lock = pending.owner
  BY DEF LoopFree, IInv, PendingOwned
<1>2. CASE pending.owner = NoOne
  BY <1>1, <1>2, JobsAreSomeone
     DEF OperationOver, IInv, TypeInv, LockHeldAcrossAwaits, jobs
<1>3. CASE pending.owner # NoOne
  BY <1>1, <1>3 DEF OperationOver, Ended, MovesOn, IInv, TypeInv, LockHeldAcrossAwaits
<1>4. QED BY <1>2, <1>3

LEMMA FinishWriteStep == ASSUME IInv, FinishWrite PROVE IInv'
<1>1. /\ pending # Quiet /\ OperationOver /\ ~LoopFree
      /\ active' = ActiveNext /\ archive' = ArchiveNext
      /\ readable' = [readable EXCEPT ![pending.file] = TRUE]
      /\ held' = (held \union pending.adds) \ pending.drops
      /\ gone' = (gone \union pending.drops) \ pending.adds
      /\ clock' = clock
  <2>1. pending.file \in {"active", "archive"}
    BY DEF IInv, TypeInv, Files
  <2>2. QED
    BY <2>1 DEF FinishWrite, LoopFree, ActiveNext, ArchiveNext
<1>2. TypeInv'
  <2>1. active' \in SUBSET FactsUpTo(clock) /\ archive' \in SUBSET FactsUpTo(clock)
    BY <1>1 DEF IInv, TypeInv, ActiveNext, ArchiveNext
  <2>2. pending' \in [op : {"none", "store", "forget", "unpin"}, file : Files,
                      content : SUBSET FactsUpTo(clock),
                      owner : Jobs \union {NoOne},
                      adds : SUBSET Claims, drops : SUBSET Claims]
    BY <1>1, OperationOverFrees DEF Quiet, Files
  <2>3. /\ held' \in SUBSET Claims /\ gone' \in SUBSET Claims
        /\ readable' \in [Files -> BOOLEAN]
    BY <1>1 DEF IInv, TypeInv
  <2>4. QED
    BY <1>1, <2>1, <2>2, <2>3, OperationOverFrees DEF IInv, TypeInv
<1>3. PendingOwned' /\ LockHeldAcrossAwaits' /\ WorkCurrent' /\ PendingSafe'
  BY <1>1, OperationOverFrees DEF PendingOwned, LockHeldAcrossAwaits, WorkCurrent,
     PendingSafe, Quiet
<1>4. NoSilentLoss' /\ NoResurrection'
  <2>1. /\ (held \union pending.adds) \ pending.drops
              \subseteq Carried(active') \union Carried(archive')
        /\ Carried(active') \intersect (gone \union pending.drops) \subseteq pending.adds
    BY <1>1 DEF IInv, PendingSafe
  <2>2. QED
    BY <1>1, <2>1 DEF NoSilentLoss, NoResurrection
<1>5. QED BY <1>2, <1>3, <1>4 DEF IInv

LEMMA WriteFailsStep == ASSUME IInv, WriteFails PROVE IInv'
<1>1. /\ OperationOver /\ ~LoopFree /\ UNCHANGED <<disk, clock, history>>
  BY DEF WriteFails
<1>2. pending' \in [op : {"none", "store", "forget", "unpin"}, file : Files,
                    content : SUBSET FactsUpTo(clock),
                    owner : Jobs \union {NoOne},
                    adds : SUBSET Claims, drops : SUBSET Claims]
  BY <1>1, OperationOverFrees DEF Quiet, Files
<1>3. TypeInv'
  BY <1>1, <1>2, OperationOverFrees DEF IInv, TypeInv, disk, history
<1>4. PendingOwned' /\ LockHeldAcrossAwaits' /\ WorkCurrent' /\ PendingSafe'
  BY <1>1, OperationOverFrees DEF PendingOwned, LockHeldAcrossAwaits, WorkCurrent,
     PendingSafe, Quiet
<1>5. NoSilentLoss' /\ NoResurrection'
  BY <1>1 DEF IInv, NoSilentLoss, NoResurrection, disk, history
<1>6. QED BY <1>3, <1>4, <1>5 DEF IInv

LEMMA CrashStep == ASSUME IInv, Crash PROVE IInv'
<1> AdminDedup \in Jobs
  BY DEF Jobs
<1>1. TypeInv'
  BY DEF IInv, TypeInv, Crash, Quiet, Files, disk, history
<1>2. PendingOwned' /\ LockHeldAcrossAwaits' /\ WorkCurrent' /\ PendingSafe'
  BY DEF PendingOwned, LockHeldAcrossAwaits, WorkCurrent, PendingSafe, Crash
<1>3. NoSilentLoss' /\ NoResurrection'
  BY DEF IInv, NoSilentLoss, NoResurrection, Crash, disk, history
<1>4. QED BY <1>1, <1>2, <1>3 DEF IInv

LEMMA FileStep ==
    ASSUME IInv, NEW file \in Files, Damage(file) \/ Repair(file) PROVE IInv'
<1>1. TypeInv'
  BY DEF IInv, TypeInv, Damage, Repair, jobs, history
<1>2. PendingOwned' /\ LockHeldAcrossAwaits'
  BY DEF IInv, PendingOwned, LockHeldAcrossAwaits, Damage, Repair, jobs
<1>3. QED
  BY <1>1, <1>2, QuietStep DEF Damage, Repair, jobs, history

LEMMA TickStep == ASSUME IInv, Tick PROVE IInv'
<1>1. FactsUpTo(clock) \subseteq FactsUpTo(clock')
  BY FactsUpToGrows DEF Tick, IInv, TypeInv
<1>2. TypeInv'
  BY <1>1 DEF IInv, TypeInv, Tick, disk, jobs, history
<1>3. PendingOwned' /\ LockHeldAcrossAwaits'
  BY DEF IInv, PendingOwned, LockHeldAcrossAwaits, Tick, jobs
<1>4. QED
  BY <1>2, <1>3, QuietStep DEF Tick, disk, jobs, history

----------------------------------------------------------------------------
LEMMA NextIInv == IInv /\ [Next]_vars => IInv'
<1> SUFFICES ASSUME IInv, [Next]_vars PROVE IInv'
  OBVIOUS
<1>1. CASE UNCHANGED vars
  <2>1. TypeInv' /\ PendingOwned' /\ LockHeldAcrossAwaits'
    BY <1>1 DEF IInv, TypeInv, PendingOwned, LockHeldAcrossAwaits, vars, disk, jobs, history
  <2>2. QED
    BY <1>1, <2>1, QuietStep DEF vars, disk, jobs, history
<1>2. ASSUME NEW t \in Tails, Request(t) \/ TailSkipped(t) \/ TouchedSave(t)
                              \/ TailLocks(t) \/ Extracted(t)
      PROVE  IInv'
  BY <1>2, RequestStep, TailSkippedStep, TouchedSaveStep, TailLocksStep, ExtractedStep
<1>3. ASSUME NEW c \in Claims,
             \/ Remember(c) \/ ForgetMatching(c) \/ Restore(c)
             \/ \E pinned \in BOOLEAN : Pin(c, pinned)
      PROVE  IInv'
  BY <1>3, RememberStep, ForgetMatchingStep, RestoreStep, PinStep
<1>4. QED
  BY <1>1, <1>2, <1>3, MergedStep, DedupLocksStep, ClearFactsStep, ClearArchiveStep,
     ArchiveStaleStep, FinishWriteStep, WriteFailsStep, CrashStep, FileStep, TickStep
     DEF Next

\* The strengthened invariant holds in every reachable state.
LEMMA SpecIInv == Spec => []IInv
<1>1. Init => IInv
  BY InitIInv
<1>2. IInv /\ [Next]_vars => IInv'
  BY NextIInv
<1>3. QED BY <1>1, <1>2, PTL DEF Spec

\* Every variable keeps its type; no fact is used later than the clock.
THEOREM TypeCorrect == Spec => []TypeOK
<1>1. IInv => TypeOK
  <2> SUFFICES ASSUME IInv PROVE TypeOK
    OBVIOUS
  <2>1. FactsUpTo(clock) \subseteq Fact
    BY FactsUpToGrows DEF IInv, TypeInv
  <2>2. QED
    BY <2>1 DEF IInv, TypeInv, TypeOK, Pending
<1>2. QED BY <1>1, SpecIInv, PTL

\* A stored claim that nobody forgot is in one of the two files, always:
\* across crashes, failed writes, unreadable files, evictions and merges.
THEOREM NothingLostSilently == Spec => []NoSilentLoss
<1>1. IInv => NoSilentLoss
  BY DEF IInv
<1>2. QED BY <1>1, SpecIInv, PTL

\* A forgotten claim stays out of the active file until it is stated or
\* restored again.
THEOREM NothingComesBack == Spec => []NoResurrection
<1>1. IInv => NoResurrection
  BY DEF IInv
<1>2. QED BY <1>1, SpecIInv, PTL

\* At most one coroutine at a time awaits with the facts in its hands.
THEOREM OneHolder == Spec => []LockHeldAcrossAwaits
<1>1. IInv => LockHeldAcrossAwaits
  BY DEF IInv
<1>2. QED BY <1>1, SpecIInv, PTL

----------------------------------------------------------------------------
(* Recency and pins.  What replaces the active file must cover it,         *)
(* together with the sidecar: say all that each fact says, in a fact that  *)
(* is at least as recent.  And its pinned facts must state what those of   *)
(* the active file do, unless they cost too much together.                 *)

Covers(F, G) == \A f \in F : \E g \in G : f.text \subseteq g.text /\ g.last >= f.last

LEMMA CoversAll ==
    ASSUME NEW n \in Nat, NEW F \in SUBSET FactsUpTo(n), NEW G, F \subseteq G
    PROVE  Covers(F, G)
BY DEF Covers, FactsUpTo

LEMMA CoversOver ==
    ASSUME NEW n \in Nat, NEW F \in SUBSET FactsUpTo(n), NEW G \in SUBSET FactsUpTo(n),
           NEW H \in SUBSET FactsUpTo(n), Covers(F, G), Covers(G, H)
    PROVE  Covers(F, H)
<1> SUFFICES ASSUME NEW f \in F PROVE \E h \in H : f.text \subseteq h.text /\ h.last >= f.last
  BY DEF Covers
<1>1. PICK g \in G : f.text \subseteq g.text /\ g.last >= f.last
  BY DEF Covers
<1>2. PICK h \in H : g.text \subseteq h.text /\ h.last >= g.last
  BY DEF Covers
<1>3. f.last \in Nat /\ g.last \in Nat /\ h.last \in Nat
  BY DEF FactsUpTo
<1> QED BY <1>1, <1>2, <1>3

LEMMA CoversMore ==
    ASSUME NEW F, NEW G, NEW H, Covers(F, G), G \subseteq H
    PROVE  Covers(F, H)
BY DEF Covers

\* The pinned facts of G state all that those of F do.
PinCovers(F, G) == Carried(PinnedIn(F)) \subseteq Carried(PinnedIn(G))

LEMMA PinCoversBy ==
    ASSUME NEW F, NEW G,
           \A f \in F : f.pin => \E g \in G : g.pin /\ f.text \subseteq g.text
    PROVE  PinCovers(F, G)
<1> SUFFICES ASSUME NEW c \in Carried(PinnedIn(F)) PROVE c \in Carried(PinnedIn(G))
  BY DEF PinCovers
<1>1. PICK f \in F : f.pin /\ c \in f.text
  BY CarriedBy DEF PinnedIn
<1>2. PICK g \in G : g.pin /\ f.text \subseteq g.text
  BY <1>1
<1>3. g \in PinnedIn(G) /\ c \in g.text
  BY <1>1, <1>2 DEF PinnedIn
<1> QED BY <1>3, CarriedBy

LEMMA PinCoversAll ==
    ASSUME NEW F, NEW G, F \subseteq G
    PROVE  PinCovers(F, G)
BY PinCoversBy

\* There are finitely many facts.
LEMMA FactsAreFew ==
    ASSUME NEW n \in Nat, NEW F \in SUBSET FactsUpTo(n)
    PROVE  IsFiniteSet(F)
<1> DEFINE S == ((SUBSET Claims) \X (0 .. n)) \X BOOLEAN
           All == [text : SUBSET Claims, last : 0 .. n, pin : BOOLEAN]
           make == [p \in S |-> [text |-> p[1][1], last |-> p[1][2], pin |-> p[2]]]
<1>1. IsFiniteSet(S)
  <2>1. IsFiniteSet(SUBSET Claims)
    BY FactsAssumption, FS_SUBSET
  <2>2. IsFiniteSet(0 .. n)
    BY FS_Interval
  <2>3. IsFiniteSet(BOOLEAN)
    <3>1. IsFiniteSet({TRUE}) /\ IsFiniteSet({FALSE}) /\ BOOLEAN = {TRUE} \union {FALSE}
      BY FS_Singleton
    <3> QED BY <3>1, FS_Union
  <2>4. IsFiniteSet((SUBSET Claims) \X (0 .. n))
    BY <2>1, <2>2, FS_Product
  <2> QED BY <2>3, <2>4, FS_Product
<1>2. make \in Surjection(S, All)
  <2>1. make \in [S -> All]
    OBVIOUS
  <2>2. \A f \in All : \E p \in S : make[p] = f
    <3> TAKE f \in All
    <3> WITNESS <<<<f.text, f.last>>, f.pin>> \in S
    <3> QED OBVIOUS
  <2> HIDE DEF make, S, All
  <2> QED BY <2>1, <2>2 DEF Surjection
<1>3. IsFiniteSet(All)
  BY <1>1, <1>2, FS_Surjection
<1>4. F \in SUBSET All
  BY DEF FactsUpTo
<1> QED BY <1>3, <1>4, FS_Subset

\* More facts cost more.
LEMMA CostGrows ==
    ASSUME NEW n \in Nat, NEW G \in SUBSET FactsUpTo(n), NEW F \in SUBSET G
    PROVE  /\ TotalCost(F) \in Nat /\ TotalCost(G) \in Nat
           /\ TotalCost(F) <= TotalCost(G)
<1> DEFINE Pairs(H) == {p \in H \X Claims : p[2] \in p[1].text}
<1>1. IsFiniteSet(G \X Claims)
  BY FactsAreFew, FactsAssumption, FS_Product
<1>2. Pairs(G) \in SUBSET (G \X Claims) /\ Pairs(F) \in SUBSET Pairs(G)
  OBVIOUS
<1>3. TotalCost(F) = Cardinality(Pairs(F)) /\ TotalCost(G) = Cardinality(Pairs(G))
  BY DEF TotalCost
<1> HIDE DEF Pairs
<1>4. IsFiniteSet(Pairs(G))
  BY <1>1, <1>2, FS_Subset
<1>5. IsFiniteSet(Pairs(F)) /\ Cardinality(Pairs(F)) <= Cardinality(Pairs(G))
  BY <1>2, <1>4, FS_Subset
<1> QED BY <1>3, <1>4, <1>5, FS_CardinalityType

\* One more fact costs at least its own cost more.
LEMMA CostAdds ==
    ASSUME NEW n \in Nat, NEW G \in SUBSET FactsUpTo(n), NEW F \in SUBSET G,
           NEW f \in G, f \notin F
    PROVE  Cost(f) \in Nat /\ TotalCost(F) + Cost(f) <= TotalCost(G)
<1> DEFINE Pairs(H) == {p \in H \X Claims : p[2] \in p[1].text}
           own == {f} \X f.text
<1>1. f.text \in SUBSET Claims
  BY DEF FactsUpTo
<1>2. IsFiniteSet(f.text) /\ IsFiniteSet({f}) /\ Cardinality({f}) = 1
  BY <1>1, FactsAssumption, FS_Subset, FS_Singleton
<1>3. IsFiniteSet(own) /\ Cardinality(own) = Cardinality(f.text) /\ Cardinality(f.text) \in Nat
  <2>1. IsFiniteSet(own) /\ Cardinality(own) = 1 * Cardinality(f.text)
    BY <1>2, FS_Product
  <2>2. Cardinality(f.text) \in Nat
    BY <1>2, FS_CardinalityType
  <2> HIDE DEF own
  <2> QED BY <2>1, <2>2
<1>4. IsFiniteSet(G \X Claims)
  BY FactsAreFew, FactsAssumption, FS_Product
<1>5. /\ Pairs(G) \in SUBSET (G \X Claims)
      /\ Pairs(F) \union own \in SUBSET Pairs(G)
      /\ Pairs(F) \intersect own = {}
  BY <1>1
<1>6. TotalCost(F) = Cardinality(Pairs(F)) /\ TotalCost(G) = Cardinality(Pairs(G))
  BY DEF TotalCost
<1> HIDE DEF Pairs, own
<1>7. IsFiniteSet(Pairs(G))
  BY <1>4, <1>5, FS_Subset
<1>8. IsFiniteSet(Pairs(F))
  BY <1>5, <1>7, FS_Subset
<1>9. Cardinality(Pairs(F) \union own) = Cardinality(Pairs(F)) + Cardinality(own) - 0
  BY <1>3, <1>5, <1>8, FS_Union, FS_EmptySet
<1>10. Cardinality(Pairs(F) \union own) <= Cardinality(Pairs(G))
  BY <1>5, <1>7, FS_Subset
<1>11. Cardinality(Pairs(F)) \in Nat /\ Cardinality(Pairs(G)) \in Nat
  BY <1>7, <1>8, FS_CardinalityType
<1> QED BY <1>3, <1>6, <1>9, <1>10, <1>11 DEF Cost

\* The split evicts no pinned fact where the pinned ones fit together: only
\* pinned facts can come before one of them.
LEMMA PinnedAreKept ==
    ASSUME NEW n \in Nat, NEW F \in SUBSET FactsUpTo(n), NEW K \in LruKept(F),
           TotalCost(PinnedIn(F)) <= Budget
    PROVE  PinnedIn(F) \subseteq K
<1>1. CASE K = F
  BY <1>1 DEF PinnedIn
<1>2. CASE K # F
  <2>1. PICK rank \in Rankings(F) : \A f \in F :
            f \in K <=> TotalCost({g \in K : rank[g] > rank[f]}) + Cost(f) <= Budget
    BY <1>2 DEF LruKept
  <2>2. K \in SUBSET F
    BY LruKeptPart
  <2>3. SUFFICES ASSUME NEW f \in PinnedIn(F) PROVE f \in K
    OBVIOUS
  <2> DEFINE before == {g \in K : rank[g] > rank[f]}
  <2>4. f \in F /\ f.pin
    BY DEF PinnedIn
  <2>5. rank \in [F -> 1 .. Cardinality(F)]
        /\ \A g, h \in F : g # h => (Older(g, h) => rank[g] < rank[h])
    BY DEF Rankings
  <2>6. \A g \in before : g \in PinnedIn(F) /\ g # f
    <3> TAKE g \in before
    <3>1. g \in F /\ rank[g] > rank[f] /\ rank[g] \in Int /\ rank[f] \in Int
      BY <2>2, <2>4, <2>5
    <3>2. g # f
      BY <3>1
    <3>3. g.pin
      <4> SUFFICES ASSUME ~g.pin PROVE FALSE
        OBVIOUS
      <4>1. Older(g, f)
        BY <2>4 DEF Older
      <4>2. rank[g] < rank[f]
        BY <2>4, <2>5, <3>1, <3>2, <4>1
      <4> QED BY <3>1, <4>2
    <3> QED BY <3>1, <3>2, <3>3 DEF PinnedIn
  <2>7. PinnedIn(F) \in SUBSET FactsUpTo(n)
    BY DEF PinnedIn
  <2>8. before \in SUBSET PinnedIn(F) /\ f \notin before
    BY <2>6
  <2> HIDE DEF before
  <2>9. Cost(f) \in Nat /\ TotalCost(before) + Cost(f) <= TotalCost(PinnedIn(F))
    BY <2>7, <2>8, CostAdds
  <2>10. TotalCost(before) \in Nat /\ TotalCost(PinnedIn(F)) \in Nat
    BY <2>7, <2>8, CostGrows
  <2>11. TotalCost(before) + Cost(f) <= Budget
    BY <2>9, <2>10, FactsAssumption
  <2> QED BY <2>1, <2>4, <2>11 DEF before
<1> QED BY <1>1, <1>2

\* One fact less costs less by no more than its own cost.
LEMMA CostOfOne ==
    ASSUME NEW n \in Nat, NEW G \in SUBSET FactsUpTo(n), NEW f \in G
    PROVE  /\ TotalCost(G) \in Nat /\ TotalCost(G \ {f}) \in Nat /\ Cost(f) \in Nat
           /\ TotalCost(G) <= TotalCost(G \ {f}) + Cost(f)
<1> DEFINE Pairs(H) == {p \in H \X Claims : p[2] \in p[1].text}
           rest == G \ {f}
           own == {f} \X f.text
<1>1. f.text \in SUBSET Claims
  BY DEF FactsUpTo
<1>2. IsFiniteSet(f.text) /\ IsFiniteSet({f}) /\ Cardinality({f}) = 1
  BY <1>1, FactsAssumption, FS_Subset, FS_Singleton
<1>3. IsFiniteSet(own) /\ Cardinality(own) = Cardinality(f.text) /\ Cardinality(f.text) \in Nat
  <2>1. IsFiniteSet(own) /\ Cardinality(own) = 1 * Cardinality(f.text)
    BY <1>2, FS_Product
  <2>2. Cardinality(f.text) \in Nat
    BY <1>2, FS_CardinalityType
  <2> HIDE DEF own
  <2> QED BY <2>1, <2>2
<1>4. IsFiniteSet(G \X Claims)
  BY FactsAreFew, FactsAssumption, FS_Product
<1>5. /\ Pairs(G) \in SUBSET (G \X Claims) /\ Pairs(rest) \in SUBSET (G \X Claims)
      /\ Pairs(G) \in SUBSET (Pairs(rest) \union own)
  OBVIOUS
<1>6. TotalCost(rest) = Cardinality(Pairs(rest)) /\ TotalCost(G) = Cardinality(Pairs(G))
  BY DEF TotalCost
<1> HIDE DEF Pairs, own, rest
<1>7. IsFiniteSet(Pairs(G)) /\ IsFiniteSet(Pairs(rest))
  BY <1>4, <1>5, FS_Subset
<1>8. /\ IsFiniteSet(Pairs(rest) \union own)
      /\ Cardinality(Pairs(rest) \union own)
            = Cardinality(Pairs(rest)) + Cardinality(own) - Cardinality(Pairs(rest) \intersect own)
  BY <1>3, <1>7, FS_Union
<1>9. Cardinality(Pairs(rest) \intersect own) \in Nat
  <2>1. IsFiniteSet(Pairs(rest) \intersect own)
    BY <1>7, FS_Subset
  <2> QED BY <2>1, FS_CardinalityType
<1>10. Cardinality(Pairs(G)) <= Cardinality(Pairs(rest) \union own)
  BY <1>5, <1>8, FS_Subset
<1>11. Cardinality(Pairs(rest)) \in Nat /\ Cardinality(Pairs(G)) \in Nat
  BY <1>7, FS_CardinalityType
<1>12. /\ TotalCost(G) \in Nat /\ TotalCost(rest) \in Nat /\ Cost(f) \in Nat
       /\ TotalCost(G) <= TotalCost(rest) + Cost(f)
  BY <1>3, <1>6, <1>8, <1>9, <1>10, <1>11 DEF Cost
<1> QED BY <1>12 DEF rest

\* What the split keeps fits the budget, in whatever order the sort leaves
\* facts that are alike (_lru_split): the last of those it keeps found room
\* behind all the others.
THEOREM KeptFitsBudget ==
    ASSUME NEW n \in Nat, NEW F \in SUBSET FactsUpTo(n), NEW K \in LruKept(F)
    PROVE  TotalCost(K) <= Budget
<1>1. CASE TotalCost(F) <= Budget
  BY <1>1 DEF LruKept
<1>2. CASE ~(TotalCost(F) <= Budget)
  <2>1. PICK rank \in Rankings(F) : \A f \in F :
            f \in K <=> TotalCost({g \in K : rank[g] > rank[f]}) + Cost(f) <= Budget
    BY <1>2 DEF LruKept
  <2>2. K \in SUBSET F
    BY LruKeptPart
  <2>3. rank \in [F -> 1 .. Cardinality(F)] /\ \A g, h \in F : g # h => rank[g] # rank[h]
    BY <2>1 DEF Rankings
  <2>4. CASE K = {}
    <3>1. {p \in {} \X Claims : p[2] \in p[1].text} = {}
      OBVIOUS
    <3>2. TotalCost(K) = 0
      BY <2>4, <3>1, FS_EmptySet DEF TotalCost
    <3> QED BY <3>2, FactsAssumption
  <2>5. CASE K # {}
    <3> DEFINE places == {rank[g] : g \in K}
    <3>1. places \subseteq Nat /\ places # {}
      BY <2>2, <2>3, <2>5
    <3>2. PICK m \in places : \A i \in places : ~ (<<i, m>> \in OpToRel(<, Nat))
      <4>1. IsWellFoundedOn(OpToRel(<, Nat), Nat)
        BY NatLessThanWellFounded
      <4> HIDE DEF places
      <4> QED BY <3>1, <4>1, WFMin
    <3>3. \A i \in places : ~ (i < m)
      BY <3>1, <3>2 DEF OpToRel
    <3>4. PICK last \in K : rank[last] = m
      OBVIOUS
    <3>5. \A g \in K : g # last => rank[g] > rank[last]
      <4> TAKE g \in K
      <4> HAVE g # last
      <4>1. rank[g] \in places /\ rank[g] \in Nat /\ rank[last] \in Nat
        BY <2>2, <2>3
      <4>2. rank[g] # rank[last]
        BY <2>2, <2>3
      <4> HIDE DEF places
      <4> QED BY <3>3, <3>4, <4>1, <4>2
    <3>6. rank[last] \in Nat
      BY <2>2, <2>3
    <3>7. {g \in K : rank[g] > rank[last]} = K \ {last}
      BY <3>5, <3>6
    <3>8. TotalCost(K \ {last}) + Cost(last) <= Budget
      BY <2>1, <2>2, <3>7
    <3>9. /\ TotalCost(K) \in Nat /\ TotalCost(K \ {last}) \in Nat /\ Cost(last) \in Nat
          /\ TotalCost(K) <= TotalCost(K \ {last}) + Cost(last)
      <4>1. K \in SUBSET FactsUpTo(n)
        BY <2>2
      <4> QED BY <4>1, CostOfOne
    <3> QED BY <3>8, <3>9, FactsAssumption
  <2> QED BY <2>4, <2>5
<1> QED BY <1>1, <1>2

\* A stale snapshot lowers no recency.
LEMMA MergeTouchedCovers ==
    ASSUME NEW n \in Nat, NEW F \in SUBSET FactsUpTo(n), NEW S \in SUBSET FactsUpTo(n)
    PROVE  Covers(F, MergeTouched(F, S))
<1> SUFFICES ASSUME NEW f \in F
             PROVE  \E g \in MergeTouched(F, S) : f.text \subseteq g.text /\ g.last >= f.last
  BY DEF Covers
<1> DEFINE lasts == {f.last} \union {s.last : s \in {t \in S : t.text = f.text}}
           g == [f EXCEPT !.last = Max(lasts)]
<1>1. lasts \in SUBSET (0 .. n) /\ f.last \in lasts
  BY DEF FactsUpTo
<1>2. g \in MergeTouched(F, S)
  BY DEF MergeTouched
<1> HIDE DEF lasts
<1>3. Max(lasts) >= f.last
  BY <1>1, MaxOfBounded
<1>4. g.text = f.text /\ g.last = Max(lasts)
  BY DEF FactsUpTo
<1> QED BY <1>2, <1>3, <1>4

\* Pinning changes neither text nor recency.
LEMMA SetPinnedCovers ==
    ASSUME NEW n \in Nat, NEW F \in SUBSET FactsUpTo(n), NEW c, NEW pinned \in BOOLEAN
    PROVE  Covers(F, SetPinned(F, c, pinned))
<1>1. \A f \in F : /\ [f EXCEPT !.pin = pinned].text = f.text
                   /\ [f EXCEPT !.pin = pinned].last = f.last
                   /\ f.last \in Nat
  BY DEF FactsUpTo
<1>2. \A f \in F : f \in SetPinned(F, c, pinned) \/ [f EXCEPT !.pin = pinned] \in SetPinned(F, c, pinned)
  BY DEF SetPinned, Matching
<1>3. \A f \in F : \E g \in SetPinned(F, c, pinned) : g.text = f.text /\ g.last = f.last
  BY <1>1, <1>2
<1> QED BY <1>1, <1>3 DEF Covers

\* A merged fact is as recent as its latest source.
LEMMA DedupCovers ==
    ASSUME NEW n \in Nat, NEW F \in SUBSET FactsUpTo(n), NEW R \in DedupOutcomes(F)
    PROVE  Covers(F, R)
<1>1. CASE R = F
  BY <1>1, CoversAll
<1>2. CASE R # F
  <2>1. PICK C \in SUBSET F : Cardinality(C) >= 2 /\ R = (F \ C) \union {MergedFact(C)}
    BY <1>2 DEF DedupOutcomes
  <2>2. SUFFICES ASSUME NEW f \in F
                 PROVE  \E g \in R : f.text \subseteq g.text /\ g.last >= f.last
    BY DEF Covers
  <2>3. CASE f \notin C
    <3>1. f \in R /\ f.last \in Nat
      BY <2>1, <2>3 DEF FactsUpTo
    <3> QED BY <3>1
  <2>4. CASE f \in C
    <3>1. {g.last : g \in C} \in SUBSET (0 .. n) /\ f.last \in {g.last : g \in C}
      BY <2>4 DEF FactsUpTo
    <3>2. Max({g.last : g \in C}) >= f.last
      BY <3>1, MaxOfBounded
    <3>3. f.text \subseteq Carried(C)
      BY <2>4 DEF Carried
    <3>4. MergedFact(C).text = Carried(C) /\ MergedFact(C).last = Max({g.last : g \in C})
      BY DEF MergedFact
    <3> QED BY <2>1, <3>2, <3>3, <3>4
  <2> QED BY <2>3, <2>4
<1> QED BY <1>1, <1>2

\* What the operations do to the pins.
LEMMA MergeTouchedPins ==
    ASSUME NEW n \in Nat, NEW F \in SUBSET FactsUpTo(n), NEW S
    PROVE  PinCovers(F, MergeTouched(F, S))
<1> DEFINE lasts(f) == {f.last} \union {s.last : s \in {t \in S : t.text = f.text}}
<1>1. \A f \in F : [f EXCEPT !.last = Max(lasts(f))] \in MergeTouched(F, S)
  BY DEF MergeTouched
<1> HIDE DEF lasts
<1>2. \A f \in F : /\ [f EXCEPT !.last = Max(lasts(f))].text = f.text
                   /\ [f EXCEPT !.last = Max(lasts(f))].pin = f.pin
  BY DEF FactsUpTo
<1>3. \A f \in F : f.pin => \E g \in MergeTouched(F, S) : g.pin /\ f.text \subseteq g.text
  BY <1>1, <1>2
<1> QED BY <1>3, PinCoversBy

LEMMA SetPinnedPins ==
    ASSUME NEW n \in Nat, NEW F \in SUBSET FactsUpTo(n), NEW c
    PROVE  PinCovers(F, SetPinned(F, c, TRUE))
<1>1. \A f \in F : /\ [f EXCEPT !.pin = TRUE].text = f.text
                   /\ [f EXCEPT !.pin = TRUE].pin = TRUE
  BY DEF FactsUpTo
<1>2. \A f \in F : f \in SetPinned(F, c, TRUE) \/ [f EXCEPT !.pin = TRUE] \in SetPinned(F, c, TRUE)
  BY DEF SetPinned, Matching
<1>3. \A f \in F : f.pin => \E g \in SetPinned(F, c, TRUE) : g.pin /\ f.text \subseteq g.text
  BY <1>1, <1>2
<1> QED BY <1>3, PinCoversBy

LEMMA DedupPins ==
    ASSUME NEW F, NEW R \in DedupOutcomes(F)
    PROVE  PinCovers(F, R)
<1>1. CASE R = F
  BY <1>1, PinCoversAll
<1>2. CASE R # F
  <2>1. PICK C \in SUBSET F : R = (F \ C) \union {MergedFact(C)}
    BY <1>2 DEF DedupOutcomes
  <2>2. \A f \in C : f.pin => MergedFact(C).pin /\ f.text \subseteq MergedFact(C).text
    BY DEF MergedFact, Carried
  <2>3. \A f \in F : f.pin => \E g \in R : g.pin /\ f.text \subseteq g.text
    BY <2>1, <2>2
  <2> QED BY <2>3, PinCoversBy
<1> QED BY <1>1, <1>2

\* A list that the deduplicator has in hand keeps what the active file has,
\* and so does what is about to replace it unless the user asks otherwise.
Keeps(F, G) == Covers(F, G) /\ PinCovers(F, G)

WorkKeeps == \A j \in Jobs : pc[j] = "merging" => Keeps(active, work[j])

PinsFit(F) == ~ (TotalCost(PinnedIn(F)) > Budget)

PendingKeeps ==
    pending # Quiet /\ pending.op # "forget" /\ pending.file = "active" =>
        /\ Covers(active, pending.content \union archive)
        /\ pending.op # "unpin" /\ PinsFit(pending.content \union archive)
              => PinCovers(active, pending.content)

ListsKeep == WorkKeeps /\ PendingKeeps

LEMMA KeepsAll ==
    ASSUME NEW n \in Nat, NEW F \in SUBSET FactsUpTo(n), NEW G, F \subseteq G
    PROVE  Keeps(F, G)
BY CoversAll, PinCoversAll DEF Keeps

\* What replaces the active file as it is.
LEMMA ReplacedKeeps ==
    ASSUME NEW G, Keeps(active, G), active' = active, archive' = archive,
           pending'.content = G
    PROVE  PendingKeeps'
<1>1. Covers(active', pending'.content \union archive')
  BY CoversMore DEF Keeps
<1> QED BY <1>1 DEF PendingKeeps, Keeps

\* Pruning evicts to the sidecar, and of the pinned facts only where they do
\* not fit together.
LEMMA PruneKeepsLists ==
    ASSUME TypeInv, NEW F \in SUBSET FactsUpTo(clock), Keeps(active, F),
           NEW owner, NEW adds, PruneThenSave(F, owner, adds), active' = active
    PROVE  PendingKeeps'
<1>1. PICK K \in LruKept(F) :
        \/ /\ archive' = Archived(archive, F \ K)
           /\ Replace("active", K, "store", owner, adds, {})
        \/ /\ archive' = archive
           /\ Replace("active", F, "store", owner, adds, {})
  BY DEF PruneThenSave
<1>2. CASE archive' = archive /\ Replace("active", F, "store", owner, adds, {})
  BY <1>2, ReplacedKeeps DEF Replace
<1>3. CASE archive' = Archived(archive, F \ K) /\ Replace("active", K, "store", owner, adds, {})
  <2>1. pending'.content = K /\ K \in SUBSET F
    BY <1>3, LruKeptPart DEF Replace
  <2>2. F \subseteq K \union archive'
    BY <1>3 DEF Archived
  <2>3. Covers(active, K \union archive')
    BY <2>2, CoversMore DEF Keeps
  <2>4. ASSUME PinsFit(K \union archive') PROVE PinCovers(active, K)
    <3>1. K \union archive' \in SUBSET FactsUpTo(clock)
      BY <1>3, <2>1, ArchivedKeeps DEF TypeInv
    <3>2. /\ PinnedIn(K \union archive') \in SUBSET FactsUpTo(clock)
          /\ PinnedIn(F) \in SUBSET PinnedIn(K \union archive')
      BY <2>2, <3>1 DEF PinnedIn
    <3>3. TotalCost(PinnedIn(F)) <= Budget
      <4>1. /\ TotalCost(PinnedIn(F)) \in Nat /\ TotalCost(PinnedIn(K \union archive')) \in Nat
            /\ TotalCost(PinnedIn(F)) <= TotalCost(PinnedIn(K \union archive'))
        BY <3>2, CostGrows DEF TypeInv
      <4> QED BY <2>4, <4>1, FactsAssumption DEF PinsFit
    <3>4. PinnedIn(F) \subseteq K
      BY <3>3, PinnedAreKept DEF TypeInv
    <3>5. PinnedIn(F) = PinnedIn(K)
      BY <2>1, <3>4 DEF PinnedIn
    <3> QED BY <3>5 DEF Keeps, PinCovers
  <2> QED BY <2>1, <2>3, <2>4 DEF PendingKeeps
<1> QED BY <1>1, <1>2, <1>3

\* A step that leaves the files and the replacement alone, and sets no job to
\* await the deduplicator.
LEMMA ListsUndisturbed ==
    ASSUME ListsKeep, UNCHANGED <<active, archive, pending>>,
           \A j \in Jobs : pc'[j] = "merging" => pc[j] = "merging" /\ work'[j] = work[j]
    PROVE  ListsKeep'
BY DEF ListsKeep, WorkKeeps, PendingKeeps

\* No list is with the deduplicator while the lock is free.
LEMMA NoListUnlocked ==
    ASSUME IInv, lock = NoOne
    PROVE  \A j \in Jobs : pc[j] # "merging"
BY JobsAreSomeone DEF IInv, LockHeldAcrossAwaits

LEMMA TailKeepsLists ==
    ASSUME IInv, ListsKeep, NEW t \in Tails,
           Request(t) \/ TailSkipped(t) \/ TouchedSave(t) \/ TailLocks(t)
    PROVE  ListsKeep'
<1> t \in Jobs
  BY DEF Jobs
<1>1. CASE Request(t)
  BY <1>1, ListsUndisturbed DEF Request, disk, IInv, TypeInv
<1>2. CASE TailSkipped(t)
  BY <1>2, ListsUndisturbed DEF TailSkipped, Ended, MovesOn, disk, IInv, TypeInv
<1>3. CASE TailLocks(t)
  BY <1>3, ListsUndisturbed DEF TailLocks, disk, IInv, TypeInv
<1>4. CASE TouchedSave(t) /\ readable["active"] /\ active # {}
  <2> DEFINE M == MergeTouched(active, snap[t])
  <2>1. /\ pending'.content = M
        /\ pc' = [pc EXCEPT ![t] = "saving"] /\ lock = NoOne
        /\ UNCHANGED <<active, archive>>
    BY <1>4 DEF TouchedSave, Replace, MovesOn, CanLock, disk
  <2>2. Keeps(active, M)
    BY MergeTouchedCovers, MergeTouchedPins DEF IInv, TypeInv, Keeps
  <2> HIDE DEF M
  <2>3. PendingKeeps'
    BY <2>1, <2>2, ReplacedKeeps
  <2>4. \A j \in Jobs : pc'[j] # "merging"
    BY <2>1, NoListUnlocked DEF IInv, TypeInv
  <2> QED BY <2>3, <2>4 DEF ListsKeep, WorkKeeps
<1>5. CASE TouchedSave(t) /\ ~(readable["active"] /\ active # {})
  <2>1. Ended(t) /\ UNCHANGED <<pending, disk>>
    BY <1>5 DEF TouchedSave
  <2> QED BY <2>1, ListsUndisturbed DEF Ended, MovesOn, disk, IInv, TypeInv
<1> QED BY <1>1, <1>2, <1>3, <1>4, <1>5

LEMMA ExtractedKeepsLists ==
    ASSUME IInv, ListsKeep, NEW t \in Tails, Extracted(t)
    PROVE  ListsKeep'
<1> t \in Jobs
  BY DEF Jobs
<1> DEFINE M == MergeTouched(active, snap[t])
           Combined(new) == M \union {NewFact(c, clock) : c \in new}
<1>1. PICK new \in SUBSET Claims :
        \/ Ended(t) /\ UNCHANGED <<archive, pending>>
        \/ MovesOn(t, "merging", Combined(new), new) /\ UNCHANGED <<archive, pending>>
        \/ MovesOn(t, "saving", {}, {}) /\ PruneThenSave(Combined(new), t, new)
  BY DEF Extracted
<1>2. Combined(new) \in SUBSET FactsUpTo(clock)
  BY MergeTouchedKeeps, NewFactsState DEF IInv, TypeInv
<1>3. Covers(active, M) /\ PinCovers(active, M)
  BY MergeTouchedCovers, MergeTouchedPins DEF IInv, TypeInv
<1>4. M \subseteq Combined(new)
  OBVIOUS
<1> HIDE DEF M, Combined
<1>5. Keeps(active, Combined(new))
  <2>1. Covers(active, Combined(new))
    BY <1>3, <1>4, CoversMore
  <2>2. PinCovers(M, Combined(new))
    BY <1>4, PinCoversAll
  <2> QED BY <1>3, <2>1, <2>2 DEF Keeps, PinCovers
<1>6. /\ pending = Quiet /\ active' = active
      /\ pc \in [Jobs -> {"idle", "parked", "extracting", "merging", "saving"}]
      /\ work \in [Jobs -> SUBSET FactsUpTo(clock)]
  BY DEF Extracted, LoopFree, IInv, TypeInv
<1>7. CASE Ended(t) /\ UNCHANGED <<archive, pending>>
  BY <1>6, <1>7, ListsUndisturbed DEF Ended, MovesOn
<1>8. CASE MovesOn(t, "merging", Combined(new), new) /\ UNCHANGED <<archive, pending>>
  BY <1>5, <1>6, <1>8 DEF MovesOn, ListsKeep, WorkKeeps, PendingKeeps
<1>9. CASE MovesOn(t, "saving", {}, {}) /\ PruneThenSave(Combined(new), t, new)
  <2>1. PendingKeeps'
    BY <1>2, <1>5, <1>6, <1>9, PruneKeepsLists DEF IInv
  <2>2. WorkKeeps'
    BY <1>6, <1>9 DEF MovesOn, ListsKeep, WorkKeeps
  <2> QED BY <2>1, <2>2 DEF ListsKeep
<1> QED BY <1>1, <1>7, <1>8, <1>9

LEMMA MergedKeepsLists ==
    ASSUME IInv, ListsKeep, NEW j \in Jobs, Merged(j)
    PROVE  ListsKeep'
<1>1. PICK R \in DedupOutcomes(work[j]) :
        \/ Ended(j) /\ UNCHANGED <<archive, pending>>
        \/ /\ MovesOn(j, "saving", {}, {})
           /\ \/ Replace("active", R, "store", j, {}, {}) /\ archive' = archive
              \/ PruneThenSave(R, j, news[j])
  BY DEF Merged
<1>2. /\ pending = Quiet /\ pc[j] = "merging" /\ active' = active
      /\ pc \in [Jobs -> {"idle", "parked", "extracting", "merging", "saving"}]
      /\ work \in [Jobs -> SUBSET FactsUpTo(clock)]
  BY DEF Merged, LoopFree, IInv, TypeInv
<1>3. /\ R \in SUBSET FactsUpTo(clock)
      /\ Covers(work[j], R) /\ PinCovers(work[j], R)
  BY DedupKeeps, DedupCovers, DedupPins DEF IInv, TypeInv
<1>4. Keeps(active, R)
  <2>1. Covers(active, work[j]) /\ PinCovers(active, work[j])
    BY <1>2 DEF ListsKeep, WorkKeeps, Keeps
  <2>2. Covers(active, R)
    BY <1>3, <2>1, CoversOver DEF IInv, TypeInv
  <2> QED BY <1>3, <2>1, <2>2 DEF Keeps, PinCovers
<1>5. CASE Ended(j) /\ UNCHANGED <<archive, pending>>
  BY <1>2, <1>5, ListsUndisturbed DEF Ended, MovesOn
<1>6. CASE MovesOn(j, "saving", {}, {})
           /\ \/ Replace("active", R, "store", j, {}, {}) /\ archive' = archive
              \/ PruneThenSave(R, j, news[j])
  <2>1. PendingKeeps'
    <3>1. CASE Replace("active", R, "store", j, {}, {}) /\ archive' = archive
      BY <1>2, <1>4, <3>1, ReplacedKeeps DEF Replace
    <3>2. CASE PruneThenSave(R, j, news[j])
      BY <1>2, <1>3, <1>4, <3>2, PruneKeepsLists DEF IInv
    <3> QED BY <1>6, <3>1, <3>2
  <2>2. WorkKeeps'
    BY <1>2, <1>6 DEF MovesOn, ListsKeep, WorkKeeps
  <2> QED BY <2>1, <2>2 DEF ListsKeep
<1> QED BY <1>1, <1>5, <1>6

LEMMA DedupLocksKeepsLists == ASSUME IInv, ListsKeep, DedupLocks PROVE ListsKeep'
<1> AdminDedup \in Jobs
  BY DEF Jobs
<1>1. /\ UNCHANGED <<active, archive, pending>>
      /\ pc' = [pc EXCEPT ![AdminDedup] = "merging"]
      /\ work' = [work EXCEPT ![AdminDedup] = active]
  BY DEF DedupLocks, MovesOn, disk
<1>2. Keeps(active, active)
  BY KeepsAll DEF IInv, TypeInv
<1> QED BY <1>1, <1>2 DEF IInv, TypeInv, ListsKeep, WorkKeeps, PendingKeeps

\* The commands take the free lock.
LEMMA CommandKeepsLists ==
    ASSUME IInv, CanLock, UNCHANGED <<active, jobs>>, PendingKeeps'
    PROVE  ListsKeep'
BY NoListUnlocked DEF CanLock, ListsKeep, WorkKeeps, jobs

LEMMA ClaimKeepsLists ==
    ASSUME IInv, ListsKeep, NEW c \in Claims,
           Remember(c) \/ ForgetMatching(c) \/ \E pinned \in BOOLEAN : Pin(c, pinned)
    PROVE  ListsKeep'
<1>1. CanLock /\ UNCHANGED <<active, jobs>>
  BY DEF Remember, ForgetMatching, Pin, CommandRuns
<1>2. CASE Remember(c)
  <2> DEFINE F == active \union {NewFact(c, clock)}
  <2>1. NewFact(c, clock) \in FactsUpTo(clock)
    BY DEF NewFact, FactsUpTo, IInv, TypeInv
  <2>2. F \in SUBSET FactsUpTo(clock) /\ Keeps(active, F)
    BY <2>1, KeepsAll DEF IInv, TypeInv
  <2>3. PruneThenSave(F, NoOne, {c})
    BY <1>2 DEF Remember
  <2> HIDE DEF F
  <2>4. PendingKeeps'
    BY <1>1, <2>2, <2>3, PruneKeepsLists DEF IInv
  <2> QED BY <1>1, <2>4, CommandKeepsLists
<1>3. CASE ForgetMatching(c)
  <2>1. PendingKeeps'
    BY <1>3 DEF ForgetMatching, Replace, PendingKeeps
  <2> QED BY <1>1, <2>1, CommandKeepsLists
<1>4. ASSUME NEW pinned \in BOOLEAN, Pin(c, pinned) PROVE ListsKeep'
  <2> DEFINE F == SetPinned(active, c, pinned)
  <2>1. /\ pending'.content = F /\ archive' = archive
        /\ pending'.op = IF pinned THEN "store" ELSE "unpin"
    BY <1>4 DEF Pin, Replace
  <2>2. Covers(active, F)
    BY SetPinnedCovers DEF IInv, TypeInv
  <2>3. pinned => PinCovers(active, F)
    BY SetPinnedPins DEF IInv, TypeInv
  <2> HIDE DEF F
  <2>4. Covers(active', pending'.content \union archive')
    BY <1>1, <2>1, <2>2, CoversMore
  <2>5. PendingKeeps'
    BY <1>1, <2>1, <2>3, <2>4 DEF PendingKeeps
  <2> QED BY <1>1, <2>5, CommandKeepsLists
<1> QED BY <1>2, <1>3, <1>4

LEMMA AdminKeepsLists ==
    ASSUME IInv, ListsKeep,
           \/ ClearFacts \/ ClearArchive \/ \E age \in 0 .. MaxClock : ArchiveStale(age)
    PROVE  ListsKeep'
<1>1. CanLock /\ UNCHANGED <<active, jobs>>
  BY DEF ClearFacts, ClearArchive, ArchiveStale, CommandRuns
<1>2. CASE ClearFacts \/ ClearArchive
  <2>1. PendingKeeps'
    BY <1>2 DEF ClearFacts, ClearArchive, Replace, PendingKeeps
  <2> QED BY <1>1, <2>1, CommandKeepsLists
<1>3. ASSUME NEW age \in 0 .. MaxClock, ArchiveStale(age) PROVE ListsKeep'
  <2> DEFINE stale == Stale(active, clock - age)
  <2>1. archive' = Archived(archive, stale) /\ pending'.content = active \ stale
    BY <1>3 DEF ArchiveStale, Replace
  <2>2. active \subseteq pending'.content \union archive'
    BY <2>1 DEF Archived
  <2>3. Covers(active', pending'.content \union archive')
    BY <1>1, <2>2, CoversAll DEF IInv, TypeInv
  <2>4. PinnedIn(active) \subseteq PinnedIn(pending'.content)
    BY <2>1 DEF Stale, PinnedIn
  <2>5. PinCovers(active', pending'.content)
    <3>1. \A f \in active : f.pin => f \in pending'.content
      BY <2>4 DEF PinnedIn
    <3> QED BY <1>1, <3>1, PinCoversBy
  <2>6. PendingKeeps'
    BY <2>3, <2>5 DEF PendingKeeps
  <2> QED BY <1>1, <2>6, CommandKeepsLists
<1> QED BY <1>2, <1>3

\* What comes back from the archive takes nothing out of the active file.
LEMMA RestoreKeepsLists == ASSUME IInv, NEW c \in Claims, Restore(c) PROVE ListsKeep'
<1>1. pending'.file = "archive" /\ lock = NoOne /\ UNCHANGED jobs
  BY DEF Restore, Replace, CanLock
<1>2. PendingKeeps'
  BY <1>1 DEF PendingKeeps
<1> QED BY <1>1, <1>2, NoListUnlocked DEF ListsKeep, WorkKeeps, jobs

\* An operation that is over, or the process, leaves no list and no replacement.
LEMMA EndKeepsLists ==
    ASSUME IInv, FinishWrite \/ WriteFails \/ Crash
    PROVE  ListsKeep'
<1>1. CASE FinishWrite \/ WriteFails
  BY <1>1, OperationOverFrees DEF FinishWrite, WriteFails, ListsKeep, WorkKeeps, PendingKeeps
<1>2. CASE Crash
  BY <1>2 DEF Crash, ListsKeep, WorkKeeps, PendingKeeps
<1> QED BY <1>1, <1>2

LEMMA NextKeepsLists == IInv /\ ListsKeep /\ [Next]_vars => ListsKeep'
<1> SUFFICES ASSUME IInv, ListsKeep, [Next]_vars PROVE ListsKeep'
  OBVIOUS
<1>1. CASE UNCHANGED vars
  BY <1>1, ListsUndisturbed DEF vars, disk, jobs
<1>2. ASSUME NEW file \in Files, Damage(file) \/ Repair(file) PROVE ListsKeep'
  BY <1>2, ListsUndisturbed DEF Damage, Repair, jobs
<1>3. CASE Tick
  BY <1>3, ListsUndisturbed DEF Tick, disk, jobs
<1> QED
  BY <1>1, <1>2, <1>3, TailKeepsLists, ExtractedKeepsLists, MergedKeepsLists,
     DedupLocksKeepsLists, ClaimKeepsLists, AdminKeepsLists, RestoreKeepsLists, EndKeepsLists
     DEF Next

LEMMA SpecListsKeep == Spec => [](IInv /\ ListsKeep)
<1>1. Init => ListsKeep
  BY DEF Init, ListsKeep, WorkKeeps, PendingKeeps
<1> QED BY <1>1, NextKeepsLists, SpecIInv, PTL DEF Spec

\* Only the end of a write takes a fact out of the active file.
LEMMA OnlyWritesTakeOut ==
    ASSUME [Next]_vars, ~FinishWrite
    PROVE  active \subseteq active'
BY DEF Next, Request, TailSkipped, TouchedSave, TailLocks, Extracted, Merged,
   DedupLocks, Remember, ForgetMatching, Restore, Pin, ClearFacts, ClearArchive,
   ArchiveStale, CommandRuns, WriteFails, Crash, Damage, Repair, Tick, vars, disk

\* What a write puts in the place of the active file.
LEMMA WriteKeeps ==
    ASSUME ListsKeep, FinishWrite, pending.op # "forget", pending.file = "active"
    PROVE  /\ Covers(active, active' \union archive')
           /\ pending.op # "unpin" /\ PinsFit(active' \union archive')
                 => PinCovers(active, active')
<1>1. active' = pending.content /\ archive' = archive /\ pending # Quiet
  BY DEF FinishWrite, LoopFree
<1> QED BY <1>1 DEF ListsKeep, PendingKeeps

\* What an active fact says is kept, in one of the files, by a fact used at
\* least as recently, unless the user forgets it: across stale snapshots,
\* merges, evictions, failed writes, restores and crashes.
THEOREM RecencyIsKept == Spec => RecencyKept
<1> DEFINE Kept == \A f \in active :
                      \/ pending.op = "forget"
                      \/ \E g \in active' \union archive' :
                            f.text \subseteq g.text /\ g.last >= f.last
<1>1. ASSUME IInv, ListsKeep, [Next]_vars PROVE [Kept]_vars
  <2>1. CASE FinishWrite /\ pending.file = "active"
    BY <1>1, <2>1, WriteKeeps DEF Covers
  <2>2. CASE ~FinishWrite \/ pending.file # "active"
    <3>1. active \subseteq active'
      BY <1>1, <2>2, OnlyWritesTakeOut DEF FinishWrite
    <3>2. Covers(active, active' \union archive')
      BY <1>1, <3>1, CoversAll DEF IInv, TypeInv
    <3> QED BY <3>2 DEF Covers
  <2> QED BY <2>1, <2>2
<1>2. Spec => [][Kept]_vars
  BY <1>1, SpecListsKeep, PTL DEF Spec
<1> QED BY <1>2 DEF RecencyKept

\* A pinned claim stays pinned until the user unpins or forgets it, as long as
\* the pinned facts fit the budget together: through extraction, merges,
\* evictions, the sweep of what is stale, restores and crashes.
THEOREM PinsAreKept == Spec => PinsStick
<1> DEFINE Kept == \/ pending.op \in {"forget", "unpin"}
                   \/ TotalCost(PinnedIn(active' \union archive')) > Budget
                   \/ Carried(PinnedIn(active)) \subseteq Carried(PinnedIn(active'))
<1>1. ASSUME IInv, ListsKeep, [Next]_vars PROVE [Kept]_vars
  <2>1. CASE FinishWrite /\ pending.file = "active"
    BY <1>1, <2>1, WriteKeeps DEF PinsFit, PinCovers
  <2>2. CASE ~FinishWrite \/ pending.file # "active"
    <3>1. active \subseteq active'
      BY <1>1, <2>2, OnlyWritesTakeOut DEF FinishWrite
    <3>2. PinCovers(active, active')
      BY <3>1, PinCoversAll
    <3> QED BY <3>2 DEF PinCovers
  <2> QED BY <2>1, <2>2
<1>2. Spec => [][Kept]_vars
  BY <1>1, SpecListsKeep, PTL DEF Spec
<1> QED BY <1>2 DEF PinsStick

----------------------------------------------------------------------------
(* The two files implement FactMemory.  A list in hand says nothing but    *)
(* what the active file says and what is its job's own; a replacement that *)
(* is about to happen does what its operation is for, and no more.         *)

WorkOwn ==
    \A j \in Jobs : pc[j] = "merging" => Carried(work[j]) \subseteq Carried(active) \union news[j]

\* A replacement that stores.
Storing ==
    /\ pending.drops = {}
    /\ Carried(ActiveNext) \subseteq Carried(active) \union pending.adds
    /\ Carried(archive) \subseteq Carried(ActiveNext) \union Carried(ArchiveNext)

\* A replacement that forgets.
Forgetting ==
    /\ pending.adds = {}
    /\ ActiveNext \subseteq active /\ ArchiveNext \subseteq archive
    /\ \A f \in active \ ActiveNext : f.text \intersect pending.drops # {}
    /\ pending.drops \subseteq Carried(active) \union Carried(archive)
    /\ (Carried(active) \union Carried(archive)) \ pending.drops
          \subseteq Carried(ActiveNext) \union Carried(ArchiveNext)

PendingOwn ==
    /\ pending # Quiet /\ pending.op = "forget" => Forgetting
    /\ pending # Quiet /\ pending.op # "forget" => Storing

OwnInv == WorkOwn /\ PendingOwn

LEMMA CarriedUnion ==
    ASSUME NEW F, NEW G
    PROVE  Carried(F \union G) = Carried(F) \union Carried(G)
<1>1. \A c \in Carried(F \union G) : c \in Carried(F) \union Carried(G)
  BY CarriedBy
<1>2. \A c \in Carried(F) \union Carried(G) : c \in Carried(F \union G)
  BY CarriedBy
<1> QED BY <1>1, <1>2

\* What replaces the active file says what it said and what is added.
LEMMA StoresOwn ==
    ASSUME NEW G, NEW op \in {"store", "unpin"}, NEW owner, NEW adds, active' = active,
           pending' = [op |-> op, file |-> "active", content |-> G,
                       owner |-> owner, adds |-> adds, drops |-> {}],
           Carried(G) \subseteq Carried(active) \union adds
    PROVE  PendingOwn'
<1>1. /\ pending'.op # "forget" /\ pending'.file = "active" /\ pending'.content = G
      /\ pending'.adds = adds /\ pending'.drops = {}
  OBVIOUS
<1>2. ActiveNext' = G /\ ArchiveNext' = archive'
  BY <1>1 DEF ActiveNext, ArchiveNext
<1> QED BY <1>1, <1>2 DEF PendingOwn, Storing

LEMMA PruneOwn ==
    ASSUME TypeInv, NEW F \in SUBSET FactsUpTo(clock),
           NEW owner \in Jobs \union {NoOne}, NEW adds \in SUBSET Claims,
           PruneThenSave(F, owner, adds), active' = active,
           Carried(F) \subseteq Carried(active) \union adds
    PROVE  PendingOwn'
<1>1. PICK kept \in SUBSET F :
        /\ pending' = [op |-> "store", file |-> "active", content |-> kept,
                       owner |-> owner, adds |-> adds, drops |-> {}]
        /\ Carried(kept) \subseteq Carried(F)
  BY PruneKeeps
<1>2. Carried(kept) \subseteq Carried(active) \union adds
  BY <1>1
<1> QED BY <1>1, <1>2, StoresOwn

LEMMA UndisturbedOwn ==
    ASSUME OwnInv, UNCHANGED <<active, archive, pending>>,
           \A j \in Jobs : pc'[j] = "merging" =>
               pc[j] = "merging" /\ work'[j] = work[j] /\ news'[j] = news[j]
    PROVE  OwnInv'
BY DEF OwnInv, WorkOwn, PendingOwn, Storing, Forgetting, ActiveNext, ArchiveNext

LEMMA TailOwn ==
    ASSUME IInv, OwnInv, NEW t \in Tails,
           Request(t) \/ TailSkipped(t) \/ TouchedSave(t) \/ TailLocks(t)
    PROVE  OwnInv'
<1> t \in Jobs
  BY DEF Jobs
<1>1. CASE Request(t)
  BY <1>1, UndisturbedOwn DEF Request, disk, IInv, TypeInv
<1>2. CASE TailSkipped(t)
  BY <1>2, UndisturbedOwn DEF TailSkipped, Ended, MovesOn, disk, IInv, TypeInv
<1>3. CASE TailLocks(t)
  BY <1>3, UndisturbedOwn DEF TailLocks, disk, IInv, TypeInv
<1>4. CASE TouchedSave(t) /\ readable["active"] /\ active # {}
  <2> DEFINE M == MergeTouched(active, snap[t])
  <2>1. /\ Replace("active", M, "store", t, {}, {}) /\ UNCHANGED active
        /\ pc' = [pc EXCEPT ![t] = "saving"] /\ lock = NoOne
    BY <1>4 DEF TouchedSave, MovesOn, CanLock, disk
  <2>2. Carried(M) = Carried(active)
    BY MergeTouchedKeeps DEF IInv, TypeInv
  <2> HIDE DEF M
  <2>3. PendingOwn'
    BY <2>1, <2>2, StoresOwn DEF Replace
  <2>4. \A j \in Jobs : pc'[j] # "merging"
    BY <2>1, NoListUnlocked DEF IInv, TypeInv
  <2> QED BY <2>3, <2>4 DEF OwnInv, WorkOwn
<1>5. CASE TouchedSave(t) /\ ~(readable["active"] /\ active # {})
  <2>1. Ended(t) /\ UNCHANGED <<pending, disk>>
    BY <1>5 DEF TouchedSave
  <2> QED BY <2>1, UndisturbedOwn DEF Ended, MovesOn, disk, IInv, TypeInv
<1> QED BY <1>1, <1>2, <1>3, <1>4, <1>5

LEMMA ExtractedOwn ==
    ASSUME IInv, OwnInv, NEW t \in Tails, Extracted(t)
    PROVE  OwnInv'
<1> t \in Jobs
  BY DEF Jobs
<1> DEFINE M == MergeTouched(active, snap[t])
           Combined(new) == M \union {NewFact(c, clock) : c \in new}
<1>1. PICK new \in SUBSET Claims :
        \/ Ended(t) /\ UNCHANGED <<archive, pending>>
        \/ MovesOn(t, "merging", Combined(new), new) /\ UNCHANGED <<archive, pending>>
        \/ MovesOn(t, "saving", {}, {}) /\ PruneThenSave(Combined(new), t, new)
  BY DEF Extracted
<1>2. Combined(new) \in SUBSET FactsUpTo(clock)
  BY MergeTouchedKeeps, NewFactsState DEF IInv, TypeInv
<1>3. Carried(Combined(new)) = Carried(active) \union new
  <2> DEFINE N == {NewFact(c, clock) : c \in new}
  <2>1. Carried(M) = Carried(active)
    BY MergeTouchedKeeps DEF IInv, TypeInv
  <2>2. Carried(N) = new
    BY NewFactsState DEF IInv, TypeInv
  <2>3. Combined(new) = M \union N
    OBVIOUS
  <2> HIDE DEF M, N, Combined
  <2> QED BY <2>1, <2>2, <2>3, CarriedUnion
<1> HIDE DEF M, Combined
<1>4. /\ pending = Quiet /\ active' = active
      /\ pc \in [Jobs -> {"idle", "parked", "extracting", "merging", "saving"}]
      /\ work \in [Jobs -> SUBSET FactsUpTo(clock)] /\ news \in [Jobs -> SUBSET Claims]
  BY DEF Extracted, LoopFree, IInv, TypeInv
<1>5. CASE Ended(t) /\ UNCHANGED <<archive, pending>>
  BY <1>4, <1>5, UndisturbedOwn DEF Ended, MovesOn
<1>6. CASE MovesOn(t, "merging", Combined(new), new) /\ UNCHANGED <<archive, pending>>
  BY <1>3, <1>4, <1>6 DEF MovesOn, OwnInv, WorkOwn, PendingOwn
<1>7. CASE MovesOn(t, "saving", {}, {}) /\ PruneThenSave(Combined(new), t, new)
  <2>1. PendingOwn'
    BY <1>2, <1>3, <1>4, <1>7, PruneOwn DEF IInv
  <2>2. WorkOwn'
    BY <1>4, <1>7 DEF MovesOn, OwnInv, WorkOwn
  <2> QED BY <2>1, <2>2 DEF OwnInv
<1> QED BY <1>1, <1>5, <1>6, <1>7

LEMMA MergedOwn ==
    ASSUME IInv, OwnInv, NEW j \in Jobs, Merged(j)
    PROVE  OwnInv'
<1>1. PICK R \in DedupOutcomes(work[j]) :
        \/ Ended(j) /\ UNCHANGED <<archive, pending>>
        \/ /\ MovesOn(j, "saving", {}, {})
           /\ \/ /\ Replace("active", R, "store", j, {}, {}) /\ archive' = archive
                 /\ j = AdminDedup
              \/ PruneThenSave(R, j, news[j])
  BY DEF Merged
<1>2. /\ pending = Quiet /\ pc[j] = "merging" /\ active' = active
      /\ pc \in [Jobs -> {"idle", "parked", "extracting", "merging", "saving"}]
      /\ work \in [Jobs -> SUBSET FactsUpTo(clock)] /\ news \in [Jobs -> SUBSET Claims]
      /\ news[AdminDedup] = {}
  BY DEF Merged, LoopFree, IInv, TypeInv
<1>3. R \in SUBSET FactsUpTo(clock) /\ Carried(R) = Carried(work[j])
  BY DedupKeeps DEF IInv, TypeInv
<1>4. Carried(R) \subseteq Carried(active) \union news[j]
  BY <1>2, <1>3 DEF OwnInv, WorkOwn
<1>5. CASE Ended(j) /\ UNCHANGED <<archive, pending>>
  BY <1>2, <1>5, UndisturbedOwn DEF Ended, MovesOn
<1>6. CASE MovesOn(j, "saving", {}, {})
           /\ \/ /\ Replace("active", R, "store", j, {}, {}) /\ archive' = archive
                 /\ j = AdminDedup
              \/ PruneThenSave(R, j, news[j])
  <2>1. PendingOwn'
    <3>1. CASE Replace("active", R, "store", j, {}, {}) /\ j = AdminDedup
      BY <1>2, <1>4, <3>1, StoresOwn DEF Replace
    <3>2. CASE PruneThenSave(R, j, news[j])
      BY <1>2, <1>3, <1>4, <3>2, PruneOwn DEF IInv
    <3> QED BY <1>6, <3>1, <3>2
  <2>2. WorkOwn'
    BY <1>2, <1>6 DEF MovesOn, OwnInv, WorkOwn
  <2> QED BY <2>1, <2>2 DEF OwnInv
<1> QED BY <1>1, <1>5, <1>6

LEMMA DedupLocksOwn == ASSUME IInv, OwnInv, DedupLocks PROVE OwnInv'
<1> AdminDedup \in Jobs
  BY DEF Jobs
<1>1. /\ UNCHANGED <<active, archive, pending>> /\ pending = Quiet
      /\ pc' = [pc EXCEPT ![AdminDedup] = "merging"]
      /\ work' = [work EXCEPT ![AdminDedup] = active]
      /\ news' = [news EXCEPT ![AdminDedup] = {}]
  BY DEF DedupLocks, MovesOn, disk, CanLock, LoopFree
<1> QED BY <1>1 DEF IInv, TypeInv, OwnInv, WorkOwn, PendingOwn

\* The commands take the free lock.
LEMMA CommandOwn ==
    ASSUME IInv, CanLock, UNCHANGED <<active, jobs>>, PendingOwn'
    PROVE  OwnInv'
BY NoListUnlocked DEF CanLock, OwnInv, WorkOwn, jobs

\* What a command forgets: the facts that are left out, with all they say
\* that the rest does not.
LEMMA ForgetsOwn ==
    ASSUME NEW rest, rest \subseteq active, UNCHANGED <<active, archive>>,
           Replace("active", rest, "forget", NoOne, {}, Carried(active) \ Carried(rest)),
           \A f \in active \ rest : f.text \intersect (Carried(active) \ Carried(rest)) # {}
    PROVE  PendingOwn'
<1>1. /\ pending'.op = "forget" /\ pending'.file = "active" /\ pending'.content = rest
      /\ pending'.adds = {} /\ pending'.drops = Carried(active) \ Carried(rest)
  BY DEF Replace
<1>2. ActiveNext' = rest /\ ArchiveNext' = archive
  BY <1>1 DEF ActiveNext, ArchiveNext
<1> QED BY <1>1, <1>2 DEF PendingOwn, Forgetting

LEMMA ClaimOwn ==
    ASSUME IInv, OwnInv, NEW c \in Claims,
           Remember(c) \/ ForgetMatching(c) \/ \E pinned \in BOOLEAN : Pin(c, pinned)
    PROVE  OwnInv'
<1>1. CanLock /\ UNCHANGED <<active, jobs>>
  BY DEF Remember, ForgetMatching, Pin, CommandRuns
<1>2. CASE Remember(c)
  <2> DEFINE F == active \union {NewFact(c, clock)}
  <2>1. NewFact(c, clock) \in FactsUpTo(clock)
    BY DEF NewFact, FactsUpTo, IInv, TypeInv
  <2>2. F \in SUBSET FactsUpTo(clock)
    BY <2>1 DEF IInv, TypeInv
  <2>3. Carried(F) \subseteq Carried(active) \union {c}
    <3>1. Carried({NewFact(c, clock)}) = {c}
      BY DEF Carried, NewFact
    <3> QED BY <3>1, CarriedUnion
  <2>4. PruneThenSave(F, NoOne, {c})
    BY <1>2 DEF Remember
  <2> HIDE DEF F
  <2>5. PendingOwn'
    BY <1>1, <2>2, <2>3, <2>4, PruneOwn DEF IInv
  <2> QED BY <1>1, <2>5, CommandOwn
<1>3. CASE ForgetMatching(c)
  <2> DEFINE rest == active \ Matching(active, c)
  <2>1. /\ Replace("active", rest, "forget", NoOne, {}, Carried(active) \ Carried(rest))
        /\ UNCHANGED <<active, archive>>
    BY <1>3 DEF ForgetMatching, CommandRuns
  <2>2. c \notin Carried(rest)
    BY CarriedBy DEF Matching
  <2>3. ASSUME NEW f \in active \ rest
        PROVE  f.text \intersect (Carried(active) \ Carried(rest)) # {}
    <3>1. c \in f.text
      BY <2>3 DEF Matching
    <3>2. c \in Carried(active)
      BY <2>3, <3>1, CarriedBy
    <3> QED BY <2>2, <3>1, <3>2
  <2>4. rest \subseteq active
    OBVIOUS
  <2> HIDE DEF rest
  <2>5. PendingOwn'
    BY <2>1, <2>3, <2>4, ForgetsOwn
  <2> QED BY <1>1, <2>5, CommandOwn
<1>4. ASSUME NEW pinned \in BOOLEAN, Pin(c, pinned) PROVE OwnInv'
  <2> DEFINE F == SetPinned(active, c, pinned)
             op == IF pinned THEN "store" ELSE "unpin"
  <2>1. Replace("active", F, op, NoOne, {}, {}) /\ op \in {"store", "unpin"}
    BY <1>4 DEF Pin
  <2>2. Carried(F) \subseteq Carried(active) \union {}
    BY SetPinnedKeeps DEF IInv, TypeInv
  <2> HIDE DEF F, op
  <2>3. PendingOwn'
    BY <1>1, <2>1, <2>2, StoresOwn DEF Replace
  <2> QED BY <1>1, <2>3, CommandOwn
<1> QED BY <1>2, <1>3, <1>4

LEMMA AdminOwn ==
    ASSUME IInv, OwnInv,
           \/ ClearFacts \/ ClearArchive \/ \E age \in 0 .. MaxClock : ArchiveStale(age)
    PROVE  OwnInv'
<1>1. CanLock /\ UNCHANGED <<active, jobs>>
  BY DEF ClearFacts, ClearArchive, ArchiveStale, CommandRuns
<1>2. CASE ClearFacts
  <2>1. Replace("active", {}, "forget", NoOne, {}, Carried(active)) /\ UNCHANGED archive
    BY <1>2 DEF ClearFacts
  <2>2. Carried({}) = {}
    BY CarriedBy
  <2>3. ASSUME NEW f \in active PROVE f.text \intersect Carried(active) # {}
    <3>1. f.text # {} /\ \A c \in f.text : c \in Carried(active)
      BY <2>3, CarriedBy DEF IInv, TypeInv, FactsUpTo
    <3> QED BY <3>1
  <2>4. PendingOwn'
    BY <1>1, <2>1, <2>2, <2>3, ForgetsOwn
  <2> QED BY <1>1, <2>4, CommandOwn
<1>3. CASE ClearArchive
  <2>1. /\ Replace("archive", {}, "forget", NoOne, {}, Carried(archive) \ Carried(active))
        /\ UNCHANGED archive
    BY <1>3 DEF ClearArchive
  <2>2. /\ pending'.op = "forget" /\ pending'.file = "archive" /\ pending'.content = {}
        /\ pending'.adds = {} /\ pending'.drops = Carried(archive) \ Carried(active)
    BY <2>1 DEF Replace
  <2>3. ActiveNext' = active /\ ArchiveNext' = {}
    BY <1>1, <2>2 DEF ActiveNext, ArchiveNext
  <2>4. PendingOwn'
    BY <1>1, <2>1, <2>2, <2>3 DEF PendingOwn, Forgetting
  <2> QED BY <1>1, <2>4, CommandOwn
<1>4. ASSUME NEW age \in 0 .. MaxClock, ArchiveStale(age) PROVE OwnInv'
  <2> DEFINE rest == active \ Stale(active, clock - age)
  <2>1. Replace("active", rest, "store", NoOne, {}, {})
    BY <1>4 DEF ArchiveStale
  <2>2. Carried(rest) \subseteq Carried(active) \union {}
    <3>1. \A c \in Carried(rest) : c \in Carried(active)
      BY CarriedBy
    <3> QED BY <3>1
  <2> HIDE DEF rest
  <2>3. PendingOwn'
    BY <1>1, <2>1, <2>2, StoresOwn DEF Replace
  <2> QED BY <1>1, <2>3, CommandOwn
<1> QED BY <1>2, <1>3, <1>4

\* What comes back from the archive is active before it leaves there.
LEMMA RestoreOwn == ASSUME IInv, NEW c \in Claims, Restore(c) PROVE OwnInv'
<1> DEFINE back == Matching(archive, c)
<1>1. /\ Replace("archive", archive \ back, "store", NoOne, {}, {})
      /\ active' = active \union Refreshed(back, clock) /\ archive' = archive
      /\ lock = NoOne /\ UNCHANGED jobs
  BY DEF Restore, CanLock
<1>2. Carried(Refreshed(back, clock)) = Carried(back)
  BY RefreshedKeeps DEF Matching, IInv, TypeInv
<1>3. Carried(active') = Carried(active) \union Carried(back)
  BY <1>1, <1>2, CarriedUnion
<1>4. Carried(archive) \subseteq Carried(archive \ back) \union Carried(back)
  <2>1. \A d \in Carried(archive) : d \in Carried(archive \ back) \/ d \in Carried(back)
    BY CarriedBy
  <2> QED BY <2>1
<1> HIDE DEF back
<1>5. /\ pending'.op = "store" /\ pending'.file = "archive" /\ pending'.content = archive \ back
      /\ pending'.adds = {} /\ pending'.drops = {}
  BY <1>1 DEF Replace
<1>6. ActiveNext' = active' /\ ArchiveNext' = archive \ back
  BY <1>5 DEF ActiveNext, ArchiveNext
<1>7. PendingOwn'
  BY <1>1, <1>3, <1>4, <1>5, <1>6 DEF PendingOwn, Storing
<1> QED BY <1>1, <1>7, NoListUnlocked DEF OwnInv, WorkOwn, jobs

LEMMA EndOwn ==
    ASSUME IInv, FinishWrite \/ WriteFails \/ Crash
    PROVE  OwnInv'
<1>1. CASE FinishWrite \/ WriteFails
  BY <1>1, OperationOverFrees DEF FinishWrite, WriteFails, OwnInv, WorkOwn, PendingOwn
<1>2. CASE Crash
  BY <1>2 DEF Crash, OwnInv, WorkOwn, PendingOwn
<1> QED BY <1>1, <1>2

LEMMA NextOwn == IInv /\ OwnInv /\ [Next]_vars => OwnInv'
<1> SUFFICES ASSUME IInv, OwnInv, [Next]_vars PROVE OwnInv'
  OBVIOUS
<1>1. CASE UNCHANGED vars
  BY <1>1, UndisturbedOwn DEF vars, disk, jobs
<1>2. ASSUME NEW file \in Files, Damage(file) \/ Repair(file) PROVE OwnInv'
  BY <1>2, UndisturbedOwn DEF Damage, Repair, jobs
<1>3. CASE Tick
  BY <1>3, UndisturbedOwn DEF Tick, disk, jobs
<1> QED
  BY <1>1, <1>2, <1>3, TailOwn, ExtractedOwn, MergedOwn, DedupLocksOwn, ClaimOwn, AdminOwn,
     RestoreOwn, EndOwn DEF Next

LEMMA SpecOwn == Spec => []OwnInv
<1>1. Init => OwnInv
  BY DEF Init, OwnInv, WorkOwn, PendingOwn
<1> QED BY <1>1, NextOwn, SpecIInv, PTL DEF Spec

\* FactMemory speaks of the two files together, with operators of its own.
LEMMA SaidIsCarried ==
    /\ \A F : Memory!Said(F) = Carried(F)
    /\ \A F, G : Memory!RecalledIn(F, G) <=> Covers(F, G)
BY DEF Memory!Said, Memory!RecalledIn, Carried, Covers

LEMMA StatesBy ==
    ASSUME NEW S, gone' = gone \ S,
           Covers(active, active' \union archive'),
           Carried(archive) \subseteq Carried(active') \union Carried(archive'),
           S \subseteq Carried(active') \union Carried(archive'),
           Carried(active') \subseteq Carried(active) \union S
    PROVE  Memory!States(S)
<1>1. Carried(active' \union archive') = Carried(active') \union Carried(archive')
  BY CarriedUnion
<1>2. /\ Memory!RecalledIn(active, active' \union archive')
      /\ Memory!Said(archive) \subseteq Memory!Said(active' \union archive')
      /\ S \subseteq Memory!Said(active' \union archive')
      /\ Memory!Said(active') \subseteq Memory!Said(active) \union S
  BY <1>1, SaidIsCarried
<1> QED BY <1>2 DEF Memory!States

LEMMA ForgetsBy ==
    ASSUME NEW S, gone' = gone \union S, active' \subseteq active, archive' \subseteq archive,
           \A f \in active \ active' : f.text \intersect S # {},
           S \subseteq Carried(active) \union Carried(archive),
           (Carried(active) \union Carried(archive)) \ S
               \subseteq Carried(active') \union Carried(archive'),
           Carried(active') \intersect S = {}
    PROVE  Memory!Forgets(S)
<1>1. /\ Carried(active' \union archive') = Carried(active') \union Carried(archive')
      /\ Carried(active \union archive) = Carried(active) \union Carried(archive)
  BY CarriedUnion
<1>2. /\ S \subseteq Memory!Said(active \union archive)
      /\ Memory!Said(active \union archive) \ S \subseteq Memory!Said(active' \union archive')
      /\ Memory!Said(active') \intersect S = {}
  BY <1>1, SaidIsCarried
<1> QED BY <1>2 DEF Memory!Forgets

\* Rearranging what is put away, or nothing at all, states nothing.
LEMMA RearrangesOnly ==
    ASSUME IInv, UNCHANGED <<active, gone>>, Carried(archive) \subseteq Carried(archive')
    PROVE  Memory!Next
<1>1. Covers(active, active' \union archive')
  BY CoversAll DEF IInv, TypeInv
<1>2. Memory!States({})
  BY <1>1, StatesBy
<1> QED BY <1>2 DEF Memory!Next

\* Evicting and sweeping grow the sidecar; nothing but a write and a restore
\* touches the active file or what counts as forgotten.
LEMMA StepRearranges ==
    ASSUME IInv, [Next]_vars, ~FinishWrite, \A c \in Claims : ~Restore(c)
    PROVE  UNCHANGED <<active, gone>> /\ Carried(archive) \subseteq Carried(archive')
<1>2. ASSUME NEW t \in Tails, Extracted(t)
      PROVE  UNCHANGED <<active, gone>> /\ Carried(archive) \subseteq Carried(archive')
  <2> DEFINE M == MergeTouched(active, snap[t])
             Combined(new) == M \union {NewFact(c, clock) : c \in new}
  <2>1. PICK new \in SUBSET Claims :
          UNCHANGED archive \/ PruneThenSave(Combined(new), t, new)
    BY <1>2 DEF Extracted
  <2>2. Combined(new) \in SUBSET FactsUpTo(clock)
    <3>1. t \in Jobs
      BY DEF Jobs
    <3>2. M \in SUBSET FactsUpTo(clock)
      BY <3>1, MergeTouchedKeeps DEF IInv, TypeInv
    <3>3. {NewFact(c, clock) : c \in new} \in SUBSET FactsUpTo(clock)
      BY NewFactsState DEF IInv, TypeInv
    <3> QED BY <3>2, <3>3
  <2>3. t \in Jobs \union {NoOne} /\ TypeInv
    BY DEF Jobs, IInv
  <2>4. UNCHANGED <<active, gone>>
    BY <1>2 DEF Extracted, history
  <2> HIDE DEF Combined
  <2> QED BY <2>1, <2>2, <2>3, <2>4, PruneKeeps
<1>3. ASSUME NEW j \in Jobs, Merged(j)
      PROVE  UNCHANGED <<active, gone>> /\ Carried(archive) \subseteq Carried(archive')
  <2>1. PICK R \in DedupOutcomes(work[j]) :
          UNCHANGED archive \/ PruneThenSave(R, j, news[j])
    BY <1>3 DEF Merged
  <2>2. R \in SUBSET FactsUpTo(clock)
    BY DedupKeeps DEF IInv, TypeInv
  <2>3. news[j] \in SUBSET Claims /\ TypeInv
    BY DEF IInv, TypeInv
  <2>4. UNCHANGED <<active, gone>>
    BY <1>3 DEF Merged, history
  <2> QED BY <2>1, <2>2, <2>3, <2>4, PruneKeeps
<1>4. ASSUME NEW c \in Claims, Remember(c)
      PROVE  UNCHANGED <<active, gone>> /\ Carried(archive) \subseteq Carried(archive')
  <2>1. PruneThenSave(active \union {NewFact(c, clock)}, NoOne, {c})
    BY <1>4 DEF Remember
  <2>2. active \union {NewFact(c, clock)} \in SUBSET FactsUpTo(clock) /\ TypeInv
    <3>1. NewFact(c, clock) \in FactsUpTo(clock)
      BY DEF NewFact, FactsUpTo, IInv, TypeInv
    <3> QED BY <3>1 DEF IInv, TypeInv
  <2>3. UNCHANGED <<active, gone>>
    BY <1>4 DEF Remember, CommandRuns, history
  <2> QED BY <2>1, <2>2, <2>3, PruneKeeps
<1>5. ASSUME NEW age \in 0 .. MaxClock, ArchiveStale(age)
      PROVE  UNCHANGED <<active, gone>> /\ Carried(archive) \subseteq Carried(archive')
  <2>1. archive' = Archived(archive, Stale(active, clock - age)) /\ UNCHANGED <<active, gone>>
    BY <1>5 DEF ArchiveStale, CommandRuns, history
  <2>2. Stale(active, clock - age) \in SUBSET FactsUpTo(clock)
    BY DEF Stale, IInv, TypeInv
  <2> QED BY <2>1, <2>2, ArchivedKeeps DEF IInv, TypeInv
<1>6. CASE \/ \E t \in Tails : Request(t) \/ TailSkipped(t) \/ TouchedSave(t) \/ TailLocks(t)
           \/ DedupLocks \/ ClearFacts \/ ClearArchive \/ WriteFails \/ Crash \/ Tick
           \/ \E c \in Claims : ForgetMatching(c) \/ \E pinned \in BOOLEAN : Pin(c, pinned)
           \/ \E file \in Files : Damage(file) \/ Repair(file)
           \/ UNCHANGED vars
  BY <1>6 DEF Request, TailSkipped, TouchedSave, TailLocks, DedupLocks, ForgetMatching, Pin,
     ClearFacts, ClearArchive, CommandRuns, WriteFails, Crash, Damage, Repair, Tick,
     vars, disk, history
<1> QED BY <1>2, <1>3, <1>4, <1>5, <1>6 DEF Next

\* The first of the two writes of a restore brings the facts back.
LEMMA RestoreStates == ASSUME IInv, NEW c \in Claims, Restore(c) PROVE Memory!Next
<1> DEFINE back == Matching(archive, c)
<1>1. /\ active' = active \union Refreshed(back, clock) /\ archive' = archive
      /\ gone' = gone \ Carried(back)
  BY DEF Restore
<1>2. Carried(Refreshed(back, clock)) = Carried(back)
  BY RefreshedKeeps DEF Matching, IInv, TypeInv
<1>3. Carried(active') = Carried(active) \union Carried(back)
  BY <1>1, <1>2, CarriedUnion
<1>4. Carried(back) \in SUBSET Claims
  BY CarriedType DEF Matching, IInv, TypeInv
<1>5. Covers(active, active' \union archive')
  BY <1>1, CoversAll DEF IInv, TypeInv
<1> HIDE DEF back
<1>6. Memory!States(Carried(back))
  BY <1>1, <1>3, <1>5, StatesBy
<1> QED BY <1>4, <1>6 DEF Memory!Next

\* The end of a write is the step at which its operation happens.
LEMMA WriteIsOneStep == ASSUME IInv, ListsKeep, OwnInv, FinishWrite PROVE Memory!Next
<1>1. /\ pending # Quiet
      /\ active' = ActiveNext /\ archive' = ArchiveNext
      /\ gone' = (gone \union pending.drops) \ pending.adds
  BY DEF FinishWrite, LoopFree, ActiveNext, ArchiveNext, IInv, TypeInv, Files
<1>2. /\ pending.adds \in SUBSET Claims /\ pending.drops \in SUBSET Claims
  BY DEF IInv, TypeInv
<1>3. /\ pending.adds \ pending.drops \subseteq Carried(active') \union Carried(archive')
      /\ Carried(active') \intersect pending.drops \subseteq pending.adds
  BY <1>1 DEF IInv, PendingSafe
<1>4. CASE pending.op = "forget"
  <2>1. /\ pending.adds = {}
        /\ active' \subseteq active /\ archive' \subseteq archive
        /\ \A f \in active \ active' : f.text \intersect pending.drops # {}
        /\ pending.drops \subseteq Carried(active) \union Carried(archive)
        /\ (Carried(active) \union Carried(archive)) \ pending.drops
              \subseteq Carried(active') \union Carried(archive')
    BY <1>1, <1>4 DEF OwnInv, PendingOwn, Forgetting
  <2>2. Memory!Forgets(pending.drops)
    BY <1>1, <1>3, <2>1, ForgetsBy
  <2> QED BY <1>2, <2>2 DEF Memory!Next
<1>5. CASE pending.op # "forget"
  <2>1. /\ pending.drops = {}
        /\ Carried(active') \subseteq Carried(active) \union pending.adds
        /\ Carried(archive) \subseteq Carried(active') \union Carried(archive')
    BY <1>1, <1>5 DEF OwnInv, PendingOwn, Storing
  <2>2. Covers(active, active' \union archive')
    <3>1. CASE pending.file = "active"
      BY <1>5, <3>1, WriteKeeps
    <3>2. CASE pending.file # "active"
      BY <1>1, <3>2, CoversAll DEF ActiveNext, IInv, TypeInv
    <3> QED BY <3>1, <3>2
  <2>3. Memory!States(pending.adds)
    BY <1>1, <1>3, <2>1, <2>2, StatesBy
  <2> QED BY <1>2, <2>3 DEF Memory!Next
<1> QED BY <1>4, <1>5

\* The two files are one memory in which every operation is one step: the
\* first write of a restore, or the write that ends the operation.  What
\* comes before it and between, and what fails, loses nothing.
THEOREM FilesAreOneMemory == Spec => ActsAsMemory
<1>1. Init => Memory!Init
  BY DEF Init, Memory!Init
<1>2. IInv /\ ListsKeep /\ OwnInv /\ [Next]_vars => [Memory!Next]_(Memory!vars)
  <2> SUFFICES ASSUME IInv, ListsKeep, OwnInv, [Next]_vars PROVE Memory!Next
    OBVIOUS
  <2>1. CASE FinishWrite
    BY <2>1, WriteIsOneStep
  <2>2. CASE \E c \in Claims : Restore(c)
    BY <2>2, RestoreStates
  <2>3. CASE ~FinishWrite /\ \A c \in Claims : ~Restore(c)
    BY <2>3, StepRearranges, RearrangesOnly
  <2> QED BY <2>1, <2>2, <2>3
<1> QED BY <1>1, <1>2, SpecListsKeep, SpecOwn, PTL DEF Spec, ActsAsMemory, Memory!Spec
============================================================================
