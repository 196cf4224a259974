--------------------------- MODULE HierarchyProofs ---------------------------
(***************************************************************************)
(* The stored summaries of a conversation keep their order, their place    *)
(* and what they say, the turns of the record are among what they say, the *)
(* position never exceeds the turns of the conversation, and every pass    *)
(* ends, for any sizes of the tiers, any budget of calls, any windows and  *)
(* any history.                                                            *)
(*                                                                         *)
(* The labels are ordered only because the watermark is past every chunk,  *)
(* the position past the watermark, and the chunk to come between the two; *)
(* the stored state never goes back only because the state in the hands of *)
(* the pass goes on from it.  IInv says both, and that the windows are     *)
(* sequences of turns, so that the position computed from them is a        *)
(* number.  RecordsSaid adds what the record holds, and PlaceInv where in  *)
(* the story the windows in the queue and the anchor are.                  *)
(***************************************************************************)
EXTENDS Hierarchy, SequenceTheorems, FiniteSetTheorems, WellFoundedInduction,
        FunctionTheorems, TLAPS

\* The least of some natural numbers is one of them, the candidates of the
\* position among them.
LEMMA SmallestOf ==
    ASSUME NEW S \in SUBSET Nat, S # {}
    PROVE  Smallest(S) \in S /\ \A n \in S : Smallest(S) <= n
<1> DEFINE below == {0..n : n \in S}
<1>1. below \subseteq FiniteSubsetsOf(Nat) /\ below # {}
  <2>1. \A n \in S : IsFiniteSet(0..n) /\ 0..n \in SUBSET Nat
    BY FS_Interval
  <2>2. \A n \in S : 0..n \in FiniteSubsetsOf(Nat)
    BY <2>1 DEF FiniteSubsetsOf
  <2> QED BY <2>2
<1>2. PICK b \in below : \A a \in below : <<a, b>> \notin StrictSubsetOrdering(Nat)
  BY <1>1, WFMin, FS_StrictSubsetOrderingWellFounded, Zenon
<1>3. PICK m \in S : b = 0..m
  BY <1>2
<1>4. \A n \in S : m <= n
  <2> SUFFICES ASSUME NEW n \in S, n < m PROVE FALSE
    OBVIOUS
  <2>1. 0..n \subseteq 0..m /\ 0..n # 0..m
    <3>1. m \in 0..m /\ m \notin 0..n
      OBVIOUS
    <3> QED BY <3>1
  <2>2. 0..n \in below
    OBVIOUS
  <2>3. 0..n \in SUBSET Nat /\ 0..m \in SUBSET Nat
    OBVIOUS
  <2> QED BY <1>2, <1>3, <2>1, <2>2, <2>3 DEF StrictSubsetOrdering
<1> QED
  BY <1>4 DEF Smallest

\* A member of a set that no other exceeds is its largest.
LEMMA LargestIs ==
    ASSUME NEW S \in SUBSET Int, NEW m \in S, \A n \in S : n <= m
    PROVE  Largest(S) = m
<1>1. \A k \in S : (\A n \in S : n <= k) => k = m
  OBVIOUS
<1> QED BY <1>1 DEF Largest

\* The larger of two numbers: the max that the position, the first turn of a
\* chunk and the watermark are computed with.
LEMMA LargestOfTwo ==
    ASSUME NEW a \in Int, NEW b \in Int
    PROVE  /\ Largest({a, b}) \in {a, b}
           /\ a <= Largest({a, b}) /\ b <= Largest({a, b})
<1>1. CASE a <= b
  BY <1>1, LargestIs
<1>2. CASE b < a
  BY <1>2, LargestIs
<1> QED BY <1>1, <1>2

\* A label names turns, the first and the last.
IsSpan(c) == c.first \in Nat \ {0} /\ c.last \in Nat /\ c.first <= c.last

\* Every label ends before the next begins, and by the watermark.
InOrder(chunks, mark) ==
    /\ \A i \in 1..Len(chunks) : IsSpan(chunks[i]) /\ chunks[i].last <= mark
    /\ \A i, j \in 1..Len(chunks) : i < j => chunks[i].last < chunks[j].first

\* What concatenating two sequences gives, entry by entry.
LEMMA ConcatSeq ==
    ASSUME NEW S, NEW a \in Seq(S), NEW b \in Seq(S)
    PROVE  /\ a \o b \in Seq(S)
           /\ Len(a \o b) = Len(a) + Len(b)
           /\ \A i \in 1..Len(a) : (a \o b)[i] = a[i]
           /\ \A i \in 1..Len(b) : (a \o b)[Len(a) + i] = b[i]
           /\ ToSet(a \o b) = ToSet(a) \union ToSet(b)
<1>1. a \o b \in Seq(S) /\ Len(a \o b) = Len(a) + Len(b)
  OBVIOUS
<1>2. \A i \in 1..Len(a) : (a \o b)[i] = a[i]
  OBVIOUS
<1>3. \A i \in 1..Len(b) : (a \o b)[Len(a) + i] = b[i]
  OBVIOUS
<1>4. \A i \in 1..Len(a) + Len(b) : i \in 1..Len(a) \/ \E k \in 1..Len(b) : i = Len(a) + k
  <2> TAKE i \in 1..Len(a) + Len(b)
  <2> SUFFICES ASSUME i \notin 1..Len(a) PROVE i - Len(a) \in 1..Len(b) /\ i = Len(a) + (i - Len(a))
    OBVIOUS
  <2> QED OBVIOUS
<1>5. /\ DOMAIN (a \o b) = 1..Len(a) + Len(b)
      /\ DOMAIN a = 1..Len(a) /\ DOMAIN b = 1..Len(b)
      /\ Len(a) \in Nat /\ Len(b) \in Nat
  BY <1>1, LenProperties
<1>6. ToSet(a \o b) \subseteq ToSet(a) \union ToSet(b)
  <2> SUFFICES ASSUME NEW i \in 1..Len(a) + Len(b)
               PROVE  (a \o b)[i] \in ToSet(a) \union ToSet(b)
    BY <1>5 DEF ToSet
  <2>1. CASE i \in 1..Len(a)
    BY <2>1, <1>2, <1>5 DEF ToSet
  <2>2. ASSUME NEW k \in 1..Len(b), i = Len(a) + k
        PROVE  (a \o b)[i] \in ToSet(b)
    BY <2>2, <1>3, <1>5 DEF ToSet
  <2> QED BY <2>1, <2>2, <1>4
<1>7. \A k \in 1..Len(b) : Len(a) + k \in 1..Len(a) + Len(b)
  BY <1>5
<1>8. \A k \in 1..Len(a) : k \in 1..Len(a) + Len(b)
  BY <1>5
<1>9. ToSet(a) \union ToSet(b) \subseteq ToSet(a \o b)
  <2>1. \A k \in 1..Len(a) : a[k] \in ToSet(a \o b)
    BY <1>2, <1>5, <1>8 DEF ToSet
  <2>2. \A k \in 1..Len(b) : b[k] \in ToSet(a \o b)
    BY <1>3, <1>5, <1>7 DEF ToSet
  <2> QED BY <2>1, <2>2, <1>5 DEF ToSet
<1> QED BY <1>1, <1>2, <1>3, <1>6, <1>9

\* The entries of three sequences in a row.
LEMMA ToSetOfThree ==
    ASSUME NEW S, NEW a \in Seq(S), NEW b \in Seq(S), NEW c \in Seq(S)
    PROVE  ToSet(a \o b \o c) = ToSet(a) \union ToSet(b) \union ToSet(c)
<1> DEFINE ab == a \o b
<1>1. ab \in Seq(S) /\ ToSet(ab) = ToSet(a) \union ToSet(b)
  BY ConcatSeq
<1> HIDE DEF ab
<1>2. ToSet(ab \o c) = ToSet(ab) \union ToSet(c)
  BY <1>1, ConcatSeq
<1> QED BY <1>1, <1>2 DEF ab

\* A chunk that takes the place of a run of chunks, and the label from the
\* first of them to the last, keeps the labels in order: a chapter in the place
\* of its scenes, the story in the place of its chapters.
LEMMA MergeKeepsOrder ==
    ASSUME NEW S, NEW before \in Seq(S), NEW run \in Seq(S), NEW after \in Seq(S),
           NEW m, NEW mark, run # <<>>,
           m.first = run[1].first, m.last = run[Len(run)].last,
           InOrder(before \o run \o after, mark)
    PROVE  InOrder(before \o <<m>> \o after, mark)
<1> DEFINE T == S \union {m}
           a == Len(before)  b == Len(run)  d == Len(after)
           X == before \o run \o after
           Y == before \o <<m>> \o after
           low(p) == IF p <= a + 1 THEN p ELSE p - 1 + b
           high(p) == IF p <= a THEN p ELSE p - 1 + b
<1>1. /\ before \in Seq(T) /\ after \in Seq(T) /\ run \in Seq(T) /\ <<m>> \in Seq(T)
      /\ a \in Nat /\ b \in Nat \ {0} /\ d \in Nat
  <2>1. <<m>> \in Seq(T)
    OBVIOUS
  <2>2. before \in Seq(T) /\ after \in Seq(T) /\ run \in Seq(T)
    BY SeqMonotonic, S \subseteq T
  <2>3. b \in Nat \ {0}
    BY EmptySeq, LenProperties
  <2> QED BY <2>1, <2>2, <2>3, LenProperties
<1>2. /\ Len(X) = a + b + d
      /\ \A i \in 1..a : X[i] = before[i]
      /\ \A i \in 1..b : X[a + i] = run[i]
      /\ \A i \in 1..d : X[a + b + i] = after[i]
  <2>1. before \o run \in Seq(T) /\ Len(before \o run) = a + b
    BY <1>1, ConcatSeq
  <2>2. \A i \in 1..a : i \in 1..a + b
    BY <1>1
  <2>3. \A i \in 1..b : a + i \in 1..a + b
    BY <1>1
  <2>4. /\ \A i \in 1..a + b : X[i] = (before \o run)[i]
        /\ \A i \in 1..d : X[a + b + i] = after[i]
        /\ Len(X) = a + b + d
    BY <2>1, <1>1, ConcatSeq
  <2>5. /\ \A i \in 1..a : (before \o run)[i] = before[i]
        /\ \A i \in 1..b : (before \o run)[a + i] = run[i]
    BY <1>1, ConcatSeq
  <2> QED BY <2>2, <2>3, <2>4, <2>5
<1>3. /\ Len(Y) = a + 1 + d
      /\ \A i \in 1..a : Y[i] = before[i]
      /\ Y[a + 1] = m
      /\ \A i \in 1..d : Y[a + 1 + i] = after[i]
  <2>1. /\ before \o <<m>> \in Seq(T) /\ Len(before \o <<m>>) = a + 1
        /\ (before \o <<m>>)[a + 1] = m
        /\ \A i \in 1..a : (before \o <<m>>)[i] = before[i]
    <3>1. Len(<<m>>) = 1 /\ <<m>>[1] = m
      OBVIOUS
    <3> QED BY <1>1, <3>1, ConcatSeq
  <2>2. /\ \A i \in 1..a + 1 : Y[i] = (before \o <<m>>)[i]
        /\ \A i \in 1..d : Y[a + 1 + i] = after[i]
        /\ Len(Y) = a + 1 + d
    BY <2>1, <1>1, ConcatSeq
  <2> QED BY <2>1, <2>2, <1>1
<1> HIDE DEF X, Y
<1>4. \A p \in 1..Len(Y) : /\ low(p) \in 1..Len(X) /\ high(p) \in 1..Len(X)
                           /\ low(p) <= high(p)
  BY <1>1, <1>2, <1>3
<1>5. \A p \in 1..Len(Y) : Y[p].first = X[low(p)].first /\ Y[p].last = X[high(p)].last
  <2> TAKE p \in 1..Len(Y)
  <2>1. CASE p \in 1..a
    BY <2>1, <1>1, <1>2, <1>3
  <2>2. CASE p = a + 1
    <3>1. X[a + 1] = run[1] /\ X[a + b] = run[b]
      BY <1>1, <1>2
    <3>2. Y[p] = m
      BY <2>2, <1>3
    <3>3. low(p) = a + 1 /\ high(p) = a + b
      BY <2>2, <1>1
    <3> QED BY <3>1, <3>2, <3>3
  <2>3. CASE p > a + 1
    <3>1. p - (a + 1) \in 1..d
      BY <2>3, <1>1, <1>3
    <3>2. /\ Y[a + 1 + (p - (a + 1))] = after[p - (a + 1)]
          /\ X[a + b + (p - (a + 1))] = after[p - (a + 1)]
      BY <3>1, <1>2, <1>3
    <3>3. /\ a + 1 + (p - (a + 1)) = p
          /\ a + b + (p - (a + 1)) = low(p) /\ low(p) = high(p)
      BY <2>3, <1>1, <1>3
    <3> QED BY <3>2, <3>3
  <2> QED BY <2>1, <2>2, <2>3, <1>1, <1>3
<1>6. \A p, q \in 1..Len(Y) : p < q => high(p) < low(q)
  BY <1>1, <1>3
<1>7. \A i, j \in 1..Len(X) : i <= j => /\ X[i].first \in Nat \ {0} /\ X[j].last \in Nat
                                        /\ X[i].first <= X[j].last
  <2>1. /\ \A i \in 1..Len(X) : IsSpan(X[i])
        /\ \A i, j \in 1..Len(X) : i < j => X[i].last < X[j].first
    BY DEF InOrder, X
  <2>2. TAKE i, j \in 1..Len(X)
  <2>3. CASE i = j
    BY <2>1, <2>3 DEF IsSpan
  <2>4. CASE i # j
    <3>1. HAVE i <= j
    <3>2. IsSpan(X[i]) /\ IsSpan(X[j])
      BY <2>1
    <3>3. i < j
      BY <2>4, <3>1
    <3>4. X[i].last < X[j].first
      BY <2>1, <3>3
    <3> DEFINE f == X[i].first  l == X[i].last  g == X[j].first  k == X[j].last
    <3>5. f \in Nat \ {0} /\ l \in Nat /\ g \in Nat /\ k \in Nat /\ f <= l /\ l < g /\ g <= k
      BY <3>2, <3>4 DEF IsSpan
    <3> HIDE DEF f, l, g, k
    <3>6. f <= k
      BY ONLY <3>5
    <3> QED BY <3>5, <3>6 DEF f, k
  <2> QED BY <2>3, <2>4
<1>8. \A p \in 1..Len(Y) : IsSpan(Y[p]) /\ Y[p].last <= mark
  <2>1. \A p \in 1..Len(Y) : X[high(p)].last <= mark
    BY <1>4 DEF InOrder, X
  <2> QED BY <2>1, <1>4, <1>5, <1>7 DEF IsSpan
<1>9. \A p, q \in 1..Len(Y) : p < q => Y[p].last < Y[q].first
  BY <1>4, <1>5, <1>6 DEF InOrder, X
<1> QED BY <1>8, <1>9 DEF InOrder, Y

\* The turns that some chunks were made from.
Says(chunks) == UNION {c.says : c \in ToSet(chunks)}

\* Nor is anything lost of what the chunks say, when the one in the place of
\* the run says all that the run said.
LEMMA MergeKeepsSaid ==
    ASSUME NEW S, NEW before \in Seq(S), NEW run \in Seq(S), NEW after \in Seq(S),
           NEW m, m.says = Says(run)
    PROVE  Says(before \o run \o after) \subseteq Says(before \o <<m>> \o after)
<1> DEFINE T == S \union {m}
<1>1. /\ before \in Seq(T) /\ after \in Seq(T) /\ run \in Seq(T) /\ <<m>> \in Seq(T)
  <2>1. <<m>> \in Seq(T)
    OBVIOUS
  <2>2. before \in Seq(T) /\ after \in Seq(T) /\ run \in Seq(T)
    BY SeqMonotonic, S \subseteq T
  <2> QED BY <2>1, <2>2
<1> HIDE DEF T
<1>2. ToSet(<<m>>) = {m}
  BY DEF ToSet
<1>3. ToSet(before \o run \o after) = ToSet(before) \union ToSet(run) \union ToSet(after)
  BY <1>1, ToSetOfThree
<1>4. ToSet(before \o <<m>> \o after) = ToSet(before) \union {m} \union ToSet(after)
  <2> DEFINE one == <<m>>
  <2>1. one \in Seq(T) /\ ToSet(one) = {m}
    BY <1>1, <1>2
  <2> HIDE DEF one
  <2>2. ToSet(before \o one \o after) = ToSet(before) \union ToSet(one) \union ToSet(after)
    BY <1>1, <2>1, ToSetOfThree
  <2> QED BY <2>1, <2>2 DEF one
<1>5. ASSUME NEW c \in ToSet(before \o run \o after), NEW w \in c.says
      PROVE  \E e \in ToSet(before \o <<m>> \o after) : w \in e.says
  <2>1. CASE c \in ToSet(run)
    <3>1. w \in m.says
      BY <1>5, <2>1 DEF Says
    <3> QED BY <3>1, <1>4
  <2>2. CASE c \notin ToSet(run)
    BY <2>2, <1>3, <1>4, <1>5
  <2> QED BY <2>1, <2>2
<1> QED BY <1>5 DEF Says

\* Some chunk begins with the first turn.
Begun(chunks) == \E c \in ToSet(chunks) : c.first = 1

\* None does that did not, when the one in the place of the run begins where
\* the run did.
LEMMA MergeKeepsBegun ==
    ASSUME NEW S, NEW before \in Seq(S), NEW run \in Seq(S), NEW after \in Seq(S),
           run # <<>>, NEW m, m.first = run[1].first, Begun(before \o <<m>> \o after)
    PROVE  Begun(before \o run \o after)
<1> DEFINE T == S \union {m}  one == <<m>>
<1>1. /\ before \in Seq(T) /\ after \in Seq(T) /\ run \in Seq(T) /\ one \in Seq(T)
      /\ ToSet(one) = {m}
  <2>1. one \in Seq(T) /\ ToSet(one) = {m}
    BY DEF ToSet
  <2>2. before \in Seq(T) /\ after \in Seq(T) /\ run \in Seq(T)
    BY SeqMonotonic, S \subseteq T
  <2> QED BY <2>1, <2>2
<1>2. run[1] \in ToSet(run)
  <2>1. 1 \in DOMAIN run
    OBVIOUS
  <2> QED BY <2>1 DEF ToSet
<1> HIDE DEF T, one
<1>3. /\ ToSet(before \o run \o after) = ToSet(before) \union ToSet(run) \union ToSet(after)
      /\ ToSet(before \o one \o after) = ToSet(before) \union ToSet(one) \union ToSet(after)
  BY <1>1, ToSetOfThree
<1>4. PICK c \in ToSet(before \o one \o after) : c.first = 1
  BY DEF Begun, one
<1>5. CASE c = m
  BY <1>2, <1>3, <1>4, <1>5 DEF Begun
<1>6. CASE c # m
  BY <1>1, <1>3, <1>4, <1>6 DEF Begun
<1> QED BY <1>5, <1>6

\* A state has the fields of a state file.
Fields(s) ==
    s = [l1 |-> s.l1, l2 |-> s.l2, l3 |-> s.l3, mark |-> s.mark, seen |-> s.seen,
         anchor |-> s.anchor, head |-> s.head, width |-> s.width,
         record |-> s.record, extra |-> s.extra]

Tiers(s, S) == s.l1 \in Seq(S) /\ s.l2 \in Seq(S) /\ s.l3 \in Seq(S)

\* The invariant of a state, in memory or on disk.
Sound(s) ==
    /\ Fields(s)
    /\ \E S : Tiers(s, S)
    /\ s.anchor \in Seq(Int)
    /\ s.mark \in Nat /\ s.seen \in Nat /\ s.mark <= s.seen
    /\ InOrder(Chunks(s), s.mark)

\* The chunks of a state are those of its three tiers.
LEMMA ChunksSeq ==
    ASSUME NEW s, NEW S, Tiers(s, S)
    PROVE  /\ Chunks(s) \in Seq(S) /\ Len(Chunks(s)) = Len(s.l3) + Len(s.l2) + Len(s.l1)
           /\ ToSet(Chunks(s)) = ToSet(s.l3) \union ToSet(s.l2) \union ToSet(s.l1)
<1>1. s.l3 \in Seq(S) /\ s.l2 \in Seq(S) /\ s.l1 \in Seq(S)
  BY DEF Tiers
<1>2. s.l3 \o s.l2 \in Seq(S) /\ Len(s.l3 \o s.l2) = Len(s.l3) + Len(s.l2)
  BY <1>1, ConcatSeq
<1>3. /\ (s.l3 \o s.l2) \o s.l1 \in Seq(S)
      /\ Len((s.l3 \o s.l2) \o s.l1) = Len(s.l3 \o s.l2) + Len(s.l1)
  BY <1>1, <1>2, ConcatSeq
<1>4. ToSet(s.l3 \o s.l2 \o s.l1) = ToSet(s.l3) \union ToSet(s.l2) \union ToSet(s.l1)
  BY <1>1, ToSetOfThree
<1> QED BY <1>2, <1>3, <1>4 DEF Chunks

\* In a sound state the watermark is past every chunk and the position past the
\* watermark, so that the recorded position is the position and the repair of
\* the watermark has nothing to do.
LEMMA HighestBelowMark ==
    ASSUME NEW s, Sound(s)
    PROVE  /\ HighestChunk(s) \in Nat /\ HighestChunk(s) <= s.mark
           /\ Recorded(s) = s.seen
           /\ Repair(s) = s
<1> DEFINE ends == {c.last : c \in ToSet(Chunks(s))}
<1>1. PICK S : Chunks(s) \in Seq(S)
  BY ChunksSeq DEF Sound
<1>2. /\ DOMAIN Chunks(s) = 1..Len(Chunks(s)) /\ Len(Chunks(s)) \in Nat
  BY <1>1
<1>3. \A i \in 1..Len(Chunks(s)) : /\ Chunks(s)[i].last \in Nat /\ Chunks(s)[i].first \in Nat
                                   /\ Chunks(s)[i].first <= Chunks(s)[i].last
                                   /\ Chunks(s)[i].last <= s.mark
  BY DEF Sound, InOrder, IsSpan
<1>4. \A i, j \in 1..Len(Chunks(s)) : i < j => Chunks(s)[i].last < Chunks(s)[j].first
  BY DEF Sound, InOrder
<1>5. ends = {Chunks(s)[i].last : i \in 1..Len(Chunks(s))}
  BY <1>2 DEF ToSet
<1>6. HighestChunk(s) \in Nat /\ HighestChunk(s) <= s.mark
  <2>1. CASE Len(Chunks(s)) = 0
    <3>1. {0} \union ends = {0}
      <4>1. 1..Len(Chunks(s)) = {}
        BY <2>1
      <4>2. ends = {}
        BY <1>5, <4>1
      <4> HIDE DEF ends
      <4> QED BY <4>2
    <3>2. Largest({0}) = 0
      BY LargestIs
    <3>3. HighestChunk(s) = 0
      BY <3>1, <3>2 DEF HighestChunk
    <3>4. s.mark \in Nat
      BY DEF Sound
    <3> QED BY ONLY <3>3, <3>4
  <2>2. CASE Len(Chunks(s)) > 0
    <3> DEFINE n == Len(Chunks(s))
    <3>1. n \in 1..n
      BY <2>2, <1>2
    <3>2. \A i \in 1..n : Chunks(s)[i].last <= Chunks(s)[n].last
      <4> TAKE i \in 1..n
      <4>1. CASE i = n
        BY <4>1, <1>3
      <4>2. CASE i < n
        <5>1. Chunks(s)[i].last < Chunks(s)[n].first
          BY <4>2, <3>1, <1>4
        <5> QED BY <5>1, <3>1, <1>3
      <4>3. ASSUME NEW k \in Nat, i \in 1..k PROVE i = k \/ i < k
        BY <4>3
      <4>4. i = n \/ i < n
        BY <4>3, <1>2
      <4> QED BY <4>1, <4>2, <4>4
    <3>3. \A k \in {0} \union ends : k \in Int /\ k <= Chunks(s)[n].last
      <4>1. Chunks(s)[n].last \in Nat
        BY <3>1, <1>3
      <4>2. \A i \in 1..n : Chunks(s)[i].last \in Nat /\ Chunks(s)[i].last <= Chunks(s)[n].last
        BY <3>2, <1>3
      <4>3. \A k \in ends : k \in Int /\ k <= Chunks(s)[n].last
        BY <4>2, <1>5
      <4> QED BY <4>1, <4>3
    <3>4. Chunks(s)[n].last \in {0} \union ends
      BY <3>1, <1>5
    <3>5. HighestChunk(s) = Chunks(s)[n].last
      BY <3>3, <3>4, LargestIs DEF HighestChunk
    <3> QED BY <3>1, <3>5, <1>3
  <2> QED BY <2>1, <2>2, <1>2
<1> DEFINE h == HighestChunk(s)
<1> HIDE DEF h
<1>7. h \in Nat /\ h <= s.mark /\ s.mark \in Nat /\ s.seen \in Nat /\ s.mark <= s.seen
  BY <1>6 DEF Sound, h
<1>8. Largest({s.seen, s.mark, h}) = s.seen
  <2>1. {s.seen, s.mark, h} \in SUBSET Int /\ s.seen \in {s.seen, s.mark, h}
    BY <1>7
  <2>2. \A n \in {s.seen, s.mark, h} : n <= s.seen
    BY <1>7
  <2> QED BY <2>1, <2>2, LargestIs
<1>9. Largest({s.mark, h}) = s.mark
  BY <1>7, LargestIs
<1>10. Repair(s) = s
  BY <1>9 DEF Repair, Sound, Fields, h
<1> QED BY <1>6, <1>8, <1>10 DEF Recorded, h

\* What a merged chunk says and spans.
LEMMA MergedSpan ==
    ASSUME NEW S, NEW run \in Seq(S), run # <<>>
    PROVE  /\ Merged(run).says = Says(run)
           /\ Merged(run).first = run[1].first
           /\ Merged(run).last = run[Len(run)].last
<1>1. Head(run) = run[1] /\ Last(run) = run[Len(run)]
  BY DEF Last
<1> QED BY <1>1 DEF Merged, Says

\* A sequence is its first k entries and the rest.
LEMMA SplitSeq ==
    ASSUME NEW S, NEW a \in Seq(S), NEW k \in 1..Len(a)
    PROVE  a = SubSeq(a, 1, k) \o SubSeq(a, k + 1, Len(a))
<1>1. 1 \in 1..Len(a) + 1 /\ k \in 1 - 1..Len(a) /\ Len(a) \in k..Len(a)
  OBVIOUS
<1>2. SubSeq(a, 1, k) \o SubSeq(a, k + 1, Len(a)) = SubSeq(a, 1, Len(a))
  BY <1>1, ConcatAdjacentSubSeq
<1> QED BY <1>2, SubSeqFull

\* What a step of a pass may do to a state.
Continues(s, t) ==
    /\ Sound(t)
    /\ s.mark <= t.mark /\ s.seen <= t.seen
    /\ Said(s) \subseteq Said(t)

\* The state after a fold of scenes into a chapter, after a story was told, and
\* after a chunk was read.
Folded(s) == [s EXCEPT !.l2 = Append(s.l2, Merged(SubSeq(s.l1, 1, L2Size))),
                       !.l1 = Unfolded(s.l1)]

\* Folding scenes into a chapter (_do_l2_rollup) leaves a sound state that says
\* what was said before.
LEMMA FoldingIsSound ==
    ASSUME NEW s, Sound(s), NeedsL2(s), NEW t, t = Folded(s)
    PROVE  /\ Continues(s, t) /\ t.mark = s.mark /\ t.seen = s.seen
           /\ ToSet(s.l2) \subseteq ToSet(t.l2)
           /\ Len(t.l1) = Len(s.l1) - L2Size /\ Len(t.l2) = Len(s.l2) + 1
           /\ Len(t.l1) \in Nat /\ Len(s.l2) \in Nat
           /\ Begun(Chunks(t)) => Begun(Chunks(s))
<1> DEFINE run == SubSeq(s.l1, 1, L2Size)
           rest == Unfolded(s.l1)
           m == Merged(run)
           l32 == s.l3 \o s.l2
<1>1. PICK S : Tiers(s, S)
  BY DEF Sound
<1> DEFINE T == S \union {m}
<1>2. s.l1 \in Seq(S) /\ s.l2 \in Seq(S) /\ s.l3 \in Seq(S) /\ L2Size \in Nat \ {0}
  BY <1>1, HierarchyAssumption DEF Tiers
<1>3. L2Size \in 1..Len(s.l1) /\ Len(s.l1) \in Nat
  BY <1>2 DEF NeedsL2
<1>4. /\ run \in Seq(S) /\ Len(run) = L2Size /\ run # <<>>
      /\ run[1] = s.l1[1] /\ run[Len(run)] = s.l1[L2Size]
      /\ rest \in Seq(S) /\ Len(rest) = Len(s.l1) - L2Size
  <2> DEFINE l1 == s.l1  n == Len(l1)
  <2>1. /\ n \in Nat /\ L2Size \in 1..n
        /\ \A i \in 1..L2Size : l1[i] \in S
        /\ \A i \in L2Size + 1..n : l1[i] \in S
    BY <1>2, <1>3, ElementOfSeq
  <2> HIDE DEF l1, n
  <2>2. /\ SubSeq(l1, 1, L2Size) \in Seq(S) /\ Len(SubSeq(l1, 1, L2Size)) = L2Size
        /\ \A i \in 1..L2Size : SubSeq(l1, 1, L2Size)[i] = l1[i]
    BY <2>1, SubSeqProperties
  <2>3. /\ SubSeq(l1, L2Size + 1, n) \in Seq(S)
        /\ Len(SubSeq(l1, L2Size + 1, n)) = n - L2Size
    BY <2>1, SubSeqProperties
  <2> DEFINE part == SubSeq(l1, 1, L2Size)
  <2> HIDE DEF part
  <2>4. part # <<>>
    <3>1. Len(part) \in Nat \ {0}
      BY <2>1, <2>2 DEF part
    <3> QED BY <3>1
  <2>5. 1 \in 1..L2Size /\ L2Size \in 1..L2Size
    BY <2>1
  <2> QED BY <2>2, <2>3, <2>4, <2>5 DEF Unfolded, part, l1, n
<1>5. s.l1 = run \o rest
  BY <1>2, <1>3, SplitSeq DEF Unfolded
<1>6. m.says = Says(run) /\ m.first = run[1].first /\ m.last = run[Len(run)].last
  BY <1>4, MergedSpan
<1>7. /\ t.l2 = Append(s.l2, m) /\ t.l1 = rest /\ t.l3 = s.l3 /\ Fields(t)
      /\ t.mark = s.mark /\ t.seen = s.seen /\ t.anchor = s.anchor
  BY DEF Sound, Fields, Folded
<1> HIDE DEF run, rest, m
<1>8. l32 \in Seq(S)
  BY <1>2
<1>9. /\ s.l2 \in Seq(T) /\ s.l3 \in Seq(T) /\ rest \in Seq(T) /\ l32 \in Seq(T)
      /\ m \in T
  <2>1. S \subseteq T
    OBVIOUS
  <2> QED BY <1>2, <1>4, <1>8, <2>1, SeqMonotonic
<1>10. Chunks(s) = l32 \o run \o rest
  <2> HIDE DEF l32
  <2>1. l32 \in Seq(S) /\ run \in Seq(S) /\ rest \in Seq(S)
    BY <1>4, <1>8
  <2>2. (l32 \o run) \o rest = l32 \o (run \o rest)
    BY ONLY <2>1, ConcatAssociative, SMTT(30)
  <2> QED BY <2>2, <1>5 DEF Chunks, l32
<1>11. Chunks(t) = l32 \o <<m>> \o rest
  <2>1. <<m>> \in Seq(T)
    BY <1>9
  <2>3. Append(s.l2, m) = s.l2 \o <<m>>
    BY <1>9, AppendIsConcat
  <2> DEFINE one == <<m>>  chapters == s.l2  retold == s.l3
  <2>2. one \in Seq(T) /\ chapters \in Seq(T) /\ retold \in Seq(T)
    BY <2>1, <1>9
  <2> HIDE DEF one, chapters, retold
  <2>4. retold \o (chapters \o one) = (retold \o chapters) \o one
    BY ONLY <2>2, ConcatAssociative, SMTT(30)
  <2> QED BY <2>3, <2>4, <1>7 DEF Chunks, one, chapters, retold
<1>12. Tiers(t, T)
  BY <1>7, <1>9, AppendProperties DEF Tiers
<1> HIDE DEF l32, T
<1>13. InOrder(Chunks(t), t.mark)
  <2>1. InOrder(l32 \o run \o rest, s.mark)
    BY <1>10 DEF Sound
  <2>2. InOrder(l32 \o <<m>> \o rest, s.mark)
    BY <2>1, <1>4, <1>6, <1>8, MergeKeepsOrder
  <2> QED BY <2>2, <1>7, <1>11
<1>14. Said(s) \subseteq Said(t)
  <2>1. Says(l32 \o run \o rest) \subseteq Says(l32 \o <<m>> \o rest)
    BY <1>4, <1>6, <1>8, MergeKeepsSaid
  <2> QED BY <2>1, <1>10, <1>11 DEF Said, Says
<1>15. Sound(t)
  BY <1>7, <1>12, <1>13 DEF Sound
<1>16. Len(t.l2) = Len(s.l2) + 1 /\ ToSet(s.l2) \subseteq ToSet(t.l2) /\ Len(s.l2) \in Nat
  <2>1. t.l2 \in Seq(T) /\ Len(t.l2) = Len(s.l2) + 1 /\ Len(s.l2) \in Nat
        /\ \A i \in 1..Len(s.l2) : t.l2[i] = s.l2[i]
    BY <1>7, <1>9, AppendProperties
  <2>2. DOMAIN t.l2 = 1..Len(s.l2) + 1 /\ DOMAIN s.l2 = 1..Len(s.l2)
    BY <2>1, <1>9
  <2>3. \A i \in 1..Len(s.l2) : i \in 1..Len(s.l2) + 1
    BY <2>1
  <2> QED BY <2>1, <2>2, <2>3 DEF ToSet
<1>17. s.mark <= t.mark /\ s.seen <= t.seen
  BY <1>7 DEF Sound
<1>18. Begun(Chunks(t)) => Begun(Chunks(s))
  BY <1>4, <1>6, <1>8, <1>10, <1>11, MergeKeepsBegun
<1> QED BY <1>3, <1>4, <1>7, <1>14, <1>15, <1>16, <1>17, <1>18 DEF Continues

Retold(s) == [s EXCEPT !.l3 = <<Story(s.l3, s.l2)>>, !.l2 = <<>>]

\* So does telling the story with every chapter (_do_l3_rollup), after which
\* the state has no chapters.
LEMMA RefreshIsSound ==
    ASSUME NEW s, Sound(s), NeedsL3(s), NEW t, t = Retold(s)
    PROVE  /\ Continues(s, t) /\ t.mark = s.mark /\ t.seen = s.seen
           /\ t.l1 = s.l1 /\ Len(t.l2) = 0 /\ Len(s.l2) \in Nat \ {0}
           /\ Len(s.l1) \in Nat
           /\ Begun(Chunks(t)) => Begun(Chunks(s))
<1> DEFINE run == s.l3 \o s.l2
           m == Story(s.l3, s.l2)
           none == <<>>
<1>1. PICK S : Tiers(s, S)
  BY DEF Sound
<1> DEFINE T == S \union {m}
<1>2. s.l1 \in Seq(S) /\ s.l2 \in Seq(S) /\ s.l3 \in Seq(S) /\ L3Size \in Nat \ {0}
  BY <1>1, HierarchyAssumption DEF Tiers
<1>3. Len(s.l2) \in Nat \ {0} /\ Len(s.l1) \in Nat /\ Len(s.l3) \in Nat
  BY <1>2 DEF NeedsL3
<1>4. run \in Seq(S) /\ Len(run) \in Nat \ {0} /\ run # <<>>
  <2>1. run \in Seq(S) /\ Len(run) = Len(s.l3) + Len(s.l2)
    BY <1>2, ConcatSeq
  <2> HIDE DEF run
  <2>2. ASSUME NEW i \in Nat, NEW j \in Nat \ {0} PROVE i + j \in Nat \ {0}
    OBVIOUS
  <2>3. Len(run) \in Nat \ {0}
    BY <2>1, <2>2, <1>3
  <2>4. run # <<>>
    BY <2>3
  <2> QED BY <2>1, <2>3, <2>4
<1>5. m.says = Says(run) /\ m.first = run[1].first /\ m.last = run[Len(run)].last
  <2> HIDE DEF run
  <2>1. m = Merged(run)
    BY DEF Story, run
  <2> QED BY <2>1, <1>4, MergedSpan
<1>6. /\ t.l3 = <<m>> /\ t.l2 = <<>> /\ t.l1 = s.l1 /\ Fields(t)
      /\ t.mark = s.mark /\ t.seen = s.seen /\ t.anchor = s.anchor
  BY DEF Sound, Fields, Retold
<1>7. Chunks(s) = none \o run \o s.l1
  BY <1>2, <1>4, ConcatEmptySeq DEF Chunks
<1> HIDE DEF m
<1>8. s.l1 \in Seq(T) /\ <<m>> \in Seq(T) /\ <<>> \in Seq(T)
  <2>1. S \subseteq T /\ m \in T
    OBVIOUS
  <2> QED BY <1>2, <2>1, SeqMonotonic
<1>9. Chunks(t) = none \o <<m>> \o s.l1
  <2>1. <<m>> \o <<>> = <<m>> /\ <<>> \o <<m>> = <<m>>
    BY <1>8, ConcatEmptySeq
  <2> QED BY <2>1, <1>6 DEF Chunks
<1>10. Tiers(t, T)
  BY <1>6, <1>8 DEF Tiers
<1>11. none \in Seq(S)
  OBVIOUS
<1> HIDE DEF run, T, none
<1>12. InOrder(Chunks(t), t.mark)
  <2>1. InOrder(none \o run \o s.l1, s.mark)
    BY <1>7 DEF Sound
  <2>2. InOrder(none \o <<m>> \o s.l1, s.mark)
    BY <2>1, <1>2, <1>4, <1>5, <1>11, MergeKeepsOrder
  <2> QED BY <2>2, <1>6, <1>9
<1>13. Said(s) \subseteq Said(t)
  <2>1. Says(none \o run \o s.l1) \subseteq Says(none \o <<m>> \o s.l1)
    BY <1>2, <1>4, <1>5, <1>11, MergeKeepsSaid
  <2> QED BY <2>1, <1>7, <1>9 DEF Said, Says
<1>14. Sound(t)
  BY <1>6, <1>10, <1>12 DEF Sound
<1>15. Len(t.l2) = 0 /\ s.mark <= t.mark /\ s.seen <= t.seen
  BY <1>6 DEF Sound
<1>16. Begun(Chunks(t)) => Begun(Chunks(s))
  <2>1. Begun(none \o <<m>> \o s.l1) => Begun(none \o run \o s.l1)
    BY <1>2, <1>4, <1>5, <1>11, MergeKeepsBegun
  <2> QED BY <2>1, <1>7, <1>9
<1> QED BY <1>3, <1>6, <1>13, <1>14, <1>15, <1>16 DEF Continues

ReadInto(s, c, record, extra) ==
    [s EXCEPT !.l1 = Append(s.l1, c), !.mark = c.last, !.record = record, !.extra = extra]

\* So does a new chunk past the watermark and within the position
\* (_do_l1_rollup).
LEMMA ReadingIsSound ==
    ASSUME NEW s, Sound(s), NEW c, NEW record, NEW extra, NEW t,
           c.first \in Nat, c.last \in Nat,
           s.mark < c.first, c.first <= c.last, c.last <= s.seen,
           t = ReadInto(s, c, record, extra)
    PROVE  /\ Continues(s, t) /\ t.l2 = s.l2 /\ t.seen = s.seen /\ t.mark = c.last
           /\ Len(t.l1) = Len(s.l1) + 1 /\ Len(s.l1) \in Nat
<1>1. PICK S : Tiers(s, S)
  BY DEF Sound
<1> DEFINE T == S \union {c}
           l1 == s.l1  l32 == s.l3 \o s.l2  X == Chunks(s)  one == <<c>>
<1>2. l1 \in Seq(T) /\ s.l2 \in Seq(T) /\ s.l3 \in Seq(T) /\ c \in T /\ one \in Seq(T)
      /\ Len(l1) \in Nat
  <2>1. S \subseteq T /\ c \in T
    OBVIOUS
  <2>2. s.l1 \in Seq(S) /\ s.l2 \in Seq(S) /\ s.l3 \in Seq(S)
    BY <1>1 DEF Tiers
  <2> QED BY <2>1, <2>2, SeqMonotonic
<1>3. l32 \in Seq(T)
  BY <1>2, ConcatSeq
<1>4. /\ t.l1 = Append(l1, c) /\ t.l2 = s.l2 /\ t.l3 = s.l3 /\ Fields(t)
      /\ t.mark = c.last /\ t.seen = s.seen /\ t.anchor = s.anchor
  BY DEF Sound, Fields, ReadInto
<1>5. X = l32 \o l1
  BY DEF Chunks
<1> HIDE DEF T
<1>6. Append(l1, c) = l1 \o one /\ Append(l1, c) \in Seq(T) /\ Len(Append(l1, c)) = Len(l1) + 1
  BY <1>2, AppendIsConcat, AppendProperties
<1>7. Chunks(t) = l32 \o Append(l1, c)
  BY <1>4 DEF Chunks
<1> HIDE DEF l1, l32, one, X
<1>8. Chunks(t) = X \o one
  <2>2. l32 \in Seq(T) /\ l1 \in Seq(T) /\ one \in Seq(T)
    BY <1>2, <1>3
  <2>1. l32 \o (l1 \o one) = (l32 \o l1) \o one
    BY ONLY <2>2, ConcatAssociative, SMTT(30)
  <2> QED BY <2>1, <1>5, <1>6, <1>7
<1>9. X \in Seq(T)
  BY <1>2, <1>3, <1>5, ConcatSeq
<1>10. /\ Len(Chunks(t)) = Len(X) + 1 /\ Len(X) \in Nat
       /\ \A i \in 1..Len(X) : Chunks(t)[i] = X[i]
       /\ Chunks(t)[Len(X) + 1] = c
       /\ ToSet(X) \subseteq ToSet(Chunks(t))
  <2>1. Len(one) = 1 /\ one[1] = c
    BY DEF one
  <2>2. Len(X) \in Nat
    BY <1>9
  <2>3. /\ Len(X \o one) = Len(X) + Len(one)
        /\ \A i \in 1..Len(X) : (X \o one)[i] = X[i]
        /\ \A i \in 1..Len(one) : (X \o one)[Len(X) + i] = one[i]
        /\ ToSet(X \o one) = ToSet(X) \union ToSet(one)
    BY <1>2, <1>9, ConcatSeq
  <2>4. (X \o one)[Len(X) + 1] = c
    BY <2>1, <2>3
  <2> QED BY <2>1, <2>2, <2>3, <2>4, <1>8
<1>11. InOrder(X, s.mark) /\ s.mark \in Nat /\ s.seen \in Nat
  BY DEF Sound, X
<1>12. InOrder(Chunks(t), c.last)
  <2>1. \A i \in 1..Len(X) + 1 : i \in 1..Len(X) \/ i = Len(X) + 1
    BY <1>10
  <2>2. \A i \in 1..Len(X) : IsSpan(X[i]) /\ X[i].last <= s.mark
    BY <1>11 DEF InOrder
  <2>3. \A i \in 1..Len(X) : X[i].last \in Nat /\ X[i].last < c.first /\ X[i].last <= c.last
    BY <2>2, <1>11 DEF IsSpan
  <2>4. IsSpan(c) /\ c.last <= c.last
    BY <1>11 DEF IsSpan
  <2>5. \A i \in 1..Len(Chunks(t)) : IsSpan(Chunks(t)[i]) /\ Chunks(t)[i].last <= c.last
    BY <2>1, <2>2, <2>3, <2>4, <1>10
  <2>6. ASSUME NEW i \in 1..Len(Chunks(t)), NEW j \in 1..Len(Chunks(t)), i < j
        PROVE  Chunks(t)[i].last < Chunks(t)[j].first
    <3>1. i \in 1..Len(X)
      BY <2>6, <1>10
    <3>2. CASE j \in 1..Len(X)
      BY <3>1, <3>2, <2>6, <1>10, <1>11 DEF InOrder
    <3>3. CASE j = Len(X) + 1
      BY <3>1, <3>3, <2>3, <1>10
    <3> QED BY <3>2, <3>3, <2>1, <1>10
  <2> QED BY <2>5, <2>6 DEF InOrder
<1>13. Tiers(t, T)
  BY <1>2, <1>4, <1>6 DEF Tiers
<1>14. Sound(t)
  BY <1>4, <1>11, <1>12, <1>13 DEF Sound
<1>15. Said(s) \subseteq Said(t)
  BY <1>10 DEF Said, X
<1>16. s.mark <= t.mark /\ s.seen <= t.seen
  BY <1>4, <1>11
<1>17. Len(t.l1) = Len(s.l1) + 1 /\ Len(s.l1) \in Nat
  BY <1>2, <1>4, <1>6 DEF l1
<1> QED BY <1>4, <1>14, <1>15, <1>16, <1>17 DEF Continues

\* So does moving the watermark or the position forward.
LEMMA SameChunksAreSound ==
    ASSUME NEW s, Sound(s), NEW t, Fields(t),
           t.l1 = s.l1, t.l2 = s.l2, t.l3 = s.l3, t.anchor \in Seq(Int),
           t.mark \in Nat, t.seen \in Nat, s.mark <= t.mark, s.seen <= t.seen,
           t.mark <= t.seen
    PROVE  Continues(s, t)
<1>1. Chunks(t) = Chunks(s)
  BY DEF Chunks
<1>2. \E S : Tiers(t, S)
  BY DEF Sound, Tiers
<1>3. \A i \in 1..Len(Chunks(s)) : Chunks(s)[i].last \in Nat /\ Chunks(s)[i].last <= t.mark
  BY DEF Sound, InOrder, IsSpan
<1>4. InOrder(Chunks(t), t.mark)
  BY <1>1, <1>3 DEF Sound, InOrder
<1>5. Said(s) \subseteq Said(t)
  BY <1>1 DEF Said
<1> QED BY <1>2, <1>4, <1>5 DEF Continues, Sound

\* What a turn of the client is: never what the record has for none.
Turn == Int \ {Unknown}

LEMMA TurnsAreInts == Seq(Turn) \subseteq Seq(Int)
<1>1. Turn \subseteq Int
  BY DEF Turn
<1> QED BY <1>1, SeqMonotonic

\* No alignment of the anchor yields fewer than no new turns.
LEMMA CandidatesAreNat ==
    ASSUME NEW anchor \in Seq(Int), NEW seen \in Seq(Int)
    PROVE  AlignCandidates(anchor, seen) \in SUBSET Nat
<1> DEFINE Ends(m) == {j \in m..Len(seen) : SubSeq(seen, j - m + 1, j) = SubSeq(anchor, 1, m)}
           New(m, j) == Largest({0, Len(seen) - j - (Len(anchor) - m)})
<1>1. ASSUME NEW m \in DOMAIN anchor, NEW j \in Ends(m) PROVE New(m, j) \in Nat
  <2> DEFINE n == Len(seen) - j - (Len(anchor) - m)
  <2>1. n \in Int
    OBVIOUS
  <2> HIDE DEF n
  <2>2. \A b \in Int : Largest({0, b}) \in Nat
    <3> TAKE b \in Int
    <3>1. 0 \in Int
      OBVIOUS
    <3>2. Largest({0, b}) \in {0, b} /\ 0 <= Largest({0, b})
      BY ONLY <3>1, LargestOfTwo
    <3> QED BY <3>2
  <2>3. Largest({0, n}) \in Nat
    BY <2>1, <2>2
  <2> QED BY <2>3 DEF n
<1> HIDE DEF Ends, New
<1>2. UNION {{New(m, j) : j \in Ends(m)} : m \in DOMAIN anchor} \subseteq Nat
  BY <1>1
<1> QED BY <1>2 DEF AlignCandidates, Ends, New

\* Nor does the count of new turns that is settled on.
LEMMA NewTurnsAreNat ==
    ASSUME NEW s, s.anchor \in Seq(Int), NEW seen \in Seq(Int)
    PROVE  NewTurns(s, seen) \in Nat
<1> DEFINE new == AlignCandidates(s.anchor, seen)
           moved == 0 \in new /\ new # {0}
                    /\ ~((Len(seen) = s.width /\ seen[1] = s.head) /\ ~(Len(seen) < Recorded(s)))
<1>1. new \in SUBSET Nat
  BY CandidatesAreNat
<1> HIDE DEF new
<1>2. CASE s.anchor = <<>>
  BY <1>2 DEF NewTurns, AssumedNewTurns
<1>3. CASE s.anchor # <<>> /\ new = {}
  BY <1>3 DEF NewTurns, AssumedNewTurns, new
<1>4. CASE s.anchor # <<>> /\ new # {} /\ moved
  <2>1. NewTurns(s, seen) = Smallest(new \ {0})
    BY <1>4 DEF NewTurns, new
  <2>2. new \ {0} \in SUBSET Nat /\ new \ {0} # {}
    BY <1>1, <1>4
  <2> QED BY <2>1, <2>2, SmallestOf
<1>5. CASE s.anchor # <<>> /\ new # {} /\ ~moved
  <2>1. NewTurns(s, seen) = Smallest(new)
    BY <1>5 DEF NewTurns, new
  <2> QED BY <2>1, <1>1, <1>5, SmallestOf
<1> QED BY <1>2, <1>3, <1>4, <1>5

\* The last entries of a sequence are a sequence, and not an empty one without
\* need.
LEMMA LastOfSeq ==
    ASSUME NEW n \in Nat \ {0}, NEW S, NEW s \in Seq(S)
    PROVE  /\ LastOf(n, s) \in Seq(S)
           /\ LastOf(n, s) = s \/ Len(LastOf(n, s)) = n
           /\ s # <<>> => LastOf(n, s) # <<>>
<1>1. CASE Len(s) <= n
  BY <1>1 DEF LastOf
<1>2. CASE ~(Len(s) <= n)
  <2>1. LastOf(n, s) = SubSeq(s, Len(s) - n + 1, Len(s))
    BY <1>2 DEF LastOf
  <2>2. /\ Len(s) - n + 1 \in 1..Len(s) /\ Len(s) \in Nat
        /\ Len(s) - (Len(s) - n + 1) + 1 = n
    BY <1>2
  <2> DEFINE from == Len(s) - n + 1  part == SubSeq(s, from, Len(s))
  <2>3. part \in Seq(S)
    BY <2>2, SubSeqProperties
  <2>4. Len(part) = n
    BY <2>2, SubSeqProperties
  <2>5. part # <<>>
    <3> HIDE DEF part
    <3> QED BY <2>4
  <2> QED BY <2>1, <2>3, <2>4, <2>5
<1>3. Len(s) \in Nat
  OBVIOUS
<1> QED BY <1>1, <1>2

\* Observing a window (_observed_position) leaves a sound state whose position
\* is past the window and not before the old one.
LEMMA ObservingIsSound ==
    ASSUME NEW s, Sound(s), NEW turns \in Seq(Turn)
    PROVE  /\ Continues(s, Observe(s, turns))
           /\ Observe(s, turns).l2 = s.l2
           /\ Len(turns) <= Observe(s, turns).seen
<1> DEFINE seen == ShownAll(turns)
           t == Observe(s, turns)
           n == Len(seen)
           k == Recorded(s) + NewTurns(s, seen)
<1>1. seen \in Seq(Int) /\ Len(seen) = Len(turns) /\ Len(turns) \in Nat
  <2>1. \A i \in DOMAIN turns : Shown(turns[i]) \in Int
    BY DEF Shown, Placeholder, Turn
  <2>2. Len(turns) \in Nat /\ DOMAIN turns = 1..Len(turns)
    OBVIOUS
  <2> QED BY <2>1, <2>2 DEF ShownAll
<1>2. k \in Nat /\ s.seen <= k /\ s.seen \in Nat /\ s.mark \in Nat /\ s.mark <= s.seen
  <2>1. Recorded(s) = s.seen /\ NewTurns(s, seen) \in Nat
    BY <1>1, HighestBelowMark, NewTurnsAreNat DEF Sound
  <2> QED BY <2>1 DEF Sound
<1>3. LastOf(AnchorTurns, seen) \in Seq(Int)
  BY <1>1, LastOfSeq, HierarchyAssumption
<1>4. /\ t.l1 = s.l1 /\ t.l2 = s.l2 /\ t.l3 = s.l3 /\ t.mark = s.mark /\ Fields(t)
      /\ t.seen = Largest({n, k}) /\ t.anchor = LastOf(AnchorTurns, seen)
  <2> DEFINE reached == Largest({n, k})  last == LastOf(AnchorTurns, seen)
             begins == seen[1]
  <2>1. t = [s EXCEPT !.seen = reached, !.anchor = last, !.head = begins, !.width = n]
    BY DEF Observe
  <2> HIDE DEF t, n, k, seen, reached, last, begins
  <2>2. /\ t.l1 = s.l1 /\ t.l2 = s.l2 /\ t.l3 = s.l3 /\ t.mark = s.mark /\ Fields(t)
        /\ t.seen = reached /\ t.anchor = last
    BY <2>1 DEF Sound, Fields
  <2> QED BY <2>2 DEF reached, last
<1> HIDE DEF t, n, k, seen
<1>5. n \in Nat /\ n = Len(turns)
  BY <1>1 DEF n
<1>6. Largest({n, k}) \in {n, k} /\ n <= Largest({n, k}) /\ k <= Largest({n, k})
  <2>1. n \in Int /\ k \in Int
    BY <1>2, <1>5
  <2> QED BY ONLY <2>1, LargestOfTwo
<1>7. t.seen \in Nat /\ s.seen <= t.seen /\ n <= t.seen /\ t.mark <= t.seen
  BY <1>2, <1>4, <1>5, <1>6
<1>8. Continues(s, t)
  BY <1>2, <1>3, <1>4, <1>7, SameChunksAreSound
<1> QED BY <1>4, <1>5, <1>7, <1>8 DEF t

\* The windows that wait for a pass: an answered one has the request and the
\* reply.
Queued == {w \in [kind : {"answered", "tail", "backfill"}, turns : Seq(Turn)] :
              w.kind = "answered" => Len(w.turns) > 1}

\* The rows of the episodic index, whose slots only grow.
Rows == [slot : Nat, user : Turn, reply : Turn]

Growing(rows) == \A i, j \in 1..Len(rows) : i < j => rows[i].slot < rows[j].slot

\* The stories alternate: a request is of odd length, hence never empty after
\* the history-cap filter.
ClientInv ==
    /\ story \in Seq(Turn) /\ Len(story) % 2 = 0
    /\ written \in Nat
    /\ indexed \in Seq(Rows) /\ Growing(indexed)
    /\ waiting \in Seq(Queued)

\* An administrator's compact that is under way has a transcript.
CompactInv ==
    \/ compact = Idle
    \/ /\ compact = [kind |-> compact.kind, turns |-> compact.turns, mark |-> compact.mark,
                     calls |-> compact.calls, passes |-> compact.passes]
       /\ compact.turns \in Seq(Turn)

\* What holds of the pass under the lock: its state goes on from the stored
\* one, which no one else changes meanwhile.
PassInv ==
    /\ pass = [kind |-> pass.kind, turns |-> pass.turns, state |-> pass.state,
               patch |-> pass.patch, calls |-> pass.calls, tried |-> pass.tried]
    /\ pass.turns \in Seq(Turn) /\ Len(pass.turns) <= Mem.seen
    /\ Sound(Mem)
    /\ disk.mark <= Mem.mark /\ disk.seen <= Mem.seen
    /\ Said(disk) \subseteq Said(Mem)
    /\ ToSet(disk.l2) \subseteq archive \union ToSet(Mem.l2)
    /\ pass.tried \subseteq {"l3", "l2"}
    /\ pass.kind = "compact" => compact # Idle

\* The inductive invariant.
IInv ==
    /\ Sound(disk)
    /\ ClientInv
    /\ CompactInv
    /\ pass # Idle => PassInv

\* The history-cap filter leaves at least the request
\* (conversation_id_header.py).
LEMMA WindowSeq ==
    ASSUME NEW turns \in Seq(Turn), Len(turns) % 2 = 1
    PROVE  Window(turns) \in Seq(Turn) /\ Len(Window(turns)) \in Nat \ {0}
<1> DEFINE kept == LastOf(Cap, turns)
<1>1. Len(turns) \in Nat \ {0} /\ turns # <<>> /\ Cap \in Nat \ {0}
  BY HierarchyAssumption
<1>2. kept \in Seq(Turn) /\ kept # <<>>
  BY <1>1, LastOfSeq
<1> HIDE DEF kept
<1>3. Len(kept) \in Nat \ {0}
  BY <1>2, EmptySeq, LenProperties
<1>4. CASE Len(kept) % 2 = Len(turns) % 2
  BY <1>2, <1>3, <1>4 DEF Window, kept
<1>5. CASE Len(kept) % 2 # Len(turns) % 2
  <2>1. Window(turns) = Tail(kept)
    BY <1>5 DEF Window, kept
  <2>2. Len(kept) # 1
    <3>1. 1 % 2 = 1
      OBVIOUS
    <3> QED BY <3>1, <1>5
  <2>3. Tail(kept) \in Seq(Turn) /\ Len(Tail(kept)) = Len(kept) - 1
    BY <1>2
  <2> QED BY <2>1, <2>2, <2>3, <1>3
<1> QED BY <1>4, <1>5

\* What a request and its reply queue keeps the queue well formed.
LEMMA QueueingKeepsWaiting ==
    ASSUME waiting \in Seq(Queued), NEW asked \in Seq(Turn), Len(asked) \in Nat \ {0},
           NEW reply \in Turn, NEW remembered, NEW changes,
           RollupsQueued(asked, reply, remembered, changes)
    PROVE  waiting' \in Seq(Queued)
<1> DEFINE first == [kind |-> "backfill", turns |-> asked]
           answered == [kind |-> "answered", turns |-> Append(asked, reply)]
           alone == [kind |-> "tail", turns |-> asked]
           second == IF remembered THEN <<answered>>
                     ELSE IF Len(asked) > 1 THEN <<alone>> ELSE <<>>
<1>1. first \in Queued /\ alone \in Queued
  BY DEF Queued
<1>2. answered \in Queued
  <2>1. Append(asked, reply) \in Seq(Turn) /\ Len(Append(asked, reply)) = Len(asked) + 1
    OBVIOUS
  <2> QED BY <2>1 DEF Queued
<1>3. PICK b \in {<<>>, <<first>>}, t \in {<<>>, second} : waiting' = waiting \o b \o t
  BY DEF RollupsQueued
<1> HIDE DEF first, answered, alone
<1>4. <<first>> \in Seq(Queued) /\ <<answered>> \in Seq(Queued) /\ <<alone>> \in Seq(Queued)
      /\ <<>> \in Seq(Queued)
  BY <1>1, <1>2
<1>5. second \in Seq(Queued)
  BY <1>4
<1> HIDE DEF second
<1>6. b \in Seq(Queued) /\ t \in Seq(Queued)
  BY <1>3, <1>4, <1>5
<1>7. waiting \o b \in Seq(Queued)
  BY <1>6
<1> QED BY <1>3, <1>6, <1>7, ConcatSeq

\* A new row comes after every row (_next_turn_index).
LEMMA SlotGrows ==
    ASSUME NEW asks \in Nat, indexed \in Seq(Rows), Growing(indexed)
    PROVE  /\ Slot(asks) \in Nat
           /\ \A i \in 1..Len(indexed) : indexed[i].slot < Slot(asks)
<1> DEFINE slots == {r.slot + 2 : r \in ToSet(indexed)}
           n == Len(indexed)
<1>1. n \in Nat /\ DOMAIN indexed = 1..n
  OBVIOUS
<1>2. \A i \in 1..n : indexed[i].slot \in Nat
  <2>1. \A i \in 1..n : indexed[i] \in Rows
    OBVIOUS
  <2>2. \A r \in Rows : r.slot \in Nat
    BY DEF Rows
  <2> QED BY <2>1, <2>2
<1>3. slots = {indexed[i].slot + 2 : i \in 1..n}
  BY <1>1 DEF ToSet
<1>4. \A i, j \in 1..n : i < j => indexed[i].slot < indexed[j].slot
  BY DEF Growing
<1> HIDE DEF n
<1>5. \A i \in 1..n : indexed[i].slot <= indexed[n].slot /\ n \in 1..n
  <2> TAKE i \in 1..n
  <2>1. n \in 1..n /\ (i = n \/ i < n)
    BY <1>1
  <2> QED BY <2>1, <1>2, <1>4
<1> DEFINE all == {asks + 1} \union slots
<1> HIDE DEF slots
<1>6. all \in SUBSET Int
  BY <1>2, <1>3
<1>7. CASE n = 0
  <2>1. slots = {}
    BY <1>3, <1>7
  <2>2. all = {asks + 1}
    BY <2>1
  <2> DEFINE k == asks + 1
  <2>3. k \in Nat
    OBVIOUS
  <2>4. k \in all /\ \A j \in all : j <= k
    BY <2>2
  <2> HIDE DEF k, all
  <2>5. Largest(all) = k
    BY <2>3, <2>4, <1>6, LargestIs
  <2>7. Slot(asks) = k
    BY <2>5 DEF Slot, slots, all
  <2>6. 1..Len(indexed) = {}
    BY <1>7 DEF n
  <2> QED BY <2>3, <2>7, <2>6
<1>8. CASE n # 0
  <2> DEFINE last == indexed[n].slot + 2
             top == IF asks + 1 <= last THEN last ELSE asks + 1
  <2>1. n \in 1..n
    BY <1>1, <1>8
  <2>2. last \in Nat /\ last \in slots
    BY <2>1, <1>2, <1>3
  <2>3. \A i \in 1..n : indexed[i].slot + 2 <= last /\ indexed[i].slot < last
    <3> TAKE i \in 1..n
    <3>1. indexed[i].slot \in Nat /\ indexed[n].slot \in Nat /\ indexed[i].slot <= indexed[n].slot
      BY <2>1, <1>2, <1>5
    <3>2. ASSUME NEW a \in Nat, NEW b \in Nat, a <= b PROVE a + 2 <= b + 2 /\ a < b + 2
      BY <3>2
    <3> QED BY <3>1, <3>2
  <2>4. \A k \in slots : k <= last
    BY <2>3, <1>3
  <2> HIDE DEF last
  <2>5. top \in Nat /\ last <= top /\ asks + 1 <= top /\ top \in all
    BY <2>2
  <2>6. \A k \in slots : k \in Int
    BY <1>2, <1>3
  <2>7. \A k \in all : k <= top
    BY <2>2, <2>4, <2>5, <2>6
  <2> HIDE DEF top
  <2>8. Largest(all) = top
    BY <2>5, <2>7, <1>6, LargestIs
  <2>9. \A i \in 1..n : indexed[i].slot < top
    BY <2>2, <2>3, <2>5, <1>2
  <2> QED BY <2>5, <2>8, <2>9 DEF Slot, n, slots
<1> QED BY <1>7, <1>8

\* The transcript rebuilt from the rows is a sequence of turns
\* (_rebuild_transcript_by_slot).
LEMMA RebuiltSeq ==
    ASSUME indexed \in Seq(Rows), Growing(indexed), indexed # <<>>
    PROVE  Rebuilt(indexed) \in Seq(Turn)
<1> DEFINE At(r) == r.slot - indexed[1].slot
           Pairs(n) == {<<r.user, r.reply>> : r \in {r \in ToSet(indexed) : At(r) = n}}
           PairAt(n) == IF Pairs(n) = {} THEN Gap ELSE CHOOSE p \in Pairs(n) : TRUE
           n == Len(indexed)
<1>1. n \in Nat \ {0} /\ DOMAIN indexed = 1..n /\ Last(indexed) = indexed[n]
  BY EmptySeq, LenProperties DEF Last
<1>2. \A i \in 1..n : indexed[i] \in Rows
  BY <1>1
<1>3. indexed[n].slot \in Nat /\ indexed[1].slot \in Nat /\ indexed[1].slot <= indexed[n].slot
  <2>1. 1 \in 1..n /\ n \in 1..n /\ (n = 1 \/ 1 < n)
    BY <1>1
  <2>2. \A r \in Rows : r.slot \in Nat
    BY DEF Rows
  <2>3. indexed[n].slot \in Nat /\ indexed[1].slot \in Nat
    BY <2>1, <2>2, <1>2
  <2>4. 1 < n => indexed[1].slot < indexed[n].slot
    BY <2>1 DEF Growing
  <2> QED BY <2>1, <2>3, <2>4
<1>4. At(Last(indexed)) + 2 \in Nat
  BY <1>1, <1>3
<1>5. \A k : PairAt(k) \in Turn \X Turn
  <2> TAKE k
  <2>1. Pairs(k) \subseteq Turn \X Turn
    BY <1>1, <1>2 DEF ToSet, Rows
  <2>2. Gap \in Turn \X Turn
    BY DEF Gap, Turn, Unknown
  <2> HIDE DEF Pairs
  <2> QED BY <2>1, <2>2
<1>6. \A k : PairAt(k)[1] \in Turn /\ PairAt(k)[2] \in Turn
  <2>1. \A p \in Turn \X Turn : p[1] \in Turn /\ p[2] \in Turn
    OBVIOUS
  <2> HIDE DEF PairAt
  <2> QED BY <2>1, <1>5
<1> DEFINE N == At(Last(indexed)) + 2
<1> HIDE DEF PairAt, N
<1>7. [k \in 1..N |-> IF k % 2 = 1 THEN PairAt(k - 1)[1] ELSE PairAt(k - 2)[2]] \in Seq(Turn)
  BY <1>4, <1>6 DEF N
<1> QED BY <1>7 DEF Rebuilt, PairAt, N

\* A step that leaves the stored state, the pass and the compact alone keeps
\* the invariant if it keeps the client's part of it.
LEMMA ClientFrame ==
    ASSUME IInv, ClientInv', UNCHANGED <<disk, archive, pass, compact>>
    PROVE  IInv'
<1>1. Sound(disk)'
  BY DEF IInv
<1>2. CompactInv'
  BY DEF IInv, CompactInv
<1>3. (pass # Idle => PassInv)'
  BY DEF IInv, PassInv, Mem
<1> QED BY <1>1, <1>2, <1>3 DEF IInv

\* An answered request keeps the invariant.
LEMMA AnswersKeepsInv ==
    ASSUME IInv, NEW turns \in Seq(Turn), Len(turns) % 2 = 1, NEW reply \in Turn, NEW changes,
           Answers(turns, reply, changes), written' \in Nat
    PROVE  IInv'
<1>1. waiting' \in Seq(Queued)
  <2>1. Window(turns) \in Seq(Turn) /\ Len(Window(turns)) \in Nat \ {0}
    BY WindowSeq
  <2> DEFINE asked == Window(turns)  remembered == reply > 0
  <2>2. RollupsQueued(asked, reply, remembered, changes)
    BY DEF Answers
  <2>3. asked \in Seq(Turn) /\ Len(asked) \in Nat \ {0} /\ waiting \in Seq(Queued)
    BY <2>1 DEF IInv, ClientInv
  <2> HIDE DEF asked, remembered
  <2> QED BY <2>2, <2>3, QueueingKeepsWaiting
<1>2. story' \in Seq(Turn) /\ Len(story') % 2 = 0
  <2>1. story' = Append(turns, reply)
    BY DEF Answers
  <2>2. Append(turns, reply) \in Seq(Turn) /\ Len(Append(turns, reply)) = Len(turns) + 1
        /\ Len(turns) \in Nat
    OBVIOUS
  <2>3. \A n \in Nat : n % 2 = 1 => (n + 1) % 2 = 0
    OBVIOUS
  <2> QED BY <2>1, <2>2, <2>3
<1>3. UNCHANGED <<disk, archive, indexed, pass, compact>>
  BY DEF Answers
<1>4. indexed' \in Seq(Rows) /\ Growing(indexed')
  BY <1>3 DEF IInv, ClientInv
<1>5. ClientInv'
  BY <1>1, <1>2, <1>4 DEF ClientInv
<1> QED BY <1>3, <1>5, ClientFrame

\* So does all the user does: exchanges, regenerations, deletions and edits.
LEMMA UserKeepsInv ==
    ASSUME IInv, UserNext
    PROVE  IInv'
<1>1. /\ story \in Seq(Turn) /\ Len(story) % 2 = 0 /\ written \in Nat /\ Len(story) \in Nat
      /\ indexed \in Seq(Rows) /\ Growing(indexed) /\ waiting \in Seq(Queued)
  BY LenProperties DEF IInv, ClientInv
<1>2. \A n \in Nat : /\ n % 2 = 0 => (n + 1) % 2 = 1
                     /\ n % 2 = 0 /\ n > 1 => (n - 1) % 2 = 1 /\ (n - 2) % 2 = 0 /\ n - 2 \in Nat
  OBVIOUS
<1>3. \A t \in Turn : Append(story, t) \in Seq(Turn) /\ Len(Append(story, t)) % 2 = 1
  BY <1>1, <1>2
<1>4. \A n \in Nat : Fresh(n) \in Turn /\ -Fresh(n) \in Turn
  BY DEF Fresh, Turn, Unknown
<1>5. CASE Exchange
  <2>1. written + 2 \in Nat /\ written + 1 \in Nat /\ Echo \in Turn
    BY <1>1 DEF Echo, Turn, Unknown
  <2>2. CASE /\ written' = written + 2
             /\ \E reply \in {Fresh(written + 2), -Fresh(written + 2)} :
                   Answers(Append(story, Fresh(written + 1)), reply, 0)
    BY <2>1, <2>2, <1>3, <1>4, AnswersKeepsInv
  <2>3. CASE /\ written' = written + 1
             /\ \E reply \in {Fresh(written + 1), -Fresh(written + 1)} :
                   Answers(Append(story, Echo), reply, 0)
    BY <2>1, <2>3, <1>3, <1>4, AnswersKeepsInv
  <2> QED BY <2>2, <2>3, <1>5 DEF Exchange
<1>6. CASE Regenerate
  <2>1. /\ Len(story) > 1 /\ written' = written + 1
        /\ Answers(Front(story), Fresh(written + 1), 1)
    BY <1>6 DEF Regenerate
  <2>2. Front(story) \in Seq(Turn) /\ Len(Front(story)) = Len(story) - 1
    <3> DEFINE n == Len(story) - 1
    <3>1. n \in Nat /\ 1 <= n /\ \A i \in 1..n : i \in 1..Len(story)
      <4>1. ASSUME NEW l \in Nat, l > 1
            PROVE  l - 1 \in Nat /\ 1 <= l - 1 /\ \A i \in 1..l - 1 : i \in 1..l
        BY <4>1
      <4> QED BY <4>1, <1>1, <2>1
    <3>2. \A i \in 1..n : story[i] \in Turn
      BY <3>1, <1>1, ElementOfSeq
    <3> HIDE DEF n
    <3>3. SubSeq(story, 1, n) \in Seq(Turn) /\ Len(SubSeq(story, 1, n)) = n
      BY <3>1, <3>2, SubSeqProperties
    <3> QED BY <3>3 DEF Front, n
  <2>3. Len(Front(story)) % 2 = 1
    BY <1>1, <1>2, <2>1, <2>2
  <2>4. written + 1 \in Nat
    BY <1>1
  <2> QED BY <2>1, <2>2, <2>3, <2>4, <1>4, AnswersKeepsInv
<1>7. CASE DeleteExchange
  <2>1. Len(story) > 1 /\ story' = SubSeq(story, 1, Len(story) - 2)
    BY <1>7 DEF DeleteExchange
  <2>2. Len(story) - 2 \in Nat /\ (Len(story) - 2) % 2 = 0
    BY <1>1, <1>2, <2>1
  <2>3. story' \in Seq(Turn) /\ Len(story') = Len(story) - 2
    <3> DEFINE n == Len(story) - 2
    <3>1. n \in Nat /\ \A i \in 1..n : i \in 1..Len(story)
      <4>1. ASSUME NEW l \in Nat, l - 2 \in Nat PROVE \A i \in 1..l - 2 : i \in 1..l
        BY <4>1
      <4> QED BY <4>1, <1>1, <2>2
    <3>2. \A i \in 1..n : story[i] \in Turn
      BY <3>1, <1>1, ElementOfSeq
    <3> HIDE DEF n
    <3>3. SubSeq(story, 1, n) \in Seq(Turn) /\ Len(SubSeq(story, 1, n)) = n
      BY <3>1, <3>2, SubSeqProperties
    <3> QED BY <3>3, <2>1 DEF n
  <2>4. UNCHANGED <<disk, archive, written, indexed, waiting, pass, compact>>
    BY <1>7 DEF DeleteExchange
  <2>5. ClientInv'
    BY <1>1, <2>2, <2>3, <2>4 DEF ClientInv
  <2> QED BY <2>4, <2>5, ClientFrame
<1>8. CASE EditTurn
  <2>1. PICK i \in DOMAIN story : story' = [story EXCEPT ![i] = Fresh(written + 1)]
    BY <1>8 DEF EditTurn
  <2>2. story' \in Seq(Turn) /\ Len(story') = Len(story)
    <3> DEFINE v == Fresh(written + 1)
    <3>1. v \in Turn
      BY <1>1, <1>4
    <3> HIDE DEF v
    <3>2. story' = [story EXCEPT ![i] = v]
      BY <2>1 DEF v
    <3>3. story \in Seq(Turn) /\ i \in 1..Len(story)
      BY <1>1
    <3> QED BY ONLY <3>1, <3>2, <3>3, ExceptSeq
  <2>3. /\ UNCHANGED <<disk, archive, indexed, waiting, pass, compact>>
        /\ written' = written + 1
    BY <1>8 DEF EditTurn
  <2>4. ClientInv'
    BY <1>1, <2>2, <2>3 DEF ClientInv
  <2> QED BY <2>3, <2>4, ClientFrame
<1> QED BY <1>5, <1>6, <1>7, <1>8 DEF UserNext

\* So does the row that a tail writes.
LEMMA IndexingKeepsInv ==
    ASSUME IInv, Indexes
    PROVE  IInv'
<1>1. /\ story \in Seq(Turn) /\ Len(story) % 2 = 0 /\ written \in Nat
      /\ indexed \in Seq(Rows) /\ Growing(indexed) /\ waiting \in Seq(Queued)
  BY DEF IInv, ClientInv
<1>2. PICK i \in DOMAIN waiting :
          /\ waiting[i].kind = "answered"
          /\ waiting' = [waiting EXCEPT ![i].kind = "tail"]
          /\ LET turns == waiting[i].turns
                 n == Len(turns)
                 row == [slot |-> Slot(n - 1), user |-> turns[n - 1], reply |-> turns[n]]
             IN indexed' \in {indexed, Append(indexed, row)}
          /\ UNCHANGED <<disk, archive, story, written, pass, compact>>
  BY DEF Indexes
<1> DEFINE w == waiting[i]  turns == w.turns  n == Len(turns)
           row == [slot |-> Slot(n - 1), user |-> turns[n - 1], reply |-> turns[n]]
<1>3. w \in Queued /\ w.kind = "answered"
  BY <1>1, <1>2
<1> HIDE DEF w
<1>4. turns \in Seq(Turn) /\ n \in Nat /\ n > 1 /\ [w EXCEPT !.kind = "tail"] \in Queued
  BY <1>3 DEF Queued
<1>5. waiting' \in Seq(Queued)
  <2>1. waiting' = [waiting EXCEPT ![i] = [w EXCEPT !.kind = "tail"]]
    BY <1>2 DEF w
  <2> QED BY <2>1, <1>1, <1>4
<1>6. n - 1 \in Nat /\ turns[n - 1] \in Turn /\ turns[n] \in Turn
  <2> HIDE DEF turns
  <2> QED BY <1>4
<1>7. /\ Slot(n - 1) \in Nat
      /\ \A j \in 1..Len(indexed) : indexed[j].slot < Slot(n - 1)
  BY <1>1, <1>6, SlotGrows
<1>8. row \in Rows /\ row.slot = Slot(n - 1)
  BY <1>6, <1>7 DEF Rows
<1>9. indexed' = indexed \/ indexed' = Append(indexed, row)
  BY <1>2 DEF w
<1> HIDE DEF row, n, turns
<1>10. indexed' \in Seq(Rows) /\ Growing(indexed')
  <2>1. CASE indexed' = indexed
    BY <1>1, <2>1 DEF Growing
  <2>2. CASE indexed' = Append(indexed, row)
    <3> DEFINE k == Len(indexed)
    <3>1. /\ indexed' \in Seq(Rows) /\ Len(indexed') = k + 1 /\ k \in Nat
          /\ \A j \in 1..k : indexed'[j] = indexed[j]
          /\ indexed'[k + 1] = row
      BY <1>1, <1>8, <2>2, AppendProperties
    <3>2. \A a, b \in 1..k : a < b => indexed[a].slot < indexed[b].slot
      BY <1>1 DEF Growing
    <3>3. \A a \in 1..k : indexed[a].slot < row.slot
      BY <1>7, <1>8
    <3> HIDE DEF k
    <3>4. \A a, b \in 1..k + 1 : a < b => a \in 1..k /\ (b \in 1..k \/ b = k + 1)
      BY <3>1
    <3>5. \A a, b \in 1..k + 1 : a < b => indexed'[a].slot < indexed'[b].slot
      BY <3>1, <3>2, <3>3, <3>4
    <3> QED BY <3>1, <3>5 DEF Growing
  <2> QED BY <2>1, <2>2, <1>9
<1>11. ClientInv'
  BY <1>1, <1>2, <1>5, <1>10 DEF ClientInv
<1> QED BY <1>2, <1>11, ClientFrame

\* A pass starts with a sound state that goes on from the stored one.
LEMMA StartIsSound ==
    ASSUME Sound(disk), NEW kind, NEW turns \in Seq(Turn), NEW calls,
           Start(kind, turns, calls), UNCHANGED <<disk, archive>>,
           kind = "compact" => compact' # Idle
    PROVE  PassInv'
<1> DEFINE t == Observe(disk, turns)
<1>1. PICK patch : pass' = [kind |-> kind, turns |-> turns, state |-> t, patch |-> patch,
                            calls |-> calls, tried |-> {}]
  <2>1. Repair(disk) = disk
    BY HighestBelowMark
  <2> QED BY <2>1, Zenon DEF Start
<1>2. Continues(disk, t) /\ t.l2 = disk.l2 /\ Len(turns) <= t.seen
  BY ObservingIsSound
<1> HIDE DEF t
<1>3. /\ Sound(t) /\ disk.mark <= t.mark /\ disk.seen <= t.seen
      /\ Said(disk) \subseteq Said(t)
  BY <1>2 DEF Continues
<1>4. /\ pass'.kind = kind /\ pass'.turns = turns /\ pass'.state = t
      /\ pass'.tried = {}
      /\ pass' = [kind |-> pass'.kind, turns |-> pass'.turns, state |-> pass'.state,
                  patch |-> pass'.patch, calls |-> pass'.calls, tried |-> pass'.tried]
  BY <1>1
<1>5. Mem' = t
  BY <1>4 DEF Mem
<1> QED BY <1>2, <1>3, <1>4, <1>5 DEF PassInv

\* The start of a pass behind a reply or from the backfill keeps the invariant.
LEMMA PassStartsKeepsInv ==
    ASSUME IInv, PassStarts
    PROVE  IInv'
<1>1. PICK i \in DOMAIN waiting :
          /\ waiting[i].kind # "answered"
          /\ waiting' = RemoveAt(waiting, i)
          /\ IF waiting[i].kind = "backfill" /\ Recorded(disk) > Len(waiting[i].turns)
             THEN UNCHANGED pass
             ELSE Start(waiting[i].kind, waiting[i].turns, TailCalls)
  BY DEF PassStarts
<1>2. UNCHANGED <<disk, archive, client, compact>> /\ pass = Idle
  BY DEF PassStarts
<1>3. waiting \in Seq(Queued)
  BY DEF IInv, ClientInv
<1> DEFINE w == waiting[i]
<1>4. w \in Queued
  BY <1>3
<1> HIDE DEF w
<1>5. w.turns \in Seq(Turn) /\ w.kind # "compact"
  BY <1>4 DEF Queued
<1>6. waiting' \in Seq(Queued)
  <2> DEFINE n == Len(waiting)
             a == SubSeq(waiting, 1, i - 1)  b == SubSeq(waiting, i + 1, n)
  <2>1. n \in Nat /\ i \in 1..n
    BY <1>3
  <2>2. /\ \A k \in 1..i - 1 : waiting[k] \in Queued
        /\ \A k \in i + 1..n : waiting[k] \in Queued
    BY <2>1, <1>3, ElementOfSeq
  <2>3. i - 1 \in Int /\ i + 1 \in Int /\ n \in Int /\ 1 \in Int
    BY <2>1
  <2> HIDE DEF n
  <2>4. a \in Seq(Queued) /\ b \in Seq(Queued)
    BY <2>2, <2>3, SubSeqProperties
  <2>5. waiting' = a \o b
    BY <1>1 DEF RemoveAt, n
  <2> HIDE DEF a, b
  <2> QED BY <2>4, <2>5, ConcatSeq
<1>7. ClientInv'
  BY <1>2, <1>6 DEF IInv, ClientInv, client
<1>8. Sound(disk)' /\ CompactInv'
  BY <1>2 DEF IInv, CompactInv
<1>9. CASE UNCHANGED pass
  BY <1>2, <1>7, <1>8, <1>9 DEF IInv
<1>10. CASE Start(w.kind, w.turns, TailCalls)
  <2>1. PassInv'
    BY <1>2, <1>5, <1>10, StartIsSound DEF IInv
  <2> QED BY <2>1, <1>7, <1>8 DEF IInv
<1> QED BY <1>1, <1>9, <1>10 DEF w

\* So do the steps of the administrator's compact, and they lose nothing
\* stored.
LEMMA CompactKeepsInv ==
    ASSUME IInv, CompactNext
    PROVE  IInv' /\ Continues(disk, disk') /\ disk.l2 = disk'.l2
           /\ archive \subseteq archive' /\ (pass = Idle \/ pass' = pass)
<1>1. Sound(disk) /\ ClientInv /\ CompactInv
  BY DEF IInv
<1>2. ASSUME UNCHANGED disk PROVE Continues(disk, disk') /\ disk.l2 = disk'.l2
  <2>1. disk.mark <= disk.mark /\ disk.seen <= disk.seen
    BY <1>1 DEF Sound
  <2> QED BY <1>1, <1>2, <2>1 DEF Continues
<1>3. CASE CompactChecks
  <2> DEFINE turns == Rebuilt(indexed)
  <2>1. /\ indexed # <<>> /\ UNCHANGED <<disk, archive, client, waiting, pass>>
        /\ compact' = [kind |-> "checked", turns |-> turns, mark |-> 0,
                       calls |-> CompactCalls, passes |-> CompactCalls]
    BY <1>3 DEF CompactChecks
  <2>2. turns \in Seq(Turn)
    BY <1>1, <2>1, RebuiltSeq DEF ClientInv
  <2> HIDE DEF turns
  <2>3. compact' # Idle
    <3>1. compact'.kind = "checked"
      BY <2>1
    <3> QED BY <3>1 DEF Idle
  <2>4. CompactInv'
    BY <2>1, <2>2 DEF CompactInv
  <2>5. ClientInv'
    BY <1>1, <2>1 DEF ClientInv, client
  <2>6. (pass # Idle => PassInv)'
    BY <2>1, <2>3 DEF IInv, PassInv, Mem
  <2> QED BY <1>1, <1>2, <2>1, <2>4, <2>5, <2>6 DEF IInv
<1>4. CASE CompactDropsAnchor
  <2> DEFINE head == IF disk.anchor = <<>> THEN disk.head ELSE Unknown
             width == IF disk.anchor = <<>> THEN disk.width ELSE 0
  <2>1. /\ compact.kind = "checked" /\ pass = Idle
        /\ compact' = [compact EXCEPT !.kind = "draining", !.mark = disk.mark]
        /\ UNCHANGED <<archive, client, waiting, pass, troubles>>
    BY <1>4 DEF CompactDropsAnchor
  <2>2. disk' = [disk EXCEPT !.anchor = <<>>, !.head = head, !.width = width]
    BY <1>4 DEF CompactDropsAnchor
  <2> HIDE DEF head, width
  <2>3. Continues(disk, disk') /\ disk.l2 = disk'.l2
    <3>1. /\ Fields(disk') /\ disk'.l1 = disk.l1 /\ disk'.l2 = disk.l2 /\ disk'.l3 = disk.l3
          /\ disk'.mark = disk.mark /\ disk'.seen = disk.seen /\ disk'.anchor = <<>>
      BY <1>1, <2>2 DEF Sound, Fields
    <3>2. disk.mark \in Nat /\ disk.seen \in Nat /\ disk.mark <= disk.seen /\ <<>> \in Seq(Int)
      BY <1>1 DEF Sound
    <3> DEFINE t == disk'
    <3>3. /\ Fields(t) /\ t.l1 = disk.l1 /\ t.l2 = disk.l2 /\ t.l3 = disk.l3
          /\ t.anchor \in Seq(Int) /\ t.mark \in Nat /\ t.seen \in Nat
          /\ disk.mark <= t.mark /\ disk.seen <= t.seen /\ t.mark <= t.seen
      BY <3>1, <3>2
    <3> HIDE DEF t
    <3>4. Continues(disk, t)
      BY <1>1, <3>3, SameChunksAreSound
    <3> QED BY <3>1, <3>4 DEF t
  <2>4. compact # Idle
    BY <2>1 DEF Idle
  <2>5. CompactInv'
    BY <1>1, <2>1, <2>4 DEF CompactInv
  <2>6. ClientInv'
    BY <1>1, <2>1 DEF ClientInv, client
  <2> QED BY <2>1, <2>3, <2>5, <2>6 DEF IInv, Continues
<1>5. CASE CompactPassStarts
  <2>1. /\ pass = Idle /\ compact.kind = "draining"
        /\ compact' = [compact EXCEPT !.kind = "passing", !.passes = compact.passes - 1]
        /\ Start("compact", compact.turns, compact.calls)
        /\ UNCHANGED <<disk, archive, client, waiting, troubles>>
    BY <1>5 DEF CompactPassStarts
  <2>2. compact # Idle
    BY <2>1 DEF Idle
  <2>3. CompactInv' /\ compact'.kind = "passing" /\ compact.turns \in Seq(Turn)
    <3> DEFINE left == compact.passes - 1
    <3>1. compact' = [compact EXCEPT !.kind = "passing", !.passes = left]
      BY <2>1
    <3> HIDE DEF left
    <3>2. /\ compact = [kind |-> compact.kind, turns |-> compact.turns, mark |-> compact.mark,
                        calls |-> compact.calls, passes |-> compact.passes]
          /\ compact.turns \in Seq(Turn)
      BY <1>1, <2>2 DEF CompactInv
    <3>3. compact' = [kind |-> "passing", turns |-> compact.turns, mark |-> compact.mark,
                      calls |-> compact.calls, passes |-> left]
      BY <3>1, <3>2
    <3> QED BY <3>2, <3>3 DEF CompactInv
  <2>4. compact' # Idle
    <3>1. compact'.kind = "passing"
      BY <2>3
    <3> QED BY <3>1 DEF Idle
  <2>5. PassInv'
    BY <1>1, <2>1, <2>3, <2>4, StartIsSound
  <2>6. ClientInv'
    BY <1>1, <2>1 DEF ClientInv, client
  <2> QED BY <1>1, <1>2, <2>1, <2>3, <2>5, <2>6 DEF IInv
<1> QED BY <1>3, <1>4, <1>5 DEF CompactNext

\* So does the end of a pass, whether its state is written or not.
LEMMA EndingKeepsInv ==
    ASSUME IInv, PassEnds
    PROVE  /\ IInv' /\ disk.mark <= disk'.mark /\ disk.seen <= disk'.seen
           /\ Said(disk) \subseteq Said(disk')
           /\ ToSet(disk.l2) \subseteq archive' \union ToSet(disk'.l2)
<1>1. /\ pass # Idle /\ pass' = Idle /\ (disk' = Mem \/ disk' = disk)
      /\ UNCHANGED <<archive, client, waiting>>
      /\ compact' = IF pass.kind # "compact" THEN compact
                    ELSE IF disk'.mark > compact.mark /\ pass.calls > 0 /\ compact.passes > 0
                         THEN [compact EXCEPT !.kind = "draining", !.mark = disk'.mark,
                                              !.calls = pass.calls]
                         ELSE Idle
  BY DEF PassEnds
<1>2. PassInv /\ Sound(disk) /\ ClientInv /\ CompactInv
  BY <1>1 DEF IInv
<1>3. CompactInv'
  <2>1. CASE compact' = compact
    BY <1>2, <2>1 DEF CompactInv
  <2>2. CASE compact' = Idle
    BY <2>2 DEF CompactInv
  <2>3. CASE /\ compact # Idle
             /\ compact' = [compact EXCEPT !.kind = "draining", !.mark = disk'.mark,
                                           !.calls = pass.calls]
    BY <1>2, <2>3 DEF CompactInv
  <2> QED BY <1>1, <1>2, <2>1, <2>2, <2>3 DEF PassInv
<1>4. ClientInv'
  BY <1>1, <1>2 DEF ClientInv, client
<1>5. Sound(disk')
  BY <1>1, <1>2 DEF PassInv
<1>6. /\ disk.mark <= disk'.mark /\ disk.seen <= disk'.seen
      /\ Said(disk) \subseteq Said(disk')
      /\ ToSet(disk.l2) \subseteq archive' \union ToSet(disk'.l2)
  BY <1>1, <1>2 DEF PassInv, Sound
<1> QED BY <1>1, <1>3, <1>4, <1>5, <1>6 DEF IInv

\* A step of a pass keeps the invariant if its state goes on from the one
\* before and what leaves the chapters is in the archive.
LEMMA RollKeepsInv ==
    ASSUME IInv, pass # Idle,
           pass' = [kind |-> pass.kind, turns |-> pass.turns, state |-> pass'.state,
                    patch |-> pass'.patch, calls |-> pass'.calls, tried |-> pass'.tried],
           UNCHANGED <<disk, client, waiting, compact>>, archive \subseteq archive',
           Continues(Mem, Mem'), ToSet(Mem.l2) \subseteq archive' \union ToSet(Mem'.l2),
           pass'.tried \subseteq {"l3", "l2"}
    PROVE  IInv'
<1> DEFINE t == Mem'
<1>1. PassInv /\ Sound(disk) /\ ClientInv /\ CompactInv
  BY DEF IInv
<1>2. /\ pass'.kind = pass.kind /\ pass'.turns = pass.turns
      /\ pass' = [kind |-> pass'.kind, turns |-> pass'.turns, state |-> pass'.state,
                  patch |-> pass'.patch, calls |-> pass'.calls, tried |-> pass'.tried]
  OBVIOUS
<1>3. CompactInv' /\ ClientInv' /\ Sound(disk)'
  BY <1>1 DEF CompactInv, ClientInv, client
<1>4. Sound(t) /\ Mem.mark <= t.mark /\ Mem.seen <= t.seen /\ Said(Mem) \subseteq Said(t)
  BY DEF Continues
<1>5. /\ pass.turns \in Seq(Turn) /\ Len(pass.turns) <= Mem.seen
      /\ disk.mark <= Mem.mark /\ disk.seen <= Mem.seen
      /\ Said(disk) \subseteq Said(Mem)
      /\ ToSet(disk.l2) \subseteq archive \union ToSet(Mem.l2)
      /\ pass.kind = "compact" => compact # Idle
  BY <1>1 DEF PassInv
<1>6. /\ Mem.mark \in Nat /\ Mem.seen \in Nat /\ disk.mark \in Nat /\ disk.seen \in Nat
      /\ t.mark \in Nat /\ t.seen \in Nat
  BY <1>1, <1>4 DEF PassInv, Sound
<1>7. Len(pass.turns) <= t.seen /\ disk.mark <= t.mark /\ disk.seen <= t.seen
  <2>1. Len(pass.turns) \in Nat
    BY <1>5
  <2> DEFINE n == Len(pass.turns)  m == Mem.mark  k == Mem.seen
             m0 == disk.mark  k0 == disk.seen  m1 == t.mark  k1 == t.seen
  <2>2. /\ n \in Nat /\ m \in Nat /\ k \in Nat /\ m0 \in Nat /\ k0 \in Nat
        /\ m1 \in Nat /\ k1 \in Nat
        /\ n <= k /\ m0 <= m /\ k0 <= k /\ m <= m1 /\ k <= k1
    BY <2>1, <1>4, <1>5, <1>6
  <2> HIDE DEF n, m, k, m0, k0, m1, k1
  <2>3. n <= k1 /\ m0 <= m1 /\ k0 <= k1
    BY ONLY <2>2
  <2> QED BY <2>3 DEF n, m0, k0, m1, k1
<1>8. /\ Said(disk) \subseteq Said(t)
      /\ ToSet(disk.l2) \subseteq archive' \union ToSet(t.l2)
  BY <1>4, <1>5
<1>9. UNCHANGED <<disk, compact>>
  OBVIOUS
<1>10. PassInv'
  BY <1>2, <1>4, <1>5, <1>7, <1>8, <1>9 DEF PassInv
<1> QED BY <1>3, <1>10 DEF IInv

\* A tier that failed is not tried again: fewer are left.
LEMMA TiersUntried ==
    ASSUME NEW tried \in SUBSET {"l3", "l2"}, NEW tier \in {"l3", "l2"}
    PROVE  LET Left(set) == Cardinality({"l3", "l2"} \ set)
               more == tried \union {tier}
           IN /\ Left(tried) \in Nat /\ Left(more) \in Nat
              /\ Left(more) <= Left(tried)
              /\ tier \notin tried => Left(more) < Left(tried)
<1> DEFINE all == {"l3", "l2"}  left == all \ tried  rest == all \ (tried \union {tier})
<1>1. IsFiniteSet(all)
  <2>1. IsFiniteSet({} \union {"l3"})
    BY FS_EmptySet, FS_AddElement
  <2>2. IsFiniteSet(({} \union {"l3"}) \union {"l2"})
    BY <2>1, FS_AddElement
  <2>3. all = ({} \union {"l3"}) \union {"l2"}
    OBVIOUS
  <2> QED BY <2>2, <2>3
<1>2. left \in SUBSET all /\ rest \in SUBSET left
  OBVIOUS
<1>3. tier \notin tried => rest # left
  OBVIOUS
<1> HIDE DEF all, left, rest
<1>4. IsFiniteSet(left) /\ IsFiniteSet(rest)
  BY <1>1, <1>2, FS_Subset
<1>5. /\ Cardinality(left) \in Nat /\ Cardinality(rest) \in Nat
      /\ Cardinality(rest) <= Cardinality(left)
      /\ Cardinality(left) = Cardinality(rest) => left = rest
  BY <1>2, <1>4, FS_Subset, FS_CardinalityType
<1> QED BY <1>3, <1>5 DEF all, left, rest

\* A step of a pass leaves it less to do, and takes back nothing said.
Advances == ToDo(pass') \in Nat /\ ToDo(pass') < ToDo(pass)
Keeps == Said(Mem) \subseteq Said(Mem')

\* The types of what a pass computes with.
LEMMA PassFacts ==
    ASSUME IInv, pass # Idle
    PROVE  /\ PassInv /\ Sound(Mem)
           /\ Mem.mark \in Nat /\ Mem.seen \in Nat /\ Mem.mark <= Mem.seen
           /\ Len(pass.turns) \in Nat /\ Offset \in Nat /\ Offset <= Mem.seen
           /\ Len(Mem.l1) \in Nat /\ Len(Mem.l2) \in Nat
           /\ pass.tried \in SUBSET {"l3", "l2"}
           /\ Cardinality({"l3", "l2"} \ pass.tried) \in Nat
<1>1. PassInv
  BY DEF IInv
<1>2. Sound(Mem) /\ pass.turns \in Seq(Turn) /\ Len(pass.turns) <= Mem.seen
      /\ pass.tried \in SUBSET {"l3", "l2"}
  BY <1>1 DEF PassInv
<1>3. Mem.mark \in Nat /\ Mem.seen \in Nat /\ Mem.mark <= Mem.seen
  BY <1>2 DEF Sound
<1>4. Len(pass.turns) \in Nat
  BY <1>2
<1>5. Offset \in Nat /\ Offset <= Mem.seen
  BY <1>2, <1>3, <1>4 DEF Offset
<1>6. PICK S : Tiers(Mem, S)
  BY <1>2 DEF Sound
<1>7. Len(Mem.l1) \in Nat /\ Len(Mem.l2) \in Nat
  <2>1. Mem.l1 \in Seq(S) /\ Mem.l2 \in Seq(S)
    BY <1>6 DEF Tiers
  <2> QED BY <2>1
<1>8. Cardinality({"l3", "l2"} \ pass.tried) \in Nat
  BY <1>2, TiersUntried
<1> QED BY <1>1, <1>2, <1>3, <1>4, <1>5, <1>7, <1>8

\* Telling the story keeps the invariant and leaves less to do, with the
\* chapters in the archive first.
LEMMA RefreshKeepsInv ==
    ASSUME IInv, RefreshesL3
    PROVE  IInv' /\ archive \subseteq archive' /\ Advances /\ Keeps
<1> DEFINE s == Mem
           t == [s EXCEPT !.l3 = <<Story(s.l3, s.l2)>>, !.l2 = <<>>]
           tried == pass.tried \union {"l3"}
           calls == CallsLeft(1 + Len(Mem.l3))
           told == <<Story(Mem.l3, Mem.l2)>>
<1>1. /\ pass # Idle /\ "l3" \notin pass.tried /\ NeedsL3(s)
      /\ archive' = archive \union ToSet(s.l2)
      /\ pass' = [pass EXCEPT !.state.l3 = told, !.state.l2 = <<>>,
                              !.tried = tried, !.calls = calls]
      /\ UNCHANGED <<disk, client, waiting, compact>>
  BY DEF RefreshesL3, Rolls, Begins, DueL3, Archived
<1>2. /\ PassInv /\ Sound(s) /\ s.mark \in Nat /\ s.seen \in Nat /\ s.mark <= s.seen
      /\ pass.tried \in SUBSET {"l3", "l2"}
  BY <1>1, PassFacts
<1>3. /\ Continues(s, t) /\ t.mark = s.mark /\ t.seen = s.seen
      /\ t.l1 = s.l1 /\ Len(t.l2) = 0 /\ Len(s.l2) \in Nat \ {0}
      /\ Len(s.l1) \in Nat
  <2>1. t = Retold(s)
    BY DEF Retold
  <2>2. Sound(s) /\ NeedsL3(s)
    BY <1>1, <1>2
  <2> HIDE DEF s, t
  <2> QED BY ONLY <2>1, <2>2, RefreshIsSound, Zenon
<1>4. pass' = [kind |-> pass.kind, turns |-> pass.turns, state |-> t,
               patch |-> pass.patch, calls |-> calls, tried |-> tried]
  <2>1. pass = [kind |-> pass.kind, turns |-> pass.turns, state |-> pass.state,
                patch |-> pass.patch, calls |-> pass.calls, tried |-> pass.tried]
    BY <1>2 DEF PassInv
  <2> HIDE DEF told, calls, tried
  <2>2. pass' = [kind |-> pass.kind, turns |-> pass.turns,
                 state |-> [pass.state EXCEPT !.l3 = told, !.l2 = <<>>],
                 patch |-> pass.patch, calls |-> calls, tried |-> tried]
    BY <1>1, <2>1
  <2> QED BY <2>2 DEF Mem, told
<1>5. tried \subseteq {"l3", "l2"} /\ archive \subseteq archive'
      /\ ToSet(s.l2) \subseteq archive' \union ToSet(t.l2)
  BY <1>1, <1>2
<1>6. Cardinality({"l3", "l2"} \ tried) \in Nat
      /\ Cardinality({"l3", "l2"} \ tried) <= Cardinality({"l3", "l2"} \ pass.tried)
      /\ Cardinality({"l3", "l2"} \ pass.tried) \in Nat
  BY <1>2, TiersUntried
<1> HIDE DEF t, tried, calls
<1>7. IInv'
  <2>1. Mem' = t /\ pass'.tried = tried
        /\ pass' = [kind |-> pass.kind, turns |-> pass.turns, state |-> pass'.state,
                    patch |-> pass'.patch, calls |-> pass'.calls, tried |-> pass'.tried]
    BY <1>4 DEF Mem
  <2> QED BY <1>1, <1>3, <1>5, <2>1, RollKeepsInv
<1>8. ToDo(pass) = 3 * (s.seen - s.mark) + 2 * Len(s.l1) + Len(s.l2)
                   + Cardinality({"l3", "l2"} \ pass.tried)
  BY DEF ToDo, Mem
<1>9. ToDo(pass') = 3 * (s.seen - s.mark) + 2 * Len(s.l1) + 0
                    + Cardinality({"l3", "l2"} \ tried)
  BY <1>3, <1>4 DEF ToDo
<1>10. Advances
  <2> DEFINE a == s.seen  m == s.mark  n1 == Len(s.l1)  n2 == Len(s.l2)
             c == Cardinality({"l3", "l2"} \ pass.tried)
             d == Cardinality({"l3", "l2"} \ tried)
             before == ToDo(pass)  after == ToDo(pass')
  <2>1. /\ a \in Nat /\ m \in Nat /\ m <= a /\ n1 \in Nat /\ n2 \in Nat \ {0}
        /\ c \in Nat /\ d \in Nat /\ d <= c
    BY <1>2, <1>3, <1>6
  <2>2. /\ before = 3 * (a - m) + 2 * n1 + n2 + c
        /\ after = 3 * (a - m) + 2 * n1 + 0 + d
    BY <1>8, <1>9
  <2> HIDE DEF a, m, n1, n2, c, d, before, after
  <2>3. after \in Nat /\ after < before
    BY ONLY <2>1, <2>2
  <2> QED BY <2>3 DEF Advances, before, after
<1>11. Keeps
  BY <1>3, <1>4 DEF Keeps, Mem, Continues
<1> QED BY <1>5, <1>7, <1>10, <1>11

\* So does a fold of scenes into a chapter.
LEMMA FoldKeepsInv ==
    ASSUME IInv, FoldsL2
    PROVE  IInv' /\ archive' = archive /\ Advances /\ Keeps
<1> DEFINE s == Mem
           chapters == Append(s.l2, Merged(SubSeq(s.l1, 1, L2Size)))
           scenes == Unfolded(s.l1)
           t == [s EXCEPT !.l2 = chapters, !.l1 = scenes]
           calls == CallsLeft(1)
<1>1. /\ pass # Idle /\ NeedsL2(s) /\ archive' = archive
      /\ pass' = [pass EXCEPT !.state.l2 = chapters, !.state.l1 = scenes, !.calls = calls]
      /\ UNCHANGED <<disk, client, waiting, compact>>
  BY DEF FoldsL2, Rolls, Begins, DueL2, Mem
<1>2. /\ PassInv /\ Sound(s) /\ s.mark \in Nat /\ s.seen \in Nat /\ s.mark <= s.seen
      /\ pass.tried \in SUBSET {"l3", "l2"}
      /\ Cardinality({"l3", "l2"} \ pass.tried) \in Nat
  BY <1>1, PassFacts
<1>3. /\ Continues(s, t) /\ t.mark = s.mark /\ t.seen = s.seen
      /\ ToSet(s.l2) \subseteq ToSet(t.l2)
      /\ Len(t.l1) = Len(s.l1) - L2Size /\ Len(t.l2) = Len(s.l2) + 1
      /\ Len(t.l1) \in Nat /\ Len(s.l2) \in Nat
  <2>1. t = Folded(s)
    BY DEF Folded
  <2>2. Sound(s) /\ NeedsL2(s)
    BY <1>1, <1>2
  <2> HIDE DEF s, t
  <2> QED BY ONLY <2>1, <2>2, FoldingIsSound, Zenon
<1>4. Len(s.l1) \in Nat /\ L2Size \in Nat \ {0}
  BY <1>1, PassFacts, HierarchyAssumption
<1>5. pass' = [kind |-> pass.kind, turns |-> pass.turns, state |-> t,
               patch |-> pass.patch, calls |-> calls, tried |-> pass.tried]
  <2>1. pass = [kind |-> pass.kind, turns |-> pass.turns, state |-> pass.state,
                patch |-> pass.patch, calls |-> pass.calls, tried |-> pass.tried]
    BY <1>2 DEF PassInv
  <2> HIDE DEF chapters, scenes, calls
  <2>2. pass' = [kind |-> pass.kind, turns |-> pass.turns,
                 state |-> [pass.state EXCEPT !.l2 = chapters, !.l1 = scenes],
                 patch |-> pass.patch, calls |-> calls, tried |-> pass.tried]
    BY <1>1, <2>1
  <2> QED BY <2>2 DEF Mem
<1> HIDE DEF t, calls
<1>6. IInv'
  <2>1. Mem' = t /\ pass'.tried = pass.tried
        /\ pass' = [kind |-> pass.kind, turns |-> pass.turns, state |-> pass'.state,
                    patch |-> pass'.patch, calls |-> pass'.calls, tried |-> pass'.tried]
    BY <1>5 DEF Mem
  <2> QED BY <1>1, <1>2, <1>3, <2>1, RollKeepsInv
<1>7. ToDo(pass) = 3 * (s.seen - s.mark) + 2 * Len(s.l1) + Len(s.l2)
                   + Cardinality({"l3", "l2"} \ pass.tried)
  BY DEF ToDo, Mem
<1>8. ToDo(pass') = 3 * (s.seen - s.mark) + 2 * (Len(s.l1) - L2Size) + (Len(s.l2) + 1)
                    + Cardinality({"l3", "l2"} \ pass.tried)
  BY <1>3, <1>5 DEF ToDo
<1>9. Advances
  <2> DEFINE a == s.seen  m == s.mark  n1 == Len(s.l1)  n2 == Len(s.l2)
             c == Cardinality({"l3", "l2"} \ pass.tried)
             before == ToDo(pass)  after == ToDo(pass')
  <2>1. /\ a \in Nat /\ m \in Nat /\ m <= a /\ n1 \in Nat /\ n2 \in Nat
        /\ c \in Nat /\ L2Size \in Nat \ {0} /\ n1 - L2Size \in Nat
    BY <1>2, <1>3, <1>4
  <2>2. /\ before = 3 * (a - m) + 2 * n1 + n2 + c
        /\ after = 3 * (a - m) + 2 * (n1 - L2Size) + (n2 + 1) + c
    BY <1>7, <1>8
  <2> HIDE DEF a, m, n1, n2, c, before, after
  <2>3. after \in Nat /\ after < before
    BY ONLY <2>1, <2>2
  <2> QED BY <2>3 DEF Advances, before, after
<1>10. Keeps
  BY <1>3, <1>5 DEF Keeps, Mem, Continues
<1> QED BY <1>1, <1>6, <1>9, <1>10

\* So does a tier that fails.
LEMMA FailingKeepsInv ==
    ASSUME IInv, TierFails
    PROVE  IInv' /\ archive' = archive /\ Advances /\ Keeps
<1>1. PICK tier \in {"l3", "l2"} :
          /\ Begins(IF tier = "l3" THEN DueL3 ELSE DueL2)
          /\ Rolls([pass EXCEPT !.tried = pass.tried \union {tier}, !.calls = CallsLeft(1)])
  BY Zenon DEF TierFails
<1> DEFINE calls == CallsLeft(1)  tried == pass.tried \union {tier}
<1>2. /\ pass # Idle /\ tier \notin pass.tried /\ archive' = archive
      /\ pass' = [pass EXCEPT !.tried = tried, !.calls = calls]
      /\ UNCHANGED <<disk, client, waiting, compact>>
  BY <1>1 DEF TierFails, Rolls, Begins, DueL3, DueL2
<1>3. /\ PassInv /\ Sound(Mem) /\ pass.tried \in SUBSET {"l3", "l2"}
      /\ Mem.mark \in Nat /\ Mem.seen \in Nat /\ Mem.mark <= Mem.seen
      /\ Len(Mem.l1) \in Nat /\ Len(Mem.l2) \in Nat
  BY <1>2, PassFacts
<1> HIDE DEF calls, tried
<1>4. /\ Mem' = Mem /\ pass'.tried = tried /\ pass'.state = pass.state
      /\ pass' = [kind |-> pass.kind, turns |-> pass.turns, state |-> pass'.state,
                  patch |-> pass'.patch, calls |-> pass'.calls, tried |-> pass'.tried]
  <2>1. pass = [kind |-> pass.kind, turns |-> pass.turns, state |-> pass.state,
                patch |-> pass.patch, calls |-> pass.calls, tried |-> pass.tried]
    BY <1>3 DEF PassInv
  <2>2. pass' = [kind |-> pass.kind, turns |-> pass.turns, state |-> pass.state,
                 patch |-> pass.patch, calls |-> calls, tried |-> tried]
    BY <1>2, <2>1
  <2> QED BY <2>2 DEF Mem
<1>5. Continues(Mem, Mem')
  BY <1>3, <1>4 DEF Continues
<1>6. pass'.tried \subseteq {"l3", "l2"}
  BY <1>3, <1>4 DEF tried
<1>7. IInv'
  BY <1>2, <1>4, <1>5, <1>6, RollKeepsInv
<1> DEFINE c == Cardinality({"l3", "l2"} \ pass.tried)
           d == Cardinality({"l3", "l2"} \ tried)
<1>8. c \in Nat /\ d \in Nat /\ d < c
  BY <1>2, <1>3, TiersUntried DEF tried
<1> DEFINE rest == 3 * (Mem.seen - Mem.mark) + 2 * Len(Mem.l1) + Len(Mem.l2)
<1>9. ToDo(pass) = rest + c /\ ToDo(pass') = rest + d
  BY <1>4 DEF ToDo, Mem
<1>10. rest \in Nat
  <2> DEFINE a == Mem.seen  m == Mem.mark  n1 == Len(Mem.l1)  n2 == Len(Mem.l2)
  <2>1. a \in Nat /\ m \in Nat /\ m <= a /\ n1 \in Nat /\ n2 \in Nat
    BY <1>3
  <2>2. rest = 3 * (a - m) + 2 * n1 + n2
    OBVIOUS
  <2> HIDE DEF a, m, n1, n2, rest
  <2> QED BY ONLY <2>1, <2>2
<1> HIDE DEF c, d, rest
<1>11. Advances
  BY <1>8, <1>9, <1>10 DEF Advances
<1> QED BY <1>2, <1>5, <1>7, <1>11 DEF Keeps, Continues

\* So does a watermark that skips to the window.
LEMMA SkippingKeepsInv ==
    ASSUME IInv, SkipsL1
    PROVE  IInv' /\ archive' = archive /\ Advances /\ Keeps
<1> DEFINE calls == pass.calls  s == Mem  t == [Mem EXCEPT !.mark = Offset]
           none == <<>>
<1>1. /\ pass # Idle /\ s.mark + L1Size <= Offset /\ archive' = archive
      /\ pass' = [pass EXCEPT !.state.mark = Offset, !.patch = <<>>]
      /\ UNCHANGED <<disk, client, waiting, compact>>
  BY DEF SkipsL1, Rolls, Begins
<1>2. /\ PassInv /\ Sound(s) /\ pass.tried \in SUBSET {"l3", "l2"}
      /\ s.mark \in Nat /\ s.seen \in Nat /\ s.mark <= s.seen
      /\ Offset \in Nat /\ Offset <= s.seen
      /\ Len(s.l1) \in Nat /\ Len(s.l2) \in Nat
      /\ Cardinality({"l3", "l2"} \ pass.tried) \in Nat
  BY <1>1, PassFacts
<1>3. /\ Mem' = t /\ pass'.tried = pass.tried /\ pass'.state = t
      /\ pass' = [kind |-> pass.kind, turns |-> pass.turns, state |-> pass'.state,
                  patch |-> pass'.patch, calls |-> pass'.calls, tried |-> pass'.tried]
  <2> DEFINE off == Offset
  <2>1. pass = [kind |-> pass.kind, turns |-> pass.turns, state |-> pass.state,
                patch |-> pass.patch, calls |-> pass.calls, tried |-> pass.tried]
    BY <1>2 DEF PassInv
  <2>2. pass' = [pass EXCEPT !.state.mark = off, !.patch = none]
    BY <1>1
  <2> HIDE DEF off, none
  <2>3. pass' = [kind |-> pass.kind, turns |-> pass.turns,
                 state |-> [pass.state EXCEPT !.mark = off],
                 patch |-> none, calls |-> pass.calls, tried |-> pass.tried]
    BY <2>1, <2>2
  <2> QED BY <2>3 DEF Mem, off
<1>4. s.mark < Offset
  <2> DEFINE m == s.mark  k == Offset
  <2>1. m \in Nat /\ k \in Nat /\ m + L1Size <= k /\ L1Size \in Nat \ {0}
    BY <1>1, <1>2, HierarchyAssumption
  <2> HIDE DEF m, k
  <2>2. m < k
    BY ONLY <2>1
  <2> QED BY <2>2 DEF m, k
<1>5. /\ Continues(s, t) /\ t.l1 = s.l1 /\ t.l2 = s.l2 /\ t.mark = Offset /\ t.seen = s.seen
  <2> DEFINE off == Offset
  <2>1. Fields(s) /\ s.anchor \in Seq(Int)
    BY <1>2 DEF Sound
  <2>2. t = [s EXCEPT !.mark = off]
    OBVIOUS
  <2> HIDE DEF s, t, off
  <2>3. /\ Fields(t) /\ t.l1 = s.l1 /\ t.l2 = s.l2 /\ t.l3 = s.l3
        /\ t.anchor = s.anchor /\ t.mark = off /\ t.seen = s.seen
    BY <2>1, <2>2 DEF Fields
  <2>4. off \in Nat /\ s.mark <= off /\ off <= s.seen /\ s.seen \in Nat
    BY <1>2, <1>4 DEF off
  <2>5. s.seen <= t.seen /\ s.mark <= t.mark /\ t.mark <= t.seen /\ t.mark \in Nat /\ t.seen \in Nat
    BY <2>3, <2>4
  <2>6. Continues(s, t)
    BY <1>2, <2>1, <2>3, <2>5, SameChunksAreSound
  <2> QED BY <2>3, <2>6 DEF off
<1> HIDE DEF t
<1>6. IInv'
  BY <1>1, <1>2, <1>3, <1>5, RollKeepsInv
<1> DEFINE c == 2 * Len(s.l1) + Len(s.l2) + Cardinality({"l3", "l2"} \ pass.tried)
           a == s.seen  m == s.mark  k == Offset
<1>7. ToDo(pass) = 3 * (a - m) + c /\ ToDo(pass') = 3 * (a - k) + c
  <2> DEFINE n1 == Len(s.l1)  n2 == Len(s.l2)  u == Cardinality({"l3", "l2"} \ pass.tried)
  <2>1. /\ ToDo(pass) = 3 * (a - m) + 2 * n1 + n2 + u
        /\ ToDo(pass') = 3 * (a - k) + 2 * n1 + n2 + u
    BY <1>3, <1>5 DEF ToDo, Mem
  <2>2. n1 \in Nat /\ n2 \in Nat /\ u \in Nat /\ a \in Nat /\ m \in Nat /\ k \in Nat
    BY <1>2
  <2>3. c = 2 * n1 + n2 + u
    OBVIOUS
  <2> HIDE DEF n1, n2, u, a, m, k, c
  <2> QED BY ONLY <2>1, <2>2, <2>3
<1>8. c \in Nat /\ a \in Nat /\ m \in Nat /\ k \in Nat /\ m < k /\ k <= a
  <2> DEFINE n1 == Len(s.l1)  n2 == Len(s.l2)  u == Cardinality({"l3", "l2"} \ pass.tried)
  <2>1. n1 \in Nat /\ n2 \in Nat /\ u \in Nat
    BY <1>2
  <2>2. c = 2 * n1 + n2 + u
    OBVIOUS
  <2> HIDE DEF n1, n2, u, c
  <2>3. c \in Nat
    BY ONLY <2>1, <2>2
  <2> QED BY <1>2, <1>4, <2>3
<1> HIDE DEF c, a, m, k
<1>9. Advances
  BY <1>7, <1>8 DEF Advances
<1>10. Keeps
  BY <1>3, <1>5 DEF Keeps, Continues
<1> QED BY <1>1, <1>6, <1>9, <1>10

\* So does reading a chunk.
LEMMA ReadingKeepsInv ==
    ASSUME IInv, ReadsL1
    PROVE  IInv' /\ archive' = archive /\ Advances /\ Keeps
<1> DEFINE patch == Kept(pass.patch, {i \in DOMAIN pass.patch : pass.patch[i].at < ChunkFirst - Offset})
           again == [i \in DOMAIN patch |-> [after |-> patch[i].after,
                                             turn |-> pass.turns[patch[i].at]]]
           says == {Shown(t) : t \in ToSet(TurnsRead) \union {r.turn : r \in ToSet(again)}}
           c == [says |-> says, first |-> ChunkFirst, last |-> ChunkLast]
           record == NewRecord
           extra == RecordPatch(pass.state.extra, ChunkLast, again)
           l1 == Append(pass.state.l1, c)  mark == ChunkLast
           calls == CallsLeft(1)  none == <<>>  s == Mem
           t == [s EXCEPT !.l1 = l1, !.mark = mark, !.record = record, !.extra = extra]
<1>1. /\ pass # Idle /\ s.mark + L1Size > Offset /\ archive' = archive /\ DueL1
      /\ UNCHANGED <<disk, client, waiting, compact>>
  BY DEF ReadsL1, Rolls, Begins
<1>2. pass' = [pass EXCEPT !.state.l1 = l1, !.state.mark = mark, !.state.record = record,
                           !.state.extra = extra, !.patch = none, !.calls = calls]
  BY DEF ReadsL1, Rolls
<1>3. /\ PassInv /\ Sound(s) /\ pass.tried \in SUBSET {"l3", "l2"}
      /\ s.mark \in Nat /\ s.seen \in Nat /\ s.mark <= s.seen
      /\ Offset \in Nat /\ Offset <= s.seen
      /\ Len(s.l1) \in Nat /\ Len(s.l2) \in Nat
      /\ Cardinality({"l3", "l2"} \ pass.tried) \in Nat
  BY <1>1, PassFacts
<1>4. c.first = ChunkFirst /\ c.last = mark
  OBVIOUS
<1> HIDE DEF l1, mark, record, extra, none, calls, c
<1>5. /\ Mem' = t /\ pass'.tried = pass.tried /\ pass'.state = t
      /\ pass' = [kind |-> pass.kind, turns |-> pass.turns, state |-> pass'.state,
                  patch |-> pass'.patch, calls |-> pass'.calls, tried |-> pass'.tried]
  <2>1. pass = [kind |-> pass.kind, turns |-> pass.turns, state |-> pass.state,
                patch |-> pass.patch, calls |-> pass.calls, tried |-> pass.tried]
    BY <1>3 DEF PassInv
  <2>2. pass' = [kind |-> pass.kind, turns |-> pass.turns,
                 state |-> [pass.state EXCEPT !.l1 = l1, !.mark = mark,
                                              !.record = record, !.extra = extra],
                 patch |-> none, calls |-> calls, tried |-> pass.tried]
    BY <1>2, <2>1
  <2> QED BY <2>2 DEF Mem
<1>6. /\ s.mark < ChunkFirst /\ ChunkFirst \in Nat /\ ChunkFirst <= mark /\ mark <= s.seen
      /\ mark = s.mark + L1Size /\ mark \in Nat
  <2> DEFINE top == Largest({s.mark, Offset})
  <2>1. top \in {s.mark, Offset} /\ s.mark <= top /\ Offset <= top
    <3>1. s.mark \in Int /\ Offset \in Int
      BY <1>3
    <3> QED BY ONLY <3>1, LargestOfTwo
  <2>2. ChunkFirst = top + 1 /\ mark = s.mark + L1Size
    BY DEF ChunkFirst, ChunkLast, mark
  <2>3. s.seen - s.mark >= L1Size /\ L1Size \in Nat \ {0}
    BY <1>1, HierarchyAssumption DEF DueL1, NeedsL1
  <2> HIDE DEF top, s
  <2> QED BY <1>1, <1>3, <2>1, <2>2, <2>3
<1>7. /\ Continues(s, t) /\ t.l2 = s.l2 /\ t.seen = s.seen /\ t.mark = mark
      /\ Len(t.l1) = Len(s.l1) + 1
  <2>1. t = ReadInto(s, c, record, extra)
    BY <1>4 DEF ReadInto, l1, Mem
  <2>2. /\ Sound(s) /\ c.first \in Nat /\ c.last \in Nat
        /\ s.mark < c.first /\ c.first <= c.last /\ c.last <= s.seen
    BY <1>3, <1>4, <1>6
  <2> HIDE DEF s, t
  <2>3. /\ Continues(s, t) /\ t.l2 = s.l2 /\ t.seen = s.seen /\ t.mark = c.last
        /\ Len(t.l1) = Len(s.l1) + 1
    BY ONLY <2>1, <2>2, ReadingIsSound
  <2> QED BY <2>3, <1>4
<1> HIDE DEF t
<1>8. IInv'
  BY <1>1, <1>3, <1>5, <1>7, RollKeepsInv
<1> DEFINE a == s.seen  m == s.mark  n1 == Len(s.l1)
           n2 == Len(s.l2)  u == Cardinality({"l3", "l2"} \ pass.tried)
<1>9. /\ ToDo(pass) = 3 * (a - m) + 2 * n1 + n2 + u
      /\ ToDo(pass') = 3 * (a - mark) + 2 * (n1 + 1) + n2 + u
  BY <1>5, <1>7 DEF ToDo, Mem
<1>10. /\ a \in Nat /\ m \in Nat /\ n1 \in Nat /\ n2 \in Nat /\ u \in Nat
       /\ mark \in Nat /\ m < mark /\ mark <= a
  BY <1>3, <1>6
<1> DEFINE before == ToDo(pass)  after == ToDo(pass')
<1> HIDE DEF a, m, n1, n2, u, before, after
<1>11. after \in Nat /\ after < before
  BY ONLY <1>9, <1>10 DEF before, after
<1>12. Keeps
  BY <1>5, <1>7 DEF Keeps, Continues
<1> QED BY <1>1, <1>8, <1>11, <1>12 DEF Advances, before, after

\* The invariant holds of a conversation that was never summarised.
LEMMA InitialSound == Init => IInv
<1> SUFFICES ASSUME Init PROVE IInv
  OBVIOUS
<1>1. Sound(disk)
  <2> DEFINE s == disk  S == {1}
  <2>1. s = Empty
    BY DEF Init
  <2>2. /\ Fields(s) /\ s.l1 = <<>> /\ s.l2 = <<>> /\ s.l3 = <<>> /\ s.anchor = <<>>
        /\ s.mark = 0 /\ s.seen = 0
    BY <2>1 DEF Empty, Fields
  <2>3. <<>> \in Seq(S) /\ <<>> \in Seq(Int) /\ Len(<<>>) = 0
    OBVIOUS
  <2>4. Chunks(s) = <<>>
    <3>1. <<>> \o <<>> = <<>>
      OBVIOUS
    <3> QED BY <2>2, <3>1 DEF Chunks
  <2>5. InOrder(<<>>, 0)
    BY <2>3 DEF InOrder
  <2>6. Tiers(s, S)
    BY <2>2, <2>3 DEF Tiers
  <2> HIDE DEF s
  <2> QED BY <2>2, <2>3, <2>4, <2>5, <2>6 DEF Sound, s
<1>2. ClientInv
  <2>1. PICK n \in Histories : story = [i \in 1..n |-> Fresh(Writes + i)]
    BY DEF Init
  <2>2. n \in Nat /\ n % 2 = 0 /\ Writes \in Nat
    BY HierarchyAssumption
  <2>3. \A i \in 1..n : Fresh(Writes + i) \in Turn
    BY <2>2 DEF Fresh, Turn, Unknown
  <2>4. story \in Seq(Turn) /\ Len(story) = n
    BY <2>1, <2>2, <2>3
  <2>5. written \in Nat /\ indexed = <<>> /\ waiting = <<>>
    BY DEF Init
  <2>6. indexed \in Seq(Rows) /\ waiting \in Seq(Queued) /\ Len(indexed) = 0
    BY <2>5
  <2>7. Growing(indexed)
    BY <2>6 DEF Growing
  <2> QED BY <2>2, <2>4, <2>5, <2>6, <2>7 DEF ClientInv
<1>3. CompactInv /\ pass = Idle
  BY DEF Init, CompactInv
<1> QED BY <1>1, <1>2, <1>3 DEF IInv

\* A cancelled pass and a crash keep the invariant.
LEMMA DyingKeepsInv ==
    ASSUME IInv, Cancelled \/ Crash
    PROVE  IInv'
<1>1. /\ pass' = Idle /\ UNCHANGED <<disk, archive, client>>
      /\ waiting' = waiting \/ waiting' = <<>>
      /\ compact' = compact \/ compact' = Idle
  BY DEF Cancelled, Crash
<1>2. Sound(disk) /\ ClientInv /\ CompactInv
  BY DEF IInv
<1>3. waiting' \in Seq(Queued)
  <2>1. waiting \in Seq(Queued)
    BY <1>2 DEF ClientInv
  <2>2. <<>> \in Seq(Queued)
    BY EmptySeq
  <2> QED BY <1>1, <2>1, <2>2
<1>4. ClientInv'
  BY <1>1, <1>2, <1>3 DEF ClientInv, client
<1>5. CompactInv'
  BY <1>1, <1>2 DEF CompactInv
<1> QED BY <1>1, <1>2, <1>4, <1>5 DEF IInv

\* Every step of a pass keeps the invariant, the archive and the measure.
LEMMA TierKeepsInv ==
    ASSUME IInv, TierNext
    PROVE  IInv' /\ archive \subseteq archive' /\ Advances /\ Keeps
<1>1. CASE RefreshesL3
  BY <1>1, RefreshKeepsInv
<1>2. CASE FoldsL2
  BY <1>2, FoldKeepsInv
<1>3. CASE TierFails
  BY <1>3, FailingKeepsInv
<1>4. CASE SkipsL1
  BY <1>4, SkippingKeepsInv
<1>5. CASE ReadsL1
  BY <1>5, ReadingKeepsInv
<1> QED BY <1>1, <1>2, <1>3, <1>4, <1>5 DEF TierNext

\* Every step of the system keeps the invariant.
LEMMA NextKeepsInv == IInv /\ [Next]_vars => IInv'
<1> SUFFICES ASSUME IInv, [Next]_vars PROVE IInv'
  OBVIOUS
<1>1. CASE UserNext
  BY <1>1, UserKeepsInv
<1>2. CASE CompactNext
  BY <1>2, CompactKeepsInv
<1>3. CASE Indexes
  BY <1>3, IndexingKeepsInv
<1>4. CASE PassStarts
  BY <1>4, PassStartsKeepsInv
<1>5. CASE TierNext
  BY <1>5, TierKeepsInv
<1>6. CASE PassEnds
  BY <1>6, EndingKeepsInv
<1>7. CASE Cancelled \/ Crash
  BY <1>7, DyingKeepsInv
<1>8. CASE UNCHANGED vars
  <2>1. UNCHANGED <<disk, archive, story, written, indexed, waiting, pass, compact>>
    BY <1>8 DEF vars, client
  <2>2. ClientInv'
    BY <2>1 DEF IInv, ClientInv
  <2> QED BY <2>1, <2>2, ClientFrame
<1> QED BY <1>1, <1>2, <1>3, <1>4, <1>5, <1>6, <1>7, <1>8 DEF Next

\* The invariant always holds: the stored state and that of a pass are sound,
\* and the pass goes on from the stored state (_maybe_rollup_body under the
\* conversation's lock).
THEOREM InvariantHolds == Spec => []IInv
BY InitialSound, NextKeepsInv, PTL DEF Spec

\* The labels of a sound state are in order.
LEMMA SoundIsOrdered ==
    ASSUME NEW s, Sound(s)
    PROVE  SpansOrdered(s)
<1>1. HighestChunk(s) <= s.mark
  BY HighestBelowMark
<1>2. PICK S : Tiers(s, S)
  BY DEF Sound
<1>3. Len(Chunks(s)) \in Nat
  BY <1>2, ChunksSeq, LenProperties
<1>4. \A i, j \in 1..Len(Chunks(s)) : i < j => Chunks(s)[i].last < Chunks(s)[j].first
  BY DEF Sound, InOrder
<1>5. ASSUME NEW i \in 1..Len(Chunks(s)) - 1
      PROVE  Chunks(s)[i].last < Chunks(s)[i + 1].first
  <2>1. i \in 1..Len(Chunks(s)) /\ i + 1 \in 1..Len(Chunks(s)) /\ i < i + 1
    BY <1>3
  <2> QED BY <2>1, <1>4
<1> QED BY <1>1, <1>5 DEF SpansOrdered

\* The labels never overlap and the watermark is never behind them, in a pass
\* and on disk, for any chunk sizes, any calls, any window and any history
\* (_maybe_rollup_body, _repair_watermark_below_chunks).
THEOREM LabelsStayOrdered == Spec => []LabelsOrdered
<1>1. IInv => LabelsOrdered
  BY SoundIsOrdered DEF IInv, PassInv, LabelsOrdered
<1> QED BY <1>1, InvariantHolds, PTL

\* What every step does to the stored state.
DiskGoesOn ==
    /\ disk.mark <= disk'.mark /\ disk.seen <= disk'.seen
    /\ Said(disk) \subseteq Said(disk')
    /\ archive \union ToSet(disk.l2) \subseteq archive' \union ToSet(disk'.l2)

\* No step takes anything back from the stored state.
LEMMA StepsGoOn == IInv /\ [Next]_vars => DiskGoesOn
<1> SUFFICES ASSUME IInv, [Next]_vars PROVE DiskGoesOn
  OBVIOUS
<1>1. disk.mark \in Nat /\ disk.seen \in Nat
  BY DEF IInv, Sound
<1>2. ASSUME disk' = disk, archive \subseteq archive' PROVE DiskGoesOn
  BY <1>1, <1>2 DEF DiskGoesOn
<1>3. CASE UserNext
  BY <1>2, <1>3 DEF UserNext, Exchange, Regenerate, DeleteExchange, EditTurn, Answers
<1>4. CASE CompactNext
  <2>1. Continues(disk, disk') /\ disk.l2 = disk'.l2 /\ archive \subseteq archive'
    BY <1>4, CompactKeepsInv
  <2> QED BY <2>1 DEF DiskGoesOn, Continues
<1>5. CASE Indexes \/ PassStarts \/ Cancelled \/ Crash
  BY <1>2, <1>5 DEF Indexes, PassStarts, Cancelled, Crash
<1>6. CASE TierNext
  <2>1. archive \subseteq archive'
    BY <1>6, TierKeepsInv
  <2>2. disk' = disk
    BY <1>6 DEF TierNext, RefreshesL3, FoldsL2, TierFails, SkipsL1, ReadsL1, Rolls
  <2> QED BY <2>1, <2>2, <1>2
<1>7. CASE PassEnds
  <2>1. /\ disk.mark <= disk'.mark /\ disk.seen <= disk'.seen
        /\ Said(disk) \subseteq Said(disk')
        /\ ToSet(disk.l2) \subseteq archive' \union ToSet(disk'.l2)
    BY <1>7, EndingKeepsInv
  <2>2. archive' = archive
    BY <1>7 DEF PassEnds
  <2> QED BY <2>1, <2>2 DEF DiskGoesOn
<1>8. CASE UNCHANGED vars
  BY <1>2, <1>8 DEF vars
<1> QED BY <1>3, <1>4, <1>5, <1>6, <1>7, <1>8 DEF Next

\* The stored position and the stored watermark never go back, whatever window
\* a pass saw (_observed_position).
THEOREM PositionNeverGoesBack == Spec => PositionForward
<1>1. IInv /\ [Next]_vars => [disk.seen <= disk'.seen /\ disk.mark <= disk'.mark]_vars
  BY StepsGoOn DEF DiskGoesOn
<1> QED BY <1>1, InvariantHolds, PTL DEF Spec, PositionForward

\* What the stored summaries once said they go on saying, through folds,
\* stories and failed writes (_do_l2_rollup, _do_l3_rollup).
THEOREM NothingSaidIsLost == Spec => SaidStays
<1>1. IInv /\ [Next]_vars => [Said(disk) \subseteq Said(disk')]_vars
  BY StepsGoOn DEF DiskGoesOn
<1> QED BY <1>1, InvariantHolds, PTL DEF Spec, SaidStays

\* A chapter leaves the stored state only for the archive, and stays there
\* (_archive_chapters before _do_l3_rollup clears the tier).
THEOREM ChaptersAreKept == Spec => ChaptersKept
<1>1. IInv /\ [Next]_vars
        => [archive \union ToSet(disk.l2) \subseteq archive' \union ToSet(disk'.l2)]_vars
  BY StepsGoOn DEF DiskGoesOn
<1> QED BY <1>1, InvariantHolds, PTL DEF Spec, ChaptersKept

\* Every step of a pass leaves it less to do, so that the loop of
\* _maybe_rollup_body ends whatever fails and whatever its budget.
THEOREM PassesAdvance == Spec => PassAdvances
<1>1. IInv /\ [Next]_vars =>
        [pass # Idle /\ pass' # Idle => ToDo(pass') \in Nat /\ ToDo(pass') < ToDo(pass)]_pass
  <2> SUFFICES ASSUME IInv, [Next]_vars, pass' # pass, pass # Idle, pass' # Idle
               PROVE  Advances
    BY DEF Advances
  <2>1. CASE UserNext
    BY <2>1 DEF UserNext, Exchange, Regenerate, DeleteExchange, EditTurn, Answers
  <2>2. CASE CompactNext
    BY <2>2, CompactKeepsInv
  <2>3. CASE Indexes \/ PassStarts \/ Cancelled \/ Crash \/ PassEnds
    BY <2>3 DEF Indexes, PassStarts, Cancelled, Crash, PassEnds
  <2>4. CASE TierNext
    BY <2>4, TierKeepsInv
  <2>5. CASE UNCHANGED vars
    BY <2>5 DEF vars
  <2> QED BY <2>1, <2>2, <2>3, <2>4, <2>5 DEF Next
<1> QED BY <1>1, InvariantHolds, PTL DEF Spec, PassAdvances

-----------------------------------------------------------------------------
(* What the record is computed with: functions defined step by step, the   *)
(* entries of a sequence at some places, sequences in a row.               *)

\* f goes from b in n steps, each a function of the number and the value before.
GoesBy(f, S, b, n, step) ==
    /\ f \in [0..n -> S] /\ f[0] = b
    /\ \A i \in 1..n : f[i] = step[i][f[i - 1]]

\* A function that each number defines from the one before, exists.
LEMMA StepsDefine ==
    ASSUME NEW S, NEW b \in S, NEW n \in Nat, NEW step \in [1..n -> [S -> S]]
    PROVE  \E f : GoesBy(f, S, b, n, step)
<1> DEFINE Upto(m) == {f \in [0..m -> S] : f[0] = b /\ \A i \in 1..m : f[i] = step[i][f[i - 1]]}
           none == {m \in 0..n : Upto(m) = {}}
<1> SUFFICES ASSUME none # {} PROVE FALSE
  <2>1. n \in 0..n
    OBVIOUS
  <2>2. Upto(n) # {}
    BY <2>1
  <2>3. \A f \in Upto(n) : GoesBy(f, S, b, n, step)
    BY DEF GoesBy
  <2> QED BY <2>2, <2>3, Zenon
<1>1. none \in SUBSET Nat
  OBVIOUS
<1>2. PICK m \in none : \A k \in none : m <= k
  BY <1>1, SmallestOf, Zenon
<1>3. CASE m = 0
  <2> DEFINE f == [i \in 0..0 |-> b]
  <2>1. f \in Upto(0)
    OBVIOUS
  <2> QED BY <1>2, <1>3, <2>1
<1>4. CASE m # 0
  <2>1. m - 1 \in 0..n /\ m - 1 \notin none /\ m \in 1..n
    <3>1. m \in 0..n
      OBVIOUS
    <3> HIDE DEF none
    <3> QED BY <1>2, <1>4, <3>1
  <2>2. PICK f : f \in Upto(m - 1)
    BY <2>1
  <2> DEFINE g == [i \in 0..m |-> IF i = m THEN step[m][f[m - 1]] ELSE f[i]]
  <2>3. f \in [0..m - 1 -> S] /\ f[0] = b /\ \A i \in 1..m - 1 : f[i] = step[i][f[i - 1]]
    BY <2>2
  <2>4. f[m - 1] \in S /\ step[m][f[m - 1]] \in S
    <3>1. m - 1 \in 0..m - 1
      BY <2>1
    <3>2. f[m - 1] \in S
      BY <2>3, <3>1
    <3> QED BY <2>1, <3>2
  <2>5. g \in [0..m -> S] /\ g[0] = b
    <3>1. \A i \in 0..m : i # m => i \in 0..m - 1
      BY <2>1
    <3> QED BY <1>4, <2>1, <2>3, <2>4, <3>1
  <2>6. ASSUME NEW i \in 1..m PROVE g[i] = step[i][g[i - 1]]
    <3>1. i \in 0..m /\ i - 1 \in 0..m /\ i - 1 # m
      BY <2>1
    <3>2. CASE i = m
      BY <3>1, <3>2
    <3>3. CASE i # m
      <4>1. i \in 1..m - 1
        BY <2>1, <3>3
      <4> QED BY <2>3, <3>1, <3>3, <4>1
    <3> QED BY <3>2, <3>3
  <2>7. g \in Upto(m)
    BY <2>5, <2>6
  <2> QED BY <1>2, <2>7
<1> QED BY <1>3, <1>4

\* What FlattenSeq does: the entries of some sequences in a row.
LEMMA FlattenIs ==
    ASSUME NEW S, NEW n \in Nat \ {0}, NEW seqs \in [1..n -> Seq(S)]
    PROVE  /\ FlattenSeq(seqs) \in Seq(S)
           /\ Len(seqs[n]) <= Len(FlattenSeq(seqs))
<1> DEFINE T == Seq(S)
           step == [i \in 1..n |-> [s \in T |-> s \o seqs[i]]]
           flat(h) == [i \in 1..n |-> IF i = 1 THEN seqs[i] ELSE h[i - 1] \o seqs[i]]
           flatten == CHOOSE h : h = flat(h)
<1>1. step \in [1..n -> [T -> T]]
  OBVIOUS
<1>2. <<>> \in T
  OBVIOUS
<1>3. PICK f : f \in [0..n -> T] /\ f[0] = <<>> /\ \A i \in 1..n : f[i] = step[i][f[i - 1]]
  <2> DEFINE none == <<>>
  <2>1. n \in Nat /\ none \in T
    OBVIOUS
  <2> HIDE DEF step, T, none
  <2>2. PICK f : GoesBy(f, T, none, n, step)
    BY <1>1, <2>1, StepsDefine, Zenon
  <2> QED BY <2>2 DEF GoesBy, none
<1> HIDE DEF T
<1>4. \A i \in 1..n : i - 1 \in 0..n /\ i \in 0..n
  OBVIOUS
<1>5. \A i \in 1..n : f[i - 1] \in T /\ f[i] = f[i - 1] \o seqs[i]
  BY <1>3, <1>4
<1>6. f[1] = seqs[1]
  <2>1. 1 \in 1..n /\ 1 - 1 = 0
    OBVIOUS
  <2>2. f[1] = <<>> \o seqs[1]
    BY <1>3, <1>5, <2>1
  <2> QED BY <2>1, <2>2
<1> DEFINE g == [i \in 1..n |-> f[i]]
<1>7. g = flat(g)
  <2>1. \A i \in 1..n : i # 1 => i - 1 \in 1..n
    OBVIOUS
  <2>2. \A i \in 1..n : g[i] = flat(g)[i]
    BY <1>5, <1>6, <2>1
  <2> QED BY <2>2
<1>8. flatten = flat(flatten)
  BY <1>7
<1> HIDE DEF flatten
<1>9. \A i \in 1..n : flatten[i] = IF i = 1 THEN seqs[i] ELSE flatten[i - 1] \o seqs[i]
  BY <1>8
<1>10. \A i \in 1..n : flatten[i] = f[i]
  <2> DEFINE bad == {i \in 1..n : flatten[i] # f[i]}
  <2> SUFFICES ASSUME bad # {} PROVE FALSE
    OBVIOUS
  <2>1. bad \in SUBSET Nat
    OBVIOUS
  <2>2. PICK i \in bad : \A k \in bad : i <= k
    BY <2>1, SmallestOf, Zenon
  <2>3. i # 1
    BY <1>6, <1>9, <2>2
  <2>4. i - 1 \in 1..n /\ i - 1 \notin bad /\ i \in 1..n
    BY <2>2, <2>3
  <2> QED BY <1>5, <1>9, <2>2, <2>3, <2>4
<1>11. FlattenSeq(seqs) = flatten[n]
  <2>1. Len(seqs) = n
    OBVIOUS
  <2> QED BY <2>1 DEF FlattenSeq, flatten
<1>12. n \in 1..n
  OBVIOUS
<1>13. FlattenSeq(seqs) = f[n - 1] \o seqs[n] /\ f[n - 1] \in Seq(S) /\ seqs[n] \in Seq(S)
  BY <1>5, <1>10, <1>11, <1>12 DEF T
<1> DEFINE a == f[n - 1]  c == seqs[n]
<1>14. a \o c \in Seq(S) /\ Len(a \o c) = Len(a) + Len(c)
  <2> HIDE DEF a, c
  <2> QED BY <1>13, ConcatSeq DEF a, c
<1>15. Len(a) \in Nat /\ Len(c) \in Nat /\ FlattenSeq(seqs) = a \o c
  BY <1>13
<1> HIDE DEF step, a
<1>16. Len(c) <= Len(a \o c)
  <2> HIDE DEF c
  <2> QED BY <1>14, <1>15
<1> QED BY <1>14, <1>15, <1>16

\* How many of some places are before another.
Rank(P, i) == Cardinality({j \in P : j < i})

LEMMA Ranks ==
  ASSUME NEW P \in SUBSET Int, IsFiniteSet(P)
  PROVE  /\ Cardinality(P) \in Nat
         /\ \A i \in P : Rank(P, i) \in 0 .. Cardinality(P) - 1
         /\ \A i, j \in P : i < j => Rank(P, i) < Rank(P, j)
         /\ \A k \in 0 .. Cardinality(P) - 1 : \E i \in P : Rank(P, i) = k
<1> DEFINE n == Cardinality(P)
           before(i) == {j \in P : j < i}
<1>1. n \in Nat
  BY FS_CardinalityType
<1>2. ASSUME NEW i \in Int
      PROVE  IsFiniteSet(before(i)) /\ Rank(P, i) \in Nat /\ Rank(P, i) = Cardinality(before(i))
  <2>1. before(i) \subseteq P
    OBVIOUS
  <2> QED
    BY <2>1, FS_Subset, FS_CardinalityType DEF Rank
<1>3. ASSUME NEW i \in P
      PROVE  Rank(P, i) \in 0 .. n - 1
  <2>1. before(i) \subseteq P \ {i}
    OBVIOUS
  <2>2. IsFiniteSet(P \ {i}) /\ Cardinality(P \ {i}) = n - 1
    BY FS_RemoveElement
  <2>3. Cardinality(before(i)) <= n - 1
    BY <2>1, <2>2, FS_Subset
  <2>4. Rank(P, i) \in Nat /\ Rank(P, i) = Cardinality(before(i))
    BY <1>2
  <2> HIDE DEF before
  <2> QED
    BY <1>1, <2>3, <2>4
<1>4. ASSUME NEW i \in P, NEW j \in P, i < j
      PROVE  Rank(P, i) < Rank(P, j)
  <2>1. before(i) \union {i} \subseteq before(j) /\ i \notin before(i)
    <3>1. i \in Int /\ j \in Int
      OBVIOUS
    <3>2. \A k \in P : k < i => k < j
      BY <1>4, <3>1
    <3>3. ~(i < i)
      BY <3>1
    <3> QED
      BY <1>4, <3>2, <3>3
  <2>2. Cardinality(before(i) \union {i}) = Cardinality(before(i)) + 1
    BY <1>2, <2>1, FS_AddElement
  <2>3. Cardinality(before(i) \union {i}) <= Cardinality(before(j))
    BY <1>2, <2>1, FS_Subset
  <2> QED
    BY <1>2, <2>2, <2>3
<1>5. ASSUME NEW k \in 0 .. n - 1
      PROVE  \E i \in P : Rank(P, i) = k
  <2> DEFINE f == [i \in P |-> Rank(P, i)]
             T == 0 .. n - 1
  <2>1. f \in [P -> T]
    BY <1>3
  <2>2. \A i, j \in P : f[i] = f[j] => i = j
    <3> TAKE i, j \in P
    <3> SUFFICES ASSUME i # j PROVE f[i] # f[j]
      OBVIOUS
    <3>1. f[i] \in Int /\ f[j] \in Int /\ (f[i] < f[j] \/ f[j] < f[i])
      BY <1>3, <1>4
    <3> QED
      BY <3>1
  <2>3. f \in Injection(P, T)
    BY <2>1, <2>2, Fun_IsInj
  <2>4. IsFiniteSet(T) /\ Cardinality(T) = n
    BY <1>1, FS_Interval
  <2>5. f \in Surjection(P, T)
    BY <2>3, <2>4, FS_Injection
  <2> QED
    BY <2>5 DEF Surjection
<1> QED
  BY <1>1, <1>3, <1>4, <1>5

\* What is kept of a sequence: one entry for each of the places, in order.
LEMMA KeptIs ==
  ASSUME NEW S, NEW p \in Seq(S), NEW P \in SUBSET DOMAIN p
  PROVE  /\ IsFiniteSet(P) /\ Cardinality(P) \in Nat
         /\ Kept(p, P) \in Seq(S) /\ Len(Kept(p, P)) = Cardinality(P)
         /\ \A i \in P : /\ Rank(P, i) + 1 \in 1 .. Cardinality(P)
                         /\ Kept(p, P)[Rank(P, i) + 1] = p[i]
         /\ \A k \in 1 .. Cardinality(P) :
                \E i \in P : Rank(P, i) = k - 1 /\ Kept(p, P)[k] = p[i]
<1> DEFINE n == Cardinality(P)
           at(k) == CHOOSE i \in P : Rank(P, i) = k - 1
<1>1. IsFiniteSet(P) /\ P \in SUBSET Int
  <2>1. DOMAIN p = 1 .. Len(p) /\ Len(p) \in Nat
    OBVIOUS
  <2>2. IsFiniteSet(1 .. Len(p)) /\ P \subseteq 1 .. Len(p)
    BY <2>1, FS_Interval
  <2> QED
    BY <2>1, <2>2, FS_Subset
<1>2. /\ n \in Nat
      /\ \A i \in P : Rank(P, i) \in 0 .. n - 1
      /\ \A i, j \in P : i < j => Rank(P, i) < Rank(P, j)
      /\ \A k \in 0 .. n - 1 : \E i \in P : Rank(P, i) = k
  BY <1>1, Ranks
<1>3. Kept(p, P) = [k \in 1 .. n |-> p[at(k)]]
  BY DEF Kept, Rank
<1>4. ASSUME NEW k \in 1 .. n
      PROVE  at(k) \in P /\ Rank(P, at(k)) = k - 1 /\ Kept(p, P)[k] = p[at(k)]
  <2>1. k - 1 \in 0 .. n - 1
    BY <1>2
  <2>2. \E i \in P : Rank(P, i) = k - 1
    BY <1>2, <2>1
  <2> QED
    BY <1>3, <2>2
<1> HIDE DEF at
<1>5. ASSUME NEW i \in P
      PROVE  /\ Rank(P, i) + 1 \in 1 .. n
             /\ Kept(p, P)[Rank(P, i) + 1] = p[i]
  <2> DEFINE k == Rank(P, i) + 1
  <2>1. k \in 1 .. n /\ Rank(P, i) = k - 1
    BY <1>2
  <2>2. at(k) \in P /\ Rank(P, at(k)) = Rank(P, i) /\ Kept(p, P)[k] = p[at(k)]
    BY <1>4, <2>1
  <2>3. at(k) = i
    <3>1. Rank(P, i) \in Int /\ at(k) \in Int /\ i \in Int
      BY <1>1, <1>2, <2>2
    <3>2. ~(at(k) < i) /\ ~(i < at(k))
      BY <1>2, <2>2, <3>1
    <3> QED
      BY <3>1, <3>2
  <2> QED
    BY <2>1, <2>2, <2>3
<1>6. Kept(p, P) \in Seq(S) /\ Len(Kept(p, P)) = n
  <2>1. \A k \in 1 .. n : p[at(k)] \in S
    BY <1>4
  <2>2. Kept(p, P) \in [1 .. n -> S]
    BY <1>3, <2>1
  <2> QED
    BY <1>2, <2>2
<1>7. \A k \in 1 .. n : \E i \in P : Rank(P, i) = k - 1 /\ Kept(p, P)[k] = p[i]
  <2> HIDE DEF n
  <2> QED
    BY <1>4
<1> QED
  BY <1>1, <1>2, <1>5, <1>6, <1>7

\* The prefix that the chunks cover is a number of turns, and not 0 where a
\* chunk begins with the first turn.
LEMMA CoveredPrefixIs ==
    ASSUME NEW s, Sound(s)
    PROVE  /\ CoveredPrefix(s) \in Nat
           /\ CoveredPrefix(s) > 0 <=> Begun(Chunks(s))
<1> DEFINE h == HighestChunk(s)  chunks == ToSet(Chunks(s))
           covered == {n \in 0..h : \A k \in 1..n :
                          \E c \in chunks : c.first <= k /\ k <= c.last}
           left == {h - n : n \in covered}
<1>1. h \in Nat
  BY HighestBelowMark
<1>2. \A c \in chunks : IsSpan(c) /\ c.last <= h
  <2>1. PICK S : Chunks(s) \in Seq(S)
    BY ChunksSeq DEF Sound
  <2>2. \A c \in chunks : \E i \in 1..Len(Chunks(s)) : c = Chunks(s)[i]
    BY <2>1 DEF ToSet
  <2>3. \A c \in chunks : IsSpan(c) /\ c.last <= s.mark
    BY <2>2 DEF Sound, InOrder
  <2> DEFINE ends == {0} \union {c.last : c \in chunks}
             room == {s.mark - n : n \in ends}
  <2>4. s.mark \in Nat /\ \A n \in ends : n \in Nat /\ n <= s.mark
    BY <2>3 DEF Sound, IsSpan
  <2>5. room \in SUBSET Nat /\ room # {}
    <3>1. 0 \in ends
      OBVIOUS
    <3> HIDE DEF ends
    <3> QED BY <2>4, <3>1
  <2>6. Smallest(room) \in room /\ \A n \in room : Smallest(room) <= n
    <3> HIDE DEF room
    <3> QED BY <2>5, SmallestOf
  <2>7. PICK m \in ends : \A n \in ends : n <= m
    <3> HIDE DEF ends
    <3>1. PICK m \in ends : Smallest(room) = s.mark - m
      BY <2>6
    <3>2. \A n \in ends : s.mark - m <= s.mark - n
      BY <2>6, <3>1
    <3>3. \A n \in ends : n <= m
      BY <2>4, <3>2
    <3> QED BY <3>3
  <2>8. h = m
    <3>1. ends \in SUBSET Int
      <4> HIDE DEF ends
      <4> QED BY <2>4
    <3> QED BY <2>7, <3>1, LargestIs DEF HighestChunk
  <2>9. \A c \in chunks : c.last \in ends
    OBVIOUS
  <2> QED BY <2>3, <2>7, <2>8, <2>9
<1> HIDE DEF h, chunks
<1>3. 0 \in covered /\ covered \subseteq 0..h
  BY <1>1
<1> HIDE DEF covered
<1>4. left \in SUBSET Nat /\ left # {}
  <2>1. \A n \in covered : h - n \in Nat
    BY <1>1, <1>3
  <2> QED BY <1>3, <2>1
<1>5. PICK m \in covered : \A n \in covered : n <= m
  <2>1. Smallest(left) \in left /\ \A n \in left : Smallest(left) <= n
    <3> HIDE DEF left
    <3> QED BY <1>4, SmallestOf
  <2>2. PICK m \in covered : Smallest(left) = h - m
    BY <2>1
  <2>3. \A n \in covered : h - m <= h - n
    BY <2>1, <2>2
  <2>4. \A n \in covered : n <= m
    BY <1>1, <1>3, <2>3
  <2> QED BY <2>4
<1>6. CoveredPrefix(s) = m
  <2>1. covered \in SUBSET Int
    BY <1>3
  <2>2. CoveredPrefix(s) = Largest(covered)
    BY DEF CoveredPrefix, covered, h, chunks
  <2> QED BY <1>5, <2>1, <2>2, LargestIs
<1>7. m \in Nat
  BY <1>1, <1>3
<1>8. ASSUME m > 0 PROVE \E c \in chunks : c.first = 1
  <2>1. 1 \in 1..m
    BY <1>7, <1>8
  <2>2. PICK c \in chunks : c.first <= 1 /\ 1 <= c.last
    BY <2>1 DEF covered
  <2> QED BY <1>2, <2>2 DEF IsSpan
<1>9. ASSUME NEW c \in chunks, c.first = 1 PROVE m > 0
  <2>1. 1 <= c.last /\ c.last <= h
    BY <1>2, <1>9 DEF IsSpan
  <2>2. c.last \in Nat
    BY <1>2 DEF IsSpan
  <2>3. 1 \in covered
    <3>1. 1 \in 0..h
      BY <1>1, <2>1, <2>2
    <3>2. \A k \in 1..1 : c.first <= k /\ k <= c.last
      BY <1>9, <2>1
    <3> QED BY <3>1, <3>2 DEF covered
  <2> QED BY <1>5, <1>7, <2>3
<1> QED BY <1>6, <1>7, <1>8, <1>9 DEF chunks, Begun

-----------------------------------------------------------------------------
(* The covered-turn record: a covered turn that the record can match with  *)
(* a request's is one that the chunks were made from.  Only reading a      *)
(* chunk writes the record, and the chunk says what it read; what was said *)
(* stays said, folded or told anew.                                        *)

RecordSaid(s) ==
    /\ s.record \in Seq(Int)
    /\ \A k \in 1..Len(s.record) :
          s.record[k] # Unknown => Shown(s.record[k]) \in Said(s)

\* An entry of the list of turns that a chunk has read again.
Extra == [after : Nat, owner : Nat, turn : Turn]

ExtraSaid(s) ==
    /\ s.extra \in Seq(Extra)
    /\ \A i \in 1..Len(s.extra) : Shown(s.extra[i].turn) \in Said(s)

\* A turn of the record with its place, where it is said if it can match.
SaidPlaces(s) == {e \in [turn : Int, pos : Nat] : e.turn # Unknown => Shown(e.turn) \in Said(s)}

\* The turns read again that come after a covered turn are said, each in its
\* place.
LEMMA RereadSaid ==
    ASSUME NEW s, ExtraSaid(s), NEW k \in Nat, NEW P \in SUBSET DOMAIN s.extra
    PROVE  [i \in DOMAIN Kept(s.extra, P) |->
               [turn |-> Kept(s.extra, P)[i].turn, pos |-> k]] \in Seq(SaidPlaces(s))
<1> DEFINE extra == s.extra  kept == Kept(extra, P)  n == Cardinality(P)
           place(i) == [turn |-> kept[i].turn, pos |-> k]
<1>1. /\ kept \in Seq(Extra) /\ Len(kept) = n /\ n \in Nat
      /\ \A i \in 1..n : \E j \in P : kept[i] = extra[j]
  <2>1. extra \in Seq(Extra)
    BY DEF ExtraSaid
  <2>2. P \in SUBSET DOMAIN extra
    OBVIOUS
  <2> HIDE DEF extra
  <2> QED BY <2>1, <2>2, KeptIs
<1>2. \A j \in P : extra[j] \in Extra /\ Shown(extra[j].turn) \in Said(s)
  <2>1. extra \in Seq(Extra) /\ \A j \in 1..Len(extra) : Shown(extra[j].turn) \in Said(s)
    BY DEF ExtraSaid
  <2>2. \A j \in P : j \in 1..Len(extra)
    BY <2>1
  <2> HIDE DEF extra
  <2> QED BY <2>1, <2>2
<1>3. DOMAIN kept = 1..n
  BY <1>1
<1> HIDE DEF kept, extra, n
<1>4. \A i \in 1..n : kept[i].turn \in Int /\ Shown(kept[i].turn) \in Said(s)
  BY <1>1, <1>2 DEF Extra, Turn
<1>5. \A i \in 1..n : place(i) \in SaidPlaces(s)
  BY <1>4 DEF SaidPlaces
<1> HIDE DEF place
<1>6. [i \in 1..n |-> place(i)] \in Seq(SaidPlaces(s))
  BY <1>1, <1>5
<1> QED BY <1>3, <1>6 DEF place, kept, extra

\* What the record matches a request's turns with: turns that are said, and none
\* only where no chunk covers the first turn or nothing is recorded
\* (_record_sequence).
LEMMA SequenceIsSaid ==
    ASSUME NEW s, Sound(s), RecordSaid(s), ExtraSaid(s)
    PROVE  /\ RecordSequence(s) \in Seq(SaidPlaces(s))
           /\ RecordSequence(s) # <<>> <=> Begun(Chunks(s)) /\ Len(s.record) > 0
<1> DEFINE P == SaidPlaces(s)
           bounds == {CoveredPrefix(s), Len(s.record)}
           reach == Smallest(bounds)
           places(k) == {i \in DOMAIN s.extra : s.extra[i].after = k /\ s.extra[i].owner <= reach}
           reread(k) == Kept(s.extra, places(k))
           own(k) == IF k = 0 THEN <<>> ELSE <<[turn |-> s.record[k], pos |-> k]>>
           others(k) == [i \in DOMAIN reread(k) |-> [turn |-> reread(k)[i].turn, pos |-> k]]
           at(k) == own(k) \o others(k)
           seqs == [k \in 1..reach + 1 |-> at(k - 1)]
<1>1. /\ CoveredPrefix(s) \in Nat /\ Len(s.record) \in Nat
      /\ CoveredPrefix(s) > 0 <=> Begun(Chunks(s))
  BY CoveredPrefixIs DEF RecordSaid
<1>2. /\ reach \in Nat /\ reach <= Len(s.record)
      /\ reach > 0 <=> Begun(Chunks(s)) /\ Len(s.record) > 0
  <2>1. bounds \in SUBSET Nat /\ bounds # {}
    BY <1>1
  <2> DEFINE c == CoveredPrefix(s)  n == Len(s.record)
  <2>2. reach \in {c, n} /\ reach <= c /\ reach <= n
    <3>1. Smallest(bounds) \in bounds /\ \A b \in bounds : Smallest(bounds) <= b
      <4> HIDE DEF bounds
      <4> QED BY <2>1, SmallestOf
    <3> QED BY <3>1
  <2> HIDE DEF reach, c
  <2>3. c \in Nat /\ n \in Nat /\ (c > 0 <=> Begun(Chunks(s)))
    BY <1>1 DEF c
  <2> QED BY <2>2, <2>3
<1>3. RecordSequence(s) = IF reach = 0 THEN <<>> ELSE FlattenSeq(seqs)
  BY DEF RecordSequence
<1> HIDE DEF reach
<1>4. ASSUME NEW k \in 0..reach
      PROVE  at(k) \in Seq(P) /\ (k > 0 => Len(at(k)) > 0)
  <2>1. others(k) \in Seq(P)
    <3>1. places(k) \in SUBSET DOMAIN s.extra /\ k \in Nat
      BY <1>2
    <3> HIDE DEF places
    <3> QED BY <3>1, RereadSaid
  <2>2. own(k) \in Seq(P) /\ (k > 0 => Len(own(k)) = 1)
    <3>1. CASE k = 0
      BY <3>1
    <3>2. CASE k # 0
      <4>1. k \in 1..Len(s.record) /\ k \in Nat
        BY <1>1, <1>2, <3>2
      <4> DEFINE e == [turn |-> s.record[k], pos |-> k]
      <4>2. s.record[k] \in Int /\ (s.record[k] # Unknown => Shown(s.record[k]) \in Said(s))
        BY <4>1 DEF RecordSaid
      <4>3. e \in P
        BY <4>1, <4>2 DEF SaidPlaces
      <4>4. own(k) = <<e>>
        BY <3>2
      <4> HIDE DEF e, own, P
      <4> QED BY <4>3, <4>4
    <3> QED BY <3>1, <3>2
  <2> DEFINE a == own(k)  b == others(k)
  <2> HIDE DEF a, b, P
  <2>3. a \in Seq(P) /\ b \in Seq(P) /\ (k > 0 => Len(a) = 1)
    BY <2>1, <2>2 DEF a, b
  <2>4. a \o b \in Seq(P) /\ Len(a \o b) = Len(a) + Len(b) /\ Len(b) \in Nat
    BY <2>3
  <2>5. at(k) = a \o b
    BY DEF a, b
  <2> HIDE DEF at
  <2>6. at(k) \in Seq(P)
    BY <2>4, <2>5
  <2> DEFINE n == Len(a)  l == Len(b)
  <2> HIDE DEF n, l
  <2>7. k > 0 => Len(at(k)) = 1 + l
    BY <2>3, <2>4, <2>5 DEF n, l
  <2>8. l \in Nat
    BY <2>4 DEF l
  <2>9. k > 0 => Len(at(k)) > 0
    BY ONLY <2>7, <2>8
  <2> QED BY ONLY <2>6, <2>9
<1> HIDE DEF at, P
<1>5. seqs \in [1..reach + 1 -> Seq(P)] /\ reach + 1 \in Nat \ {0} /\ seqs[reach + 1] = at(reach)
  <2>1. \A k \in 1..reach + 1 : k - 1 \in 0..reach
    BY <1>2
  <2>2. reach + 1 \in 1..reach + 1 /\ (reach + 1) - 1 = reach
    BY <1>2
  <2> QED BY <1>2, <1>4, <2>1, <2>2
<1> HIDE DEF seqs
<1>6. CASE reach = 0
  BY <1>2, <1>3, <1>6
<1>7. CASE reach # 0
  <2>1. reach \in 0..reach /\ reach > 0
    BY <1>2, <1>7
  <2>2. Len(at(reach)) > 0 /\ Len(at(reach)) \in Nat
    BY <1>4, <2>1
  <2> DEFINE n == reach + 1
  <2>3. /\ FlattenSeq(seqs) \in Seq(P) /\ Len(seqs[n]) <= Len(FlattenSeq(seqs))
    <3> HIDE DEF n
    <3> QED BY <1>5, FlattenIs DEF n
  <2>4. FlattenSeq(seqs) # <<>>
    BY <1>5, <2>2, <2>3
  <2> QED BY <1>2, <1>3, <1>7, <2>1, <2>3, <2>4 DEF P
<1> QED BY <1>6, <1>7

\* Some turns paired with turns of the record, each with an equal one.
Pairs(record, now, anchors) ==
    \A a \in anchors : /\ a[1] \in 1..Len(now) /\ a[2] \in 1..Len(record)
                       /\ now[a[1]] = record[a[2]]

\* One step of the pairing: the last turn paired stays, or is a turn of the
\* record that is equal to this one.
LEMMA PairedStep ==
    ASSUME NEW record \in Seq(Int), NEW now \in Seq(Int), NEW anchors,
           Pairs(record, now, anchors), NEW j \in 1..Len(now), NEW last \in 0..Len(record)
    PROVE  LET k == Paired(record, now, anchors, j, last)
           IN /\ k \in 0..Len(record)
              /\ k = last \/ (k \in 1..Len(record) /\ record[k] = now[j])
<1> DEFINE m == Len(record)
           at == {a[2] : a \in {a \in anchors : a[1] = j}}
           later == {a[2] : a \in {a \in anchors : a[1] > j}}
           ends == {m + 1} \union later
           free == {k \in last + 1 .. Smallest({m + 1} \union later) - 1 : record[k] = now[j]}
           k == Paired(record, now, anchors, j, last)
<1>1. m \in Nat /\ last \in 0..m
  OBVIOUS
<1>2. k = CASE at # {} -> Smallest(at)
            [] at = {} /\ free # {} -> Smallest(free)
            [] OTHER -> last
  BY DEF Paired
<1>3. /\ at \in SUBSET Nat
      /\ \A i \in at : i \in 1..m /\ record[i] = now[j]
  <2>1. \A a \in anchors : a[2] \in 1..m /\ now[a[1]] = record[a[2]]
    BY DEF Pairs
  <2>2. \A i \in at : \E a \in anchors : a[1] = j /\ i = a[2]
    BY Zenon
  <2>3. \A i \in at : i \in 1..m /\ record[i] = now[j]
    BY ONLY <2>1, <2>2, Zenon
  <2>4. \A i \in 1..m : i \in Nat
    BY <1>1
  <2> HIDE DEF at, m
  <2> QED BY <2>3, <2>4
<1>4. Smallest(ends) \in Nat /\ Smallest(ends) <= m + 1
  <2>1. later \in SUBSET Nat
    BY DEF Pairs
  <2>2. ends \in SUBSET Nat /\ m + 1 \in ends
    BY <1>1, <2>1
  <2> HIDE DEF ends
  <2> QED BY <2>2, SmallestOf
<1>5. /\ free \in SUBSET Nat
      /\ \A i \in free : i \in 1..m /\ record[i] = now[j]
  <2> DEFINE top == Smallest(ends)
  <2>1. free = {i \in last + 1 .. top - 1 : record[i] = now[j]}
    OBVIOUS
  <2>2. top \in Nat /\ top <= m + 1
    BY <1>4
  <2> HIDE DEF free, top, m
  <2> QED BY <1>1, <2>1, <2>2
<1> HIDE DEF at, free, m, k
<1>6. k \in 0..m /\ (k = last \/ (k \in 1..m /\ record[k] = now[j]))
  <2>1. CASE at # {}
    <3>1. k = Smallest(at) /\ Smallest(at) \in at
      BY <1>2, <1>3, <2>1, SmallestOf
    <3>2. k \in 1..m /\ record[k] = now[j]
      BY <1>3, <3>1
    <3> QED BY <1>1, <3>2
  <2>2. CASE at = {} /\ free # {}
    <3>1. k = Smallest(free) /\ Smallest(free) \in free
      BY <1>2, <1>5, <2>2, SmallestOf
    <3>2. k \in 1..m /\ record[k] = now[j]
      BY <1>5, <3>1
    <3> QED BY <1>1, <3>2
  <2>3. CASE at = {} /\ free = {}
    BY <1>1, <1>2, <2>3
  <2> QED BY <2>1, <2>2, <2>3
<1> QED BY <1>6 DEF k, m

\* Whatever place the pairing has for a turn, is of an equal turn; where it has
\* no new one, the turn is unread (_pairing).
LEMMA PairedIs ==
    ASSUME NEW record \in Seq(Int), NEW now \in Seq(Int), NEW anchors,
           Pairs(record, now, anchors)
    PROVE  LET paired == PairedUpTo(record, now, anchors)
           IN /\ \A j \in 0..Len(now) : paired[j] \in 0..Len(record)
              /\ \A j \in 1..Len(now) :
                    \/ paired[j] = paired[j - 1]
                    \/ paired[j] \in 1..Len(record) /\ record[paired[j]] = now[j]
<1> DEFINE n == Len(now)  S == 0..Len(record)
           next(j, last) == Paired(record, now, anchors, j, last)
           step == [j \in 1..n |-> [last \in S |-> next(j, last)]]
           from(h) == [j \in 0..n |-> IF j = 0 THEN 0 ELSE next(j, h[j - 1])]
           paired == CHOOSE h : h = from(h)
<1>1. /\ \A j \in 1..n, last \in S : next(j, last) \in S
      /\ \A j \in 1..n, last \in S :
            next(j, last) = last \/ (next(j, last) \in 1..Len(record) /\ record[next(j, last)] = now[j])
  BY PairedStep
<1>2. n \in Nat /\ 0 \in S
  OBVIOUS
<1>3. PairedUpTo(record, now, anchors) = paired
  BY DEF PairedUpTo
<1> HIDE DEF next, n, S
<1>4. step \in [1..n -> [S -> S]]
  BY <1>1
<1>5. PICK f : GoesBy(f, S, 0, n, step)
  <2> HIDE DEF step
  <2> QED BY <1>2, <1>4, StepsDefine, Zenon
<1>6. /\ f \in [0..n -> S] /\ f[0] = 0
      /\ \A j \in 1..n : f[j] = next(j, f[j - 1])
  <2>1. \A j \in 1..n : j - 1 \in 0..n
    BY <1>2
  <2>2. \A j \in 1..n : f[j - 1] \in S /\ f[j] = step[j][f[j - 1]]
    BY <1>5, <2>1 DEF GoesBy
  <2> QED BY <1>5, <2>2 DEF GoesBy
<1>7. f = from(f)
  <2>1. \A j \in 0..n : j # 0 => j \in 1..n
    BY <1>2
  <2>2. \A j \in 0..n : f[j] = from(f)[j]
    BY <1>6, <2>1
  <2> QED BY <1>6, <2>2
<1>8. paired = from(paired)
  BY <1>7
<1> HIDE DEF paired
<1>9. paired[0] = 0 /\ \A j \in 1..n : paired[j] = next(j, paired[j - 1])
  <2>1. 0 \in 0..n /\ \A j \in 1..n : j \in 0..n /\ j # 0
    BY <1>2
  <2>2. \A j \in 0..n : paired[j] = IF j = 0 THEN 0 ELSE next(j, paired[j - 1])
    BY <1>8
  <2> QED BY <2>1, <2>2
<1>10. \A j \in 0..n : paired[j] \in S
  <2> DEFINE bad == {j \in 0..n : paired[j] \notin S}
  <2> SUFFICES ASSUME bad # {} PROVE FALSE
    OBVIOUS
  <2>1. bad \in SUBSET Nat
    BY <1>2
  <2>2. PICK j \in bad : \A k \in bad : j <= k
    BY <2>1, SmallestOf, Zenon
  <2>3. j # 0
    BY <1>2, <1>9, <2>2
  <2>4. j - 1 \in 0..n /\ j - 1 \notin bad /\ j \in 1..n
    <3>1. j \in 0..n
      OBVIOUS
    <3>2. j - 1 \in 0..n /\ j \in 1..n /\ ~(j <= j - 1)
      BY <1>2, <2>3, <3>1
    <3> HIDE DEF bad
    <3> QED BY <2>2, <3>2
  <2> QED BY <1>1, <1>9, <2>2, <2>4
<1>11. \A j \in 1..n : paired[j - 1] \in S
  <2>1. \A j \in 1..n : j - 1 \in 0..n
    BY <1>2
  <2> QED BY <1>10, <2>1
<1>12. \A j \in 1..n : \/ paired[j] = paired[j - 1]
                       \/ paired[j] \in 1..Len(record) /\ record[paired[j]] = now[j]
  BY <1>1, <1>9, <1>11
<1> QED BY <1>3, <1>10, <1>12 DEF n, S

\* Turns are paired only with equal turns to begin with.
LEMMA AnchorsPair ==
    ASSUME NEW record \in Seq(Int), NEW now \in Seq(Int), NEW anchors \in Anchors(record, now)
    PROVE  Pairs(record, now, anchors)
<1>1. \A a \in anchors : /\ a \in (DOMAIN now) \X (DOMAIN record)
                         /\ now[a[1]] = record[a[2]]
  BY Zenon DEF Anchors
<1>2. DOMAIN now = 1..Len(now) /\ DOMAIN record = 1..Len(record)
  OBVIOUS
<1>3. \A a \in anchors : a[1] \in DOMAIN now /\ a[2] \in DOMAIN record
  BY <1>1
<1> QED BY <1>1, <1>2, <1>3, Zenon DEF Pairs

\* The turns that are unread are those without a place of their own.
LEMMA UnreadIs ==
    ASSUME NEW paired, NEW n \in Nat
    PROVE  /\ Unread(paired, n) \in Seq(1..n)
           /\ \A j \in 1..n : paired[j] = paired[j - 1] =>
                 \E i \in 1..Len(Unread(paired, n)) : Unread(paired, n)[i] = j
<1> DEFINE all == [j \in 1..n |-> j]
           P == {j \in 1..n : paired[j] = paired[j - 1]}
<1>1. all \in Seq(1..n) /\ DOMAIN all = 1..n /\ \A j \in 1..n : all[j] = j
  OBVIOUS
<1>2. P \in SUBSET DOMAIN all
  OBVIOUS
<1>3. Unread(paired, n) = Kept(all, P)
  BY DEF Unread
<1>4. \A j \in 1..n : paired[j] = paired[j - 1] => j \in P
  OBVIOUS
<1> HIDE DEF all, P
<1>5. /\ Kept(all, P) \in Seq(1..n) /\ Len(Kept(all, P)) = Cardinality(P)
      /\ \A i \in P : /\ Rank(P, i) + 1 \in 1..Cardinality(P)
                      /\ Kept(all, P)[Rank(P, i) + 1] = all[i]
  BY <1>1, <1>2, KeptIs
<1>6. \A i \in P : i \in 1..n
  BY <1>1, <1>2
<1> QED BY <1>1, <1>3, <1>4, <1>5, <1>6

\* A row of the turns to read again, for a window of n turns.
PatchRow(n) == [at : 1..n, after : Nat]

\* The turns to read again are turns of the window; and where they are fewer
\* than a chunk takes, they are all that the stored summaries do not say
\* (_patch_candidates).
LEMMA CandidatesTell ==
    ASSUME NEW s, Sound(s), RecordSaid(s), ExtraSaid(s),
           NEW turns \in Seq(Turn), NEW before \in Int, before <= Len(turns),
           NEW anchors \in Anchors([k \in DOMAIN RecordSequence(s) |-> RecordSequence(s)[k].turn],
                                   turns),
           NEW patch, patch = PatchCandidates(s, turns, before, anchors)
    PROVE  /\ patch \in Seq(PatchRow(Len(turns)))
           /\ Begun(Chunks(s)) /\ Len(s.record) > 0 /\ Len(patch) < L1Size =>
                 \A i \in 1..before : \/ Shown(turns[i]) \in Said(s)
                                      \/ \E r \in 1..Len(patch) : patch[r].at = i
<1> DEFINE sequence == RecordSequence(s)
           record == [k \in DOMAIN sequence |-> sequence[k].turn]
           paired == PairedUpTo(record, turns, anchors)
           n == Len(turns)  m == Len(sequence)
           After(j) == IF paired[j] = 0 THEN 0 ELSE sequence[paired[j]].pos
           Again(j) == [at |-> j, after |-> After(j)]
           unread == Unread(paired, Smallest({n, before}))
           rows == [i \in DOMAIN unread |-> Again(unread[i])]
           least == Smallest({L1Size, Len(rows)})
<1>1. /\ sequence \in Seq(SaidPlaces(s))
      /\ sequence # <<>> <=> Begun(Chunks(s)) /\ Len(s.record) > 0
  BY SequenceIsSaid
<1>2. patch = IF sequence = <<>> THEN <<>> ELSE SubSeq(rows, 1, least)
  BY DEF PatchCandidates
<1>3. /\ m \in Nat /\ DOMAIN sequence = 1..m
      /\ \A k \in 1..m : /\ sequence[k].turn \in Int /\ sequence[k].pos \in Nat
                         /\ sequence[k].turn # Unknown => Shown(sequence[k].turn) \in Said(s)
  <2> HIDE DEF sequence
  <2>1. m \in Nat /\ DOMAIN sequence = 1..m /\ \A k \in 1..m : sequence[k] \in SaidPlaces(s)
    BY <1>1
  <2> QED BY <2>1 DEF SaidPlaces
<1>4. n \in Nat /\ \A i \in 1..n : turns[i] \in Int /\ turns[i] # Unknown
  BY DEF Turn
<1> HIDE DEF sequence, m
<1>5. record \in Seq(Int) /\ Len(record) = m /\ \A k \in 1..m : record[k] = sequence[k].turn
  BY <1>3
<1>6. /\ \A j \in 0..n : paired[j] \in 0..m
      /\ \A j \in 1..n : \/ paired[j] = paired[j - 1]
                         \/ paired[j] \in 1..m /\ record[paired[j]] = turns[j]
  <2>1. anchors \in Anchors(record, turns) /\ turns \in Seq(Int)
    BY TurnsAreInts DEF sequence
  <2> HIDE DEF record
  <2>2. Pairs(record, turns, anchors)
    BY <1>5, <2>1, AnchorsPair
  <2> QED BY <1>5, <2>1, <2>2, PairedIs
<1> HIDE DEF paired, record
<1>7. Smallest({n, before}) = before
  <2>1. \A k \in {n, before} : (\A i \in {n, before} : k <= i) <=> k = before
    BY <1>4
  <2> QED BY <2>1 DEF Smallest
<1>8. /\ unread \in Seq(1..n)
      /\ \A j \in 1..before : paired[j] = paired[j - 1] => \E i \in 1..Len(unread) : unread[i] = j
  <2>1. CASE before \in Nat
    <3>1. /\ Unread(paired, before) \in Seq(1..before)
          /\ \A j \in 1..before : paired[j] = paired[j - 1] =>
                \E i \in 1..Len(Unread(paired, before)) : Unread(paired, before)[i] = j
      BY <2>1, UnreadIs
    <3>2. 1..before \subseteq 1..n
      BY <1>4
    <3>3. Seq(1..before) \subseteq Seq(1..n)
      BY <3>2, SeqMonotonic
    <3> QED BY <1>7, <3>1, <3>3
  <2>2. CASE before \notin Nat
    <3>1. 1..before = {} /\ 1..0 = {} /\ 1..0 \subseteq 1..n
      BY <1>4, <2>2
    <3>2. Unread(paired, before) = Unread(paired, 0)
      BY <3>1 DEF Unread
    <3>3. Unread(paired, 0) \in Seq(1..0)
      BY UnreadIs
    <3>4. Seq(1..0) \subseteq Seq(1..n)
      BY <3>1, SeqMonotonic
    <3> QED BY <1>7, <3>1, <3>2, <3>3, <3>4
  <2> QED BY <2>1, <2>2
<1> HIDE DEF unread
<1>9. \A j \in 1..n : Again(j) \in PatchRow(n) /\ Again(j).at = j
  <2>1. \A j \in 1..n : paired[j] \in 0..m
    BY <1>4, <1>6
  <2>2. \A j \in 1..n : After(j) \in Nat
    BY <1>3, <2>1
  <2> HIDE DEF After, n
  <2> QED BY <2>2 DEF PatchRow
<1> HIDE DEF Again, n
<1>10. /\ rows \in Seq(PatchRow(n)) /\ Len(rows) = Len(unread) /\ Len(rows) \in Nat
       /\ \A i \in 1..Len(rows) : rows[i].at = unread[i]
  <2>1. Len(unread) \in Nat /\ DOMAIN unread = 1..Len(unread)
        /\ \A i \in 1..Len(unread) : unread[i] \in 1..n
    <3> DEFINE T == 1..n
    <3>1. unread \in Seq(T)
      BY <1>8
    <3> HIDE DEF T
    <3>2. Len(unread) \in Nat /\ DOMAIN unread = 1..Len(unread)
          /\ \A i \in 1..Len(unread) : unread[i] \in T
      BY <3>1
    <3> QED BY <3>2 DEF T
  <2> QED BY <1>9, <2>1
<1> HIDE DEF rows
<1>11. L1Size \in Nat \ {0}
  BY HierarchyAssumption
<1>12. /\ least \in 0..Len(rows)
       /\ least < L1Size => least = Len(rows)
  <2>1. {L1Size, Len(rows)} \in SUBSET Nat
    BY <1>10, <1>11
  <2>2. least \in {L1Size, Len(rows)} /\ least <= Len(rows) /\ least <= L1Size
    BY <2>1, SmallestOf
  <2> HIDE DEF least
  <2> QED BY <1>10, <1>11, <2>2
<1> HIDE DEF least
<1>13. /\ SubSeq(rows, 1, least) \in Seq(PatchRow(n))
       /\ Len(SubSeq(rows, 1, least)) = least
       /\ \A i \in 1..least : SubSeq(rows, 1, least)[i] = rows[i]
  <2>1. \A i \in 1..least : rows[i] \in PatchRow(n)
    BY <1>10, <1>12
  <2>2. 1 \in Int /\ least \in Nat
    BY <1>10, <1>12
  <2>3. /\ SubSeq(rows, 1, least) \in Seq(PatchRow(n))
        /\ Len(SubSeq(rows, 1, least)) = least
        /\ \A i \in 1..least : SubSeq(rows, 1, least)[i] = rows[i]
    BY <2>1, <2>2, SubSeqProperties
  <2> QED BY <2>3
<1>14. patch \in Seq(PatchRow(n))
  BY <1>2, <1>13
<1>15. ASSUME Begun(Chunks(s)), Len(s.record) > 0, Len(patch) < L1Size, NEW j \in 1..before
       PROVE  Shown(turns[j]) \in Said(s) \/ \E r \in 1..Len(patch) : patch[r].at = j
  <2>1. patch = SubSeq(rows, 1, least) /\ Len(patch) = least
    BY <1>1, <1>2, <1>13, <1>15
  <2>2. least = Len(rows) /\ \A i \in 1..Len(patch) : patch[i].at = unread[i]
    BY <1>10, <1>12, <1>13, <1>15, <2>1
  <2>3. j \in 1..n
    BY <1>4 DEF n
  <2>4. CASE paired[j] = paired[j - 1]
    <3>1. PICK i \in 1..Len(unread) : unread[i] = j
      BY <1>8, <2>4
    <3> QED BY <1>10, <2>1, <2>2, <3>1
  <2>5. CASE paired[j] \in 1..m /\ record[paired[j]] = turns[j]
    <3>1. sequence[paired[j]].turn = turns[j] /\ turns[j] # Unknown
      BY <1>4, <1>5, <2>3, <2>5
    <3> QED BY <1>3, <2>5, <3>1
  <2> QED BY <1>6, <2>3, <2>4, <2>5
<1> QED BY <1>14, <1>15 DEF n

\* What a state remembers of the turns its chunks were made from.
Remembered(s) == RecordSaid(s) /\ ExtraSaid(s)

\* The turns that a pass has set aside to be read again are turns of its
\* window.  Until it has read its first chunk, and where they are fewer than a
\* chunk takes, they are all that the summaries do not say.
PatchTells ==
    /\ pass.patch \in Seq(PatchRow(Len(pass.turns)))
    /\ /\ pass.kind # "compact" /\ Mem.mark = disk.mark /\ NeedsL1(Mem, Mem.seen)
       /\ Begun(Chunks(Mem)) /\ Len(Mem.record) > 0 /\ Len(pass.patch) < L1Size
       => \A i \in 1..Mem.mark - Offset :
             \/ Shown(pass.turns[i]) \in Said(Mem)
             \/ \E r \in 1..Len(pass.patch) : pass.patch[r].at = i

\* The same in a pass as on disk.
RecordsSaid == Remembered(disk) /\ (pass # Idle => Remembered(Mem) /\ PatchTells)

\* A record stays true while what was said stays said.
LEMMA RecordStaysSaid ==
    ASSUME NEW s, NEW t, Remembered(s), t.record = s.record, t.extra = s.extra,
           Said(s) \subseteq Said(t)
    PROVE  Remembered(t)
BY DEF Remembered, RecordSaid, ExtraSaid

\* An entry of the record after a chunk was read is an entry of before, or a
\* turn that the chunk has read, or none (_record_chunk_fps).
LEMMA RecordChunkEntries ==
    ASSUME NEW record \in Seq(Int), NEW first \in Nat \ {0}, NEW turns \in Seq(Int)
    PROVE  LET new == RecordChunk(record, first, turns)
           IN /\ new \in Seq(Int)
              /\ \A k \in 1..Len(new) :
                    \/ new[k] = Unknown
                    \/ \E i \in 1..Len(turns) : new[k] = turns[i]
                    \/ k \in 1..Len(record) /\ new[k] = record[k]
<1> DEFINE n == Len(record)  m == Len(turns)
           reach == Largest({n, first - 1 + m})
           held(k) == IF k <= n THEN record[k] ELSE Unknown
           new == RecordChunk(record, first, turns)
<1>1. n \in Nat /\ m \in Nat
  OBVIOUS
<1>2. reach \in Nat
  <2>1. n \in Int /\ first - 1 + m \in Int
    BY <1>1
  <2>2. reach \in {n, first - 1 + m}
    BY <2>1, LargestOfTwo
  <2> QED BY <1>1, <2>2
<1>3. new = [k \in 1..reach |->
               IF held(k) = Unknown /\ k >= first /\ k < first + m
               THEN turns[k - first + 1] ELSE held(k)]
  BY DEF RecordChunk
<1> HIDE DEF reach, new
<1>4. \A k \in 1..reach : held(k) = Unknown \/ (k \in 1..n /\ held(k) = record[k])
  BY <1>1, <1>2
<1>5. \A k \in 1..reach : k >= first /\ k < first + m => k - first + 1 \in 1..m
  BY <1>1, <1>2
<1> HIDE DEF n, m, held
<1>6. \A k \in 1..reach :
         \/ new[k] = Unknown
         \/ \E i \in 1..m : new[k] = turns[i]
         \/ k \in 1..n /\ new[k] = record[k]
  BY <1>3, <1>4, <1>5
<1>7. \A k \in 1..reach : new[k] \in Int
  <2>1. /\ \A i \in 1..m : turns[i] \in Int
        /\ \A k \in 1..n : record[k] \in Int
        /\ Unknown \in Int
    BY DEF m, n, Unknown
  <2> QED BY <1>6, <2>1
<1>8. new \in Seq(Int) /\ Len(new) = reach
  <2>1. DOMAIN new = 1..reach /\ new = [k \in 1..reach |-> new[k]]
    BY <1>3
  <2> QED BY <1>2, <1>7, <2>1
<1> QED BY <1>6, <1>8 DEF n, m, new

\* The list of what was read again gains rows of the patch (_record_patch_fps).
LEMMA RecordPatchEntries ==
    ASSUME NEW extra \in Seq(Extra), NEW owner \in Nat,
           NEW rows \in Seq([after : Nat, turn : Turn])
    PROVE  LET new == RecordPatch(extra, owner, rows)
           IN /\ new \in Seq(Extra)
              /\ \A k \in 1..Len(new) :
                    \/ k \in 1..Len(extra) /\ new[k] = extra[k]
                    \/ \E i \in 1..Len(rows) : new[k].turn = rows[i].turn
<1> DEFINE Row == [after : Nat, turn : Turn]
           Same(s, r) == Cardinality({i \in DOMAIN s : s[i].after = r.after /\ s[i].turn = r.turn})
           P == {i \in DOMAIN rows : Same(SubSeq(rows, 1, i), rows[i]) > Same(extra, rows[i])}
           kept == Kept(rows, P)  n == Cardinality(P)
           entry(r) == [after |-> r.after, owner |-> owner, turn |-> r.turn]
           more == [i \in DOMAIN kept |-> entry(kept[i])]
<1>1. RecordPatch(extra, owner, rows) = extra \o more
  BY DEF RecordPatch
<1>2. P \in SUBSET DOMAIN rows /\ DOMAIN rows = 1..Len(rows)
  OBVIOUS
<1> HIDE DEF P, Row
<1>3. /\ kept \in Seq(Row) /\ Len(kept) = n /\ n \in Nat
      /\ \A k \in 1..n : \E i \in P : kept[k] = rows[i]
  <2>1. rows \in Seq(Row)
    BY DEF Row
  <2> QED BY <1>2, <2>1, KeptIs
<1>4. DOMAIN kept = 1..n /\ \A k \in 1..n : kept[k] \in Row
  BY <1>3
<1> HIDE DEF kept, n
<1>5. \A r \in Row : entry(r) \in Extra /\ entry(r).turn = r.turn
  BY DEF Row, Extra
<1> HIDE DEF entry
<1>6. more \in Seq(Extra) /\ Len(more) = n /\ \A k \in 1..n : more[k] = entry(kept[k])
  BY <1>3, <1>4, <1>5
<1> HIDE DEF more
<1>7. \A k \in 1..n : \E i \in 1..Len(rows) : more[k].turn = rows[i].turn
  <2> TAKE k \in 1..n
  <2>1. PICK i \in P : kept[k] = rows[i]
    BY <1>3
  <2>2. more[k].turn = kept[k].turn
    <3>1. kept[k] \in Row /\ more[k] = entry(kept[k])
      BY <1>4, <1>6
    <3> QED BY <1>5, <3>1
  <2>3. i \in 1..Len(rows)
    BY <1>2
  <2> QED BY <2>1, <2>2, <2>3
<1> DEFINE new == extra \o more
<1>8. /\ new \in Seq(Extra) /\ Len(new) = Len(extra) + n
      /\ \A k \in 1..Len(extra) : new[k] = extra[k]
      /\ \A k \in 1..n : new[Len(extra) + k] = more[k]
  BY <1>6, ConcatSeq
<1>9. Len(extra) \in Nat
  OBVIOUS
<1> HIDE DEF new
<1>10. ASSUME NEW k \in 1..Len(new), k \notin 1..Len(extra)
       PROVE  \E i \in 1..Len(rows) : new[k].turn = rows[i].turn
  <2> DEFINE j == k - Len(extra)
  <2>1. j \in 1..n /\ Len(extra) + j = k
    BY <1>3, <1>8, <1>9, <1>10
  <2> HIDE DEF j
  <2>2. new[k] = more[j]
    BY <1>8, <2>1
  <2> QED BY <1>7, <2>1, <2>2
<1> QED BY <1>1, <1>8, <1>10 DEF new

\* A pass begins with the record of the stored state, and sets aside what the
\* summaries do not say (_observed_position, maybe_rollup).
LEMMA StartKeepsRecord ==
    ASSUME Sound(disk), Remembered(disk), NEW kind, NEW turns \in Seq(Turn), NEW calls,
           Start(kind, turns, calls), disk' = disk
    PROVE  Remembered(Mem') /\ PatchTells'
<1> DEFINE t == Observe(disk, turns)
           before == t.mark - (t.seen - Len(turns))
           sequence == RecordSequence(t)
           patches == IF kind # "compact" /\ NeedsL1(t, t.seen)
                      THEN {PatchCandidates(t, turns, before, a) :
                              a \in Anchors([k \in DOMAIN sequence |-> sequence[k].turn], turns)}
                      ELSE {<<>>}
<1>1. PICK patch \in patches :
         pass' = [kind |-> kind, turns |-> turns, state |-> t, patch |-> patch,
                  calls |-> calls, tried |-> {}]
  <2>1. Repair(disk) = disk
    BY HighestBelowMark
  <2> QED BY <2>1, Zenon DEF Start
<1>2. Continues(disk, t) /\ Len(turns) <= t.seen
  BY ObservingIsSound
<1>3. t.record = disk.record /\ t.extra = disk.extra
  BY DEF Sound, Fields, Observe
<1>4. /\ patch \in patches
      /\ patches = IF kind # "compact" /\ NeedsL1(t, t.seen)
                   THEN {PatchCandidates(t, turns, before, a) :
                           a \in Anchors([k \in DOMAIN RecordSequence(t) |->
                                             RecordSequence(t)[k].turn], turns)}
                   ELSE {<<>>}
  BY <1>1
<1> HIDE DEF t, patches
<1>5. /\ Mem' = t /\ pass'.turns = turns /\ pass'.patch = patch /\ pass'.kind = kind
      /\ Offset' = t.seen - Len(turns)
  BY <1>1 DEF Mem, Offset
<1>6. Remembered(t)
  BY <1>2, <1>3, RecordStaysSaid DEF Continues
<1>7. CASE kind # "compact" /\ NeedsL1(t, t.seen)
  <2>1. PICK a \in Anchors([k \in DOMAIN RecordSequence(t) |-> RecordSequence(t)[k].turn], turns) :
           patch = PatchCandidates(t, turns, before, a)
    BY <1>4, <1>7
  <2>2. before \in Int /\ before <= Len(turns)
    <3>1. t.mark \in Nat /\ t.seen \in Nat /\ t.mark <= t.seen /\ Len(turns) \in Nat
      BY <1>2 DEF Continues, Sound
    <3> QED BY <3>1
  <2> HIDE DEF before
  <2>3. /\ patch \in Seq(PatchRow(Len(turns)))
        /\ Begun(Chunks(t)) /\ Len(t.record) > 0 /\ Len(patch) < L1Size =>
              \A i \in 1..before : \/ Shown(turns[i]) \in Said(t)
                                   \/ \E r \in 1..Len(patch) : patch[r].at = i
    <3>1. Sound(t) /\ RecordSaid(t) /\ ExtraSaid(t)
      BY <1>2, <1>6 DEF Continues, Remembered
    <3> QED BY <2>1, <2>2, <3>1, CandidatesTell
  <2>4. Mem'.mark - Offset' = before
    BY <1>5 DEF before
  <2> QED BY <1>5, <1>6, <2>3, <2>4 DEF PatchTells
<1>8. CASE ~(kind # "compact" /\ NeedsL1(t, t.seen))
  <2>1. patch = <<>>
    BY <1>4, <1>8
  <2>2. <<>> \in Seq(PatchRow(Len(turns)))
    OBVIOUS
  <2> QED BY <1>5, <1>6, <1>8, <2>1, <2>2 DEF PatchTells
<1> QED BY <1>7, <1>8

\* No tier but the first writes the record, and none of them disturbs what is
\* set aside for the first chunk (_do_l2_rollup, _do_l3_rollup).
LEMMA TiersKeepRecord ==
    ASSUME IInv, Remembered(Mem), PatchTells, RefreshesL3 \/ FoldsL2 \/ TierFails \/ SkipsL1
    PROVE  Remembered(Mem') /\ PatchTells'
<1>1. pass # Idle /\ disk' = disk
  BY DEF RefreshesL3, FoldsL2, TierFails, SkipsL1, Begins, Rolls
<1>2. PassInv /\ Sound(Mem)
  BY <1>1, PassFacts
<1>3. /\ pass = [kind |-> pass.kind, turns |-> pass.turns, state |-> pass.state,
                 patch |-> pass.patch, calls |-> pass.calls, tried |-> pass.tried]
      /\ pass.state = [l1 |-> Mem.l1, l2 |-> Mem.l2, l3 |-> Mem.l3, mark |-> Mem.mark,
                       seen |-> Mem.seen, anchor |-> Mem.anchor, head |-> Mem.head,
                       width |-> Mem.width, record |-> Mem.record, extra |-> Mem.extra]
  BY <1>2 DEF PassInv, Sound, Fields, Mem
<1>4. Said(Mem) \subseteq Said(Mem')
  BY TierKeepsInv DEF TierNext, Keeps
<1>5. ASSUME Mem'.record = Mem.record, Mem'.extra = Mem.extra, Mem'.mark = Mem.mark,
             Mem'.seen = Mem.seen, pass'.turns = pass.turns, pass'.patch = pass.patch,
             pass'.kind = pass.kind, Begun(Chunks(Mem')) => Begun(Chunks(Mem))
      PROVE  Remembered(Mem') /\ PatchTells'
  <2>1. Remembered(Mem')
    BY <1>4, <1>5, RecordStaysSaid
  <2>2. NeedsL1(Mem', Mem'.seen) => NeedsL1(Mem, Mem.seen)
    BY <1>5 DEF NeedsL1
  <2>3. Offset' = Offset
    BY <1>5 DEF Offset
  <2> QED BY <1>1, <1>4, <1>5, <2>1, <2>2, <2>3 DEF PatchTells
<1>6. CASE RefreshesL3
  <2> DEFINE told == <<Story(Mem.l3, Mem.l2)>>  none == <<>>
             tried == pass.tried \union {"l3"}  calls == CallsLeft(1 + Len(Mem.l3))
             s == Mem  t == Retold(s)
  <2>1. pass' = [pass EXCEPT !.state.l3 = told, !.state.l2 = none,
                             !.tried = tried, !.calls = calls]
    BY <1>6 DEF RefreshesL3, Rolls
  <2>2. Begun(Chunks(t)) => Begun(Chunks(s))
    <3>1. NeedsL3(s)
      BY <1>6 DEF RefreshesL3, Begins, DueL3
    <3> HIDE DEF s, t
    <3> QED BY <1>2, <3>1, RefreshIsSound DEF s, t
  <2>3. Mem' = t
    <3>1. t = [Mem EXCEPT !.l3 = told, !.l2 = none]
      BY DEF Retold
    <3> HIDE DEF told, none, tried, calls, t
    <3> QED BY <1>3, <2>1, <3>1 DEF Mem
  <2> HIDE DEF told, none, tried, calls
  <2>4. /\ Mem'.record = Mem.record /\ Mem'.extra = Mem.extra /\ Mem'.mark = Mem.mark
        /\ Mem'.seen = Mem.seen /\ pass'.turns = pass.turns /\ pass'.patch = pass.patch
        /\ pass'.kind = pass.kind
    BY <1>3, <2>1 DEF Mem
  <2> QED BY <1>5, <2>2, <2>3, <2>4
<1>7. CASE FoldsL2
  <2> DEFINE chapters == Append(Mem.l2, Merged(SubSeq(Mem.l1, 1, L2Size)))
             scenes == Unfolded(Mem.l1)  calls == CallsLeft(1)
             s == Mem  t == Folded(s)
  <2>1. pass' = [pass EXCEPT !.state.l2 = chapters, !.state.l1 = scenes, !.calls = calls]
    BY <1>7 DEF FoldsL2, Rolls, Mem
  <2>2. Begun(Chunks(t)) => Begun(Chunks(s))
    <3>1. NeedsL2(s)
      BY <1>7 DEF FoldsL2, Begins, DueL2
    <3> HIDE DEF s, t
    <3> QED BY <1>2, <3>1, FoldingIsSound DEF s, t
  <2>3. Mem' = t
    <3>1. t = [Mem EXCEPT !.l2 = chapters, !.l1 = scenes]
      BY DEF Folded
    <3> HIDE DEF chapters, scenes, calls, t
    <3> QED BY <1>3, <2>1, <3>1 DEF Mem
  <2> HIDE DEF chapters, scenes, calls
  <2>4. /\ Mem'.record = Mem.record /\ Mem'.extra = Mem.extra /\ Mem'.mark = Mem.mark
        /\ Mem'.seen = Mem.seen /\ pass'.turns = pass.turns /\ pass'.patch = pass.patch
        /\ pass'.kind = pass.kind
    BY <1>3, <2>1 DEF Mem
  <2> QED BY <1>5, <2>2, <2>3, <2>4
<1>8. CASE TierFails
  <2>1. PICK tier : pass' = [pass EXCEPT !.tried = pass.tried \union {tier},
                                         !.calls = CallsLeft(1)]
    BY <1>8, Zenon DEF TierFails, Rolls
  <2>2. /\ Mem' = Mem /\ pass'.turns = pass.turns /\ pass'.patch = pass.patch
        /\ pass'.kind = pass.kind
    BY <1>3, <2>1 DEF Mem
  <2> QED BY <1>5, <2>2
<1>9. CASE SkipsL1
  <2> DEFINE off == Offset  none == <<>>
  <2>1. pass' = [pass EXCEPT !.state.mark = off, !.patch = none] /\ Mem.mark + L1Size <= off
    BY <1>9 DEF SkipsL1, Rolls
  <2>2. /\ Mem.mark \in Nat /\ off \in Nat /\ disk.mark <= Mem.mark /\ disk.mark \in Nat
        /\ L1Size \in Nat \ {0}
    BY <1>1, PassFacts, HierarchyAssumption DEF PassInv, IInv, Sound
  <2>3. none \in Seq(PatchRow(Len(pass.turns)))
    OBVIOUS
  <2> HIDE DEF off, none
  <2>4. /\ Mem'.record = Mem.record /\ Mem'.extra = Mem.extra /\ Mem'.mark = off
        /\ pass'.turns = pass.turns /\ pass'.patch = none
    BY <1>3, <2>1 DEF Mem
  <2>5. Mem'.mark # disk'.mark
    BY <1>1, <2>1, <2>2, <2>4
  <2>6. Remembered(Mem')
    BY <1>4, <2>4, RecordStaysSaid
  <2> QED BY <2>3, <2>4, <2>5, <2>6 DEF PatchTells
<1> QED BY <1>6, <1>7, <1>8, <1>9

\* Where a chunk is read from: turns of the window, from the one after the
\* watermark or the first that the window has.
LEMMA TurnsReadSeq ==
    ASSUME IInv, ReadsL1
    PROVE  TurnsRead \in Seq(Turn) /\ ChunkFirst \in Nat \ {0}
<1>1. /\ pass # Idle /\ Mem.mark + L1Size > Offset /\ DueL1
  BY DEF ReadsL1, Begins
<1>2. /\ PassInv /\ Mem.mark \in Nat /\ Mem.seen \in Nat /\ Offset \in Nat
      /\ Len(pass.turns) \in Nat /\ pass.turns \in Seq(Turn)
  BY <1>1, PassFacts DEF PassInv
<1> DEFINE m == Mem.mark  k == Offset  n == Len(pass.turns)
           a == ChunkFirst - k  b == ChunkLast - k
<1>3. /\ Largest({m, k}) \in {m, k} /\ k <= Largest({m, k})
      /\ ChunkFirst = Largest({m, k}) + 1
  <2>1. m \in Int /\ k \in Int
    BY <1>2
  <2>2. ChunkFirst = Largest({m, k}) + 1
    BY DEF ChunkFirst
  <2> HIDE DEF m, k
  <2> QED BY <2>1, <2>2, LargestOfTwo
<1>4. ChunkLast = m + L1Size /\ L1Size \in Nat \ {0}
  BY HierarchyAssumption DEF ChunkLast
<1>5. Mem.seen - m >= L1Size /\ k = Mem.seen - n
  BY <1>1 DEF DueL1, NeedsL1, Offset
<1>6. ChunkFirst \in Nat \ {0} /\ a \in Int /\ 1 <= a /\ b \in Int /\ b <= n
  <2> DEFINE top == Largest({m, k})  seen == Mem.seen
  <2>1. /\ top \in {m, k} /\ k <= top /\ ChunkFirst = top + 1
        /\ m \in Nat /\ k \in Nat /\ n \in Nat /\ seen \in Nat
        /\ seen - m >= L1Size /\ k = seen - n
    BY <1>2, <1>3, <1>5
  <2> HIDE DEF top, seen, m, n, k
  <2> QED BY <2>1, <1>4
<1>7. \A i \in a..b : i \in 1..n
  <2> HIDE DEF a, b, n
  <2> QED BY <1>2, <1>6 DEF n
<1>8. \A i \in a..b : pass.turns[i] \in Turn
  BY <1>2, <1>7
<1> HIDE DEF a, b
<1>9. SubSeq(pass.turns, a, b) \in Seq(Turn)
  BY <1>6, <1>8, SubSeqProperties
<1> QED BY <1>6, <1>9 DEF TurnsRead, a, b

\* The chunk says what it has read, from the window and again, and the record
\* gains nothing else (_do_l1_rollup).
LEMMA ReadingKeepsRecord ==
    ASSUME IInv, Remembered(Mem), PatchTells, ReadsL1
    PROVE  /\ Remembered(Mem') /\ PatchTells'
           /\ \A t \in ToSet(TurnsRead) : Shown(t) \in Said(Mem')
           /\ \A i \in 1..Len(pass.patch) : pass.patch[i].at < ChunkFirst - Offset =>
                 Shown(pass.turns[pass.patch[i].at]) \in Said(Mem')
<1> DEFINE P == {i \in DOMAIN pass.patch : pass.patch[i].at < ChunkFirst - Offset}
           patch == Kept(pass.patch, P)
           again == [i \in DOMAIN patch |-> [after |-> patch[i].after,
                                             turn |-> pass.turns[patch[i].at]]]
           says == {Shown(t) : t \in ToSet(TurnsRead) \union {r.turn : r \in ToSet(again)}}
           c == [says |-> says, first |-> ChunkFirst, last |-> ChunkLast]
           record == NewRecord
           extra == RecordPatch(pass.state.extra, ChunkLast, again)
           l1 == Append(pass.state.l1, c)  mark == ChunkLast
           calls == CallsLeft(1)  none == <<>>
<1>1. pass # Idle /\ PassInv /\ Sound(Mem)
  BY PassFacts DEF ReadsL1, Begins
<1>2. pass' = [pass EXCEPT !.state.l1 = l1, !.state.mark = mark, !.state.record = record,
                           !.state.extra = extra, !.patch = none, !.calls = calls]
  BY DEF ReadsL1, Rolls
<1>3. /\ \A t \in ToSet(TurnsRead) : Shown(t) \in c.says
      /\ \A r \in ToSet(again) : Shown(r.turn) \in c.says
  OBVIOUS
<1> HIDE DEF l1, mark, record, extra, none, calls, c, again
<1>4. /\ Mem'.l1 = l1 /\ Mem'.record = record /\ Mem'.extra = extra /\ Mem'.mark = mark
      /\ pass'.turns = pass.turns /\ pass'.patch = none
  <2>1. /\ pass = [kind |-> pass.kind, turns |-> pass.turns, state |-> pass.state,
                   patch |-> pass.patch, calls |-> pass.calls, tried |-> pass.tried]
        /\ pass.state = [l1 |-> Mem.l1, l2 |-> Mem.l2, l3 |-> Mem.l3, mark |-> Mem.mark,
                         seen |-> Mem.seen, anchor |-> Mem.anchor, head |-> Mem.head,
                         width |-> Mem.width, record |-> Mem.record, extra |-> Mem.extra]
    BY <1>1 DEF PassInv, Sound, Fields, Mem
  <2> QED BY <1>2, <2>1 DEF Mem
<1>5. Keeps /\ IInv' /\ pass' # Idle
  <2>1. Keeps /\ IInv'
    BY ReadingKeepsInv
  <2>2. pass' # Idle
    BY <1>1, <1>2 DEF PassInv, Idle
  <2> QED BY <2>1, <2>2
<1>6. c \in ToSet(l1)
  <2>1. PICK S : Mem.l1 \in Seq(S)
    BY <1>1 DEF Sound, Tiers
  <2> DEFINE T == S \union {c}  old == Mem.l1
  <2>2. old \in Seq(T) /\ c \in T
    BY <2>1, SeqMonotonic, S \subseteq T
  <2>3. l1 = Append(old, c)
    BY DEF l1, Mem
  <2> HIDE DEF T, old
  <2>4. Len(l1) = Len(old) + 1 /\ l1[Len(old) + 1] = c /\ l1 \in Seq(T) /\ Len(old) \in Nat
    BY <2>2, <2>3
  <2>5. Len(old) + 1 \in DOMAIN l1
    BY <2>4
  <2> QED BY <2>4, <2>5 DEF ToSet
<1>7. /\ \A t \in ToSet(TurnsRead) : Shown(t) \in Said(Mem')
      /\ \A r \in ToSet(again) : Shown(r.turn) \in Said(Mem')
  <2> DEFINE s == Mem'
  <2>1. PICK S : Tiers(s, S)
    BY <1>5 DEF IInv, PassInv, Sound
  <2>2. ToSet(Chunks(s)) = ToSet(s.l3) \union ToSet(s.l2) \union ToSet(s.l1)
    BY <2>1, ChunksSeq
  <2>3. c \in ToSet(Chunks(s))
    BY <2>2, <1>4, <1>6
  <2> HIDE DEF s
  <2> QED BY <1>3, <2>3 DEF Said, s
<1> DEFINE Row == [after : Nat, turn : Turn]  rows == pass.patch
           Reread(r) == [after |-> r.after, turn |-> pass.turns[r.at]]
<1>8. /\ rows \in Seq(PatchRow(Len(pass.turns))) /\ P \in SUBSET DOMAIN rows
      /\ DOMAIN rows = 1..Len(rows)
  BY DEF PatchTells
<1>9. again = [i \in DOMAIN patch |-> Reread(patch[i])]
  BY DEF again
<1>10. \A i \in P : i \in 1..Len(rows) /\ rows[i].at < ChunkFirst - Offset
  BY <1>8
<1>11. \A i \in 1..Len(rows) : rows[i].at < ChunkFirst - Offset => i \in P
  BY <1>8
<1>12. \A r \in PatchRow(Len(pass.turns)) : Reread(r) \in Row /\ Reread(r).turn = pass.turns[r.at]
  <2>1. pass.turns \in Seq(Turn)
    BY <1>1 DEF PassInv
  <2>2. \A i \in 1..Len(pass.turns) : pass.turns[i] \in Turn
    BY <2>1
  <2> QED BY <2>2 DEF PatchRow
<1> HIDE DEF P, rows, Reread, Row
<1>13. /\ patch \in Seq(PatchRow(Len(pass.turns))) /\ Len(patch) = Cardinality(P)
       /\ Cardinality(P) \in Nat
       /\ \A i \in P : /\ Rank(P, i) + 1 \in 1..Cardinality(P)
                       /\ patch[Rank(P, i) + 1] = rows[i]
  <2>1. patch = Kept(rows, P)
    BY DEF rows
  <2> HIDE DEF patch
  <2> QED BY <1>8, <2>1, KeptIs
<1> HIDE DEF patch
<1>14. /\ again \in Seq(Row) /\ Len(again) = Len(patch)
       /\ \A i \in 1..Len(patch) : again[i].turn = pass.turns[patch[i].at]
  <2> DEFINE S == PatchRow(Len(pass.turns))
  <2> HIDE DEF S
  <2>1. patch \in Seq(S) /\ \A r \in S : Reread(r) \in Row /\ Reread(r).turn = pass.turns[r.at]
    BY <1>12, <1>13 DEF S
  <2> QED BY <1>9, <2>1
<1>15. \A i \in 1..Len(again) : again[i] \in ToSet(again)
  BY <1>14 DEF ToSet
<1>16. ASSUME NEW i \in 1..Len(rows), rows[i].at < ChunkFirst - Offset
       PROVE  Shown(pass.turns[rows[i].at]) \in Said(Mem')
  <2> DEFINE k == Rank(P, i) + 1
  <2>1. k \in 1..Len(patch) /\ patch[k] = rows[i]
    BY <1>11, <1>13, <1>16
  <2> HIDE DEF k
  <2>2. again[k].turn = pass.turns[rows[i].at] /\ again[k] \in ToSet(again)
    BY <1>14, <1>15, <2>1
  <2> QED BY <1>7, <2>2
<1> DEFINE turns == TurnsRead  old == Mem.record
<1>17. turns \in Seq(Int) /\ ChunkFirst \in Nat \ {0} /\ old \in Seq(Int)
  BY TurnsReadSeq, TurnsAreInts DEF Remembered, RecordSaid
<1>18. record = RecordChunk(old, ChunkFirst, turns)
  BY DEF record, NewRecord
<1>19. \A i \in 1..Len(turns) : turns[i] \in ToSet(turns)
  BY <1>17 DEF ToSet
<1>20. \A k \in 1..Len(old) : old[k] # Unknown => Shown(old[k]) \in Said(Mem')
  BY <1>5 DEF Remembered, RecordSaid, Keeps
<1>21. \A i \in 1..Len(turns) : Shown(turns[i]) \in Said(Mem')
  BY <1>7, <1>19
<1> HIDE DEF turns, old
<1>22. /\ record \in Seq(Int)
       /\ \A k \in 1..Len(record) :
             \/ record[k] = Unknown
             \/ \E i \in 1..Len(turns) : record[k] = turns[i]
             \/ k \in 1..Len(old) /\ record[k] = old[k]
  <2>1. LET new == RecordChunk(old, ChunkFirst, turns)
        IN /\ new \in Seq(Int)
           /\ \A k \in 1..Len(new) :
                 \/ new[k] = Unknown
                 \/ \E i \in 1..Len(turns) : new[k] = turns[i]
                 \/ k \in 1..Len(old) /\ new[k] = old[k]
    BY ONLY <1>17, RecordChunkEntries, Zenon
  <2> QED BY ONLY <1>18, <2>1, Zenon
<1>23. \A k \in 1..Len(record) : record[k] # Unknown => Shown(record[k]) \in Said(Mem')
  BY ONLY <1>20, <1>21, <1>22, Zenon
<1>24. RecordSaid(Mem')
  BY <1>4, <1>22, <1>23 DEF RecordSaid
<1>25. mark \in Nat /\ disk.mark \in Nat /\ disk.mark < mark /\ disk' = disk
  <2>1. mark = Mem.mark + L1Size
    BY DEF mark, ChunkLast
  <2>2. L1Size \in Nat \ {0} /\ disk' = disk
    BY HierarchyAssumption DEF ReadsL1, Rolls
  <2>3. Mem.mark \in Nat /\ disk.mark \in Nat /\ disk.mark <= Mem.mark
    BY <1>1, PassFacts DEF PassInv, IInv, Sound
  <2> QED BY <2>1, <2>2, <2>3
<1> DEFINE had == Mem.extra
<1>26. /\ extra \in Seq(Extra)
       /\ \A k \in 1..Len(extra) :
             \/ k \in 1..Len(had) /\ extra[k] = had[k]
             \/ \E i \in 1..Len(again) : extra[k].turn = again[i].turn
  <2>1. extra = RecordPatch(had, mark, again)
    BY DEF extra, mark, Mem
  <2>2. had \in Seq(Extra) /\ again \in Seq([after : Nat, turn : Turn])
    BY <1>14 DEF Remembered, ExtraSaid, Row
  <2> HIDE DEF had
  <2> QED BY <1>25, <2>1, <2>2, RecordPatchEntries
<1>27. \A k \in 1..Len(had) : Shown(had[k].turn) \in Said(Mem')
  BY <1>5 DEF Remembered, ExtraSaid, Keeps
<1>28. \A k \in 1..Len(extra) : Shown(extra[k].turn) \in Said(Mem')
  <2> HIDE DEF had
  <2>1. \A i \in 1..Len(again) : Shown(again[i].turn) \in Said(Mem')
    BY <1>7, <1>15
  <2> QED BY <1>26, <1>27, <2>1
<1>29. Remembered(Mem')
  BY <1>4, <1>24, <1>26, <1>28 DEF Remembered, ExtraSaid
<1>30. PatchTells'
  <2>1. none \in Seq(PatchRow(Len(pass.turns)))
    BY DEF none
  <2>2. Mem'.mark # disk'.mark
    BY <1>4, <1>25
  <2> QED BY <1>4, <2>1, <2>2 DEF PatchTells
<1> QED BY <1>7, <1>16, <1>29, <1>30 DEF rows

LEMMA InitialRecord == Init => RecordsSaid
<1> SUFFICES ASSUME Init PROVE RecordsSaid
  OBVIOUS
<1>1. disk.record = <<>> /\ disk.extra = <<>> /\ pass = Idle
  BY DEF Init, Empty
<1>2. <<>> \in Seq(Int) /\ <<>> \in Seq(Extra) /\ Len(<<>>) = 0
  OBVIOUS
<1> QED BY <1>1, <1>2 DEF RecordsSaid, Remembered, RecordSaid, ExtraSaid

LEMMA NextKeepsRecord == IInv /\ RecordsSaid /\ [Next]_vars => RecordsSaid'
<1> SUFFICES ASSUME IInv, RecordsSaid, [Next]_vars PROVE RecordsSaid'
  OBVIOUS
<1>1. ASSUME disk' = disk, pass' = pass \/ pass' = Idle PROVE RecordsSaid'
  BY <1>1 DEF RecordsSaid, PatchTells, Mem, Offset
<1>2. CASE UserNext \/ Indexes \/ CompactChecks
  BY <1>1, <1>2 DEF UserNext, Exchange, Regenerate, DeleteExchange, EditTurn, Answers,
                    Indexes, CompactChecks
<1>3. CASE CompactDropsAnchor
  <2>1. Continues(disk, disk')
    BY <1>3, CompactKeepsInv DEF CompactNext
  <2>2. disk'.record = disk.record /\ disk'.extra = disk.extra
    BY <1>3 DEF CompactDropsAnchor, IInv, Sound, Fields
  <2>3. Remembered(disk')
    BY <2>1, <2>2, RecordStaysSaid DEF RecordsSaid, Continues
  <2>4. pass' = Idle
    BY <1>3 DEF CompactDropsAnchor
  <2> QED BY <2>3, <2>4 DEF RecordsSaid
<1>4. CASE CompactPassStarts
  <2>1. Start("compact", compact.turns, compact.calls) /\ disk' = disk
    BY <1>4 DEF CompactPassStarts
  <2>2. compact.turns \in Seq(Turn)
    BY <1>4 DEF IInv, CompactInv, CompactPassStarts, Idle
  <2>3. Remembered(Mem') /\ PatchTells'
    BY <2>1, <2>2, StartKeepsRecord DEF IInv, RecordsSaid
  <2> QED BY <2>1, <2>3 DEF RecordsSaid
<1>5. CASE PassStarts
  <2>1. PICK i \in DOMAIN waiting :
            IF waiting[i].kind = "backfill" /\ Recorded(disk) > Len(waiting[i].turns)
            THEN UNCHANGED pass
            ELSE Start(waiting[i].kind, waiting[i].turns, TailCalls)
    BY <1>5 DEF PassStarts
  <2>2. disk' = disk
    BY <1>5 DEF PassStarts
  <2>3. CASE UNCHANGED pass
    BY <1>1, <2>2, <2>3
  <2> DEFINE w == waiting[i]
  <2>4. CASE Start(w.kind, w.turns, TailCalls)
    <3>1. w \in Queued
      BY DEF IInv, ClientInv
    <3>2. w.turns \in Seq(Turn)
      BY <3>1 DEF Queued
    <3>3. Remembered(Mem') /\ PatchTells'
      BY <2>2, <2>4, <3>2, StartKeepsRecord DEF IInv, RecordsSaid
    <3> QED BY <2>2, <3>3 DEF RecordsSaid
  <2> QED BY <2>1, <2>3, <2>4
<1>6. CASE TierNext
  <2>1. disk' = disk
    BY <1>6 DEF TierNext, RefreshesL3, FoldsL2, TierFails, SkipsL1, ReadsL1, Rolls
  <2>2. pass # Idle
    BY <1>6 DEF TierNext, RefreshesL3, FoldsL2, TierFails, SkipsL1, ReadsL1, Begins
  <2>3. Remembered(Mem) /\ PatchTells
    BY <2>2 DEF RecordsSaid
  <2>4. CASE ReadsL1
    BY <2>1, <2>3, <2>4, ReadingKeepsRecord DEF RecordsSaid
  <2>5. CASE RefreshesL3 \/ FoldsL2 \/ TierFails \/ SkipsL1
    <3>1. Remembered(Mem') /\ PatchTells'
      BY <2>3, <2>5, TiersKeepRecord
    <3> QED BY <2>1, <3>1 DEF RecordsSaid
  <2> QED BY <1>6, <2>4, <2>5 DEF TierNext
<1>7. CASE PassEnds
  BY <1>7 DEF PassEnds, RecordsSaid
<1>8. CASE Cancelled \/ Crash \/ UNCHANGED vars
  BY <1>1, <1>8 DEF Cancelled, Crash, vars
<1> QED BY <1>2, <1>3, <1>4, <1>5, <1>6, <1>7, <1>8 DEF Next, CompactNext

THEOREM RecordsAreSaid == Spec => []RecordsSaid
BY InitialRecord, NextKeepsRecord, InvariantHolds, PTL DEF Spec

\* What stands in for a turn says it: every turn of the record that a request
\* can match, covered or read again, is among what the stored summaries say, for
\* any windows, edits, failures and crashes, so that the prompt may leave it out
\* (_record_chunk_fps, _record_patch_fps, _record_sequence).
THEOREM TheRecordIsTrue == Spec => []RecordIsTrue
<1>1. IInv /\ RecordsSaid => RecordIsTrue
  <2> SUFFICES ASSUME IInv, RecordsSaid PROVE RecordIsTrue
    OBVIOUS
  <2> DEFINE sequence == RecordSequence(disk)
  <2>1. sequence \in Seq(SaidPlaces(disk))
    BY SequenceIsSaid DEF IInv, RecordsSaid, Remembered
  <2>2. \A e \in ToSet(sequence) : e \in SaidPlaces(disk)
    BY <2>1 DEF ToSet
  <2> HIDE DEF sequence
  <2> QED BY <2>2 DEF RecordIsTrue, SaidPlaces, sequence
<1> QED BY <1>1, InvariantHolds, RecordsAreSaid, PTL

\* When the first chunk of a pass has been read, the summaries say every turn of
\* the window up to its end, unless there were more to read again than one
\* chunk takes: what was edited under the record, deleted or shed is not lost
\* (_patch_candidates, _do_l1_rollup).
THEOREM NothingIsSkipped == Spec => NothingSkipped
<1> DEFINE Reads == /\ ReadsL1 /\ pass.kind # "compact" /\ Mem.mark = disk.mark
                    /\ RecordSequence(Mem) # <<>>
                    /\ Len(pass.patch) < L1Size
           Told == \A i \in 1..ChunkLast - Offset : Shown(pass.turns[i]) \in Said(Mem')
<1>1. IInv /\ RecordsSaid /\ [Next]_vars => (Reads => Told)
  <2> SUFFICES ASSUME IInv, RecordsSaid, Reads, NEW i \in 1..ChunkLast - Offset
               PROVE  Shown(pass.turns[i]) \in Said(Mem')
    OBVIOUS
  <2>1. pass # Idle /\ DueL1
    BY DEF ReadsL1, Begins
  <2>2. /\ Remembered(Mem) /\ PatchTells /\ Sound(Mem)
        /\ Mem.mark \in Nat /\ Mem.seen \in Nat /\ Offset \in Nat
        /\ Len(pass.turns) \in Nat
    BY <2>1, PassFacts DEF RecordsSaid
  <2>3. /\ \A t \in ToSet(TurnsRead) : Shown(t) \in Said(Mem')
        /\ \A r \in 1..Len(pass.patch) : pass.patch[r].at < ChunkFirst - Offset =>
              Shown(pass.turns[pass.patch[r].at]) \in Said(Mem')
    BY <2>2, ReadingKeepsRecord
  <2>4. Said(Mem) \subseteq Said(Mem')
    BY TierKeepsInv DEF TierNext, Keeps
  <2>5. Begun(Chunks(Mem)) /\ Len(Mem.record) > 0
    BY <2>2, SequenceIsSaid DEF Remembered
  <2> DEFINE top == Largest({Mem.mark, Offset})
  <2>6. /\ ChunkFirst = top + 1 /\ top \in {Mem.mark, Offset}
        /\ Mem.mark <= top /\ Offset <= top
    <3>1. Mem.mark \in Int /\ Offset \in Int
      BY <2>2
    <3> QED BY <3>1, LargestOfTwo DEF ChunkFirst
  <2> HIDE DEF top
  <2>7. CASE i < ChunkFirst - Offset
    <3>1. i \in 1..Mem.mark - Offset
      BY <2>2, <2>6, <2>7
    <3>2. NeedsL1(Mem, Mem.seen)
      BY <2>1 DEF DueL1
    <3>3. \/ Shown(pass.turns[i]) \in Said(Mem)
          \/ \E r \in 1..Len(pass.patch) : pass.patch[r].at = i
      BY <2>2, <2>5, <3>1, <3>2 DEF PatchTells
    <3> QED BY <2>3, <2>4, <2>7, <3>3
  <2>8. CASE ~(i < ChunkFirst - Offset)
    <3> DEFINE a == ChunkFirst - Offset  b == ChunkLast - Offset
    <3>1. a \in Int /\ b \in Int /\ i \in a..b /\ a <= b
      <4>1. ChunkLast = Mem.mark + L1Size /\ L1Size \in Nat \ {0}
        BY HierarchyAssumption DEF ChunkLast
      <4>2. a \in Int /\ b \in Int
        BY <2>2, <2>6, <4>1
      <4> QED BY <2>8, <4>2
    <3>2. TurnsRead \in Seq(Turn)
      BY TurnsReadSeq
    <3>3. /\ Len(TurnsRead) = b - a + 1
          /\ TurnsRead[i - a + 1] = pass.turns[i]
      <4>1. TurnsRead = SubSeq(pass.turns, a, b)
        BY DEF TurnsRead
      <4> HIDE DEF a, b
      <4> QED BY <3>1, <4>1
    <3>4. i - a + 1 \in DOMAIN TurnsRead
      <4> HIDE DEF a, b
      <4> QED BY <3>1, <3>2, <3>3
    <3>5. pass.turns[i] \in ToSet(TurnsRead)
      BY <3>3, <3>4 DEF ToSet
    <3> QED BY <2>3, <3>5
  <2> QED BY <2>7, <2>8
<1>2. IInv /\ RecordsSaid /\ [Next]_vars => [Reads => Told]_vars
  BY <1>1
<1> HIDE DEF Reads, Told
<1>3. Spec => [][Reads => Told]_vars
  BY <1>2, InvariantHolds, RecordsAreSaid, PTL DEF Spec
<1> QED BY <1>3 DEF NothingSkipped, Reads, Told

-----------------------------------------------------------------------------
(* The position never exceeds the turns of the conversation, as long as    *)
(* nobody changes the history and the passes keep their order.  Every      *)
(* window is a segment of the story that ends where its request or its     *)
(* reply is, and the windows in the queue end later and later.  The anchor *)
(* is the end of the last window read, so that a new window either holds   *)
(* it, and the turns after it are counted, or begins past its beginning,   *)
(* and then at most two are assumed.                                       *)

\* The most turns of a request's window.
Most == IF Cap % 2 = 1 THEN Cap ELSE Cap - 1

\* Where the window begins that ends with turn e of the story: a request, or a
\* reply and then the window is its request's with the reply.
Begin(e) ==
    LET asked == IF e % 2 = 1 THEN e ELSE e - 1
    IN IF asked <= Most THEN 1 ELSE asked - Most + 1

LEMMA MostIs == Most \in Nat \ {0} /\ Most % 2 = 1 /\ Most \in {Cap, Cap - 1} /\ Cap \in Nat \ {0}
<1>1. Cap \in Nat \ {0}
  BY HierarchyAssumption
<1> QED BY <1>1 DEF Most

\* Windows begin with a request, at or before their end, and later the later
\* they end.
LEMMA BeginIs ==
    ASSUME NEW e \in Nat \ {0}
    PROVE  /\ Begin(e) \in 1..e
           /\ Begin(e) = 1 \/ Begin(e) >= 3
           /\ e % 2 = 0 => Begin(e) = Begin(e - 1)
           /\ e % 2 = 1 /\ e <= Most => Begin(e) = 1
           /\ e % 2 = 1 /\ Most < e => Begin(e) = e - Most + 1
<1> DEFINE m == Most
<1>1. m \in Nat \ {0} /\ m % 2 = 1
  BY MostIs
<1>2. Begin(e) = LET asked == IF e % 2 = 1 THEN e ELSE e - 1
                 IN IF asked <= m THEN 1 ELSE asked - m + 1
  BY DEF Begin
<1> HIDE DEF m
<1>3. CASE e % 2 = 1
  BY <1>1, <1>2, <1>3 DEF m
<1>4. CASE e % 2 = 0
  <2>1. e - 1 \in Nat /\ (e - 1) % 2 = 1
    BY <1>4
  <2>2. Begin(e - 1) = IF e - 1 <= m THEN 1 ELSE e - 1 - m + 1
    BY <2>1 DEF Begin, m
  <2>3. Begin(e) = IF e - 1 <= m THEN 1 ELSE e - 1 - m + 1
    BY <1>2, <1>4
  <2> QED BY <1>1, <1>4, <2>1, <2>2, <2>3
<1> QED BY <1>3, <1>4

\* A window of the story that ends with its turn e.
IsWindow(turns, e, st) ==
    /\ Len(turns) = e - Begin(e) + 1
    /\ \A k \in 1..Len(turns) : turns[k] = st[Begin(e) - 1 + k]

\* What the client sends of a story that ends with a request (the history-cap
\* filter).
LEMMA WindowIs ==
    ASSUME NEW turns \in Seq(Turn), Len(turns) % 2 = 1
    PROVE  IsWindow(Window(turns), Len(turns), turns)
<1> DEFINE n == Len(turns)  kept == LastOf(Cap, turns)  w == Window(turns)
<1>1. n \in Nat \ {0} /\ Cap \in Nat \ {0} /\ n % 2 = 1
  BY MostIs
<1>2. w = IF Len(kept) % 2 = n % 2 THEN kept ELSE Tail(kept)
  BY DEF Window
<1>3. CASE n <= Cap
  <2>1. kept = turns
    BY <1>3 DEF LastOf
  <2>2. Begin(n) = 1
    <3>1. n <= Most
      BY <1>1, <1>3 DEF Most
    <3> QED BY <1>1, <3>1, BeginIs
  <2> QED BY <1>2, <2>1, <2>2 DEF IsWindow
<1>4. CASE Cap < n
  <2> DEFINE a == n - Cap + 1
  <2>1. /\ kept \in Seq(Turn) /\ Len(kept) = Cap
        /\ \A k \in 1..Cap : kept[k] = turns[n - Cap + k]
    <3>1. kept = SubSeq(turns, a, n)
      BY <1>1, <1>4 DEF LastOf
    <3>2. a \in 1..n
      BY <1>1, <1>4
    <3>3. \A i \in a..n : turns[i] \in Turn
      BY <3>2
    <3>4. /\ SubSeq(turns, a, n) \in Seq(Turn)
          /\ Len(SubSeq(turns, a, n)) = n - a + 1
          /\ \A k \in 1..n - a + 1 : SubSeq(turns, a, n)[k] = turns[a + k - 1]
      <4> HIDE DEF n, a
      <4> QED BY <1>1, <3>2, <3>3, SubSeqProperties
    <3>5. n - a + 1 = Cap /\ \A k \in 1..Cap : a + k - 1 = n - Cap + k
      BY <1>1
    <3> QED BY <3>1, <3>4, <3>5
  <2> HIDE DEF kept, a
  <2>2. CASE Cap % 2 = 1
    <3>1. w = kept /\ Most = Cap
      BY <1>1, <1>2, <2>1, <2>2 DEF Most
    <3>2. Begin(n) = n - Cap + 1
      BY <1>1, <1>4, <3>1, BeginIs
    <3> HIDE DEF w
    <3>3. Len(w) = n - Begin(n) + 1 /\ \A k \in 1..Len(w) : w[k] = turns[Begin(n) - 1 + k]
      BY <1>1, <1>4, <2>1, <3>1, <3>2
    <3> QED BY <3>3 DEF IsWindow, w
  <2>3. CASE Cap % 2 = 0
    <3>1. w = Tail(kept) /\ Most = Cap - 1
      BY <1>1, <1>2, <2>1, <2>3 DEF Most
    <3>2. Begin(n) = n - Cap + 2
      <4>1. Most < n /\ n - Most + 1 = n - Cap + 2
        BY <1>1, <1>4, <3>1
      <4> QED BY <1>1, <4>1, BeginIs
    <3>3. kept # <<>>
      BY <1>1, <2>1
    <3>4. Len(w) = Cap - 1 /\ \A k \in 1..Cap - 1 : w[k] = kept[k + 1] /\ k + 1 \in 1..Cap
      BY <1>1, <2>1, <3>1, <3>3
    <3> HIDE DEF w
    <3>5. Len(w) = n - Begin(n) + 1 /\ \A k \in 1..Len(w) : w[k] = turns[Begin(n) - 1 + k]
      <4>1. \A k \in 1..Cap - 1 : w[k] = turns[n - Cap + (k + 1)]
        BY <2>1, <3>4
      <4>2. \A k \in 1..Cap - 1 : Begin(n) - 1 + k = n - Cap + (k + 1)
        BY <1>1, <3>2
      <4> QED BY <1>1, <1>4, <3>2, <3>4, <4>1, <4>2
    <3> QED BY <3>5 DEF IsWindow, w
  <2> QED BY <1>1, <2>2, <2>3
<1> QED BY <1>1, <1>3, <1>4


\* The window goes on holding what it held when the story goes on.
LEMMA WindowStays ==
    ASSUME NEW turns, NEW st, NEW longer, NEW e \in Nat \ {0},
           \A k \in 1..e : longer[k] = st[k], IsWindow(turns, e, st)
    PROVE  IsWindow(turns, e, longer)
<1>1. Begin(e) \in 1..e
  BY BeginIs
<1>2. \A k \in 1..e - Begin(e) + 1 : Begin(e) - 1 + k \in 1..e
  BY <1>1
<1> QED BY <1>2 DEF IsWindow

\* The window of a request and its reply is the request's, with the reply.
LEMMA ReplyIs ==
    ASSUME NEW asked \in Seq(Turn), NEW st, NEW e \in Nat \ {0}, e % 2 = 1,
           IsWindow(asked, e, st), NEW reply \in Turn, st[e + 1] = reply
    PROVE  IsWindow(Append(asked, reply), e + 1, st)
<1>1. Begin(e) \in 1..e /\ Begin(e + 1) = Begin(e)
  <2>1. e + 1 \in Nat \ {0} /\ (e + 1) % 2 = 0 /\ (e + 1) - 1 = e
    OBVIOUS
  <2> QED BY <2>1, BeginIs
<1>2. Len(asked) = e - Begin(e) + 1 /\ \A k \in 1..Len(asked) : asked[k] = st[Begin(e) - 1 + k]
  BY DEF IsWindow
<1> DEFINE w == Append(asked, reply)
<1>3. /\ Len(w) = Len(asked) + 1 /\ w[Len(asked) + 1] = reply
      /\ \A k \in 1..Len(asked) : w[k] = asked[k]
  OBVIOUS
<1> HIDE DEF w
<1>4. Len(w) = (e + 1) - Begin(e + 1) + 1
  BY <1>1, <1>2, <1>3
<1>5. ASSUME NEW k \in 1..Len(w) PROVE w[k] = st[Begin(e + 1) - 1 + k]
  <2>1. CASE k = Len(asked) + 1
    <3>1. Begin(e + 1) - 1 + k = e + 1
      BY <1>1, <1>2, <2>1
    <3> QED BY <1>3, <2>1, <3>1
  <2>2. CASE k # Len(asked) + 1
    <3>1. k \in 1..Len(asked)
      BY <1>3, <2>2
    <3> QED BY <1>1, <1>2, <1>3, <3>1
  <2> QED BY <2>1, <2>2
<1> QED BY <1>4, <1>5 DEF IsWindow, w

\* Where a window holds a beginning of the anchor, no more turns came after the
\* anchor than the window is longer.
LEMMA CandidatesAreFew ==
    ASSUME NEW anchor \in Seq(Int), NEW seen \in Seq(Int), NEW c \in AlignCandidates(anchor, seen)
    PROVE  c \in Nat /\ (c = 0 \/ c <= Len(seen) - Len(anchor))
<1> DEFINE Ends(m) == {j \in m..Len(seen) : SubSeq(seen, j - m + 1, j) = SubSeq(anchor, 1, m)}
           New(m, j) == Largest({0, Len(seen) - j - (Len(anchor) - m)})
<1>1. c \in Nat
  BY CandidatesAreNat
<1>2. PICK m \in DOMAIN anchor : \E j \in Ends(m) : c = New(m, j)
  BY DEF AlignCandidates
<1>3. PICK j \in Ends(m) : c = New(m, j)
  BY <1>2
<1> DEFINE d == Len(seen) - j - (Len(anchor) - m)
<1>4. m \in Int /\ j \in Int /\ m <= j /\ Len(seen) \in Int /\ Len(anchor) \in Int
  OBVIOUS
<1>5. d \in Int /\ d <= Len(seen) - Len(anchor)
  <2>1. \A l, k, a, i \in Int : i <= k => /\ l - k - (a - i) \in Int
                                         /\ l - k - (a - i) <= l - a
    OBVIOUS
  <2> HIDE DEF Ends, New
  <2> QED BY <1>4, <2>1
<1>6. c \in {0, d}
  <2>1. c = Largest({0, d}) /\ 0 \in Int
    BY <1>3
  <2> HIDE DEF d
  <2>2. Largest({0, d}) \in {0, d}
    BY ONLY <1>5, <2>1, LargestOfTwo
  <2> QED BY <2>1, <2>2
<1> QED BY <1>1, <1>5, <1>6

\* Where the window holds the whole anchor, the turns after it are a candidate.
LEMMA HeldIsCandidate ==
    ASSUME NEW anchor \in Seq(Int), NEW seen \in Seq(Int), anchor # <<>>,
           NEW j \in Len(anchor)..Len(seen),
           \A k \in 1..Len(anchor) : seen[j - Len(anchor) + k] = anchor[k]
    PROVE  Len(seen) - j \in AlignCandidates(anchor, seen)
<1> DEFINE a == Len(anchor)
<1>1. a \in Nat \ {0} /\ a \in DOMAIN anchor /\ Len(seen) \in Nat /\ j \in Nat
  OBVIOUS
<1> DEFINE from == j - a + 1
           part == SubSeq(seen, from, j)  whole == SubSeq(anchor, 1, a)
<1>2. /\ part \in Seq(Int) /\ Len(part) = a
      /\ \A k \in 1..a : part[k] = seen[j - a + k]
  <2>1. from \in 1..j + 1 /\ j \in Nat /\ \A i \in from..j : i \in 1..Len(seen) /\ seen[i] \in Int
    BY <1>1
  <2>2. /\ part \in Seq(Int) /\ Len(part) = j - from + 1
        /\ \A k \in 1..j - from + 1 : part[k] = seen[from + k - 1]
    <3> HIDE DEF from
    <3> QED BY <1>1, <2>1, SubSeqProperties
  <2>3. j - from + 1 = a /\ \A k \in 1..a : from + k - 1 = j - a + k
    BY <1>1
  <2> QED BY <2>2, <2>3
<1>3. whole \in Seq(Int) /\ Len(whole) = a /\ \A k \in 1..a : whole[k] = anchor[k]
  BY <1>1
<1>4. part = whole
  <2>1. \A k \in 1..a : part[k] = whole[k]
    <3>1. \A k \in 1..a : seen[j - a + k] = anchor[k]
      OBVIOUS
    <3> HIDE DEF part, whole, a
    <3> QED BY <1>2, <1>3, <3>1
  <2> HIDE DEF part, whole, a
  <2> QED BY <1>1, <1>2, <1>3, <2>1, SeqEqual
<1>5. Largest({0, Len(seen) - j - (Len(anchor) - a)}) = Len(seen) - j
  <2> DEFINE d == Len(seen) - j
  <2>1. d \in Nat /\ Len(seen) - j - (Len(anchor) - a) = d
    BY <1>1
  <2> HIDE DEF d
  <2>2. {0, d} \in SUBSET Int /\ d \in {0, d} /\ \A n \in {0, d} : n <= d
    BY <2>1
  <2>3. Largest({0, d}) = d
    BY ONLY <2>2, LargestIs
  <2> QED BY <2>1, <2>3 DEF d
<1> HIDE DEF a, part, whole
<1> DEFINE Ends(m) == {i \in m..Len(seen) : SubSeq(seen, i - m + 1, i) = SubSeq(anchor, 1, m)}
           New(m, i) == Largest({0, Len(seen) - i - (Len(anchor) - m)})
<1>6. j \in Ends(a)
  BY <1>1, <1>4 DEF a, part, whole
<1>7. New(a, j) = Len(seen) - j
  BY <1>5
<1> HIDE DEF Ends, New
<1>8. Len(seen) - j \in UNION {{New(m, i) : i \in Ends(m)} : m \in DOMAIN anchor}
  BY <1>1, <1>6, <1>7
<1> QED BY <1>8 DEF AlignCandidates, Ends, New

\* Of the candidates none that is positive is less than the one settled on.
LEMMA NewTurnsAre ==
    ASSUME NEW s, s.anchor \in Seq(Int), s.anchor # <<>>, NEW seen \in Seq(Int),
           NEW new, new = AlignCandidates(s.anchor, seen)
    PROVE  /\ new = {} => NewTurns(s, seen) = 2
           /\ new # {} => /\ NewTurns(s, seen) \in new
                          /\ \A c \in new : c > 0 => NewTurns(s, seen) <= c
<1> DEFINE settled == NewTurns(s, seen)
           moved == 0 \in new /\ new # {0}
                    /\ ~((Len(seen) = s.width /\ seen[1] = s.head) /\ ~(Len(seen) < Recorded(s)))
<1>1. new \in SUBSET Nat
  BY CandidatesAreNat
<1>2. CASE new = {}
  <2>1. settled = 2
    BY <1>2 DEF NewTurns, AssumedNewTurns
  <2> QED BY <1>2, <2>1
<1>3. CASE new # {} /\ moved
  <2>1. settled = Smallest(new \ {0})
    BY <1>3 DEF NewTurns
  <2>2. new \ {0} # {} /\ new \ {0} \in SUBSET Nat
    BY <1>1, <1>3
  <2>3. Smallest(new \ {0}) \in new \ {0} /\ \A n \in new \ {0} : Smallest(new \ {0}) <= n
    BY <2>2, SmallestOf
  <2>4. settled \in new /\ \A c \in new : c > 0 => settled <= c
    <3> HIDE DEF settled, moved
    <3>1. \A c \in new : c > 0 => c \in new \ {0}
      BY <1>1
    <3> QED BY <2>1, <2>3, <3>1
  <2> QED BY <1>3, <2>4
<1>4. CASE new # {} /\ ~moved
  <2>1. settled = Smallest(new)
    BY <1>4 DEF NewTurns
  <2>2. Smallest(new) \in new /\ \A n \in new : Smallest(new) <= n
    BY <1>1, <1>4, SmallestOf
  <2>3. settled \in new /\ \A c \in new : c > 0 => settled <= c
    <3> HIDE DEF settled, moved
    <3> QED BY <1>1, <2>1, <2>2
  <2> QED BY <1>4, <2>3
<1> QED
  <2>1. \/ new = {} \/ (new # {} /\ moved) \/ (new # {} /\ ~moved)
    OBVIOUS
  <2> HIDE DEF moved
  <2> QED BY <1>2, <1>3, <1>4, <2>1

\* Where the anchor of a state is the end of the window that ends with turn e,
\* or nothing has been read.
AnchorAt(s, e, st) ==
    IF e = 0 THEN s.anchor = <<>> /\ s.seen = 0
    ELSE /\ Len(s.anchor) \in 1..e - Begin(e) + 1
         /\ Len(s.anchor) <= AnchorTurns
         /\ Len(s.anchor) \in {AnchorTurns, e - Begin(e) + 1}
         /\ \A k \in 1..Len(s.anchor) : s.anchor[k] = Shown(st[e - Len(s.anchor) + k])

\* The position may be ahead of a request that was read without its reply, when
\* the window has slid and the anchor was not found in it: two turns are assumed
\* where one came.
Ahead(e) == e % 2 = 1 /\ Most < e /\ Most <= AnchorTurns

SeenAt(s, e) == s.seen <= e \/ (s.seen <= e + 1 /\ Ahead(e))

\* When a window slides past the beginning of the anchor, and what is then
\* assumed.
LEMMA Slides ==
    ASSUME NEW e \in Nat \ {0}, NEW f \in Nat \ {0}, e < f,
           NEW a \in 1..e - Begin(e) + 1, a <= AnchorTurns, a \in {AnchorTurns, e - Begin(e) + 1}
    PROVE  /\ Ahead(e) /\ e + 1 < f => e - a + 1 < Begin(f)
           /\ e - a + 1 < Begin(f) /\ f = e + 1 => Ahead(f)
           /\ Ahead(e) /\ f = e + 2 => Ahead(f)
<1> DEFINE m == Most  b == Begin(e)  g == Begin(f)
<1>1. m \in Nat \ {0} /\ m % 2 = 1 /\ AnchorTurns \in Nat
  BY MostIs, HierarchyAssumption
<1>2. b \in 1..e /\ g \in 1..f
  BY BeginIs
<1>3. Ahead(e) /\ e + 1 < f => e - a + 1 < g
  <2> SUFFICES ASSUME Ahead(e), e + 1 < f PROVE e - a + 1 < g
    OBVIOUS
  <2>1. e % 2 = 1 /\ m < e /\ m <= AnchorTurns
    BY DEF Ahead
  <2>2. b = e - m + 1
    BY <2>1, BeginIs
  <2>3. a = m
    <3> HIDE DEF m, b
    <3>1. a \in {AnchorTurns, e - b + 1} /\ a \in 1..e - b + 1
      BY DEF b
    <3> QED BY <1>1, <1>2, <2>1, <2>2, <3>1
  <2>4. CASE f % 2 = 1
    <3>1. g = f - m + 1
      <4>1. m < f
        BY <1>1, <2>1
      <4> QED BY <2>4, <4>1, BeginIs
    <3> HIDE DEF m, g
    <3> QED BY <1>1, <2>3, <3>1
  <2>5. CASE f % 2 = 0
    <3>1. f - 1 \in Nat \ {0} /\ (f - 1) % 2 = 1 /\ e + 2 <= f - 1
      BY <2>1, <2>5
    <3>2. m < f - 1
      BY <1>1, <2>1, <3>1
    <3>3. g = (f - 1) - m + 1
      <4>1. g = Begin(f - 1)
        BY <2>5, BeginIs
      <4> QED BY <3>1, <3>2, <4>1, BeginIs
    <3> HIDE DEF m, g
    <3> QED BY <1>1, <2>3, <3>1, <3>3
  <2> QED BY <2>4, <2>5
<1>4. e - a + 1 < g /\ f = e + 1 => Ahead(f)
  <2> SUFFICES ASSUME e - a + 1 < g, f = e + 1 PROVE Ahead(f)
    OBVIOUS
  <2>1. f % 2 = 1
    <3>1. f % 2 = 0 => g = b
      <4>1. f - 1 = e
        OBVIOUS
      <4> QED BY <4>1, BeginIs
    <3>2. b <= e - a + 1
      <4> HIDE DEF b
      <4>1. a \in 1..e - b + 1
        BY DEF b
      <4> QED BY <1>2, <4>1
    <3> HIDE DEF b, g
    <3> QED BY <1>2, <3>1, <3>2
  <2>2. m < f
    <3>1. f <= m => g = 1
      BY <2>1, BeginIs
    <3>2. 1 <= e - a + 1
      <4> HIDE DEF b
      <4>1. a \in 1..e - b + 1
        BY DEF b
      <4> QED BY <1>2, <4>1
    <3> HIDE DEF m, g
    <3> QED BY <1>1, <1>2, <3>1, <3>2
  <2>3. g = f - m + 1
    BY <2>1, <2>2, BeginIs
  <2>4. m <= AnchorTurns
    <3> HIDE DEF m, g
    <3> QED BY <1>1, <1>2, <2>3
  <2> QED BY <2>1, <2>2, <2>4 DEF Ahead
<1>5. Ahead(e) /\ f = e + 2 => Ahead(f)
  BY <1>1 DEF Ahead
<1> QED BY <1>3, <1>4, <1>5

\* What observing a window sets.
LEMMA ObservedIs ==
    ASSUME NEW s, Sound(s), NEW turns \in Seq(Turn), NEW seen, seen = ShownAll(turns),
           NEW t, t = Observe(s, turns), NEW k, k = s.seen + NewTurns(s, seen)
    PROVE  /\ seen \in Seq(Int) /\ Len(seen) = Len(turns)
           /\ \A i \in 1..Len(turns) : seen[i] = Shown(turns[i])
           /\ t.anchor = LastOf(AnchorTurns, seen)
           /\ k \in Nat /\ t.seen \in {Len(turns), k}
<1>1. /\ seen \in Seq(Int) /\ Len(seen) = Len(turns)
      /\ \A i \in 1..Len(turns) : seen[i] = Shown(turns[i])
  <2>1. \A i \in DOMAIN turns : Shown(turns[i]) \in Int
    BY DEF Shown, Placeholder, Turn
  <2>2. Len(turns) \in Nat /\ DOMAIN turns = 1..Len(turns)
    OBVIOUS
  <2> QED BY <2>1, <2>2 DEF ShownAll
<1>2. k \in Nat /\ k = Recorded(s) + NewTurns(s, seen)
  <2>1. Recorded(s) = s.seen /\ s.seen \in Nat /\ NewTurns(s, seen) \in Nat
    BY <1>1, HighestBelowMark, NewTurnsAreNat DEF Sound
  <2> QED BY <2>1
<1>3. t.anchor = LastOf(AnchorTurns, seen) /\ t.seen = Largest({Len(seen), k})
  <2> DEFINE reached == Largest({Len(seen), k})  last == LastOf(AnchorTurns, seen)
             begins == seen[1]
  <2>1. t = [s EXCEPT !.seen = reached, !.anchor = last, !.head = begins, !.width = Len(seen)]
    BY <1>2 DEF Observe
  <2> HIDE DEF reached, last, begins
  <2>2. t.anchor = last /\ t.seen = reached
    BY <2>1 DEF Sound, Fields
  <2> QED BY <2>2 DEF reached, last
<1>4. t.seen \in {Len(turns), k}
  <2>1. Len(seen) \in Int /\ k \in Int
    BY <1>1, <1>2
  <2>2. Largest({Len(seen), k}) \in {Len(seen), k}
    BY ONLY <2>1, LargestOfTwo
  <2> QED BY <1>1, <1>3, <2>2
<1> QED BY <1>1, <1>2, <1>3, <1>4

\* The last turns of a window are the anchor at its end.
LEMMA AnchorIs ==
    ASSUME NEW seen \in Seq(Int), NEW st, NEW f \in Nat \ {0}, Len(seen) = f - Begin(f) + 1,
           \A k \in 1..Len(seen) : seen[k] = Shown(st[Begin(f) - 1 + k]),
           NEW t, t.anchor = LastOf(AnchorTurns, seen)
    PROVE  AnchorAt(t, f, st)
<1> DEFINE b == Begin(f)  n == Len(seen)  from == n - AnchorTurns + 1
<1>1. b \in 1..f /\ n = f - b + 1 /\ AnchorTurns \in Nat \ {0}
  BY BeginIs, HierarchyAssumption
<1>2. CASE n <= AnchorTurns
  <2>1. t.anchor = seen
    BY <1>2 DEF LastOf
  <2>2. \A k \in 1..n : f - n + k = b - 1 + k
    <3> HIDE DEF b, n
    <3> QED BY <1>1
  <2>3. n \in 1..f - b + 1
    <3> HIDE DEF b, n
    <3> QED BY <1>1
  <2> QED BY <1>1, <1>2, <2>1, <2>2, <2>3 DEF AnchorAt
<1>3. CASE ~(n <= AnchorTurns)
  <2>1. t.anchor = SubSeq(seen, from, n)
    BY <1>3 DEF LastOf
  <2>2. from \in 1..n + 1 /\ n \in Nat /\ \A i \in from..n : i \in 1..n /\ seen[i] \in Int
    <3>1. from \in 1..n + 1 /\ n \in Nat
      <4> HIDE DEF b, n
      <4> QED BY <1>1, <1>3
    <3> QED BY <3>1
  <2>3. /\ Len(SubSeq(seen, from, n)) = n - from + 1
        /\ \A k \in 1..n - from + 1 : SubSeq(seen, from, n)[k] = seen[from + k - 1]
    <3> HIDE DEF from, n
    <3> QED BY <2>2, SubSeqProperties
  <2>4. n - from + 1 = AnchorTurns /\ AnchorTurns \in 1..f - b + 1
    <3> HIDE DEF b, n
    <3> QED BY <1>1, <1>3
  <2>5. ASSUME NEW k \in 1..AnchorTurns
        PROVE  SubSeq(seen, from, n)[k] = Shown(st[f - AnchorTurns + k])
    <3>1. from + k - 1 \in 1..n /\ b - 1 + (from + k - 1) = f - AnchorTurns + k
      <4> HIDE DEF b, n
      <4> QED BY <1>1, <1>3
    <3>2. SubSeq(seen, from, n)[k] = seen[from + k - 1]
      BY <2>3, <2>4
    <3>3. seen[from + k - 1] = Shown(st[b - 1 + (from + k - 1)])
      BY <3>1
    <3> QED BY <3>1, <3>2, <3>3
  <2>6. Len(t.anchor) = AnchorTurns
    BY <2>1, <2>3, <2>4
  <2>7. \A k \in 1..AnchorTurns : t.anchor[k] = Shown(st[f - AnchorTurns + k])
    BY <2>1, <2>5
  <2>8. f # 0
    OBVIOUS
  <2> HIDE DEF from, n
  <2> QED BY <1>1, <2>4, <2>6, <2>7, <2>8 DEF AnchorAt
<1> QED BY <1>2, <1>3

\* A window that ends later in the story leaves the anchor at its end, and a
\* position that is not past it, or ahead of it by one turn, but not where the
\* window is at least as long as the old position, as a backfill's is.
LEMMA ObservingCounts ==
    ASSUME NEW s, Sound(s), NEW turns \in Seq(Turn), NEW st,
           NEW e \in Nat, NEW f \in Nat \ {0}, e < f, s.seen > e => e + 1 < f,
           AnchorAt(s, e, st), SeenAt(s, e), IsWindow(turns, f, st),
           NEW t, t = Observe(s, turns)
    PROVE  /\ AnchorAt(t, f, st) /\ SeenAt(t, f)
           /\ s.seen <= Len(turns) => t.seen <= f
<1> DEFINE seen == ShownAll(turns)  k == s.seen + NewTurns(s, seen)
           a == Len(s.anchor)  b == Begin(e)  g == Begin(f)
           new == AlignCandidates(s.anchor, seen)
<1>1. /\ seen \in Seq(Int) /\ Len(seen) = Len(turns)
      /\ \A i \in 1..Len(turns) : seen[i] = Shown(turns[i])
      /\ t.anchor = LastOf(AnchorTurns, seen)
      /\ k \in Nat /\ t.seen \in {Len(turns), k}
  BY ObservedIs
<1>2. /\ s.anchor \in Seq(Int) /\ a \in Nat /\ s.seen \in Nat /\ g \in 1..f
      /\ Len(turns) = f - g + 1
  BY BeginIs DEF Sound, IsWindow
<1>3. \A i \in 1..Len(turns) : seen[i] = Shown(st[g - 1 + i])
  BY <1>1 DEF IsWindow
<1>4. AnchorAt(t, f, st)
  BY <1>1, <1>2, <1>3, AnchorIs
<1>5. \/ k <= f
      \/ Ahead(f) /\ k = s.seen + 2 /\ k <= f + 1
  <2>1. CASE e = 0
    <3>1. s.anchor = <<>> /\ s.seen = 0
      BY <2>1 DEF AnchorAt
    <3>2. HighestChunk(s) = 0
      <4>1. HighestChunk(s) \in Nat /\ HighestChunk(s) <= s.mark
        BY HighestBelowMark
      <4>2. s.mark \in Nat /\ s.mark <= s.seen
        BY DEF Sound
      <4> QED BY <3>1, <4>1, <4>2
    <3>3. NewTurns(s, seen) = 0
      <4>1. ~(Len(seen) < HighestChunk(s))
        BY <1>1, <3>2
      <4> QED BY <3>1, <4>1 DEF NewTurns
    <3> QED BY <3>1, <3>3
  <2>2. CASE e # 0
    <3>1. /\ e \in Nat \ {0} /\ a \in 1..e - b + 1 /\ a <= AnchorTurns
          /\ a \in {AnchorTurns, e - b + 1}
          /\ \A i \in 1..a : s.anchor[i] = Shown(st[e - a + i])
      BY <2>2 DEF AnchorAt
    <3>2. /\ Ahead(e) /\ e + 1 < f => e - a + 1 < g
          /\ e - a + 1 < g /\ f = e + 1 => Ahead(f)
          /\ Ahead(e) /\ f = e + 2 => Ahead(f)
      BY <3>1, Slides
    <3>3. s.anchor # <<>> /\ b \in 1..e
      BY <2>2, <3>1, BeginIs
    <3>4. /\ new = {} => NewTurns(s, seen) = 2
          /\ new # {} => /\ NewTurns(s, seen) \in new
                         /\ \A c \in new : c > 0 => NewTurns(s, seen) <= c
      BY <1>1, <1>2, <3>3, NewTurnsAre
    <3>5. \A c \in new : c \in Nat /\ (c = 0 \/ c <= Len(seen) - a)
      BY <1>1, <1>2, CandidatesAreFew
    <3>6. NewTurns(s, seen) \in Nat
      BY <1>1, <1>2, NewTurnsAreNat
    <3>7. s.seen <= e \/ (s.seen <= e + 1 /\ Ahead(e) /\ e + 1 < f)
      BY <1>2 DEF SeenAt
    <3>8. CASE e - a + 1 < g
      <4>1. NewTurns(s, seen) \in {0, 2} \/ NewTurns(s, seen) <= f - e - 1
        <5> HIDE DEF new, a, g, b, seen
        <5>1. Len(seen) - a <= f - e - 1
          BY <1>1, <1>2, <3>8
        <5> QED BY <1>2, <3>4, <3>5, <5>1
      <4> HIDE DEF new, a, b, g, seen
      <4> QED BY <1>2, <3>2, <3>6, <3>7, <3>8, <4>1 DEF k
    <3>9. CASE ~(e - a + 1 < g)
      <4> DEFINE j == e - g + 1
      <4>1. j \in a..Len(seen)
        <5> HIDE DEF new, a, b, g, seen
        <5> QED BY <1>1, <1>2, <3>1, <3>3, <3>9
      <4>2. ASSUME NEW i \in 1..a PROVE seen[j - a + i] = s.anchor[i]
        <5>1. j - a + i \in 1..Len(turns) /\ g - 1 + (j - a + i) = e - a + i
          <6> HIDE DEF new, a, b, g, seen
          <6> QED BY <1>1, <1>2, <3>1, <3>3, <3>9
        <5>2. seen[j - a + i] = Shown(st[g - 1 + (j - a + i)])
          BY <1>3, <5>1
        <5> QED BY <3>1, <5>1, <5>2
      <4>3. Len(seen) - j \in new
        BY <1>1, <1>2, <3>3, <4>1, <4>2, HeldIsCandidate
      <4>4. Len(seen) - j = f - e
        <5> HIDE DEF new, a, b, g, seen
        <5> QED BY <1>1, <1>2
      <4>5. NewTurns(s, seen) <= f - e
        <5> HIDE DEF new, j, seen
        <5> QED BY <3>4, <4>3, <4>4
      <4>6. s.seen <= e
        BY <3>2, <3>7, <3>9
      <4> HIDE DEF new, a, b, g, seen
      <4> QED BY <1>2, <3>6, <4>5, <4>6 DEF k
    <3> QED BY <3>8, <3>9
  <2> QED BY <2>1, <2>2
<1>6. Ahead(f) => Len(turns) = Most /\ Most + 2 <= f
  <2>1. Ahead(f) => f - g + 1 = Most /\ Most + 2 <= f
    <3>1. Ahead(f) => f % 2 = 1 /\ Most < f
      BY DEF Ahead
    <3>2. Ahead(f) => g = f - Most + 1
      BY <3>1, BeginIs
    <3>3. Most \in Nat /\ Most % 2 = 1
      BY MostIs
    <3> HIDE DEF g
    <3> QED BY <1>2, <3>1, <3>2, <3>3
  <2> QED BY <1>2, <2>1
<1>7. SeenAt(t, f)
  <2> HIDE DEF k, seen, a, b, g, new
  <2> QED BY <1>1, <1>2, <1>5 DEF SeenAt
<1>8. s.seen <= Len(turns) => t.seen <= f
  <2>1. Most \in Nat
    BY MostIs
  <2> HIDE DEF k, seen, a, b, g, new
  <2> QED BY <1>1, <1>2, <1>5, <1>6, <2>1
<1> QED BY <1>4, <1>7, <1>8

-----------------------------------------------------------------------------
\* The windows in the queue, oldest first, end later and later in the story,
\* and not at the turn after a request that is read without its reply.
QueueAt(q, ends, st) ==
    /\ ends \in [1..Len(q) -> 1..Len(st)]
    /\ \A i \in 1..Len(q) : IsWindow(q[i].turns, ends[i], st)
    /\ \A i, j \in 1..Len(q) : i < j =>
          /\ ends[i] < ends[j]
          /\ q[i].kind # "backfill" /\ ends[i] % 2 = 1 => ends[i] + 1 < ends[j]

\* A state has come to a turn of the story that is before the end of every
\* window in the queue.
Placed(s, q, st) ==
    \E e \in 0..Len(st) : \E ends :
        /\ AnchorAt(s, e, st) /\ SeenAt(s, e) /\ QueueAt(q, ends, st)
        /\ \A i \in 1..Len(q) : e < ends[i] /\ (s.seen > e => e + 1 < ends[i])

Cur == IF pass = Idle THEN disk ELSE Mem

PlaceInv ==
    /\ troubles \in Nat
    /\ troubles = 0 => compact = Idle /\ Placed(Cur, waiting, story)

\* Such a state is not ahead of the story, which ends with a reply.
LEMMA PlacedIsBelow ==
    ASSUME NEW s, NEW q, NEW st, Len(st) \in Nat, Len(st) % 2 = 0, s.seen \in Nat, Placed(s, q, st)
    PROVE  s.seen <= Len(st)
<1>1. PICK e \in 0..Len(st) : SeenAt(s, e)
  BY DEF Placed
<1> QED BY <1>1 DEF SeenAt, Ahead

\* What keeps the position and the anchor keeps the place.
LEMMA PlaceIsKept ==
    ASSUME NEW s, NEW t, NEW q, NEW st, Placed(s, q, st), t.seen = s.seen, t.anchor = s.anchor
    PROVE  Placed(t, q, st)
<1>1. \A e : /\ AnchorAt(s, e, st) => AnchorAt(t, e, st)
             /\ SeenAt(s, e) => SeenAt(t, e)
  BY DEF AnchorAt, SeenAt
<1> QED BY <1>1 DEF Placed

\* A window that ends later than all is put at the end.
LEMMA QueueGrows ==
    ASSUME NEW q \in Seq(Queued), NEW ends, NEW st, Len(st) \in Nat, QueueAt(q, ends, st),
           NEW w \in Queued, NEW f \in 1..Len(st), IsWindow(w.turns, f, st),
           \A i \in 1..Len(q) : /\ ends[i] < f
                                /\ q[i].kind # "backfill" /\ ends[i] % 2 = 1 => ends[i] + 1 < f
    PROVE  QueueAt(Append(q, w), [i \in 1..Len(q) + 1 |-> IF i = Len(q) + 1 THEN f ELSE ends[i]], st)
<1> DEFINE n == Len(q)  longer == Append(q, w)
           at == [i \in 1..n + 1 |-> IF i = n + 1 THEN f ELSE ends[i]]
<1>1. n \in Nat /\ Len(longer) = n + 1 /\ longer[n + 1] = w /\ \A i \in 1..n : longer[i] = q[i]
  OBVIOUS
<1>2. /\ ends \in [1..n -> 1..Len(st)]
      /\ \A i \in 1..n : IsWindow(q[i].turns, ends[i], st)
      /\ \A i, j \in 1..n : i < j =>
            /\ ends[i] < ends[j]
            /\ q[i].kind # "backfill" /\ ends[i] % 2 = 1 => ends[i] + 1 < ends[j]
  BY DEF QueueAt
<1>3. /\ at[n + 1] = f /\ \A i \in 1..n : at[i] = ends[i]
      /\ at \in [1..n + 1 -> 1..Len(st)]
  <2> HIDE DEF n, longer
  <2> QED BY <1>1, <1>2
<1>4. \A i \in 1..n : ends[i] < f /\ (q[i].kind # "backfill" /\ ends[i] % 2 = 1 => ends[i] + 1 < f)
  OBVIOUS
<1> HIDE DEF n, longer, at
<1>5. \A i \in 1..n + 1 : i = n + 1 \/ i \in 1..n
  BY <1>1
<1>6. ASSUME NEW i \in 1..n + 1 PROVE IsWindow(longer[i].turns, at[i], st)
  BY <1>1, <1>2, <1>3, <1>5
<1>7. ASSUME NEW i \in 1..n + 1, NEW j \in 1..n + 1, i < j
      PROVE  /\ at[i] < at[j]
             /\ longer[i].kind # "backfill" /\ at[i] % 2 = 1 => at[i] + 1 < at[j]
  <2>1. i \in 1..n
    BY <1>1, <1>7
  <2>2. CASE j = n + 1
    BY <1>1, <1>3, <1>4, <2>1, <2>2
  <2>3. CASE j \in 1..n
    BY <1>1, <1>2, <1>3, <1>7, <2>1, <2>3
  <2> QED BY <1>5, <2>2, <2>3
<1>8. QueueAt(longer, at, st)
  BY <1>1, <1>3, <1>6, <1>7 DEF QueueAt
<1> QED BY <1>8 DEF longer, at, n

\* The windows of the next exchange end after a window of a story that ends with
\* a reply, by two where that one ends with a request.
LEMMA PastTheStory ==
    ASSUME NEW n \in Nat, n % 2 = 0, NEW x \in 1..n, NEW f \in {n + 1, n + 2}
    PROVE  x < f /\ (x % 2 = 1 => x + 1 < f)
<1>1. x % 2 = 1 => x # n
  OBVIOUS
<1>2. x # n => x + 1 <= n
  OBVIOUS
<1> QED BY <1>1, <1>2

\* An exchange appends its windows to the queue, each of which ends after those
\* before.
LEMMA AnsweringKeepsPlace ==
    ASSUME IInv, NEW x \in Turn, NEW reply \in Turn, Answers(Append(story, x), reply, 0),
           troubles \in Nat, troubles' = 0, Placed(Cur, waiting, story)
    PROVE  Placed(Cur', waiting', story')
<1> DEFINE n == Len(story)  turns == Append(story, x)  asked == Window(turns)
           longer == Append(turns, reply)
           first == [kind |-> "backfill", turns |-> asked]
           answered == [kind |-> "answered", turns |-> Append(asked, reply)]
           alone == [kind |-> "tail", turns |-> asked]
           second == IF reply > 0 THEN <<answered>>
                     ELSE IF Len(asked) > 1 THEN <<alone>> ELSE <<>>
<1>1. /\ story \in Seq(Turn) /\ n \in Nat /\ n % 2 = 0 /\ waiting \in Seq(Queued)
      /\ Sound(disk) /\ (pass # Idle => Sound(Mem))
  BY LenProperties DEF IInv, ClientInv, PassInv
<1>2. /\ turns \in Seq(Turn) /\ Len(turns) = n + 1 /\ Len(turns) % 2 = 1
      /\ longer \in Seq(Turn) /\ Len(longer) = n + 2 /\ longer[n + 2] = reply
      /\ \A k \in 1..n + 1 : longer[k] = turns[k]
      /\ \A k \in 1..n : longer[k] = story[k]
  BY <1>1
<1>3. asked \in Seq(Turn) /\ Len(asked) \in Nat \ {0}
  BY <1>2, WindowSeq
<1>4. IsWindow(asked, n + 1, longer)
  <2>1. IsWindow(asked, n + 1, turns)
    BY <1>2, WindowIs
  <2>2. n + 1 \in Nat \ {0}
    BY <1>1
  <2> HIDE DEF turns, asked, longer, n
  <2> QED BY <1>2, <2>1, <2>2, WindowStays
<1>5. IsWindow(Append(asked, reply), n + 2, longer)
  <2>1. n + 1 \in Nat \ {0} /\ (n + 1) % 2 = 1 /\ (n + 1) + 1 = n + 2
    BY <1>1
  <2> HIDE DEF turns, asked, longer, n
  <2> QED BY <1>2, <1>3, <1>4, <2>1, ReplyIs
<1>6. first \in Queued /\ alone \in Queued /\ answered \in Queued
  <2>1. Append(asked, reply) \in Seq(Turn) /\ Len(Append(asked, reply)) = Len(asked) + 1
    BY <1>3
  <2> HIDE DEF asked
  <2> QED BY <1>3, <2>1 DEF Queued
<1>7. /\ UNCHANGED <<disk, pass>> /\ story' = longer
      /\ RollupsQueued(asked, reply, reply > 0, 0)
  BY DEF Answers
<1>8. PICK b \in {<<>>, <<first>>}, t \in {<<>>, second} :
          /\ waiting' = waiting \o b \o t
          /\ Trouble(0 + IF ~(reply > 0) /\ b # <<>> /\ t # <<>> THEN 1 ELSE 0)
  BY <1>7 DEF RollupsQueued
<1>9. reply > 0 \/ b = <<>> \/ t = <<>>
  BY <1>8 DEF Trouble
<1>10. PICK e, ends :
          /\ e \in 0..n
          /\ AnchorAt(Cur, e, story) /\ SeenAt(Cur, e) /\ QueueAt(waiting, ends, story)
          /\ \A i \in 1..Len(waiting) : e < ends[i] /\ (Cur.seen > e => e + 1 < ends[i])
  BY DEF Placed
<1> DEFINE l == Len(waiting)
<1>11. /\ ends \in [1..l -> 1..n] /\ l \in Nat
       /\ \A i \in 1..l : IsWindow(waiting[i].turns, ends[i], story)
       /\ \A i, j \in 1..l : i < j =>
            /\ ends[i] < ends[j]
            /\ waiting[i].kind # "backfill" /\ ends[i] % 2 = 1 => ends[i] + 1 < ends[j]
  BY <1>1, <1>10 DEF QueueAt
<1>12. Cur' = Cur
  BY <1>7 DEF Cur, Mem
<1>13. AnchorAt(Cur, e, longer)
  <2>1. CASE e = 0
    BY <1>10, <2>1 DEF AnchorAt
  <2>2. CASE e # 0
    <3> DEFINE s == Cur  a == Len(s.anchor)
    <3>1. /\ a \in 1..e - Begin(e) + 1 /\ a <= AnchorTurns
          /\ a \in {AnchorTurns, e - Begin(e) + 1}
          /\ \A k \in 1..a : s.anchor[k] = Shown(story[e - a + k])
      BY <1>10, <2>2 DEF AnchorAt
    <3>2. Begin(e) \in 1..e
      BY <1>10, <2>2, BeginIs
    <3>3. \A k \in 1..a : e - a + k \in 1..n
      <4>1. e \in 1..n /\ n \in Nat /\ a \in 1..e
        <5>1. e \in 0..n /\ n \in Nat
          BY <1>1, <1>10
        <5>2. a \in 1..e - Begin(e) + 1
          BY <3>1
        <5> HIDE DEF n, a
        <5> QED BY <2>2, <3>2, <5>1, <5>2
      <4> HIDE DEF n, a
      <4> QED BY <4>1
    <3>4. \A k \in 1..a : s.anchor[k] = Shown(longer[e - a + k])
      BY <1>2, <3>1, <3>3
    <3> QED BY <2>2, <3>1, <3>4 DEF AnchorAt
  <2> QED BY <2>1, <2>2
<1>14. Cur.seen > e => e + 1 <= n
  <2>1. Cur.seen > e => e % 2 = 1
    <3>1. Cur.seen \in Nat
      BY <1>1 DEF Cur, Sound
    <3> QED BY <1>10, <3>1 DEF SeenAt, Ahead
  <2> HIDE DEF n
  <2> QED BY <1>1, <1>10, <2>1
<1> DEFINE Fits(q, at) ==
             /\ QueueAt(q, at, longer)
             /\ \A i \in 1..Len(q) : e < at[i] /\ (Cur.seen > e => e + 1 < at[i])
<1>15. Fits(waiting, ends)
  <2>1. \A i \in 1..l : IsWindow(waiting[i].turns, ends[i], longer)
    <3> TAKE i \in 1..l
    <3>1. ends[i] \in Nat \ {0} /\ \A k \in 1..ends[i] : k \in 1..n
      <4>1. ends[i] \in 1..n /\ n \in Nat
        BY <1>1, <1>11
      <4> HIDE DEF n
      <4> QED BY <4>1
    <3>2. \A k \in 1..ends[i] : longer[k] = story[k]
      BY <1>2, <3>1
    <3> HIDE DEF longer
    <3> QED BY <1>11, <3>1, <3>2, WindowStays
  <2>2. ends \in [1..l -> 1..Len(longer)]
    <3>1. 1..n \subseteq 1..Len(longer)
      <4> HIDE DEF n, longer
      <4> QED BY <1>1, <1>2
    <3> HIDE DEF l, n, longer
    <3> QED BY <1>11, <3>1
  <2> HIDE DEF longer
  <2> QED BY <1>10, <1>11, <2>1, <2>2 DEF QueueAt
<1> DEFINE Put(f) == [i \in 1..l + 1 |-> IF i = l + 1 THEN f ELSE ends[i]]
<1>16. ASSUME NEW w \in Queued, NEW f \in {n + 1, n + 2}, IsWindow(w.turns, f, longer)
       PROVE  Fits(Append(waiting, w), Put(f))
  <2> DEFINE at == Put(f)
  <2>1. f \in 1..Len(longer) /\ Len(longer) \in Nat
    BY <1>1, <1>2
  <2>2. \A i \in 1..l : /\ ends[i] < f
                        /\ ends[i] % 2 = 1 => ends[i] + 1 < f
    <3> TAKE i \in 1..l
    <3>1. ends[i] \in 1..n
      BY <1>11
    <3>2. f \in {n + 1, n + 2}
      OBVIOUS
    <3>3. n \in Nat /\ n % 2 = 0
      BY <1>1
    <3> HIDE DEF n
    <3> QED BY <3>1, <3>2, <3>3, PastTheStory
  <2>3. QueueAt(Append(waiting, w), at, longer)
    <3> HIDE DEF longer, n
    <3> QED BY <1>1, <1>15, <1>16, <2>1, <2>2, QueueGrows
  <2>4. Len(Append(waiting, w)) = l + 1
    BY <1>1
  <2>5. \A i \in 1..l + 1 : e < at[i] /\ (Cur.seen > e => e + 1 < at[i])
    <3> HIDE DEF longer, l, n
    <3> QED BY <1>1, <1>10, <1>11, <1>14 DEF l
  <2> HIDE DEF Put, longer
  <2> QED BY <2>3, <2>4, <2>5
<1>17. \E at : Fits(waiting', at)
  <2>1. CASE b = <<>> /\ t = <<>>
    <3>1. waiting' = waiting
      BY <1>1, <1>8, <2>1
    <3> HIDE DEF Fits
    <3> QED BY <1>15, <3>1
  <2>2. CASE b = <<first>> /\ t = <<>>
    <3>1. waiting' = Append(waiting, first)
      <4> HIDE DEF first
      <4> QED BY <1>1, <1>6, <1>8, <2>2
    <3>2. IsWindow(first.turns, n + 1, longer)
      BY <1>4
    <3> HIDE DEF Fits, Put, first, longer
    <3> QED BY <1>6, <1>16, <3>1, <3>2
  <2>3. CASE b = <<>> /\ t = <<answered>>
    <3>1. waiting' = Append(waiting, answered)
      <4> HIDE DEF answered
      <4> QED BY <1>1, <1>6, <1>8, <2>3
    <3>2. IsWindow(answered.turns, n + 2, longer)
      BY <1>5
    <3> HIDE DEF Fits, Put, answered, longer
    <3> QED BY <1>6, <1>16, <3>1, <3>2
  <2>4. CASE b = <<>> /\ t = <<alone>>
    <3>1. waiting' = Append(waiting, alone)
      <4> HIDE DEF alone
      <4> QED BY <1>1, <1>6, <1>8, <2>4
    <3>2. IsWindow(alone.turns, n + 1, longer)
      BY <1>4
    <3> HIDE DEF Fits, Put, alone, longer
    <3> QED BY <1>6, <1>16, <3>1, <3>2
  <2>5. CASE b = <<first>> /\ t = <<answered>>
    <3> DEFINE q == Append(waiting, first)
               at == Put(n + 1)
               end == [i \in 1..Len(q) + 1 |-> IF i = Len(q) + 1 THEN n + 2 ELSE at[i]]
    <3>1. Fits(q, at)
      <4>1. IsWindow(first.turns, n + 1, longer)
        BY <1>4
      <4> HIDE DEF Fits, Put, first, longer
      <4> QED BY <1>6, <1>16, <4>1
    <3>2. /\ q \in Seq(Queued) /\ Len(q) = l + 1
          /\ q[l + 1] = first /\ \A i \in 1..l : q[i] = waiting[i]
      <4> HIDE DEF first
      <4> QED BY <1>1, <1>6
    <3>3. \A i \in 1..l + 1 : /\ at[i] < n + 2
                              /\ q[i].kind # "backfill" /\ at[i] % 2 = 1 => at[i] + 1 < n + 2
      <4> TAKE i \in 1..l + 1
      <4>1. CASE i = l + 1
        <5>1. q[i].kind = "backfill" /\ at[i] = n + 1
          BY <3>2, <4>1
        <5>2. n \in Nat
          BY <1>1
        <5> HIDE DEF n, q, at
        <5> QED BY <5>1, <5>2
      <4>2. CASE i # l + 1
        <5>1. i \in 1..l /\ at[i] = ends[i]
          BY <1>11, <4>2
        <5>2. at[i] \in 1..n /\ n \in Nat
          <6> HIDE DEF n, q, at
          <6>1. ends[i] \in 1..n
            BY <1>11, <5>1
          <6>2. n \in Nat
            BY <1>1 DEF n
          <6> QED BY <5>1, <6>1, <6>2
        <5> HIDE DEF n, q, at
        <5> QED BY <5>2
      <4> QED BY <4>1, <4>2
    <3>4. waiting' = Append(q, answered)
      <4>1. q = waiting \o <<first>>
        <5> HIDE DEF first
        <5> QED BY <1>1, <1>6
      <4>2. q \o <<answered>> = Append(q, answered)
        <5> HIDE DEF q, answered
        <5> QED BY <1>6, <3>2
      <4> HIDE DEF q, first, answered
      <4> QED BY <1>8, <2>5, <4>1, <4>2
    <3>5. IsWindow(answered.turns, n + 2, longer) /\ n + 2 \in 1..Len(longer)
          /\ Len(longer) \in Nat
      BY <1>1, <1>2, <1>5
    <3>6. QueueAt(Append(q, answered), end, longer)
      <4> HIDE DEF q, at, first, answered, longer, n
      <4> QED BY <1>6, <3>1, <3>2, <3>3, <3>5, QueueGrows DEF l
    <3>7. Len(Append(q, answered)) = l + 2
      <4> HIDE DEF q, answered
      <4> QED BY <1>6, <1>11, <3>2
    <3>8. \A i \in 1..l + 2 : e < end[i] /\ (Cur.seen > e => e + 1 < end[i])
      <4> TAKE i \in 1..l + 2
      <4>1. CASE i = l + 2
        <5>1. end[i] = n + 2
          BY <1>11, <3>2, <4>1
        <5> QED BY <1>1, <1>10, <1>14, <5>1
      <4>2. CASE i # l + 2
        <5>1. i \in 1..l + 1
          BY <1>11, <4>2
        <5>2. end[i] = at[i]
          <6> HIDE DEF at, q
          <6> QED BY <1>11, <3>2, <4>2, <5>1
        <5> HIDE DEF at, end, q, longer
        <5> QED BY <3>1, <3>2, <5>1, <5>2
      <4> QED BY <4>1, <4>2
    <3> HIDE DEF q, at, end, answered, longer
    <3> QED BY <3>4, <3>6, <3>7, <3>8
  <2>6. \/ t = <<>> \/ (t = <<answered>> /\ reply > 0) \/ (t = <<alone>> /\ ~(reply > 0))
    <3> HIDE DEF answered, alone
    <3> QED BY <1>8
  <2> HIDE DEF Fits, first, answered, alone, second
  <2> QED BY <1>8, <1>9, <2>1, <2>2, <2>3, <2>4, <2>5, <2>6
<1>18. e \in 0..Len(longer)
  BY <1>1, <1>2, <1>10
<1> HIDE DEF longer, l, n, turns
<1> QED BY <1>7, <1>10, <1>12, <1>13, <1>17, <1>18 DEF Placed

\* Indexing an exchange leaves its window where it is.
LEMMA IndexingKeepsPlace ==
    ASSUME IInv, Indexes, Placed(Cur, waiting, story)
    PROVE  Placed(Cur', waiting', story')
<1>1. PICK i \in DOMAIN waiting :
          waiting[i].kind = "answered" /\ waiting' = [waiting EXCEPT ![i].kind = "tail"]
  BY DEF Indexes
<1>2. UNCHANGED <<disk, story, pass>>
  BY DEF Indexes
<1>3. waiting \in Seq(Queued) /\ DOMAIN waiting = 1..Len(waiting)
  BY DEF IInv, ClientInv
<1>4. /\ Len(waiting') = Len(waiting)
      /\ \A j \in 1..Len(waiting) : /\ waiting'[j].turns = waiting[j].turns
                                    /\ waiting'[j].kind = "backfill" <=> waiting[j].kind = "backfill"
  <2> DEFINE w == waiting[i]  tail == [w EXCEPT !.kind = "tail"]
  <2>1. w \in Queued /\ waiting' = [waiting EXCEPT ![i] = tail]
    BY <1>1, <1>3
  <2> HIDE DEF w
  <2>2. tail.turns = w.turns /\ tail.kind = "tail" /\ w.kind = "answered"
    BY <1>1, <2>1 DEF Queued, w
  <2> HIDE DEF tail
  <2>3. Len(waiting') = Len(waiting)
    BY <1>3, <2>1
  <2>4. ASSUME NEW j \in 1..Len(waiting)
        PROVE  /\ waiting'[j].turns = waiting[j].turns
               /\ waiting'[j].kind = "backfill" <=> waiting[j].kind = "backfill"
    <3>1. CASE j = i
      BY <1>3, <2>1, <2>2, <3>1 DEF w
    <3>2. CASE j # i
      BY <1>3, <2>1, <3>2
    <3> QED BY <3>1, <3>2
  <2> QED BY <2>3, <2>4
<1>5. \A ends : QueueAt(waiting, ends, story) => QueueAt(waiting', ends, story)
  BY <1>4 DEF QueueAt, IsWindow
<1>6. Cur' = Cur
  BY <1>2 DEF Cur, Mem
<1> QED BY <1>2, <1>4, <1>5, <1>6 DEF Placed

\* The rest of the queue.
LEMMA FirstIsRemoved ==
    ASSUME NEW q \in Seq(Queued), q # <<>>, NEW rest, rest = RemoveAt(q, 1)
    PROVE  /\ Len(q) \in Nat \ {0} /\ Len(rest) = Len(q) - 1
           /\ \A i \in 1..Len(q) - 1 : rest[i] = q[i + 1]
<1> DEFINE n == Len(q)  none == SubSeq(q, 1, 1 - 1)  tail == SubSeq(q, 1 + 1, n)
<1>1. n \in Nat \ {0} /\ rest = none \o tail
  BY DEF RemoveAt
<1>2. \A i \in 2..n : q[i] \in Queued
  BY <1>1
<1>3. /\ tail \in Seq(Queued) /\ Len(tail) = n - 1
      /\ \A i \in 1..n - 1 : tail[i] = q[i + 1]
  <2>1. 2 \in 1..n + 1 /\ n \in Nat
    BY <1>1
  <2> HIDE DEF n
  <2>2. /\ SubSeq(q, 2, n) \in Seq(Queued) /\ Len(SubSeq(q, 2, n)) = n - 2 + 1
        /\ \A i \in 1..n - 2 + 1 : SubSeq(q, 2, n)[i] = q[2 + i - 1]
    BY <1>2, <2>1, SubSeqProperties
  <2>3. n - 2 + 1 = n - 1 /\ \A i \in 1..n - 1 : 2 + i - 1 = i + 1
    BY <2>1
  <2> QED BY <2>2, <2>3
<1>4. none = <<>>
  OBVIOUS
<1>5. rest = tail
  <2> HIDE DEF tail, none
  <2> QED BY <1>1, <1>3, <1>4
<1> QED BY <1>1, <1>3, <1>5

\* The pass of the first window in the queue brings the state to its end; a
\* backfill that is skipped leaves the state where it is.
LEMMA StartingKeepsPlace ==
    ASSUME IInv, PassStarts, troubles \in Nat, troubles' = 0, Placed(Cur, waiting, story)
    PROVE  Placed(Cur', waiting', story')
<1>1. PICK i \in DOMAIN waiting :
          /\ waiting[i].kind # "answered"
          /\ Trouble(IF i = 1 THEN 0 ELSE 1)
          /\ waiting' = RemoveAt(waiting, i)
          /\ IF waiting[i].kind = "backfill" /\ Recorded(disk) > Len(waiting[i].turns)
             THEN UNCHANGED pass
             ELSE Start(waiting[i].kind, waiting[i].turns, TailCalls)
  BY DEF PassStarts
<1>2. /\ UNCHANGED <<disk, story>> /\ pass = Idle /\ Sound(disk)
      /\ waiting \in Seq(Queued) /\ Len(story) \in Nat
  BY LenProperties DEF PassStarts, IInv, ClientInv, client
<1>3. i = 1
  BY <1>1 DEF Trouble
<1> DEFINE w == waiting[1]  n == Len(waiting)
<1>4. w \in Queued /\ waiting # <<>>
  BY <1>1, <1>2, <1>3
<1>5. w.kind \in {"tail", "backfill"} /\ w.turns \in Seq(Turn)
  BY <1>1, <1>3, <1>4 DEF Queued
<1>6. /\ n \in Nat \ {0} /\ Len(waiting') = n - 1
      /\ \A k \in 1..n - 1 : waiting'[k] = waiting[k + 1]
  BY <1>1, <1>2, <1>3, <1>4, FirstIsRemoved
<1>7. PICK e, ends :
        /\ e \in 0..Len(story)
        /\ AnchorAt(disk, e, story) /\ SeenAt(disk, e) /\ QueueAt(waiting, ends, story)
        /\ \A k \in 1..n : e < ends[k] /\ (disk.seen > e => e + 1 < ends[k])
  BY <1>2 DEF Placed, Cur
<1>8. /\ ends \in [1..n -> 1..Len(story)]
      /\ \A k \in 1..n : IsWindow(waiting[k].turns, ends[k], story)
      /\ \A k, j \in 1..n : k < j =>
           /\ ends[k] < ends[j]
           /\ waiting[k].kind # "backfill" /\ ends[k] % 2 = 1 => ends[k] + 1 < ends[j]
  BY <1>7 DEF QueueAt
<1> DEFINE left == [k \in 1..n - 1 |-> ends[k + 1]]
<1>9. QueueAt(waiting', left, story) /\ \A k \in 1..n - 1 : left[k] = ends[k + 1] /\ k + 1 \in 1..n
  <2> HIDE DEF n
  <2>1. \A k \in 1..n - 1 : k + 1 \in 1..n
    BY <1>6
  <2>2. \A k, j \in 1..n - 1 : k < j => k + 1 < j + 1
    BY <1>6
  <2>3. left \in [1..n - 1 -> 1..Len(story)] /\ \A k \in 1..n - 1 : left[k] = ends[k + 1]
    BY <1>8, <2>1
  <2> HIDE DEF left
  <2>4. \A k \in 1..n - 1 : IsWindow(waiting'[k].turns, left[k], story)
    BY <1>6, <1>8, <2>1, <2>3
  <2>5. ASSUME NEW k \in 1..n - 1, NEW j \in 1..n - 1, k < j
        PROVE  /\ left[k] < left[j]
               /\ waiting'[k].kind # "backfill" /\ left[k] % 2 = 1 => left[k] + 1 < left[j]
    <3>1. k + 1 \in 1..n /\ j + 1 \in 1..n /\ k + 1 < j + 1
      BY <2>1, <2>2, <2>5
    <3>2. /\ left[k] = ends[k + 1] /\ left[j] = ends[j + 1] /\ waiting'[k] = waiting[k + 1]
      BY <1>6, <2>3
    <3> QED BY <1>8, <3>1, <3>2
  <2> QED BY <1>6, <2>1, <2>3, <2>4, <2>5 DEF QueueAt
<1>10. CASE UNCHANGED pass
  <2>1. Cur' = disk
    BY <1>2, <1>10 DEF Cur
  <2>2. \A k \in 1..Len(waiting') : e < left[k] /\ (disk.seen > e => e + 1 < left[k])
    <3> HIDE DEF left, n
    <3> QED BY <1>6, <1>7, <1>9
  <2> HIDE DEF left, n
  <2> QED BY <1>2, <1>7, <1>9, <2>1, <2>2 DEF Placed
<1>11. CASE /\ Start(w.kind, w.turns, TailCalls)
            /\ ~(w.kind = "backfill" /\ Recorded(disk) > Len(w.turns))
  <2> DEFINE t == Observe(disk, w.turns)  f == ends[1]
  <2>1. Cur' = t
    <3>1. Repair(disk) = disk
      BY <1>2, HighestBelowMark
    <3>2. pass'.kind = w.kind /\ pass'.state = t
      <4> HIDE DEF w
      <4>1. PICK patch : pass' = [kind |-> w.kind, turns |-> w.turns, state |-> t,
                                  patch |-> patch, calls |-> TailCalls, tried |-> {}]
        BY <1>11, <3>1, Zenon DEF Start
      <4> HIDE DEF t
      <4> QED BY <4>1
    <3>3. pass' # Idle
      BY <1>5, <3>2 DEF Idle
    <3> HIDE DEF t
    <3> QED BY <3>2, <3>3 DEF Cur, Mem
  <2>2. /\ 1 \in 1..n /\ f \in 1..Len(story) /\ e < f /\ (disk.seen > e => e + 1 < f)
        /\ IsWindow(w.turns, f, story)
    <3> HIDE DEF n
    <3> QED BY <1>6, <1>7, <1>8
  <2>3. /\ AnchorAt(t, f, story) /\ SeenAt(t, f)
        /\ disk.seen <= Len(w.turns) => t.seen <= f
    <3>1. e \in Nat /\ f \in Nat \ {0}
      BY <1>2, <1>7, <2>2
    <3> HIDE DEF w, t, f
    <3> QED BY <1>2, <1>5, <1>7, <2>2, <3>1, ObservingCounts DEF t
  <2>4. w.kind = "backfill" => t.seen <= f
    <3>1. Recorded(disk) = disk.seen /\ disk.seen \in Nat
      BY <1>2, HighestBelowMark DEF Sound
    <3>2. Len(w.turns) \in Nat
      BY <1>5
    <3> HIDE DEF w, t, f
    <3> QED BY <1>11, <2>3, <3>1, <3>2
  <2>5. t.seen \in Nat
    <3>1. Continues(disk, t)
      BY <1>2, <1>5, ObservingIsSound
    <3> HIDE DEF t
    <3> QED BY <3>1 DEF Continues, Sound
  <2>6. ASSUME NEW k \in 1..n - 1 PROVE f < left[k] /\ (t.seen > f => f + 1 < left[k])
    <3>1. left[k] = ends[k + 1] /\ k + 1 \in 1..n /\ 1 < k + 1
      BY <1>6, <1>9
    <3>2. f < left[k] /\ (w.kind # "backfill" /\ f % 2 = 1 => f + 1 < left[k])
      BY <1>8, <2>2, <3>1
    <3>3. t.seen > f => w.kind # "backfill" /\ f % 2 = 1
      <4> HIDE DEF w, t, f
      <4> QED BY <2>2, <2>3, <2>4, <2>5 DEF SeenAt, Ahead
    <3> QED BY <3>2, <3>3
  <2>7. f \in 0..Len(story)
    BY <1>2, <2>2
  <2> HIDE DEF t, f, left, n
  <2> QED BY <1>2, <1>6, <1>9, <2>1, <2>3, <2>6, <2>7 DEF Placed
<1> QED BY <1>1, <1>3, <1>10, <1>11

\* The tiers leave the position and the anchor alone.
LEMMA TiersKeepPlace ==
    ASSUME IInv, TierNext
    PROVE  pass # Idle /\ Cur'.seen = Cur.seen /\ Cur'.anchor = Cur.anchor
<1>1. pass # Idle
  BY DEF TierNext, RefreshesL3, FoldsL2, TierFails, SkipsL1, ReadsL1, Begins
<1>2. PassInv /\ Sound(Mem)
  BY <1>1, PassFacts
<1>3. /\ pass = [kind |-> pass.kind, turns |-> pass.turns, state |-> pass.state,
                 patch |-> pass.patch, calls |-> pass.calls, tried |-> pass.tried]
      /\ pass.state = [l1 |-> Mem.l1, l2 |-> Mem.l2, l3 |-> Mem.l3, mark |-> Mem.mark,
                       seen |-> Mem.seen, anchor |-> Mem.anchor, head |-> Mem.head,
                       width |-> Mem.width, record |-> Mem.record, extra |-> Mem.extra]
  BY <1>2 DEF PassInv, Sound, Fields, Mem
<1>4. ASSUME DOMAIN pass' = DOMAIN pass, Mem'.seen = Mem.seen, Mem'.anchor = Mem.anchor
      PROVE  Cur'.seen = Cur.seen /\ Cur'.anchor = Cur.anchor
  <2>1. pass' # Idle
    <3>1. "turns" \in DOMAIN pass' /\ "turns" \notin DOMAIN Idle
      BY <1>3, <1>4 DEF Idle
    <3> QED BY <3>1
  <2> QED BY <1>1, <1>4, <2>1 DEF Cur
<1>5. CASE RefreshesL3
  <2> DEFINE told == <<Story(Mem.l3, Mem.l2)>>  none == <<>>
             tried == pass.tried \union {"l3"}  calls == CallsLeft(1 + Len(Mem.l3))
  <2>1. pass' = [pass EXCEPT !.state.l3 = told, !.state.l2 = none,
                             !.tried = tried, !.calls = calls]
    BY <1>5 DEF RefreshesL3, Rolls
  <2> HIDE DEF told, none, tried, calls
  <2>2. DOMAIN pass' = DOMAIN pass /\ Mem'.seen = Mem.seen /\ Mem'.anchor = Mem.anchor
    BY <1>3, <2>1 DEF Mem
  <2> QED BY <1>1, <1>4, <2>2
<1>6. CASE FoldsL2
  <2> DEFINE chapters == Append(Mem.l2, Merged(SubSeq(Mem.l1, 1, L2Size)))
             scenes == Unfolded(Mem.l1)  calls == CallsLeft(1)
  <2>1. pass' = [pass EXCEPT !.state.l2 = chapters, !.state.l1 = scenes, !.calls = calls]
    BY <1>6 DEF FoldsL2, Rolls, Mem
  <2> HIDE DEF chapters, scenes, calls
  <2>2. DOMAIN pass' = DOMAIN pass /\ Mem'.seen = Mem.seen /\ Mem'.anchor = Mem.anchor
    BY <1>3, <2>1 DEF Mem
  <2> QED BY <1>1, <1>4, <2>2
<1>7. CASE TierFails
  <2>1. PICK tier : pass' = [pass EXCEPT !.tried = pass.tried \union {tier},
                                         !.calls = CallsLeft(1)]
    BY <1>7, Zenon DEF TierFails, Rolls
  <2>2. DOMAIN pass' = DOMAIN pass /\ Mem'.seen = Mem.seen /\ Mem'.anchor = Mem.anchor
    BY <1>3, <2>1 DEF Mem
  <2> QED BY <1>1, <1>4, <2>2
<1>8. CASE SkipsL1
  <2> DEFINE off == Offset  none == <<>>
  <2>1. pass' = [pass EXCEPT !.state.mark = off, !.patch = none]
    BY <1>8 DEF SkipsL1, Rolls
  <2> HIDE DEF off, none
  <2>2. DOMAIN pass' = DOMAIN pass /\ Mem'.seen = Mem.seen /\ Mem'.anchor = Mem.anchor
    BY <1>3, <2>1 DEF Mem
  <2> QED BY <1>1, <1>4, <2>2
<1>9. CASE ReadsL1
  <2>1. PICK c, m, r, x, p, l :
            pass' = [pass EXCEPT !.state.l1 = Append(@, c), !.state.mark = m, !.state.record = r,
                                 !.state.extra = x, !.patch = p, !.calls = l]
    BY <1>9 DEF ReadsL1, Rolls
  <2> DEFINE scenes == Append(Mem.l1, c)
  <2>2. pass' = [pass EXCEPT !.state.l1 = scenes, !.state.mark = m, !.state.record = r,
                             !.state.extra = x, !.patch = p, !.calls = l]
    BY <2>1 DEF Mem
  <2> HIDE DEF scenes
  <2>3. DOMAIN pass' = DOMAIN pass /\ Mem'.seen = Mem.seen /\ Mem'.anchor = Mem.anchor
    BY <1>3, <2>2 DEF Mem
  <2> QED BY <1>1, <1>4, <2>3
<1> QED BY <1>1, <1>5, <1>6, <1>7, <1>8, <1>9 DEF TierNext

LEMMA InitialPlace == Init => PlaceInv
<1> SUFFICES ASSUME Init PROVE PlaceInv
  OBVIOUS
<1>1. /\ disk.anchor = <<>> /\ disk.seen = 0 /\ pass = Idle /\ compact = Idle
      /\ waiting = <<>> /\ troubles = 0
  BY DEF Init, Empty
<1>2. Len(story) \in Nat
  BY InitialSound, LenProperties DEF IInv, ClientInv
<1>3. Cur = disk /\ AnchorAt(disk, 0, story) /\ SeenAt(disk, 0) /\ QueueAt(waiting, <<>>, story)
  BY <1>1 DEF Cur, AnchorAt, SeenAt, QueueAt
<1>4. Placed(Cur, waiting, story)
  <2>1. 0 \in 0..Len(story) /\ Len(waiting) = 0
    BY <1>1, <1>2
  <2> QED BY <1>3, <2>1 DEF Placed
<1> QED BY <1>1, <1>4 DEF PlaceInv

\* As long as there is no trouble, every step keeps the place of the state in
\* the story.
LEMMA NextKeepsPlace == IInv /\ PlaceInv /\ [Next]_vars => PlaceInv'
<1> SUFFICES ASSUME IInv, PlaceInv, [Next]_vars PROVE PlaceInv'
  OBVIOUS
<1>1. troubles \in Nat
  BY DEF PlaceInv
<1>2. ASSUME NEW n \in Nat, Trouble(n) PROVE troubles' = troubles + n
  BY <1>2 DEF Trouble
<1>3. ASSUME troubles' = troubles,
             troubles = 0 => compact' = Idle /\ Placed(Cur', waiting', story')
      PROVE  PlaceInv'
  BY <1>1, <1>3 DEF PlaceInv
<1>4. ASSUME NEW n \in Nat \ {0}, troubles' = troubles + n PROVE PlaceInv'
  BY <1>1, <1>4 DEF PlaceInv
<1>5. ASSUME troubles = 0 PROVE compact = Idle /\ Placed(Cur, waiting, story)
  BY <1>5 DEF PlaceInv
<1>6. CASE Exchange
  <2>1. written \in Nat
    BY DEF IInv, ClientInv
  <2>2. PICK x \in Turn, reply \in Turn : Answers(Append(story, x), reply, 0)
    BY <1>6, <2>1 DEF Exchange, Fresh, Echo, Turn, Unknown
  <2>3. PICK n \in Nat : troubles' = troubles + n
    <3>1. RollupsQueued(Window(Append(story, x)), reply, reply > 0, 0)
      BY <2>2 DEF Answers
    <3> QED BY <3>1, <1>2 DEF RollupsQueued
  <2>4. CASE n = 0
    <3>1. ASSUME troubles = 0 PROVE compact' = Idle /\ Placed(Cur', waiting', story')
      <4>1. compact' = compact
        BY <2>2 DEF Answers
      <4>2. troubles' = 0
        BY <2>3, <2>4, <3>1
      <4> QED BY <1>1, <1>5, <2>2, <3>1, <4>1, <4>2, AnsweringKeepsPlace
    <3> QED BY <1>1, <1>3, <2>3, <2>4, <3>1
  <2>5. CASE n # 0
    BY <1>4, <2>3, <2>5
  <2> QED BY <2>4, <2>5
<1>7. CASE Regenerate
  <2>1. RollupsQueued(Window(Front(story)), Fresh(written + 1), Fresh(written + 1) > 0, 1)
    BY <1>7 DEF Regenerate, Answers
  <2>2. PICK n \in {1, 2} : Trouble(n)
    BY <2>1 DEF RollupsQueued
  <2> QED BY <1>2, <1>4, <2>2
<1>8. CASE DeleteExchange \/ EditTurn \/ CompactChecks \/ Cancelled \/ Crash
  <2>1. Trouble(1)
    BY <1>8 DEF DeleteExchange, EditTurn, CompactChecks, Cancelled, Crash
  <2> QED BY <1>2, <1>4, <2>1
<1>9. CASE CompactDropsAnchor \/ CompactPassStarts
  <2>1. compact # Idle /\ troubles' = troubles
    BY <1>9 DEF CompactDropsAnchor, CompactPassStarts, Idle
  <2> QED BY <1>3, <1>5, <2>1
<1>10. CASE Indexes
  <2>1. compact' = compact
    BY <1>10 DEF Indexes
  <2>2. PICK n \in Nat : Trouble(n)
    BY <1>10 DEF Indexes
  <2>3. troubles' = troubles \/ \E k \in Nat \ {0} : troubles' = troubles + k
    BY <1>1, <1>2, <2>2
  <2> QED BY <1>3, <1>4, <1>5, <1>10, <2>1, <2>3, IndexingKeepsPlace
<1>11. CASE PassStarts
  <2>1. compact' = compact
    BY <1>11 DEF PassStarts
  <2>2. PICK n \in Nat : Trouble(n)
    BY <1>11 DEF PassStarts
  <2>3. troubles' = troubles \/ \E k \in Nat \ {0} : troubles' = troubles + k
    BY <1>1, <1>2, <2>2
  <2> QED BY <1>1, <1>3, <1>4, <1>5, <1>11, <2>1, <2>3, StartingKeepsPlace
<1>12. CASE TierNext
  <2>1. UNCHANGED <<waiting, story, compact, troubles>>
    BY <1>12 DEF TierNext, RefreshesL3, FoldsL2, TierFails, SkipsL1, ReadsL1, Rolls, client
  <2>2. Cur'.seen = Cur.seen /\ Cur'.anchor = Cur.anchor
    BY <1>12, TiersKeepPlace
  <2>3. Placed(Cur, waiting, story) => Placed(Cur', waiting', story')
    BY <2>1, <2>2, PlaceIsKept
  <2> QED BY <1>3, <1>5, <2>1, <2>3
<1>13. CASE PassEnds
  <2>1. /\ pass # Idle /\ pass' = Idle /\ UNCHANGED <<story, waiting>>
        /\ (disk' = Mem /\ troubles' = troubles) \/ Trouble(1)
        /\ pass.kind # "compact" => compact' = compact
    BY <1>13 DEF PassEnds, client
  <2>2. CASE Trouble(1)
    BY <1>2, <1>4, <2>2
  <2>3. CASE disk' = Mem /\ troubles' = troubles
    <3>1. Cur' = Cur
      BY <2>1, <2>3 DEF Cur
    <3>2. compact = Idle => compact' = Idle
      BY <2>1 DEF IInv, PassInv
    <3> QED BY <1>3, <1>5, <2>1, <2>3, <3>1, <3>2
  <2> QED BY <2>1, <2>2, <2>3
<1>14. CASE UNCHANGED vars
  <2>1. UNCHANGED <<disk, story, waiting, pass, compact, troubles>>
    BY <1>14 DEF vars, client
  <2>2. Cur' = Cur
    BY <2>1 DEF Cur, Mem
  <2> QED BY <1>3, <1>5, <2>1, <2>2
<1> QED BY <1>6, <1>7, <1>8, <1>9, <1>10, <1>11, <1>12, <1>13, <1>14
        DEF Next, UserNext, CompactNext

\* The position is a lower bound: with tails and backfills that were shed,
\* replies that repeat each other or are not remembered, and a window that
\* slides, it never exceeds the turns the conversation has had, as long as
\* nobody changes the history and the passes keep their order
\* (_observed_position).
THEOREM PositionIsALowerBound == Spec => []NeverOverCounts
<1>1. IInv /\ PlaceInv => NeverOverCounts
  <2> SUFFICES ASSUME IInv, PlaceInv, troubles = 0 PROVE disk.seen <= Len(story)
    BY DEF NeverOverCounts
  <2>1. Placed(Cur, waiting, story)
    BY DEF PlaceInv
  <2>2. Len(story) \in Nat /\ Len(story) % 2 = 0
    BY LenProperties DEF IInv, ClientInv
  <2>3. Cur.seen \in Nat /\ disk.seen \in Nat /\ disk.seen <= Cur.seen
    BY DEF IInv, PassInv, Sound, Cur
  <2>4. Cur.seen <= Len(story)
    BY <2>1, <2>2, <2>3, PlacedIsBelow
  <2> QED BY <2>2, <2>3, <2>4
<1>2. Spec => []PlaceInv
  BY InitialPlace, NextKeepsPlace, InvariantHolds, PTL DEF Spec
<1> QED BY <1>1, <1>2, InvariantHolds, PTL

==============================================================================
