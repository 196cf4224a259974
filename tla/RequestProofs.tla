--------------------------- MODULE RequestProofs ---------------------------
(***************************************************************************)
(* Proofs about what a request sends to the model (Prompt) and about the   *)
(* backfill that it starts (Backfill).                                     *)
(*                                                                         *)
(* The prompt, for any number of turns, any sizes and every value of the   *)
(* settings.  Every step of the guard keeps the payload or is of one of    *)
(* two kinds: some messages go, the others in their order (Sheds), or one  *)
(* becomes smaller (Cuts).  What the kinds keep is proved once             *)
(* (ShedKeeps, CutKeeps, ShedSpares, CutSpares), what a step does with     *)
(* them once for a round (RoundIs).  The promises rest on what the         *)
(* measurements are worth (Certified), on what the last resort finds       *)
(* (Resort) and on what each step of a round leaves to the next (ByValue). *)
(* That the guard ends is a safety property of a measure: StepsLeft goes   *)
(* down with every step of it.                                             *)
(*                                                                         *)
(* The backfill, for any number of requests and exchanges and every choice *)
(* of what may go wrong.  One request at most has one, or is about to      *)
(* (OneBusy), because its claim stands as long (Claimed).                  *)
(***************************************************************************)
EXTENDS Prompt, Backfill, SequenceTheorems, FunctionTheorems, FiniteSetTheorems,
        WellFoundedInduction, TLAPS

----------------------------------------------------------------------------
(* Numbers. *)

\* A set of natural numbers has a least one.
LEMMA LeastOf ==
  ASSUME NEW S \in SUBSET Nat, S # {}
  PROVE  \E m \in S : \A n \in S : m <= n
<1> DEFINE below == {0 .. n : n \in S}
<1>1. below \subseteq FiniteSubsetsOf(Nat) /\ below # {}
  <2>1. \A n \in S : IsFiniteSet(0 .. n) /\ 0 .. n \in SUBSET Nat
    BY FS_Interval
  <2> QED
    BY <2>1 DEF FiniteSubsetsOf
<1>2. PICK b \in below : \A a \in below : <<a, b>> \notin StrictSubsetOrdering(Nat)
  BY <1>1, WFMin, FS_StrictSubsetOrderingWellFounded, Zenon
<1>3. PICK m \in S : b = 0 .. m
  BY <1>2
<1>4. ASSUME NEW n \in S, n < m
      PROVE  FALSE
  <2>1. m \in 0 .. m /\ m \notin 0 .. n /\ 0 .. n \subseteq 0 .. m
    BY <1>4
  <2>2. 0 .. n \in below /\ 0 .. n \in SUBSET Nat /\ 0 .. m \in SUBSET Nat
    OBVIOUS
  <2> QED
    BY <1>2, <1>3, <2>1, <2>2 DEF StrictSubsetOrdering
<1> QED
  BY <1>4

LEMMA MinIs ==
  ASSUME NEW S \in SUBSET Nat, S # {}
  PROVE  Min(S) \in S /\ \A n \in S : Min(S) <= n
<1>1. \E m \in S : \A n \in S : m <= n
  BY LeastOf
<1> QED
  BY <1>1 DEF Min

LEMMA MaxIs ==
  ASSUME NEW S \in SUBSET Nat, S # {}, NEW top \in Nat, \A n \in S : n <= top
  PROVE  Max(S) \in S /\ \A n \in S : n <= Max(S)
<1> DEFINE gaps == {top - n : n \in S}
<1>1. gaps \in SUBSET Nat /\ gaps # {}
  <2>1. \A n \in S : top - n \in Nat
    OBVIOUS
  <2>2. PICK n \in S : TRUE
    OBVIOUS
  <2>3. top - n \in gaps
    OBVIOUS
  <2> QED
    BY <2>1, <2>3
<1>2. PICK g \in gaps : \A h \in gaps : g <= h
  BY <1>1, LeastOf
<1>3. PICK m \in S : g = top - m
  BY <1>2
<1>4. \A n \in S : n <= m
  <2> TAKE n \in S
  <2>1. top - n \in gaps
    OBVIOUS
  <2> QED
    BY <1>2, <1>3, <2>1
<1> QED
  BY <1>4 DEF Max

LEMMA MinOfTwo ==
  ASSUME NEW a \in Int, NEW b \in Int
  PROVE  Min({a, b}) = IF a <= b THEN a ELSE b
<1>1. Min({a, b}) = CHOOSE x \in {a, b} : \A y \in {a, b} : x <= y
  BY DEF Min
<1> QED
  BY <1>1

\* A share of a number is a number, and of a larger one it is no smaller.
LEMMA Share ==
  ASSUME NEW a \in Nat, NEW b \in Nat, a <= b, NEW c \in Nat, NEW d \in Nat \ {0}
  PROVE  /\ (a * c) \div d \in Nat /\ (b * c) \div d \in Nat
         /\ (a * c) \div d <= (b * c) \div d
<1>1. a * c \in Nat /\ b * c \in Nat /\ a * c <= b * c
  OBVIOUS
<1>2. ASSUME NEW x \in Nat, NEW y \in Nat, x <= y
      PROVE  x \div d \in Nat /\ y \div d \in Nat /\ x \div d <= y \div d
  BY <1>2
<1> QED
  BY <1>1, <1>2

LEMMA HalfIs ==
  ASSUME NEW a \in Nat \ {0}
  PROVE  /\ (a + 1) \div 2 \in Nat \ {0}
         /\ a \div 2 \in Nat /\ a \div 2 <= a /\ (a > 1 => a \div 2 > 0)
  OBVIOUS

----------------------------------------------------------------------------
(* Sums. *)

IsSum(f, n, c) ==
    /\ f \in [0 .. n -> Nat] /\ f[0] = 0
    /\ \A i \in 1 .. n : f[i] = f[i - 1] + c[i]

LEMMA SumExists ==
  ASSUME NEW n \in Nat, NEW c \in [1 .. n -> Nat]
  PROVE  \E f : IsSum(f, n, c)
<1> DEFINE none == {m \in 0 .. n : ~\E f : IsSum(f, m, c)}
<1> SUFFICES ASSUME none # {} PROVE FALSE
  <2>1. n \in 0 .. n
    OBVIOUS
  <2> QED
    BY <2>1, Zenon
<1>0. none \in SUBSET Nat
  OBVIOUS
<1>1. PICK m \in none : \A k \in none : m <= k
  BY <1>0, LeastOf, Zenon
<1>2. CASE m = 0
  <2>1. IsSum([i \in 0 .. 0 |-> 0], 0, c)
    BY DEF IsSum
  <2> QED
    BY <1>1, <1>2, <2>1
<1>3. CASE m # 0
  <2>1. m - 1 \in 0 .. n /\ m - 1 \notin none /\ m \in 1 .. n
    BY <1>1, <1>3
  <2>2. PICK f : IsSum(f, m - 1, c)
    BY <2>1
  <2> DEFINE g == [i \in 0 .. m |-> IF i = m THEN f[m - 1] + c[m] ELSE f[i]]
  <2>3. g \in [0 .. m -> Nat] /\ g[0] = 0
    BY <1>3, <2>1, <2>2 DEF IsSum
  <2>4. ASSUME NEW i \in 1 .. m
        PROVE  g[i] = g[i - 1] + c[i]
    <3>1. CASE i = m
      BY <2>1, <3>1
    <3>2. CASE i # m
      <4>1. i \in 1 .. m - 1 /\ i \in 0 .. m /\ i - 1 \in 0 .. m /\ i - 1 # m
        BY <2>1, <3>2
      <4>2. g[i] = f[i] /\ g[i - 1] = f[i - 1]
        BY <3>2, <4>1
      <4> QED
        BY <2>2, <4>1, <4>2 DEF IsSum
    <3> QED
      BY <3>1, <3>2
  <2>5. IsSum(g, m, c)
    BY <2>3, <2>4 DEF IsSum
  <2> QED
    BY <1>1, <2>5
<1> QED
  BY <1>2, <1>3

\* Sizes add up to a size, and to none only where there is nothing.
LEMMA TotalIs ==
  ASSUME NEW n \in Nat, NEW c \in [1 .. n -> Nat]
  PROVE  /\ Total(c) \in Nat
         /\ n > 0 /\ c \in [1 .. n -> Nat \ {0}] => Total(c) > 0
<1> DEFINE sum(f) == [i \in 0 .. n |-> IF i = 0 THEN 0 ELSE f[i - 1] + c[i]]
           upto == CHOOSE f : f = sum(f)
<1>1. PICK f : IsSum(f, n, c)
  BY SumExists
<1>2. f = sum(f)
  <2>1. f \in [0 .. n -> Nat]
    BY <1>1 DEF IsSum
  <2>2. \A i \in 0 .. n : f[i] = sum(f)[i]
    BY <1>1 DEF IsSum
  <2> QED
    BY <2>1, <2>2
<1>3. upto = sum(upto)
  BY <1>2
<1> HIDE DEF upto
<1>4. upto[0] = 0 /\ \A i \in 1 .. n : upto[i] = upto[i - 1] + c[i]
  BY <1>3
<1>5. \A i \in 0 .. n : upto[i] \in Nat
  <2> DEFINE bad == {i \in 0 .. n : upto[i] \notin Nat}
  <2> SUFFICES ASSUME bad # {} PROVE FALSE
    OBVIOUS
  <2>0. bad \in SUBSET Nat
    OBVIOUS
  <2>1. PICK i \in bad : \A k \in bad : i <= k
    BY <2>0, LeastOf, Zenon
  <2>2. i # 0
    BY <1>4, <2>1
  <2>3. i - 1 \in 0 .. n /\ i - 1 \notin bad /\ i \in 1 .. n
    BY <2>1, <2>2
  <2> QED
    BY <1>4, <2>1, <2>3
<1>6. Total(c) = upto[n]
  <2>1. Len(c) = n
    OBVIOUS
  <2> QED
    BY <2>1 DEF Total, upto
<1>7. n > 0 => upto[n] = upto[n - 1] + c[n] /\ upto[n - 1] \in Nat
  BY <1>4, <1>5
<1> QED
  BY <1>5, <1>6, <1>7

----------------------------------------------------------------------------
(* Positions. *)

\* How many of some positions are before another.
Rank(P, i) == Cardinality({j \in P : j < i})

LEMMA Ranks ==
  ASSUME NEW P \in SUBSET Int, IsFiniteSet(P)
  PROVE  /\ Cardinality(P) \in Nat
         /\ \A i \in P : Rank(P, i) \in 0 .. Cardinality(P) - 1
         /\ \A i, j \in P : i < j => Rank(P, i) < Rank(P, j)
         /\ \A k \in 0 .. Cardinality(P) - 1 : \E i \in P : Rank(P, i) = k
<1> DEFINE n == Cardinality(P)
           before(i) == {j \in P : j < i}
<1>1. n \in Nat
  BY FS_CardinalityType
<1>2. ASSUME NEW i \in Int
      PROVE  IsFiniteSet(before(i)) /\ Rank(P, i) \in Nat /\ Rank(P, i) = Cardinality(before(i))
  <2>1. before(i) \subseteq P
    OBVIOUS
  <2> QED
    BY <2>1, FS_Subset, FS_CardinalityType DEF Rank
<1>3. ASSUME NEW i \in P
      PROVE  Rank(P, i) \in 0 .. n - 1
  <2>1. before(i) \subseteq P \ {i}
    OBVIOUS
  <2>2. IsFiniteSet(P \ {i}) /\ Cardinality(P \ {i}) = n - 1
    BY FS_RemoveElement
  <2>3. Cardinality(before(i)) <= n - 1
    BY <2>1, <2>2, FS_Subset
  <2>4. Rank(P, i) \in Nat /\ Rank(P, i) = Cardinality(before(i))
    BY <1>2
  <2> HIDE DEF before
  <2> QED
    BY <1>1, <2>3, <2>4
<1>4. ASSUME NEW i \in P, NEW j \in P, i < j
      PROVE  Rank(P, i) < Rank(P, j)
  <2>1. before(i) \union {i} \subseteq before(j) /\ i \notin before(i)
    <3>1. i \in Int /\ j \in Int
      OBVIOUS
    <3>2. \A k \in P : k < i => k < j
      BY <1>4, <3>1
    <3>3. ~(i < i)
      BY <3>1
    <3> QED
      BY <1>4, <3>2, <3>3
  <2>2. Cardinality(before(i) \union {i}) = Cardinality(before(i)) + 1
    BY <1>2, <2>1, FS_AddElement
  <2>3. Cardinality(before(i) \union {i}) <= Cardinality(before(j))
    BY <1>2, <2>1, FS_Subset
  <2> QED
    BY <1>2, <2>2, <2>3
<1>5. ASSUME NEW k \in 0 .. n - 1
      PROVE  \E i \in P : Rank(P, i) = k
  <2> DEFINE f == [i \in P |-> Rank(P, i)]
             T == 0 .. n - 1
  <2>1. f \in [P -> T]
    BY <1>3
  <2>2. \A i, j \in P : f[i] = f[j] => i = j
    <3> TAKE i, j \in P
    <3> SUFFICES ASSUME i # j PROVE f[i] # f[j]
      OBVIOUS
    <3>1. f[i] \in Int /\ f[j] \in Int /\ (f[i] < f[j] \/ f[j] < f[i])
      BY <1>3, <1>4
    <3> QED
      BY <3>1
  <2>3. f \in Injection(P, T)
    BY <2>1, <2>2, Fun_IsInj
  <2>4. IsFiniteSet(T) /\ Cardinality(T) = n
    BY <1>1, FS_Interval
  <2>5. f \in Surjection(P, T)
    BY <2>3, <2>4, FS_Injection
  <2> QED
    BY <2>5 DEF Surjection
<1> QED
  BY <1>1, <1>3, <1>4, <1>5

\* What is kept of a sequence: one message for each of the positions, in order.
LEMMA KeptIs ==
  ASSUME NEW S, NEW p \in Seq(S), NEW P \in SUBSET DOMAIN p
  PROVE  /\ IsFiniteSet(P) /\ Cardinality(P) \in Nat
         /\ Kept(p, P) \in Seq(S) /\ Len(Kept(p, P)) = Cardinality(P)
         /\ \A i \in P : /\ Rank(P, i) + 1 \in 1 .. Cardinality(P)
                         /\ Kept(p, P)[Rank(P, i) + 1] = p[i]
         /\ \A k \in 1 .. Cardinality(P) :
                \E i \in P : Rank(P, i) = k - 1 /\ Kept(p, P)[k] = p[i]
<1> DEFINE n == Cardinality(P)
           at(k) == CHOOSE i \in P : Rank(P, i) = k - 1
<1>1. IsFiniteSet(P) /\ P \in SUBSET Int
  <2>1. DOMAIN p = 1 .. Len(p) /\ Len(p) \in Nat
    OBVIOUS
  <2>2. IsFiniteSet(1 .. Len(p)) /\ P \subseteq 1 .. Len(p)
    BY <2>1, FS_Interval
  <2> QED
    BY <2>1, <2>2, FS_Subset
<1>2. /\ n \in Nat
      /\ \A i \in P : Rank(P, i) \in 0 .. n - 1
      /\ \A i, j \in P : i < j => Rank(P, i) < Rank(P, j)
      /\ \A k \in 0 .. n - 1 : \E i \in P : Rank(P, i) = k
  BY <1>1, Ranks
<1>3. Kept(p, P) = [k \in 1 .. n |-> p[at(k)]]
  BY DEF Kept, Rank
<1>4. ASSUME NEW k \in 1 .. n
      PROVE  at(k) \in P /\ Rank(P, at(k)) = k - 1 /\ Kept(p, P)[k] = p[at(k)]
  <2>1. k - 1 \in 0 .. n - 1
    BY <1>2
  <2>2. \E i \in P : Rank(P, i) = k - 1
    BY <1>2, <2>1
  <2> QED
    BY <1>3, <2>2
<1> HIDE DEF at
<1>5. ASSUME NEW i \in P
      PROVE  /\ Rank(P, i) + 1 \in 1 .. n
             /\ Kept(p, P)[Rank(P, i) + 1] = p[i]
  <2> DEFINE k == Rank(P, i) + 1
  <2>1. k \in 1 .. n /\ Rank(P, i) = k - 1
    BY <1>2
  <2>2. at(k) \in P /\ Rank(P, at(k)) = Rank(P, i) /\ Kept(p, P)[k] = p[at(k)]
    BY <1>4, <2>1
  <2>3. at(k) = i
    <3>1. Rank(P, i) \in Int /\ at(k) \in Int /\ i \in Int
      BY <1>1, <1>2, <2>2
    <3>2. ~(at(k) < i) /\ ~(i < at(k))
      BY <1>2, <2>2, <3>1
    <3> QED
      BY <3>1, <3>2
  <2> QED
    BY <2>1, <2>2, <2>3
<1>6. Kept(p, P) \in Seq(S) /\ Len(Kept(p, P)) = n
  <2>1. \A k \in 1 .. n : p[at(k)] \in S
    BY <1>4
  <2>2. Kept(p, P) \in [1 .. n -> S]
    BY <1>3, <2>1
  <2> QED
    BY <1>2, <2>2
<1> QED
  BY <1>1, <1>2, <1>4, <1>5, <1>6

\* q is p without the messages at gone, in the same order; from[k] is where
\* the k-th was.
IsWithout(q, p, gone, from) ==
    /\ from \in [DOMAIN q -> DOMAIN p]
    /\ \A j, k \in DOMAIN q : j < k => from[j] < from[k]
    /\ \A k \in DOMAIN q : q[k] = p[from[k]] /\ from[k] \notin gone
    /\ \A i \in DOMAIN p \ gone : \E k \in DOMAIN q : from[k] = i
    /\ \A k \in DOMAIN q : (\A g \in gone : k < g) => from[k] = k

LEMMA RemoveAtIs ==
  ASSUME NEW S, NEW p \in Seq(S), NEW i \in DOMAIN p
  PROVE  /\ RemoveAt(p, i) \in Seq(S) /\ Len(RemoveAt(p, i)) = Len(p) - 1
         /\ \E from : IsWithout(RemoveAt(p, i), p, {i}, from)
<1> DEFINE q == RemoveAt(p, i)
           n == Len(p)
           from == [k \in 1 .. n - 1 |-> IF k < i THEN k ELSE k + 1]
<1>1. n \in Nat /\ DOMAIN p = 1 .. n /\ i \in 1 .. n /\ n \in Int
  OBVIOUS
<1>2. /\ q \in Seq(S) /\ Len(q) = n - 1
      /\ \A k \in 1 .. n - 1 : q[k] = p[from[k]]
  <2> DEFINE a == SubSeq(p, 1, i - 1)
             b == SubSeq(p, i + 1, n)
  <2>1. /\ a \in Seq(S) /\ Len(a) = i - 1
        /\ \A k \in 1 .. i - 1 : a[k] = p[k]
    BY <1>1
  <2>2. /\ b \in Seq(S) /\ Len(b) = n - i
        /\ \A k \in 1 .. n - i : b[k] = p[i + k]
    BY <1>1
  <2>3. q = a \o b
    BY DEF RemoveAt
  <2> HIDE DEF a, b, q
  <2>4. /\ q \in Seq(S) /\ Len(q) = n - 1
        /\ \A k \in 1 .. n - 1 : q[k] = IF k < i THEN a[k] ELSE b[k - (i - 1)]
    <3>1. /\ q \in Seq(S) /\ Len(q) = Len(a) + Len(b)
          /\ \A k \in 1 .. Len(a) + Len(b) :
                q[k] = IF k <= Len(a) THEN a[k] ELSE b[k - Len(a)]
      BY <2>1, <2>2, <2>3, ConcatProperties
    <3>2. Len(a) + Len(b) = n - 1 /\ \A k \in 1 .. n - 1 : k <= Len(a) <=> k < i
      BY <1>1, <2>1, <2>2
    <3> QED
      BY <2>1, <3>1, <3>2
  <2>5. \A k \in 1 .. n - 1 : ~(k < i) => k - (i - 1) \in 1 .. n - i /\ i + (k - (i - 1)) = k + 1
    BY <1>1
  <2>6. \A k \in 1 .. n - 1 : k < i => k \in 1 .. i - 1
    BY <1>1
  <2> QED
    BY <2>1, <2>2, <2>4, <2>5, <2>6
<1> HIDE DEF q
<1>3. DOMAIN q = 1 .. n - 1
  BY <1>2
<1>4. \A j \in DOMAIN p \ {i} : \E k \in 1 .. n - 1 : from[k] = j
  <2> TAKE j \in DOMAIN p \ {i}
  <2>1. CASE j < i
    <3>1. j \in 1 .. n - 1 /\ from[j] = j
      BY <1>1, <2>1
    <3> QED
      BY <3>1
  <2>2. CASE ~(j < i)
    <3>1. j - 1 \in 1 .. n - 1 /\ from[j - 1] = j
      BY <1>1, <2>2
    <3> QED
      BY <3>1
  <2> QED
    BY <2>1, <2>2
<1>5. /\ from \in [1 .. n - 1 -> 1 .. n]
      /\ \A j, k \in 1 .. n - 1 : j < k => from[j] < from[k]
      /\ \A k \in 1 .. n - 1 : from[k] # i /\ (k < i => from[k] = k)
  BY <1>1
<1> HIDE DEF from
<1>6. IsWithout(q, p, {i}, from)
  BY <1>1, <1>2, <1>3, <1>4, <1>5 DEF IsWithout
<1> QED
  BY <1>2, <1>6 DEF q

LEMMA InsertAtIs ==
  ASSUME NEW S, NEW p \in Seq(S), NEW i \in 1 .. Len(p) + 1, NEW e \in S
  PROVE  /\ InsertAt(p, i, e) \in Seq(S) /\ Len(InsertAt(p, i, e)) = Len(p) + 1
         /\ \A k \in 1 .. Len(p) + 1 :
                InsertAt(p, i, e)[k] =
                    IF k < i THEN p[k] ELSE IF k = i THEN e ELSE p[k - 1]
<1> DEFINE n == Len(p)
           a == SubSeq(p, 1, i - 1)
           b == SubSeq(p, i, n)
           ae == a \o <<e>>
           q == InsertAt(p, i, e)
<1>1. n \in Nat /\ DOMAIN p = 1 .. n /\ i \in Int
  OBVIOUS
<1>2. /\ a \in Seq(S) /\ Len(a) = i - 1
      /\ \A k \in 1 .. i - 1 : a[k] = p[k]
  BY <1>1
<1>3. /\ b \in Seq(S) /\ Len(b) = n - i + 1
      /\ \A k \in 1 .. n - i + 1 : b[k] = p[i + k - 1]
  BY <1>1
<1>4. q = ae \o b
  BY DEF InsertAt
<1> HIDE DEF a, b, q
<1>5. /\ ae \in Seq(S) /\ Len(ae) = i
      /\ \A k \in 1 .. i : ae[k] = IF k < i THEN p[k] ELSE e
  BY <1>1, <1>2
<1> HIDE DEF ae
<1>6. /\ q \in Seq(S) /\ Len(q) = Len(ae) + Len(b)
      /\ \A k \in 1 .. Len(ae) + Len(b) :
            q[k] = IF k <= Len(ae) THEN ae[k] ELSE b[k - Len(ae)]
  BY <1>3, <1>4, <1>5, ConcatProperties
<1>7. Len(ae) + Len(b) = n + 1
  BY <1>1, <1>3, <1>5
<1>8. ASSUME NEW k \in 1 .. n + 1
      PROVE  q[k] = IF k < i THEN p[k] ELSE IF k = i THEN e ELSE p[k - 1]
  <2>1. CASE k <= i
    BY <1>5, <1>6, <1>7, <2>1
  <2>2. CASE ~(k <= i)
    <3>1. k - i \in 1 .. n - i + 1 /\ i + (k - i) - 1 = k - 1 /\ ~(k < i) /\ k # i
      BY <1>1, <2>2
    <3> QED
      BY <1>3, <1>5, <1>6, <1>7, <2>2, <3>1
  <2> QED
    BY <2>1, <2>2
<1> QED
  BY <1>6, <1>7, <1>8 DEF q

\* A sequence of four parts is the parts, in order.
LEMMA PartsAre ==
  ASSUME NEW S, NEW a \in Seq(S), NEW b \in Seq(S), NEW c \in Seq(S), NEW d \in Seq(S),
         NEW q, q = a \o b \o c \o d
  PROVE  /\ q \in Seq(S) /\ Len(q) = Len(a) + Len(b) + Len(c) + Len(d)
         /\ \A k \in 1 .. Len(a) : q[k] = a[k]
         /\ \A k \in 1 .. Len(b) : q[Len(a) + k] = b[k]
         /\ \A k \in 1 .. Len(c) : q[Len(a) + Len(b) + k] = c[k]
         /\ \A k \in 1 .. Len(d) : q[Len(a) + Len(b) + Len(c) + k] = d[k]
<1> DEFINE ab == a \o b
           abc == ab \o c
<1>0. ab = a \o b /\ abc = ab \o c /\ q = abc \o d
  OBVIOUS
<1> HIDE DEF ab, abc
<1>1. Len(a) \in Nat /\ Len(b) \in Nat /\ Len(c) \in Nat /\ Len(d) \in Nat
  OBVIOUS
<1>2. /\ ab \in Seq(S) /\ Len(ab) = Len(a) + Len(b)
      /\ \A i \in 1 .. Len(a) + Len(b) : ab[i] = IF i <= Len(a) THEN a[i] ELSE b[i - Len(a)]
  BY <1>0, ConcatProperties
<1>3. /\ abc \in Seq(S) /\ Len(abc) = Len(ab) + Len(c)
      /\ \A i \in 1 .. Len(ab) + Len(c) :
            abc[i] = IF i <= Len(ab) THEN ab[i] ELSE c[i - Len(ab)]
  BY <1>0, <1>2, ConcatProperties
<1>4. /\ q \in Seq(S) /\ Len(q) = Len(abc) + Len(d)
      /\ \A i \in 1 .. Len(abc) + Len(d) :
            q[i] = IF i <= Len(abc) THEN abc[i] ELSE d[i - Len(abc)]
  BY <1>0, <1>3, ConcatProperties
<1>5. Len(q) = Len(a) + Len(b) + Len(c) + Len(d) /\ Len(abc) = Len(a) + Len(b) + Len(c)
  BY <1>1, <1>2, <1>3, <1>4
<1>6. ASSUME NEW k \in 1 .. Len(a)
      PROVE  q[k] = a[k]
  BY <1>1, <1>2, <1>3, <1>4
<1>7. ASSUME NEW k \in 1 .. Len(b)
      PROVE  q[Len(a) + k] = b[k]
  <2>1. Len(a) + k \in 1 .. Len(a) + Len(b) /\ ~(Len(a) + k <= Len(a))
        /\ (Len(a) + k) - Len(a) = k /\ Len(a) + k \in 1 .. Len(ab) + Len(c)
        /\ Len(a) + k \in 1 .. Len(abc) + Len(d) /\ Len(a) + k <= Len(ab)
        /\ Len(a) + k <= Len(abc)
    BY <1>1, <1>2, <1>3
  <2> QED
    BY <1>2, <1>3, <1>4, <2>1
<1>8. ASSUME NEW k \in 1 .. Len(c)
      PROVE  q[Len(a) + Len(b) + k] = c[k]
  <2> DEFINE i == Len(a) + Len(b) + k
  <2>1. i \in 1 .. Len(ab) + Len(c) /\ ~(i <= Len(ab)) /\ i - Len(ab) = k
        /\ i \in 1 .. Len(abc) + Len(d) /\ i <= Len(abc)
    BY <1>1, <1>2, <1>3
  <2> HIDE DEF i
  <2>2. q[i] = c[k]
    BY <1>3, <1>4, <2>1
  <2> QED
    BY <2>2 DEF i
<1>9. ASSUME NEW k \in 1 .. Len(d)
      PROVE  q[Len(a) + Len(b) + Len(c) + k] = d[k]
  <2> DEFINE i == Len(a) + Len(b) + Len(c) + k
  <2>1. i \in 1 .. Len(abc) + Len(d) /\ ~(i <= Len(abc)) /\ i - Len(abc) = k
    BY <1>1, <1>5
  <2> HIDE DEF i
  <2>2. q[i] = d[k]
    BY <1>4, <2>1
  <2> QED
    BY <2>2 DEF i
<1> QED
  BY <1>4, <1>5, <1>6, <1>7, <1>8, <1>9

----------------------------------------------------------------------------
(* The messages. *)

Msgs == [who : Owners \union {"user", "assistant"}, says : SUBSET Turns,
         local : Nat \ {0}, cost : Nat \ {0}]

LEMMA IndicesAre ==
  ASSUME payload \in Seq(Msgs)
  PROVE  /\ DOMAIN payload = 1 .. Len(payload) /\ Len(payload) \in Nat
         /\ TurnIndices \in SUBSET Nat /\ Systems \in SUBSET Nat
         /\ IsFiniteSet(TurnIndices) /\ IsFiniteSet(Systems)
         /\ Talks \in Nat
         /\ Droppable \subseteq Systems /\ Memory \subseteq Droppable
         /\ \A i \in DOMAIN payload : payload[i] \in Msgs
<1>1. DOMAIN payload = 1 .. Len(payload) /\ Len(payload) \in Nat
  OBVIOUS
<1>2. TurnIndices \subseteq 1 .. Len(payload) /\ Systems \subseteq 1 .. Len(payload)
  BY <1>1 DEF TurnIndices, Systems
<1>3. IsFiniteSet(TurnIndices) /\ IsFiniteSet(Systems)
  <2>1. IsFiniteSet(1 .. Len(payload))
    BY <1>1, FS_Interval
  <2> QED
    BY <1>2, <2>1, FS_Subset
<1>4. Talks \in Nat
  BY <1>3, FS_CardinalityType DEF Talks
<1>5. Droppable \subseteq Systems /\ Memory \subseteq Droppable
  BY DEF Droppable, Memory
<1>6. 1 .. Len(payload) \subseteq Nat
  OBVIOUS
<1>7. \A i \in DOMAIN payload : payload[i] \in Msgs
  OBVIOUS
<1> QED
  BY <1>1, <1>2, <1>3, <1>4, <1>5, <1>6, <1>7

\* What is left of the messages where some are gone.
LEMMA WithoutIs ==
  ASSUME payload \in Seq(Msgs), payload' \in Seq(Msgs),
         NEW gone \in SUBSET DOMAIN payload, NEW from,
         IsWithout(payload', payload, gone, from)
  PROVE  /\ \A k \in DOMAIN payload' :
                /\ from[k] \in DOMAIN payload \ gone /\ payload'[k] = payload[from[k]]
                /\ k \in TurnIndices' <=> from[k] \in TurnIndices
                /\ k \in Systems' <=> from[k] \in Systems
                /\ k \in Droppable' => from[k] \in Droppable
         /\ Talks' <= Talks /\ (gone \subseteq Systems => Talks' = Talks)
         /\ Said(payload) \subseteq
                Said(payload') \union UNION {payload[i].says : i \in gone}
         /\ \A w : (\A g \in gone : payload[g].who # w) => Whole(w)' = Whole(w)
<1>1. /\ from \in [DOMAIN payload' -> DOMAIN payload]
      /\ \A j, k \in DOMAIN payload' : j < k => from[j] < from[k]
      /\ \A k \in DOMAIN payload' : payload'[k] = payload[from[k]] /\ from[k] \notin gone
      /\ \A i \in DOMAIN payload \ gone : \E k \in DOMAIN payload' : from[k] = i
  BY DEF IsWithout
<1>2. \A k \in DOMAIN payload' :
        /\ k \in TurnIndices' <=> from[k] \in TurnIndices
        /\ k \in Systems' <=> from[k] \in Systems
  BY <1>1 DEF TurnIndices, Systems, IsTurn
<1>3. /\ DOMAIN payload \in SUBSET Int /\ DOMAIN payload' \in SUBSET Int
      /\ IsFiniteSet(TurnIndices) /\ IsFiniteSet(Systems)
      /\ TurnIndices' \in SUBSET DOMAIN payload' /\ Systems' \in SUBSET DOMAIN payload'
  BY IndicesAre DEF TurnIndices, Systems
<1>4. \A j, k \in DOMAIN payload' : from[j] = from[k] => j = k
  <2> TAKE j, k \in DOMAIN payload'
  <2>1. from[j] \in Int /\ from[k] \in Int /\ j \in Int /\ k \in Int
    BY <1>1, <1>3
  <2> QED
    BY <1>1, <2>1
<1>5. ASSUME NEW k \in Droppable'
      PROVE  from[k] \in Droppable
  <2> DEFINE before == {j \in Systems' : j < k}
             beforeFrom == {j \in Systems : j < from[k]}
             f == [j \in before |-> from[j]]
  <2>1. k \in DOMAIN payload' /\ k \in Systems' /\ Cardinality(before) >= Protected
        /\ from[k] \in Systems
    BY <1>2, <1>3 DEF Droppable, Protected
  <2>2. f \in [before -> beforeFrom]
    BY <1>1, <1>2, <1>3, <2>1
  <2>3. \A a, b \in before : f[a] = f[b] => a = b
    BY <1>3, <1>4
  <2>4. f \in Injection(before, beforeFrom)
    BY <2>2, <2>3, Fun_IsInj
  <2>5. IsFiniteSet(beforeFrom)
    <3>1. beforeFrom \subseteq Systems
      OBVIOUS
    <3> QED
      BY <1>3, <3>1, FS_Subset
  <2>6. /\ IsFiniteSet(before) /\ Cardinality(before) <= Cardinality(beforeFrom)
        /\ Cardinality(before) \in Nat /\ Cardinality(beforeFrom) \in Nat
    BY <2>4, <2>5, FS_Injection, FS_CardinalityType
  <2>7. Protected \in Nat
    BY PromptAssumption DEF Protected
  <2>8. Cardinality(beforeFrom) >= Protected
    BY <2>1, <2>6, <2>7
  <2> QED
    BY <2>1, <2>8 DEF Droppable
<1>6. Talks' <= Talks /\ (gone \subseteq Systems => Talks' = Talks)
  <2> DEFINE f == [k \in TurnIndices' |-> from[k]]
  <2>1. f \in [TurnIndices' -> TurnIndices]
    BY <1>2, <1>3
  <2>2. \A a, b \in TurnIndices' : f[a] = f[b] => a = b
    BY <1>3, <1>4
  <2>3. f \in Injection(TurnIndices', TurnIndices)
    BY <2>1, <2>2, Fun_IsInj
  <2>4. ASSUME gone \subseteq Systems
        PROVE  f \in Surjection(TurnIndices', TurnIndices)
    <3>1. ASSUME NEW i \in TurnIndices
          PROVE  \E k \in TurnIndices' : f[k] = i
      <4>1. i \in DOMAIN payload \ gone
        BY <2>4, <3>1 DEF Systems, TurnIndices
      <4>2. PICK k \in DOMAIN payload' : from[k] = i
        BY <1>1, <4>1
      <4> QED
        BY <1>2, <4>2
    <3> QED
      BY <2>1, <3>1, Fun_IsSurj
  <2>5. /\ Cardinality(TurnIndices') <= Cardinality(TurnIndices)
        /\ f \in Surjection(TurnIndices', TurnIndices) =>
               Cardinality(TurnIndices') = Cardinality(TurnIndices)
    BY <1>3, <2>3, FS_Injection
  <2> QED
    BY <2>4, <2>5 DEF Talks
<1>7. Said(payload) \subseteq Said(payload') \union UNION {payload[i].says : i \in gone}
  <2> SUFFICES ASSUME NEW i \in DOMAIN payload, NEW x \in payload[i].says, i \notin gone
               PROVE  x \in Said(payload')
    BY DEF Said
  <2>1. PICK k \in DOMAIN payload' : from[k] = i
    BY <1>1
  <2> QED
    BY <1>1, <2>1 DEF Said
<1>8. ASSUME NEW w, \A g \in gone : payload[g].who # w
      PROVE  Whole(w)' = Whole(w)
  <2> DEFINE W == {i \in DOMAIN payload : payload[i].who = w}
             V == {k \in DOMAIN payload' : payload'[k].who = w}
  <2>1. \A k \in V : from[k] \in W /\ Size(payload'[k]) = Size(payload[from[k]])
    BY <1>1
  <2>2. \A i \in W : \E k \in V : Size(payload'[k]) = Size(payload[i])
    BY <1>1, <1>8
  <2>3. Whole(w) = {Size(payload[i]) : i \in W} /\ Whole(w)' = {Size(payload'[k]) : k \in V}
    BY DEF Whole, Size
  <2> HIDE DEF W, V
  <2> QED
    BY <2>1, <2>2, <2>3
<1> QED
  BY <1>1, <1>2, <1>5, <1>6, <1>7, <1>8

----------------------------------------------------------------------------
(* The invariants. *)

Begun == {"compact", "inject", "count"}
InRound == {"owed", "trimMemory", "dropMemory", "turns", "repair", "trim", "drop"}
Places ==
    Begun \union InRound
    \union {"round", "verify", "forced", "settle", "escalate", "line", "sent"}

PromptTypes ==
    /\ payload \in Seq(Msgs)
    /\ recorded \in SUBSET Older /\ stored \in BOOLEAN
    /\ limit \in Nat /\ line \in Nat /\ pc \in Places
    /\ round \in Nat /\ trims \in Nat /\ running \in Nat
    /\ scale \in [cost : Nat, local : Nat \ {0}]
    /\ counted \in {"none", "prescreen", "exact", "local"} /\ standin \in BOOLEAN
    /\ spent \in [turns : SUBSET Turns, blocks : Nat]

\* Until it is compacted the payload is what the client sent.
AsRequested ==
    pc = "compact" => \E size \in Sizings : payload = Request(size)

\* The newest turn is the last of the turns, and there.
NewestStays ==
    \E i \in TurnIndices :
        payload[i].says = {N} /\ \A j \in TurnIndices : j <= i

\* The system messages of the client lead, whole.
CallersLead ==
    /\ Callers <= Len(payload)
    /\ \A k \in DOMAIN payload : payload[k].who = "caller" <=> k <= Callers
    /\ \A k \in 1 .. Callers : Size(payload[k]) = CallerSize

\* What was measured is the payload that there is.
Certified ==
    /\ counted = "none" => pc \in Begun
    /\ counted = "prescreen" => pc \in {"line", "sent"}
    /\ counted = "exact" =>
        /\ pc \in {"line", "escalate"} => running = Costs(payload)
        /\ pc \in {"forced", "settle"} /\ spent.blocks = 0 => running = Costs(payload)
    /\ counted = "prescreen" /\ pc = "line" => running = 0 /\ Costs(payload) <= Room

\* The last resort is reached when all else is spent.
Resort ==
    /\ round <= Rounds /\ (pc \in Begun => round = 0) /\ (pc = "round" => round < Rounds)
    /\ pc \in {"forced", "settle", "escalate"} => Talks <= 1 \/ round = Rounds
    /\ pc = "line" /\ Over => Droppable = {} /\ (Talks <= 1 \/ round = Rounds)

\* What the steps of a round that came before have left.
ByValue ==
    /\ pc = "owed" => standin
    /\ pc \in {"trimMemory", "dropMemory"} =>
           standin /\ (Over => Talks - Exchange < Recent)
    /\ pc \in {"turns", "repair", "trim", "drop"} /\ standin /\ Over => Memory = {}
    /\ pc \in {"repair", "trim", "drop"} /\ Over => Talks <= 1
    /\ pc \in InRound /\ ~standin => \A i \in Droppable : ~IsStandin(i)

----------------------------------------------------------------------------
(* The kinds of step. *)

\* Some messages go: the guard's own, or turns that are not the newest.
Sheds(gone) ==
    /\ gone \subseteq DOMAIN payload /\ payload' \in Seq(Msgs)
    /\ \E from : IsWithout(payload', payload, gone, from)
    /\ \/ gone \subseteq Droppable
       \/ /\ gone \subseteq TurnIndices
          /\ \A i \in TurnIndices : (\A j \in TurnIndices : j <= i) => i \notin gone
    /\ spent'.turns = spent.turns \union UNION {payload[i].says : i \in gone}

\* One message of the guard's is made smaller.
Cuts(i) ==
    /\ i \in Droppable
    /\ payload' \in Seq(Msgs) /\ DOMAIN payload' = DOMAIN payload
    /\ \A k \in DOMAIN payload :
        /\ payload'[k].who = payload[k].who /\ payload'[k].says = payload[k].says
        /\ k # i => payload'[k] = payload[k]
    /\ spent' = spent

LEMMA CutKeeps ==
  ASSUME payload \in Seq(Msgs), NEW i, Cuts(i)
  PROVE  /\ TurnIndices' = TurnIndices /\ Systems' = Systems
         /\ Droppable' = Droppable /\ Memory' = Memory
         /\ Talks' = Talks /\ Exchange' = Exchange /\ Said(payload') = Said(payload)
         /\ \A k \in Droppable : IsStandin(k)' <=> IsStandin(k)
         /\ \A w : payload[i].who # w => Whole(w)' = Whole(w)
<1>1. TurnIndices' = TurnIndices
  BY DEF Cuts, TurnIndices, IsTurn
<1>2. Systems' = Systems
  BY <1>1 DEF Cuts, Systems
<1>3. Droppable' = Droppable
  BY <1>2 DEF Droppable, Protected
<1>4. \A k \in Droppable : IsStandin(k)' <=> IsStandin(k)
  BY IndicesAre DEF Cuts, IsStandin, Systems
<1>5. Memory' = Memory
  BY <1>3, <1>4 DEF Memory
<1>6. Talks' = Talks /\ First' = First
  BY <1>1 DEF Talks, First
<1>7. Exchange' = Exchange
  <2>1. \A k \in TurnIndices : payload'[k].who = payload[k].who
    BY DEF Cuts, TurnIndices
  <2>2. First \in TurnIndices \/ TurnIndices = {}
    BY IndicesAre, MinIs DEF First
  <2>3. TurnIndices = {} => Exchange = 1 /\ Exchange' = 1
    BY <1>1, <1>6 DEF Exchange
  <2> QED
    BY <1>1, <1>6, <2>1, <2>2, <2>3 DEF Exchange
<1>8. Said(payload') = Said(payload)
  BY DEF Cuts, Said
<1>9. ASSUME NEW w, payload[i].who # w
      PROVE  Whole(w)' = Whole(w)
  BY <1>9 DEF Cuts, Whole, Size
<1> QED
  BY <1>1, <1>2, <1>3, <1>4, <1>5, <1>6, <1>7, <1>8, <1>9

\* The first turn, and its reply, where there are turns.
LEMMA ExchangeIs ==
  ASSUME payload \in Seq(Msgs), TurnIndices # {}
  PROVE  /\ First \in TurnIndices /\ \A j \in TurnIndices : First <= j
         /\ Exchange \in {1, 2} /\ First .. First + Exchange - 1 \subseteq TurnIndices
<1>1. First \in TurnIndices /\ \A j \in TurnIndices : First <= j
  BY IndicesAre, MinIs DEF First
<1>2. First \in Nat
  BY <1>1, IndicesAre
<1>3. CASE Exchange = 2
  <2>1. First + 1 \in TurnIndices
    BY <1>3 DEF Exchange
  <2>2. First .. First + Exchange - 1 = {First, First + 1}
    BY <1>2, <1>3
  <2> QED
    BY <1>1, <1>3, <2>1, <2>2
<1>4. CASE Exchange # 2
  <2>1. Exchange = 1
    BY <1>4 DEF Exchange
  <2>2. First .. First + Exchange - 1 = {First}
    BY <1>2, <2>1
  <2> QED
    BY <1>1, <2>1, <2>2
<1> QED
  BY <1>3, <1>4

LEMMA ShedKeeps ==
  ASSUME payload \in Seq(Msgs), NEW gone, Sheds(gone)
  PROVE  /\ Talks' <= Talks /\ (gone \subseteq Droppable => Talks' = Talks)
         /\ Talks \in Nat /\ Talks' \in Nat
         /\ Droppable = {} => Droppable' = {}
         /\ Memory = {} => Memory' = {}
         /\ (\A i \in Droppable : ~IsStandin(i)) => (\A i \in Droppable' : ~IsStandin(i)')
         /\ Said(payload) \subseteq Said(payload') \union spent'.turns
         /\ \A w : (\A g \in gone : payload[g].who # w) => Whole(w)' = Whole(w)
         /\ gone \subseteq Droppable /\ TurnIndices # {} => Exchange' >= Exchange
<1>1. PICK from : IsWithout(payload', payload, gone, from)
  BY DEF Sheds
<1>2. gone \in SUBSET DOMAIN payload /\ payload' \in Seq(Msgs)
      /\ spent'.turns = spent.turns \union UNION {payload[i].says : i \in gone}
  BY DEF Sheds
<1>3. /\ \A k \in DOMAIN payload' :
            /\ from[k] \in DOMAIN payload \ gone /\ payload'[k] = payload[from[k]]
            /\ k \in TurnIndices' <=> from[k] \in TurnIndices
            /\ k \in Systems' <=> from[k] \in Systems
            /\ k \in Droppable' => from[k] \in Droppable
      /\ Talks' <= Talks /\ (gone \subseteq Systems => Talks' = Talks)
      /\ Said(payload) \subseteq
                Said(payload') \union UNION {payload[i].says : i \in gone}
      /\ \A w : (\A g \in gone : payload[g].who # w) => Whole(w)' = Whole(w)
  BY <1>1, <1>2, WithoutIs
<1>4. Droppable' \subseteq DOMAIN payload' /\ Memory' \subseteq Droppable'
      /\ TurnIndices' \subseteq DOMAIN payload'
  BY DEF Droppable, Systems, Memory, TurnIndices
<1>5. \A k \in Droppable' : IsStandin(k)' <=> IsStandin(from[k])
  BY <1>3, <1>4 DEF IsStandin
<1>6. Memory = {} => Memory' = {}
  BY <1>3, <1>4, <1>5 DEF Memory
<1>7. ASSUME gone \subseteq Droppable, TurnIndices # {}
      PROVE  Exchange' >= Exchange
  <2>1. /\ First \in TurnIndices /\ \A j \in TurnIndices : First <= j
        /\ Exchange \in {1, 2} /\ First .. First + Exchange - 1 \subseteq TurnIndices
    BY <1>7, ExchangeIs
  <2>2. Exchange' \in {1, 2}
    BY DEF Exchange
  <2>3. CASE Exchange = 2
    <3>1. First + 1 \in TurnIndices /\ payload[First].who = "user"
          /\ payload[First + 1].who = "assistant"
      BY <2>3 DEF Exchange
    <3>2. \A i \in TurnIndices : i \in DOMAIN payload \ gone /\ i \in Nat
      BY <1>7, IndicesAre DEF Systems, TurnIndices
    <3>3. PICK k \in DOMAIN payload' : from[k] = First
      BY <1>1, <2>1, <3>2 DEF IsWithout
    <3>4. PICK m \in DOMAIN payload' : from[m] = First + 1
      BY <1>1, <3>1, <3>2 DEF IsWithout
    <3>5. k \in Int /\ m \in Int /\ First \in Int
      BY <1>2, <2>1, <3>2
    <3>6. \A i, j \in DOMAIN payload' :
              i < j => from[i] < from[j] /\ from[i] \in Int /\ from[j] \in Int
      BY <1>1, <1>3, IndicesAre DEF IsWithout
    <3>7. k \in TurnIndices' /\ \A j \in TurnIndices' : k <= j
      <4>1. k \in TurnIndices'
        BY <1>3, <2>1, <3>3
      <4>2. ASSUME NEW j \in TurnIndices'
            PROVE  k <= j
        <5>1. j \in DOMAIN payload' /\ First <= from[j] /\ j \in Int
          BY <1>2, <1>3, <1>4, <2>1
        <5> QED
          BY <3>3, <3>5, <3>6, <5>1
      <4> QED
        BY <4>1, <4>2
    <3>8. First' = k
      <4>1. TurnIndices' \in SUBSET Nat
        BY <1>2, <1>4
      <4>2. First' \in TurnIndices' /\ \A j \in TurnIndices' : First' <= j
        BY <3>7, <4>1, MinIs DEF First
      <4> QED
        BY <3>7, <4>1, <4>2
    <3>9. m = k + 1
      <4>1. k < m
        BY <3>3, <3>4, <3>5, <3>6
      <4>2. ~(k + 1 < m)
        <5>1. k + 1 < m => k + 1 \in DOMAIN payload'
          BY <1>2, <3>5
        <5> QED
          BY <3>3, <3>4, <3>5, <3>6, <5>1
      <4> QED
        BY <3>5, <4>1, <4>2
    <3>10. m \in TurnIndices' /\ payload'[k].who = "user" /\ payload'[m].who = "assistant"
      BY <1>3, <3>1, <3>3, <3>4
    <3>11. Exchange' = 2
      BY <3>7, <3>8, <3>9, <3>10 DEF Exchange
    <3> QED
      BY <2>3, <3>11
  <2> QED
    BY <2>1, <2>2, <2>3
<1>8. Talks \in Nat /\ Talks' \in Nat
  <2>1. IsFiniteSet(TurnIndices) /\ IsFiniteSet(TurnIndices')
    <3>1. IsFiniteSet(1 .. Len(payload'))
      BY <1>2, FS_Interval
    <3>2. TurnIndices' \subseteq 1 .. Len(payload')
      BY <1>2, <1>4
    <3> QED
      BY <3>1, <3>2, FS_Subset, IndicesAre
  <2> QED
    BY <2>1, FS_CardinalityType DEF Talks
<1>9. gone \subseteq Droppable => gone \subseteq Systems
  BY DEF Droppable
<1> QED
  BY <1>2, <1>3, <1>4, <1>5, <1>6, <1>7, <1>8, <1>9

LEMMA NewestSpared ==
  ASSUME payload \in Seq(Msgs), TurnIndices # {}, NEW e \in {1, 2}, Talks > e,
         NEW i \in TurnIndices, \A j \in TurnIndices : j <= i
  PROVE  i \notin First .. First + e - 1
<1> DEFINE gone == First .. First + e - 1
<1> SUFFICES ASSUME i \in gone PROVE FALSE
  OBVIOUS
<1>1. First \in Nat /\ \A j \in TurnIndices : First <= j /\ j \in Nat
  BY ExchangeIs, IndicesAre
<1>2. TurnIndices \subseteq gone
  <2> SUFFICES ASSUME NEW j \in TurnIndices PROVE j \in gone
    OBVIOUS
  <2>1. First <= j /\ j <= i /\ i <= First + e - 1 /\ j \in Nat /\ i \in Nat
    BY <1>1
  <2> QED
    BY <1>1, <2>1
<1>3. IsFiniteSet(gone) /\ Cardinality(gone) = e
  BY <1>1, FS_Interval
<1>4. Cardinality(TurnIndices) <= e
  BY <1>2, <1>3, FS_Subset
<1> QED
  BY <1>4, IndicesAre DEF Talks

LEMMA EstimateIs ==
  ASSUME PromptTypes, NEW m, m.local \in Nat
  PROVE  Estimate(m) \in Nat
<1>1. scale.cost \in Nat /\ scale.local \in Nat \ {0}
  BY DEF PromptTypes
<1> DEFINE a == m.local
           c == scale.cost
           d == scale.local
<1> HIDE DEF a, c, d
<1>2. (a * c) \div d \in Nat
  <2>1. a \in Nat /\ a <= a /\ c \in Nat /\ d \in Nat \ {0}
    BY <1>1 DEF a, c, d
  <2> QED
    BY <2>1, Share
<1> QED
  BY <1>2 DEF Estimate, a, c, d

LEMMA TakenIs ==
  ASSUME NEW a \in Nat, NEW b \in Nat
  PROVE  a - Min({b, a}) \in Nat /\ a - Min({b, a}) <= a
         /\ a - Min({a, b}) \in Nat /\ a - Min({a, b}) <= a
<1>1. Min({b, a}) = (IF b <= a THEN b ELSE a) /\ Min({a, b}) = (IF a <= b THEN a ELSE b)
  BY MinOfTwo
<1> QED
  BY <1>1

\* One message goes.
LEMMA DropsIs ==
  ASSUME PromptTypes, NEW i \in DOMAIN payload, Drops(i),
         \/ i \in Droppable
         \/ i = First /\ Talks > 1
  PROVE  /\ Sheds({i})
         /\ spent' \in [turns : SUBSET Turns, blocks : Nat]
         /\ i \in Droppable => spent'.blocks > 0
         /\ running' \in Nat /\ running' <= running
<1>1. payload \in Seq(Msgs) /\ running \in Nat /\ spent \in [turns : SUBSET Turns, blocks : Nat]
  BY DEF PromptTypes
<1>2. payload[i] \in Msgs
  BY <1>1, IndicesAre
<1>3. payload' \in Seq(Msgs) /\ \E from : IsWithout(payload', payload, {i}, from)
  BY <1>1, RemoveAtIs DEF Drops
<1>4. spent' = [turns |-> spent.turns \union payload[i].says,
                blocks |-> spent.blocks + (IF IsTurn(payload[i]) THEN 0 ELSE 1)]
  BY DEF Drops
<1>5. spent' \in [turns : SUBSET Turns, blocks : Nat]
      /\ spent'.turns = spent.turns \union UNION {payload[g].says : g \in {i}}
  BY <1>1, <1>2, <1>4 DEF Msgs
<1>6. i \in Droppable => spent'.blocks > 0
  <2>1. i \in Droppable => ~IsTurn(payload[i])
    BY <1>1, IndicesAre DEF Systems, TurnIndices
  <2> QED
    BY <1>1, <1>4, <2>1
<1>7. Estimate(payload[i]) \in Nat
  BY <1>2, EstimateIs DEF Msgs
<1>8. running' \in Nat /\ running' <= running
  BY <1>1, <1>7, TakenIs DEF Drops
<1>9. CASE i \in Droppable
  <2>1. Sheds({i})
    BY <1>3, <1>5, <1>9 DEF Sheds
  <2> QED
    BY <1>5, <1>6, <1>8, <2>1
<1>10. CASE i = First /\ Talks > 1
  <2>1. TurnIndices # {}
    BY <1>10, FS_EmptySet DEF Talks
  <2>2. First \in TurnIndices /\ First \in Nat
    BY <1>1, <2>1, ExchangeIs, IndicesAre
  <2>3. {i} = First .. First + 1 - 1
    BY <1>10, <2>2
  <2>4. \A k \in TurnIndices : (\A j \in TurnIndices : j <= k) => k \notin {i}
    BY <1>1, <1>10, <2>1, <2>3, NewestSpared
  <2>5. Sheds({i})
    BY <1>3, <1>5, <1>10, <2>2, <2>4 DEF Sheds
  <2> QED
    BY <1>5, <1>6, <1>8, <2>5
<1> QED
  BY <1>9, <1>10

\* The oldest exchange goes.
LEMMA OwedIs ==
  ASSUME PromptTypes, TurnIndices # {}, Owed,
         Over, Talks - Exchange >= Recent
  PROVE  /\ Sheds(First .. First + Exchange - 1)
         /\ spent' \in [turns : SUBSET Turns, blocks : Nat]
         /\ running' \in Nat /\ running' <= running /\ pc' = pc
<1> DEFINE e == Exchange
           n == Len(payload)
           gone == First .. First + e - 1
           sum == Estimate(payload[First])
                  + (IF e = 2 THEN Estimate(payload[First + 1]) ELSE 0)
           from == [k \in 1 .. n - e |-> IF k < First THEN k ELSE k + e]
<1>1. payload \in Seq(Msgs) /\ running \in Nat /\ spent \in [turns : SUBSET Turns, blocks : Nat]
  BY DEF PromptTypes
<1>2. /\ payload' = [k \in 1 .. n - e |-> IF k < First THEN payload[k] ELSE payload[k + e]]
      /\ running' = running - Min({sum, running})
      /\ spent' = [spent EXCEPT !.turns = @ \union UNION {payload[i].says : i \in gone}]
      /\ pc' = pc
  BY DEF Owed, Talks
<1>3. /\ First \in TurnIndices /\ e \in {1, 2} /\ gone \subseteq TurnIndices
      /\ \A j \in TurnIndices : First <= j
  BY <1>1, ExchangeIs
<1>4. /\ DOMAIN payload = 1 .. n /\ n \in Nat /\ TurnIndices \subseteq 1 .. n
      /\ \A i \in 1 .. n : payload[i] \in Msgs
  BY <1>1, IndicesAre DEF TurnIndices
<1>5. First \in 1 .. n /\ First + e - 1 \in 1 .. n
  <2>1. First \in Nat /\ First + e - 1 \in gone
    BY <1>3, <1>4
  <2> QED
    BY <1>3, <1>4, <2>1
<1> HIDE DEF e, n
<1>6. /\ from \in [1 .. n - e -> 1 .. n]
      /\ \A j, k \in 1 .. n - e : j < k => from[j] < from[k]
      /\ \A k \in 1 .. n - e : from[k] \notin gone /\ (k < First => from[k] = k)
  BY <1>3, <1>4, <1>5
<1>7. \A i \in 1 .. n \ gone : \E k \in 1 .. n - e : from[k] = i
  <2> TAKE i \in 1 .. n \ gone
  <2>1. CASE i < First
    <3>1. i \in 1 .. n - e /\ from[i] = i
      BY <1>3, <1>4, <1>5, <2>1
    <3> QED
      BY <3>1
  <2>2. CASE ~(i < First)
    <3>1. i - e \in 1 .. n - e /\ from[i - e] = i
      BY <1>3, <1>4, <1>5, <2>2
    <3> QED
      BY <3>1
  <2> QED
    BY <2>1, <2>2
<1>8. \A k \in 1 .. n - e : payload'[k] = payload[from[k]]
  BY <1>2
<1>9. payload' \in Seq(Msgs) /\ DOMAIN payload' = 1 .. n - e
  <2>1. n - e \in Nat
    BY <1>3, <1>4, <1>5
  <2>2. payload' \in [1 .. n - e -> Msgs]
    BY <1>2, <1>4, <1>6, <1>8
  <2> QED
    BY <2>1, <2>2
<1> HIDE DEF from
<1>10. \A k \in 1 .. n - e : (\A g \in gone : k < g) => from[k] = k
  <2> TAKE k \in 1 .. n - e
  <2>1. First \in gone
    BY <1>3, <1>5
  <2> QED
    BY <1>6, <2>1
<1>11. IsWithout(payload', payload, gone, from)
  BY <1>4, <1>6, <1>7, <1>8, <1>9, <1>10 DEF IsWithout
<1>12. spent' \in [turns : SUBSET Turns, blocks : Nat]
       /\ spent'.turns = spent.turns \union UNION {payload[i].says : i \in gone}
  <2>1. \A i \in gone : payload[i].says \subseteq Turns
    BY <1>3, <1>4 DEF Msgs
  <2> HIDE DEF gone
  <2> QED
    BY <1>1, <1>2, <2>1
<1>13. running' \in Nat /\ running' <= running
  <2>1. Estimate(payload[First]) \in Nat
    BY <1>4, <1>5, EstimateIs DEF Msgs
  <2>2. e = 2 => Estimate(payload[First + 1]) \in Nat
    <3>1. e = 2 => First + 1 \in 1 .. n
      BY <1>4, <1>5
    <3> QED
      BY <1>4, <3>1, EstimateIs DEF Msgs
  <2>3. sum \in Nat
    BY <2>1, <2>2
  <2> QED
    BY <1>1, <1>2, <2>3, TakenIs
<1>14. \A i \in TurnIndices : (\A j \in TurnIndices : j <= i) => i \notin gone
  <2>1. Talks > e
    BY <1>1, <1>3, PromptAssumption, IndicesAre DEF e
  <2> QED
    BY <1>1, <1>3, <2>1, NewestSpared
<1>15. Sheds(gone)
  BY <1>3, <1>4, <1>9, <1>11, <1>12, <1>14 DEF Sheds
<1> QED
  BY <1>2, <1>12, <1>13, <1>15 DEF e

\* One message is cut.
LEMMA LargestIs ==
  ASSUME NEW T, IsFiniteSet(T), T # {}, NEW size \in [T -> Nat]
  PROVE  \E i \in T : \A j \in T : size[j] <= size[i]
<1> DEFINE above(i) == {j \in T : size[j] > size[i]}
           all == {above(i) : i \in T}
<1>1. all \subseteq FiniteSubsetsOf(T) /\ all # {}
  <2>1. \A i \in T : IsFiniteSet(above(i)) /\ above(i) \in SUBSET T
    BY FS_Subset
  <2>2. PICK i \in T : TRUE
    OBVIOUS
  <2>3. above(i) \in all
    OBVIOUS
  <2> HIDE DEF above
  <2>4. all \subseteq FiniteSubsetsOf(T)
    BY <2>1 DEF FiniteSubsetsOf
  <2> QED
    BY <2>3, <2>4
<1>2. PICK b \in all : \A a \in all : <<a, b>> \notin StrictSubsetOrdering(T)
  BY <1>1, WFMin, FS_StrictSubsetOrderingWellFounded, Zenon
<1>3. PICK i \in T : b = above(i)
  BY <1>2
<1>4. ASSUME NEW j \in T, size[j] > size[i]
      PROVE  FALSE
  <2>1. j \in above(i) /\ j \notin above(j) /\ above(j) \subseteq above(i)
    BY <1>4
  <2>2. above(j) \in all /\ above(j) \in SUBSET T /\ above(i) \in SUBSET T
    OBVIOUS
  <2> QED
    BY <1>2, <1>3, <2>1, <2>2 DEF StrictSubsetOrdering
<1> QED
  BY <1>4

LEMMA TrimsIs ==
  ASSUME PromptTypes, NEW among \in SUBSET Droppable, Trimmable(among) # {},
         Trims(among), spent' = spent
  PROVE  /\ \E i \in among : Cuts(i)
         /\ running' \in Nat /\ running' <= running /\ trims' \in Nat
<1> DEFINE T == Trimmable(among)
           size(k) == payload[k].local
           i == CHOOSE k \in T : \A j \in T : size(j) <= size(k)
           half == [payload[i] EXCEPT !.local = @ \div 2, !.cost = (@ + 1) \div 2]
<1>1. payload \in Seq(Msgs) /\ running \in Nat /\ trims \in Nat
  BY DEF PromptTypes
<1>2. T \subseteq DOMAIN payload /\ IsFiniteSet(T) /\ T \subseteq among
  <2>1. T \subseteq Systems /\ T \subseteq among
    BY <1>1, IndicesAre DEF Trimmable
  <2>2. IsFiniteSet(T)
    BY <1>1, <2>1, IndicesAre, FS_Subset
  <2> QED
    BY <2>1, <2>2 DEF Systems
<1>3. \A k \in T : payload[k] \in Msgs /\ size(k) \in Nat \ {0} /\ size(k) > 1
  BY <1>1, <1>2, IndicesAre DEF Trimmable, Msgs
<1>4. /\ payload' = [payload EXCEPT ![i] = half]
      /\ running' = running - Min({running, Estimate(payload[i]) - Estimate(half)})
      /\ trims' = trims + 1
  BY DEF Trims
<1>5. i \in T
  <2>1. \E k \in T : \A j \in T : size(j) <= size(k)
    <3> DEFINE f == [k \in T |-> size(k)]
    <3>1. f \in [T -> Nat] /\ T # {}
      BY <1>3
    <3> HIDE DEF T, f
    <3>2. \E k \in T : \A j \in T : f[j] <= f[k]
      BY <1>2, <3>1, LargestIs
    <3> QED
      BY <3>2 DEF f
  <2> QED
    BY <2>1
<1> HIDE DEF i
<1> DEFINE m == payload[i]
<1>6. m \in Msgs /\ m.local \in Nat \ {0} /\ m.local > 1 /\ m.cost \in Nat \ {0}
  BY <1>3, <1>5 DEF Msgs
<1>7. /\ half \in Msgs /\ half.who = m.who /\ half.says = m.says
      /\ half.local \in Nat /\ half.local <= m.local
  <2>1. /\ m.local \div 2 \in Nat \ {0} /\ m.local \div 2 <= m.local
        /\ (m.cost + 1) \div 2 \in Nat \ {0}
    BY <1>6, HalfIs
  <2> HIDE DEF m
  <2>2. [m EXCEPT !.local = @ \div 2, !.cost = (@ + 1) \div 2] \in Msgs
    BY <1>6, <2>1 DEF Msgs
  <2>3. LET h == [m EXCEPT !.local = @ \div 2, !.cost = (@ + 1) \div 2] IN
        h.who = m.who /\ h.says = m.says /\ h.local = m.local \div 2
    BY <1>6 DEF Msgs
  <2> QED
    BY <2>1, <2>2, <2>3 DEF m
<1> HIDE DEF half
<1>8. Cuts(i)
  <2>1. payload' \in Seq(Msgs) /\ DOMAIN payload' = DOMAIN payload
    BY <1>1, <1>2, <1>4, <1>5, <1>7
  <2>2. i \in DOMAIN payload /\ i \in Droppable
    BY <1>2, <1>5
  <2>3. \A k \in DOMAIN payload : payload'[k] = IF k = i THEN half ELSE payload[k]
    BY <1>1, <1>4, <2>2
  <2> QED
    BY <1>7, <2>1, <2>2, <2>3 DEF Cuts
<1>9. Estimate(m) - Estimate(half) \in Nat
  <2>1. scale.cost \in Nat /\ scale.local \in Nat \ {0}
    BY DEF PromptTypes
  <2>2. /\ (m.local * scale.cost) \div scale.local \in Nat
        /\ (half.local * scale.cost) \div scale.local \in Nat
        /\ (half.local * scale.cost) \div scale.local <= (m.local * scale.cost) \div scale.local
    BY <1>6, <1>7, <2>1, Share
  <2>3. Estimate(m) \in Nat /\ Estimate(half) \in Nat /\ Estimate(half) <= Estimate(m)
    BY <2>2 DEF Estimate
  <2> QED
    BY <2>3
<1>10. running' \in Nat /\ running' <= running
  BY <1>1, <1>4, <1>9, TakenIs
<1> QED
  BY <1>1, <1>2, <1>4, <1>5, <1>8, <1>10

----------------------------------------------------------------------------
(* What the client sent, and what compaction and memory make of it. *)

LEMMA RecentIs ==
  N \in RecentTurns /\ Older = Turns \ RecentTurns
<1>1. N \in Nat /\ Recent \in Nat \ {0} /\ N % 2 = 1
  BY PromptAssumption
<1> DEFINE from == N - Recent + 1
<1>2. from \in Int /\ from <= N
  BY <1>1
<1>3. CASE Role(from) = "user"
  BY <1>1, <1>2, <1>3 DEF RecentTurns, Older
<1>4. CASE Role(from) # "user"
  <2>1. Role(N) = "user"
    BY <1>1 DEF Role
  <2>2. from # N
    BY <1>4, <2>1
  <2>3. N \in from + 1 .. N
    BY <1>1, <1>2, <2>2
  <2> QED
    BY <1>4, <2>3 DEF RecentTurns, Older
<1> QED
  BY <1>3, <1>4

\* Where the i-th turn is.
At(i) == IF Late /\ i = 1 THEN Callers ELSE Callers + i

TurnOf(i, size) == Message(Role(i), {i}, size[i])

LEMMA RequestIs ==
  ASSUME NEW size \in Sizings
  PROVE  /\ Request(size) \in Seq(Msgs) /\ Len(Request(size)) = Callers + N
         /\ \A i \in Turns : At(i) \in 1 .. Callers + N
                             /\ Request(size)[At(i)] = TurnOf(i, size)
         /\ \A k \in 1 .. Callers + N :
                \/ Request(size)[k] = Message("caller", {}, CallerSize)
                \/ \E i \in Turns : k = At(i)
         /\ ~Late => \A k \in 1 .. Callers :
                Request(size)[k] = Message("caller", {}, CallerSize)
<1> DEFINE caller == Message("caller", {}, CallerSize)
           turn == [i \in Turns |-> TurnOf(i, size)]
           first == Callers - (IF Late THEN 1 ELSE 0)
           lead == [k \in 1 .. first |-> caller]
           middle == IF Late THEN <<turn[1], caller>> ELSE <<turn[1]>>
           m == IF Late THEN 2 ELSE 1
           rest == Tail(turn)
           r == Request(size)
<1>1. /\ N \in Nat /\ N > 0 /\ Callers \in Nat /\ first \in Nat /\ Late \in BOOLEAN
      /\ CallerSize \in Positive /\ size \in [1 .. N -> Positive]
      /\ first + m = Callers + 1
  BY PromptAssumption
<1>2. caller \in Msgs /\ \A i \in Turns : TurnOf(i, size) \in Msgs
  BY <1>1 DEF Message, TurnOf, Msgs, Positive, Owners, Role, Turns
<1>3. r = (lead \o middle) \o rest
  BY DEF Request, TurnOf
<1>4. lead \in Seq(Msgs) /\ Len(lead) = first
      /\ \A k \in 1 .. first : lead[k] = caller
  BY <1>1, <1>2
<1>5. turn \in Seq(Msgs) /\ Len(turn) = N /\ turn # <<>> /\ 1 \in Turns
      /\ \A i \in 1 .. N : turn[i] = TurnOf(i, size)
  BY <1>1, <1>2 DEF Turns
<1> HIDE DEF caller, turn
<1>6. /\ middle \in Seq(Msgs) /\ Len(middle) = m /\ middle[1] = turn[1]
      /\ Late => middle[2] = caller
  BY <1>1, <1>2, <1>5 DEF Turns
<1>7. rest \in Seq(Msgs) /\ Len(rest) = N - 1
      /\ \A k \in 1 .. N - 1 : rest[k] = turn[k + 1]
  BY <1>1, <1>5
<1> HIDE DEF lead, rest, r, first, m, middle
<1> DEFINE both == lead \o middle
<1>8. /\ both \in Seq(Msgs) /\ Len(both) = first + m
      /\ \A k \in 1 .. first + m :
            both[k] = IF k <= first THEN lead[k] ELSE middle[k - first]
  BY <1>4, <1>6, ConcatProperties
<1>9. r = both \o rest
  BY <1>3
<1> HIDE DEF both
<1>10. /\ r \in Seq(Msgs) /\ Len(r) = Callers + N
       /\ \A k \in 1 .. Callers + N :
            r[k] = IF k <= Callers + 1 THEN both[k] ELSE rest[k - (Callers + 1)]
  <2>1. /\ r \in Seq(Msgs) /\ Len(r) = Len(both) + Len(rest)
        /\ \A k \in 1 .. Len(both) + Len(rest) :
            r[k] = IF k <= Len(both) THEN both[k] ELSE rest[k - Len(both)]
    BY <1>7, <1>8, <1>9, ConcatProperties
  <2>2. Len(both) = Callers + 1 /\ Len(both) + Len(rest) = Callers + N
    BY <1>1, <1>7, <1>8
  <2> QED
    BY <2>1, <2>2
<1>11. \A k \in 1 .. first : r[k] = caller
  <2>1. first <= Callers
    BY <1>1 DEF first
  <2> QED
    BY <1>1, <1>4, <1>8, <1>10, <2>1
<1>12. first + 1 \in 1 .. Callers + 1 /\ r[first + 1] = turn[1] /\ first + 1 = At(1)
  <2>1. first + 1 = At(1)
    BY <1>1 DEF first, At
  <2> DEFINE k == first + 1
  <2>2. /\ k \in 1 .. first + m /\ ~(k <= first) /\ k - first = 1
        /\ k <= Callers + 1 /\ k \in 1 .. Callers + N /\ k \in 1 .. Callers + 1
    BY <1>1 DEF m
  <2> HIDE DEF k
  <2>3. r[k] = both[k] /\ both[k] = middle[k - first]
    BY <1>8, <1>10, <2>2
  <2>4. r[k] = turn[1]
    BY <1>6, <2>2, <2>3
  <2> QED
    BY <2>1, <2>2, <2>4 DEF k
<1>13. Late => r[Callers + 1] = caller
  <2> SUFFICES ASSUME Late PROVE r[Callers + 1] = caller
    OBVIOUS
  <2>1. Callers + 1 = first + 2 /\ m = 2
    BY <1>1 DEF first, m
  <2> DEFINE k == Callers + 1
  <2>2. k \in 1 .. first + m /\ ~(k <= first) /\ k - first = 2
        /\ k <= Callers + 1 /\ k \in 1 .. Callers + N
    BY <1>1, <2>1
  <2> HIDE DEF k
  <2>3. r[k] = both[k] /\ both[k] = middle[k - first]
    BY <1>8, <1>10, <2>2
  <2>4. r[k] = caller
    BY <1>6, <2>2, <2>3
  <2> QED
    BY <2>4 DEF k
<1>14. \A k \in 2 .. N : r[Callers + k] = turn[k] /\ Callers + k \in 1 .. Callers + N
                          /\ At(k) = Callers + k
  <2> TAKE k \in 2 .. N
  <2> DEFINE j == Callers + k
             i == k - 1
  <2>1. j \in 1 .. Callers + N /\ ~(j <= Callers + 1)
        /\ j - (Callers + 1) = i /\ i \in 1 .. N - 1 /\ i + 1 = k
    BY <1>1
  <2>2. At(k) = j
    BY <1>1 DEF At
  <2> HIDE DEF j, i
  <2>3. r[j] = rest[j - (Callers + 1)] /\ rest[i] = turn[i + 1]
    BY <1>7, <1>10, <2>1
  <2>4. r[j] = turn[k]
    BY <2>1, <2>3
  <2> QED
    BY <2>1, <2>2, <2>4 DEF j
<1>15. \A i \in Turns : At(i) \in 1 .. Callers + N /\ r[At(i)] = TurnOf(i, size)
  <2> TAKE i \in Turns
  <2>1. CASE i = 1
    BY <1>1, <1>5, <1>12, <2>1 DEF Turns
  <2>2. CASE i # 1
    <3>1. i \in 2 .. N /\ i \in 1 .. N
      BY <2>2 DEF Turns
    <3> QED
      BY <1>5, <1>14, <3>1
  <2> QED
    BY <2>1, <2>2
<1>16. \A k \in 1 .. Callers + N : r[k] = caller \/ \E i \in Turns : k = At(i)
  <2> TAKE k \in 1 .. Callers + N
  <2>1. CASE k <= first
    BY <1>11, <2>1
  <2>2. CASE k = first + 1
    BY <1>5, <1>12, <2>2
  <2>3. CASE k > first + 1 /\ k <= Callers + 1
    <3>1. Late /\ k = Callers + 1
      BY <1>1, <2>3 DEF first
    <3> QED
      BY <1>13, <3>1
  <2>4. CASE k > Callers + 1
    <3>1. k - Callers \in 2 .. N /\ k - Callers \in Turns /\ Callers + (k - Callers) = k
      BY <1>1, <2>4 DEF Turns
    <3> QED
      BY <1>14, <3>1
  <2> QED
    BY <1>1, <2>1, <2>2, <2>3, <2>4
<1>17. ~Late => first = Callers
  BY <1>1 DEF first
<1> QED
  BY <1>10, <1>11, <1>15, <1>16, <1>17 DEF r, caller

\* The request says every turn, at a position of its own, the newest last.
LEMMA RequestedIs ==
  ASSUME NEW size \in Sizings, payload = Request(size)
  PROVE  /\ payload \in Seq(Msgs)
         /\ \A i \in Turns : At(i) \in TurnIndices /\ payload[At(i)].says = {i}
         /\ \A k \in TurnIndices : k <= At(N) /\ payload[k].who \in {"user", "assistant"}
         /\ At(N) \in TurnIndices /\ N \in Turns
         /\ Turns \subseteq Said(payload)
         /\ ~Late => /\ Systems = 1 .. Callers /\ Callers <= Len(payload)
                     /\ CallersLead
<1> DEFINE n == Callers + N
           caller == Message("caller", {}, CallerSize)
<1>1. /\ N \in Nat /\ N > 0 /\ Callers \in Nat /\ Late \in BOOLEAN
      /\ CallerSize \in Positive /\ (Late => Callers > 0)
  BY PromptAssumption
<1>2. /\ payload \in Seq(Msgs) /\ Len(payload) = n /\ DOMAIN payload = 1 .. n
      /\ \A i \in Turns : At(i) \in 1 .. n /\ payload[At(i)] = TurnOf(i, size)
      /\ \A k \in 1 .. n : payload[k] = caller \/ \E i \in Turns : k = At(i)
      /\ ~Late => \A k \in 1 .. Callers : payload[k] = caller
  BY RequestIs
<1>3. /\ caller.who = "caller" /\ ~IsTurn(caller) /\ Size(caller) = CallerSize
      /\ \A i \in Turns : /\ TurnOf(i, size).who \in {"user", "assistant"}
                          /\ IsTurn(TurnOf(i, size)) /\ TurnOf(i, size).says = {i}
  <2>1. caller.who = "caller" /\ ~IsTurn(caller)
    BY DEF Message, IsTurn, Owners
  <2>2. Size(caller) = CallerSize
    BY <1>1 DEF Message, Size, Positive
  <2>3. \A i \in Turns : /\ TurnOf(i, size).who \in {"user", "assistant"}
                         /\ TurnOf(i, size).says = {i}
    BY DEF TurnOf, Message, Role
  <2>4. \A i \in Turns : IsTurn(TurnOf(i, size))
    BY <2>3 DEF IsTurn, Owners
  <2> QED
    BY <2>1, <2>2, <2>3, <2>4
<1> HIDE DEF n, caller
<1>4. \A i \in Turns : At(i) \in TurnIndices /\ payload[At(i)].says = {i}
  BY <1>2, <1>3 DEF TurnIndices
<1>5. ASSUME NEW k \in TurnIndices
      PROVE  k <= At(N) /\ payload[k].who \in {"user", "assistant"}
             /\ \E i \in Turns : k = At(i)
  <2>1. k \in 1 .. n /\ IsTurn(payload[k])
    BY <1>2 DEF TurnIndices
  <2>2. PICK i \in Turns : k = At(i)
    BY <1>2, <1>3, <2>1
  <2>3. At(i) <= At(N)
    BY <1>1 DEF At, Turns
  <2> QED
    BY <1>2, <1>3, <2>2, <2>3
<1>6. N \in Turns
  BY <1>1 DEF Turns
<1>7. Turns \subseteq Said(payload)
  <2>1. \A i \in Turns : i \in payload[At(i)].says /\ At(i) \in DOMAIN payload
    BY <1>2, <1>4
  <2> QED
    BY <2>1 DEF Said
<1>8. ASSUME ~Late
      PROVE  /\ Systems = 1 .. Callers /\ Callers <= Len(payload)
             /\ CallersLead
  <2>1. \A k \in 1 .. n : k > Callers => \E i \in Turns : k = At(i)
    <3> TAKE k \in 1 .. n
    <3>1. k > Callers => k - Callers \in Turns /\ At(k - Callers) = k
      BY <1>1, <1>8 DEF At, Turns, n
    <3> QED
      BY <3>1
  <2>2. \A k \in 1 .. n : k > Callers => k \in TurnIndices
    BY <1>4, <2>1
  <2>3. Callers <= n /\ n \in Nat
    BY <1>1 DEF n
  <2>4. \A k \in 1 .. Callers : k \in 1 .. n /\ payload[k] = caller /\ k \notin TurnIndices
    BY <1>1, <1>2, <1>3, <1>8, <2>3 DEF TurnIndices
  <2>5. Systems = 1 .. Callers
    BY <1>1, <1>2, <2>2, <2>3, <2>4 DEF Systems
  <2>6. \A k \in DOMAIN payload : payload[k].who = "caller" <=> k <= Callers
    <3> TAKE k \in DOMAIN payload
    <3>1. CASE k <= Callers
      <4>1. k \in 1 .. Callers
        BY <1>1, <1>2, <2>3, <3>1
      <4> QED
        BY <1>3, <2>4, <3>1, <4>1
    <3>2. CASE k > Callers
      <4>1. k \in TurnIndices
        BY <1>2, <2>2, <3>2
      <4>2. payload[k].who # "caller" /\ ~(k <= Callers)
        <5>1. k \in Int
          BY <1>2, <2>3
        <5> QED
          BY <1>1, <1>5, <3>2, <4>1, <5>1
      <4> QED
        BY <4>2
    <3> QED
      BY <1>1, <1>2, <2>3, <3>1, <3>2
  <2> QED
    BY <1>2, <1>3, <2>3, <2>4, <2>5, <2>6 DEF CallersLead
<1> QED
  BY <1>2, <1>4, <1>5, <1>6, <1>7, <1>8

\* The largest of the positions that are kept comes last.
LEMMA LastKept ==
  ASSUME NEW S, NEW p \in Seq(S), NEW P \in SUBSET DOMAIN p, NEW i \in P,
         \A j \in P : j <= i
  PROVE  Cardinality(P) \in Nat \ {0} /\ Kept(p, P)[Cardinality(P)] = p[i]
<1> DEFINE n == Cardinality(P)
<1>1. /\ n \in Nat /\ IsFiniteSet(P)
      /\ \A j \in P : Rank(P, j) + 1 \in 1 .. n /\ Kept(p, P)[Rank(P, j) + 1] = p[j]
      /\ \A k \in 1 .. n : \E j \in P : Rank(P, j) = k - 1 /\ Kept(p, P)[k] = p[j]
  BY KeptIs
<1>2. P \in SUBSET Int
  OBVIOUS
<1>3. /\ \A j, k \in P : j < k => Rank(P, j) < Rank(P, k)
      /\ \A j \in P : Rank(P, j) \in 0 .. n - 1
  BY <1>1, <1>2, Ranks
<1>4. n \in 1 .. n /\ n > 0
  <2>1. Rank(P, i) + 1 \in 1 .. n
    BY <1>1
  <2> HIDE DEF n
  <2> QED
    BY <1>1, <2>1
<1>5. PICK j \in P : Rank(P, j) = n - 1 /\ Kept(p, P)[n] = p[j]
  BY <1>1, <1>4
<1>6. j = i
  <2>1. ~(j < i)
    <3>1. j < i => Rank(P, j) < Rank(P, i)
      BY <1>3
    <3>2. Rank(P, i) \in 0 .. n - 1
      BY <1>3
    <3> HIDE DEF n
    <3> QED
      BY <1>1, <1>5, <3>1, <3>2
  <2> QED
    BY <1>2, <2>1
<1> QED
  BY <1>1, <1>4, <1>5, <1>6

LEMMA CompactIs ==
  ASSUME PromptTypes, AsRequested, Compact
  PROVE  /\ payload' \in Seq(Msgs) /\ NewestStays'
         /\ Turns \subseteq Said(payload')
         /\ ~Late => CallersLead'
<1>1. pc = "compact" /\ recorded \in SUBSET Older
  BY DEF Compact, PromptTypes
<1>2. PICK size \in Sizings : payload = Request(size)
  BY <1>1 DEF AsRequested
<1>3. /\ payload \in Seq(Msgs)
      /\ \A i \in Turns : At(i) \in TurnIndices /\ payload[At(i)].says = {i}
      /\ \A k \in TurnIndices : k <= At(N) /\ payload[k].who \in {"user", "assistant"}
      /\ At(N) \in TurnIndices /\ N \in Turns
      /\ ~Late => /\ Systems = 1 .. Callers /\ Callers <= Len(payload)
                  /\ CallersLead
  BY <1>2, RequestedIs
<1>4. PICK reuse \in BOOLEAN, works \in BOOLEAN, tokens \in StandinSizes :
        LET plan == CoveragePlan(recorded \intersect Older)
            replaced == IF reuse THEN (1 .. plan.covered) \ plan.changed ELSE {}
            fresh == Older \ replaced
            deferred == IF works THEN {} ELSE fresh
            says == (recorded \intersect replaced) \union (fresh \ deferred)
            block == IF says = {} THEN <<>>
                     ELSE <<Message("standin", says, tokens)>>
        IN  payload' = Kept(payload, Systems) \o block \o OfTurns(deferred)
                            \o OfTurns(RecentTurns)
  <2>1. (CoveragePlan(recorded \intersect Older).covered > 0) \in BOOLEAN
    OBVIOUS
  <2> QED
    BY <2>1 DEF Compact
<1> DEFINE covered == CoveragePlan(recorded \intersect Older).covered
           changed == CoveragePlan(recorded \intersect Older).changed
           replaced == IF reuse THEN (1 .. covered) \ changed ELSE {}
           fresh == Older \ replaced
           deferred == IF works THEN {} ELSE fresh
           says == (recorded \intersect replaced) \union (fresh \ deferred)
           block == IF says = {} THEN <<>>
                    ELSE <<Message("standin", says, tokens)>>
           at(which) == {i \in TurnIndices : payload[i].says \subseteq which}
           A == Kept(payload, Systems)
           D == OfTurns(deferred)
           R == OfTurns(RecentTurns)
           q == A \o block \o D \o R
<1>5. payload' = q
  BY <1>4
<1>6. replaced \subseteq recorded
  <2>1. changed = (1 .. covered) \ (recorded \intersect Older)
    BY DEF CoveragePlan
  <2> QED
    BY <2>1
<1>7. Older = Turns \ RecentTurns /\ N \in RecentTurns
  BY RecentIs
<1>8. Turns \subseteq says \union deferred \union RecentTurns /\ says \subseteq Turns
  BY <1>1, <1>6, <1>7
<1> HIDE DEF says, deferred
<1>9. block \in Seq(Msgs) /\ \A k \in DOMAIN block :
        block[k].who = "standin" /\ block[k].says = says
  <2>1. Message("standin", says, tokens) \in Msgs
    <3>1. tokens \in Positive
      BY PromptAssumption
    <3> QED
      BY <1>8, <3>1 DEF Message, Msgs, Owners, Positive
  <2>2. CASE says = {}
    BY <2>2
  <2>3. CASE says # {}
    <3>1. block = <<Message("standin", says, tokens)>>
      BY <2>3
    <3> HIDE DEF block
    <3>2. block \in Seq(Msgs) /\ DOMAIN block = {1} /\ block[1] = Message("standin", says, tokens)
      BY <2>1, <3>1
    <3> QED
      BY <3>2 DEF Message
  <2> QED
    BY <2>2, <2>3
<1>10. says # {} => 1 \in DOMAIN block
  BY DEF block
<1> HIDE DEF block
<1>11. ASSUME NEW which
       PROVE  /\ at(which) \in SUBSET DOMAIN payload /\ at(which) \subseteq TurnIndices
              /\ OfTurns(which) = Kept(payload, at(which))
  BY DEF OfTurns, TurnIndices
<1>12. Systems \in SUBSET DOMAIN payload
  BY DEF Systems
<1>13. /\ A \in Seq(Msgs) /\ Len(A) = Cardinality(Systems)
       /\ \A k \in 1 .. Len(A) : \E i \in Systems : A[k] = payload[i]
  BY <1>3, <1>12, KeptIs
<1>14. ASSUME NEW which
       PROVE  /\ OfTurns(which) \in Seq(Msgs)
              /\ \A k \in 1 .. Len(OfTurns(which)) :
                    OfTurns(which)[k].who \in {"user", "assistant"}
              /\ \A i \in Turns \intersect which :
                    \E k \in 1 .. Len(OfTurns(which)) : i \in OfTurns(which)[k].says
  <2> DEFINE P == at(which)
             K == Kept(payload, P)
  <2>0. P \in SUBSET DOMAIN payload /\ P \subseteq TurnIndices
    BY <1>11
  <2> HIDE DEF P
  <2>1. /\ K \in Seq(Msgs) /\ Len(K) = Cardinality(P)
        /\ \A i \in P : /\ Rank(P, i) + 1 \in 1 .. Cardinality(P)
                        /\ K[Rank(P, i) + 1] = payload[i]
        /\ \A k \in 1 .. Cardinality(P) : \E i \in P : K[k] = payload[i]
    BY <1>3, <2>0, KeptIs
  <2>2. \A k \in 1 .. Len(K) : K[k].who \in {"user", "assistant"}
    BY <1>3, <2>0, <2>1
  <2>3. ASSUME NEW i \in Turns \intersect which
        PROVE  \E k \in 1 .. Len(K) : i \in K[k].says
    <3>1. At(i) \in P /\ payload[At(i)].says = {i}
      BY <1>3 DEF P
    <3> HIDE DEF K
    <3>2. Rank(P, At(i)) + 1 \in 1 .. Len(K) /\ K[Rank(P, At(i)) + 1] = payload[At(i)]
      BY <2>1, <3>1
    <3> QED
      BY <3>1, <3>2
  <2>4. OfTurns(which) = K
    BY <1>11 DEF P
  <2> HIDE DEF K
  <2> QED
    BY <2>1, <2>2, <2>3, <2>4
<1>15. Len(R) \in Nat \ {0} /\ R[Len(R)] = payload[At(N)]
  <2> DEFINE P == at(RecentTurns)
  <2>1. At(N) \in P /\ \A j \in P : j <= At(N)
    BY <1>3, <1>7
  <2>2. P \in SUBSET DOMAIN payload /\ R = Kept(payload, P)
    BY <1>11
  <2> HIDE DEF P, R
  <2>3. Cardinality(P) \in Nat \ {0} /\ R[Cardinality(P)] = payload[At(N)]
    BY <1>3, <2>1, <2>2, LastKept
  <2>4. Len(R) = Cardinality(P)
    BY <1>3, <2>2, KeptIs
  <2> QED
    BY <2>3, <2>4
<1>16. D \in Seq(Msgs) /\ R \in Seq(Msgs)
  BY <1>14
<1>17. /\ \A k \in 1 .. Len(D) : D[k].who \in {"user", "assistant"}
       /\ \A k \in 1 .. Len(R) : R[k].who \in {"user", "assistant"}
       /\ \A i \in Turns \intersect deferred : \E k \in 1 .. Len(D) : i \in D[k].says
       /\ \A i \in Turns \intersect RecentTurns : \E k \in 1 .. Len(R) : i \in R[k].says
  <2> QED
    BY <1>14
<1> HIDE DEF A, D, R
<1>18. /\ q \in Seq(Msgs) /\ Len(q) = Len(A) + Len(block) + Len(D) + Len(R)
       /\ \A k \in 1 .. Len(A) : q[k] = A[k]
       /\ \A k \in 1 .. Len(block) : q[Len(A) + k] = block[k]
       /\ \A k \in 1 .. Len(D) : q[Len(A) + Len(block) + k] = D[k]
       /\ \A k \in 1 .. Len(R) : q[Len(A) + Len(block) + Len(D) + k] = R[k]
  <2>1. q = A \o block \o D \o R
    OBVIOUS
  <2>2. A \in Seq(Msgs) /\ block \in Seq(Msgs) /\ D \in Seq(Msgs) /\ R \in Seq(Msgs)
    BY <1>9, <1>13, <1>16
  <2> HIDE DEF q
  <2> QED
    BY <2>1, <2>2, PartsAre, SMTT(60)
<1>19. Len(A) \in Nat /\ Len(block) \in Nat /\ Len(D) \in Nat /\ Len(R) \in Nat
       /\ DOMAIN block = 1 .. Len(block) /\ DOMAIN q = 1 .. Len(q)
  BY <1>9, <1>13, <1>16, <1>18
<1> HIDE DEF q
<1>20. /\ \A k \in 1 .. Len(A) : k \in DOMAIN q
       /\ \A k \in 1 .. Len(block) : Len(A) + k \in DOMAIN q
       /\ \A k \in 1 .. Len(D) : Len(A) + Len(block) + k \in DOMAIN q
       /\ \A k \in 1 .. Len(R) : Len(A) + Len(block) + Len(D) + k \in DOMAIN q
  BY <1>18, <1>19
<1>21. NewestStays'
  <2> DEFINE last == Len(A) + Len(block) + Len(D) + Len(R)
  <2>1. Len(R) \in 1 .. Len(R)
    BY <1>15
  <2>2. last \in DOMAIN q /\ q[last] = payload[At(N)] /\ \A j \in DOMAIN q : j <= last
    BY <1>15, <1>18, <1>19, <1>20, <2>1
  <2> HIDE DEF last
  <2>3. last \in TurnIndices' /\ payload'[last].says = {N}
    BY <1>3, <1>5, <2>2 DEF TurnIndices
  <2>4. \A j \in TurnIndices' : j <= last
    BY <1>5, <2>2 DEF TurnIndices
  <2> QED
    BY <2>3, <2>4 DEF NewestStays
<1>22. Turns \subseteq Said(payload')
  <2> SUFFICES ASSUME NEW i \in Turns PROVE \E k \in DOMAIN q : i \in q[k].says
    BY <1>5 DEF Said
  <2>1. CASE i \in says
    <3>1. 1 \in 1 .. Len(block) /\ block[1].says = says
      BY <1>9, <1>10, <1>19, <2>1
    <3>2. Len(A) + 1 \in DOMAIN q /\ q[Len(A) + 1] = block[1]
      BY <1>18, <1>20, <3>1
    <3> QED
      BY <2>1, <3>1, <3>2
  <2>2. CASE i \in deferred
    <3>1. PICK k \in 1 .. Len(D) : i \in D[k].says
      BY <1>17, <2>2
    <3> QED
      BY <1>18, <1>20, <3>1
  <2>3. CASE i \in RecentTurns
    <3>1. PICK k \in 1 .. Len(R) : i \in R[k].says
      BY <1>17, <2>3
    <3> QED
      BY <1>18, <1>20, <3>1
  <2> QED
    BY <1>8, <2>1, <2>2, <2>3
<1>23. ASSUME ~Late
       PROVE  CallersLead'
  <2>1. /\ Systems = 1 .. Callers /\ Callers \in Nat
        /\ \A k \in 1 .. Callers : payload[k].who = "caller" /\ Size(payload[k]) = CallerSize
    <3>1. Callers \in Nat /\ \A k \in 1 .. Callers : k <= Callers /\ k \in DOMAIN payload
      BY <1>3, <1>23, PromptAssumption
    <3> QED
      BY <1>3, <1>23, <3>1 DEF CallersLead
  <2>2. Len(A) = Callers
    BY <1>13, <2>1, FS_Interval
  <2>3. \A k \in 1 .. Callers : q[k].who = "caller" /\ Size(q[k]) = CallerSize
    <3> TAKE k \in 1 .. Callers
    <3>1. PICK i \in Systems : A[k] = payload[i]
      BY <1>13, <2>2
    <3>2. q[k] = payload[i] /\ i \in 1 .. Callers
      BY <1>18, <2>1, <2>2, <3>1
    <3> QED
      BY <2>1, <3>2
  <2>4. ASSUME NEW k \in DOMAIN q, k > Callers
        PROVE  q[k].who # "caller"
    <3> DEFINE a == Len(A)
               b == Len(block)
               d == Len(D)
               r == Len(R)
    <3>1. a \in Nat /\ b \in Nat /\ d \in Nat /\ r \in Nat /\ k \in 1 .. a + b + d + r /\ k > a
      BY <1>18, <1>19, <2>2, <2>4
    <3>2. CASE k <= a + b
      <4>1. k - a \in 1 .. b /\ k = a + (k - a)
        BY <3>1, <3>2
      <4>2. q[a + (k - a)] = block[k - a]
        BY <1>18, <4>1
      <4> QED
        BY <1>9, <1>19, <4>1, <4>2
    <3>3. CASE k > a + b /\ k <= a + b + d
      <4>1. k - (a + b) \in 1 .. d /\ k = a + b + (k - (a + b))
        BY <3>1, <3>3
      <4>2. q[a + b + (k - (a + b))] = D[k - (a + b)]
        BY <1>18, <4>1
      <4> QED
        BY <1>17, <4>1, <4>2
    <3>4. CASE k > a + b + d
      <4>1. k - (a + b + d) \in 1 .. r /\ k = a + b + d + (k - (a + b + d))
        BY <3>1, <3>4
      <4>2. q[a + b + d + (k - (a + b + d))] = R[k - (a + b + d)]
        BY <1>18, <4>1
      <4> QED
        BY <1>17, <4>1, <4>2
    <3> QED
      BY <3>1, <3>2, <3>3, <3>4
  <2>5. Callers <= Len(q)
    BY <1>18, <1>19, <2>2
  <2>6. \A k \in DOMAIN q : q[k].who = "caller" <=> k <= Callers
    <3> TAKE k \in DOMAIN q
    <3>1. k \in Int /\ k >= 1
      BY <1>19
    <3>2. k <= Callers => k \in 1 .. Callers
      BY <2>1, <3>1
    <3> QED
      BY <2>1, <2>3, <2>4, <3>1, <3>2
  <2> QED
    BY <1>5, <2>3, <2>5, <2>6 DEF CallersLead, Size
<1> QED
  BY <1>5, <1>18, <1>21, <1>22, <1>23

LEMMA BoundedIs ==
  ASSUME NEW among \in SUBSET Layers, NEW rate
  PROVE  Cardinality(Bounded(among, rate)) \in Nat
<1>1. Bounded(among, rate) \subseteq Layers
  BY DEF Bounded
<1>2. IsFiniteSet(Layers)
  <2>1. IsFiniteSet({"persona"}) /\ IsFiniteSet({"summary"})
        /\ IsFiniteSet({"facts"}) /\ IsFiniteSet({"retrieval"})
    BY FS_Singleton
  <2>2. IsFiniteSet({"persona"} \union {"summary"}) /\ IsFiniteSet({"facts"} \union {"retrieval"})
    BY <2>1, FS_Union
  <2>3. IsFiniteSet(({"persona"} \union {"summary"}) \union ({"facts"} \union {"retrieval"}))
    BY <2>2, FS_Union
  <2>4. Layers = ({"persona"} \union {"summary"}) \union ({"facts"} \union {"retrieval"})
    BY DEF Layers
  <2> QED
    BY <2>3, <2>4
<1> QED
  BY <1>1, <1>2, FS_Subset, FS_CardinalityType

LEMMA InjectIs ==
  ASSUME PromptTypes, Inject, NewestStays
  PROVE  /\ payload' \in Seq(Msgs) /\ NewestStays'
         /\ Said(payload) \subseteq Said(payload')
         /\ CallersLead => CallersLead'
<1> DEFINE n == Len(payload)
           leads == {k \in 0 .. n : \A i \in 1 .. k : ~IsTurn(payload[i])}
           at == Max(leads)
           block(kept, rate) == Message("memory", {}, [local |-> kept, cost |-> rate * kept])
<1>1. payload \in Seq(Msgs) /\ n \in Nat /\ DOMAIN payload = 1 .. n
  BY DEF PromptTypes
<1>2. PICK among \in SUBSET Layers, rate \in MemoryScales :
        LET kept == Cardinality(Bounded(among, rate)) IN
        payload' = IF kept = 0 THEN payload ELSE InsertAt(payload, at + 1, block(kept, rate))
  BY DEF Inject
<1> DEFINE kept == Cardinality(Bounded(among, rate))
           b == block(kept, rate)
<1>3. kept \in Nat /\ rate \in Nat \ {0}
  BY BoundedIs, PromptAssumption
<1>4. payload' = IF kept = 0 THEN payload ELSE InsertAt(payload, at + 1, b)
  BY <1>2
<1> HIDE DEF kept
<1>5. CASE kept = 0
  <2>1. payload' = payload
    BY <1>4, <1>5
  <2> QED
    BY <1>1, <2>1 DEF NewestStays, TurnIndices, CallersLead, Size
<1>6. CASE kept # 0
  <2>1. at \in leads /\ \A k \in leads : k <= at
    <3>1. leads \in SUBSET Nat /\ 0 \in leads /\ \A k \in leads : k <= n
      BY <1>1
    <3> HIDE DEF leads
    <3> QED
      BY <1>1, <3>1, MaxIs
  <2>2. at \in 0 .. n /\ \A i \in 1 .. at : ~IsTurn(payload[i])
    BY <2>1
  <2> HIDE DEF at
  <2>3. b \in Msgs /\ b.who = "memory" /\ ~IsTurn(b)
    <3> DEFINE size == [local |-> kept, cost |-> rate * kept]
    <3>1. rate * kept \in Nat \ {0}
      <4>1. \A x, y \in Nat \ {0} : x * y \in Nat \ {0}
        OBVIOUS
      <4> QED
        BY <1>3, <1>6, <4>1
    <3>2. size.local \in Nat \ {0} /\ size.cost \in Nat \ {0}
      BY <1>3, <1>6, <3>1
    <3> HIDE DEF size
    <3>3. Message("memory", {}, size) \in Msgs /\ Message("memory", {}, size).who = "memory"
      BY <3>2 DEF Message, Msgs, Owners
    <3> QED
      BY <3>3 DEF size, IsTurn, Owners
  <2> HIDE DEF b
  <2> DEFINE i == at + 1
  <2>4. i \in 1 .. n + 1 /\ i \in 1 .. Len(payload) + 1 /\ i \in Int
    BY <1>1, <2>2
  <2>5. payload' = InsertAt(payload, i, b)
    BY <1>4, <1>6
  <2> HIDE DEF i
  <2>6. /\ payload' \in Seq(Msgs) /\ Len(payload') = n + 1
        /\ \A k \in 1 .. n + 1 :
              payload'[k] = IF k < i THEN payload[k] ELSE IF k = i THEN b ELSE payload[k - 1]
    <3>1. n = Len(payload)
      OBVIOUS
    <3> HIDE DEF n
    <3> QED
      BY <1>1, <2>3, <2>4, <2>5, <3>1, InsertAtIs, SMTT(30)
  <2> DEFINE to(k) == IF k < i THEN k ELSE k + 1
  <2>7. \A k \in 1 .. n : to(k) \in 1 .. n + 1 /\ payload'[to(k)] = payload[k]
    <3> TAKE k \in 1 .. n
    <3>1. to(k) \in 1 .. n + 1 /\ (k < i => to(k) = k)
          /\ (~(k < i) => ~(to(k) < i) /\ to(k) # i /\ to(k) - 1 = k)
      BY <1>1, <2>4
    <3> HIDE DEF to
    <3> QED
      BY <2>6, <3>1
  <2>8. \A m \in 1 .. n + 1 : m = i \/ \E k \in 1 .. n : m = to(k)
    <3> TAKE m \in 1 .. n + 1
    <3>1. CASE m < i
      <4>1. m \in 1 .. n /\ to(m) = m
        BY <1>1, <2>4, <3>1
      <4> QED
        BY <4>1
    <3>2. CASE m > i
      <4>1. m - 1 \in 1 .. n /\ to(m - 1) = m
        BY <1>1, <2>4, <3>2
      <4> QED
        BY <4>1
    <3> QED
      BY <1>1, <2>4, <3>1, <3>2
  <2>9. payload'[i] = b
    BY <2>4, <2>6
  <2>10. DOMAIN payload' = 1 .. n + 1
    BY <1>1, <2>6
  <2>11. NewestStays'
    <3>1. PICK t \in TurnIndices : payload[t].says = {N} /\ \A j \in TurnIndices : j <= t
      BY DEF NewestStays
    <3>2. t \in 1 .. n /\ IsTurn(payload[t])
      BY <1>1 DEF TurnIndices
    <3>3. to(t) \in TurnIndices' /\ payload'[to(t)].says = {N}
      BY <2>7, <2>10, <3>1, <3>2 DEF TurnIndices
    <3>4. ASSUME NEW m \in TurnIndices'
          PROVE  m <= to(t)
      <4>1. m \in 1 .. n + 1 /\ IsTurn(payload'[m]) /\ m # i
        BY <2>3, <2>9, <2>10 DEF TurnIndices
      <4>2. PICK k \in 1 .. n : m = to(k)
        BY <2>8, <4>1
      <4>3. k \in TurnIndices
        BY <1>1, <2>7, <4>1, <4>2 DEF TurnIndices
      <4> QED
        BY <2>4, <3>1, <3>2, <4>2, <4>3
    <3> QED
      BY <3>3, <3>4 DEF NewestStays
  <2>12. Said(payload) \subseteq Said(payload')
    <3> HIDE DEF to
    <3> QED
      BY <1>1, <2>7, <2>10 DEF Said
  <2>13. ASSUME CallersLead
         PROVE  CallersLead'
    <3>1. /\ Callers <= n /\ Callers \in Nat
          /\ \A k \in 1 .. n : payload[k].who = "caller" <=> k <= Callers
          /\ \A k \in 1 .. Callers : Size(payload[k]) = CallerSize
      BY <1>1, <2>13, PromptAssumption DEF CallersLead
    <3>2. Callers < i
      <4>1. Callers \in 0 .. n /\ \A k \in 1 .. Callers : ~IsTurn(payload[k])
        BY <1>1, <3>1 DEF IsTurn, Owners
      <4>2. Callers \in leads
        BY <4>1
      <4> QED
        BY <2>1, <2>2, <3>1, <4>2 DEF i
    <3>3. \A k \in 1 .. Callers : k \in 1 .. n + 1 /\ payload'[k] = payload[k]
      BY <1>1, <2>4, <2>6, <3>1, <3>2
    <3>4. \A m \in 1 .. n + 1 : payload'[m].who = "caller" <=> m <= Callers
      <4> TAKE m \in 1 .. n + 1
      <4>1. CASE m = i
        BY <2>3, <2>4, <2>9, <3>1, <3>2, <4>1
      <4>2. CASE m # i
        <5>1. PICK k \in 1 .. n : m = to(k)
          BY <2>8, <4>2
        <5>2. payload'[m].who = "caller" <=> k <= Callers
          BY <2>7, <3>1, <5>1
        <5>3. k <= Callers <=> m <= Callers
          BY <2>4, <3>1, <3>2, <5>1
        <5> QED
          BY <5>2, <5>3
      <4> QED
        BY <4>1, <4>2
    <3>5. \A k \in 1 .. Callers : Size(payload'[k]) = CallerSize
      BY <3>1, <3>3
    <3>6. Callers <= Len(payload')
      BY <1>1, <2>6, <3>1
    <3> QED
      BY <2>10, <3>4, <3>5, <3>6 DEF CallersLead, Size
  <2> QED
    BY <2>6, <2>11, <2>12, <2>13
<1> QED
  BY <1>5, <1>6

----------------------------------------------------------------------------
(* What the kinds of step keep. *)

\* The system messages that lead are not the guard's to spend.
LEMMA CallersAreSpared ==
  ASSUME payload \in Seq(Msgs), CallersLead
  PROVE  /\ \A i \in Droppable : i > Callers
         /\ \A i \in TurnIndices : i > Callers
<1>1. /\ DOMAIN payload = 1 .. Len(payload) /\ Len(payload) \in Nat /\ Callers \in Nat
      /\ IsFiniteSet(Systems) /\ Systems \subseteq DOMAIN payload
      /\ TurnIndices \subseteq DOMAIN payload
  BY IndicesAre, PromptAssumption DEF Systems, TurnIndices
<1>2. ASSUME NEW i \in Droppable
      PROVE  i > Callers
  <2> DEFINE before == {j \in Systems : j < i}
  <2>1. i \in Systems /\ Cardinality(before) >= Protected /\ i \in 1 .. Len(payload)
    BY <1>1 DEF Droppable
  <2>2. before \subseteq 1 .. i - 1
    BY <1>1, <2>1
  <2>3. IsFiniteSet(1 .. i - 1) /\ Cardinality(1 .. i - 1) = i - 1
    <3> DEFINE m == i - 1
    <3>1. m \in Nat /\ m \in Int /\ 1 \in Int
      BY <1>1, <2>1
    <3> HIDE DEF m
    <3>2. /\ IsFiniteSet(1 .. m)
          /\ Cardinality(1 .. m) = IF 1 > m THEN 0 ELSE m - 1 + 1
      BY <3>1, FS_Interval
    <3>3. Cardinality(1 .. m) = m
      BY <3>1, <3>2
    <3> QED
      BY <3>2, <3>3 DEF m
  <2>4. Cardinality(before) <= i - 1 /\ Cardinality(before) \in Nat
    BY <2>2, <2>3, FS_Subset, FS_CardinalityType
  <2>5. Protected >= Callers /\ Protected \in Nat
    BY <1>1 DEF Protected
  <2> HIDE DEF before
  <2> QED
    BY <1>1, <2>1, <2>4, <2>5
<1>3. ASSUME NEW i \in TurnIndices
      PROVE  i > Callers
  <2>1. payload[i].who # "caller" /\ i \in 1 .. Len(payload)
    BY <1>1 DEF TurnIndices, IsTurn, Owners
  <2> QED
    BY <1>1, <2>1 DEF CallersLead
<1> QED
  BY <1>2, <1>3

LEMMA ShedSpares ==
  ASSUME payload \in Seq(Msgs), NEW gone, Sheds(gone)
  PROVE  /\ NewestStays => NewestStays'
         /\ NothingUnsaid => NothingUnsaid'
         /\ CallersLead => CallersLead'
<1>1. PICK from : IsWithout(payload', payload, gone, from)
  BY DEF Sheds
<1>2. gone \in SUBSET DOMAIN payload /\ payload' \in Seq(Msgs)
  BY DEF Sheds
<1>3. /\ \A k \in DOMAIN payload' :
            /\ from[k] \in DOMAIN payload \ gone /\ payload'[k] = payload[from[k]]
            /\ k \in TurnIndices' <=> from[k] \in TurnIndices
            /\ k \in Systems' <=> from[k] \in Systems
            /\ k \in Droppable' => from[k] \in Droppable
  BY <1>1, <1>2, WithoutIs
<1>4. /\ DOMAIN payload = 1 .. Len(payload) /\ DOMAIN payload' = 1 .. Len(payload')
      /\ Len(payload) \in Nat /\ Len(payload') \in Nat
  BY <1>2
<1>5. /\ \A j, k \in DOMAIN payload' : j < k => from[j] < from[k]
      /\ \A i \in DOMAIN payload \ gone : \E k \in DOMAIN payload' : from[k] = i
      /\ \A k \in DOMAIN payload' : (\A g \in gone : k < g) => from[k] = k
  BY <1>1 DEF IsWithout
<1>6. ASSUME NewestStays
      PROVE  NewestStays'
  <2>1. PICK i \in TurnIndices : payload[i].says = {N} /\ \A j \in TurnIndices : j <= i
    BY <1>6 DEF NewestStays
  <2>2. i \in DOMAIN payload \ gone
    <3>1. i \in DOMAIN payload /\ i \notin Systems
      BY DEF TurnIndices, Systems
    <3> QED
      BY <2>1, <3>1 DEF Sheds, Droppable
  <2>3. PICK k \in DOMAIN payload' : from[k] = i
    BY <1>5, <2>2
  <2>4. k \in TurnIndices' /\ payload'[k].says = {N}
    BY <1>3, <2>1, <2>3
  <2>5. ASSUME NEW j \in TurnIndices'
        PROVE  j <= k
    <3>1. j \in DOMAIN payload' /\ from[j] \in TurnIndices
      BY <1>3 DEF TurnIndices
    <3>2. from[j] \in Int /\ from[k] \in Int /\ j \in Int /\ k \in Int
      BY <1>3, <1>4, <3>1
    <3> QED
      BY <1>5, <2>1, <2>3, <3>1, <3>2
  <2> QED
    BY <2>4, <2>5 DEF NewestStays
<1>7. NothingUnsaid => NothingUnsaid'
  <2>1. Said(payload) \subseteq Said(payload') \union spent'.turns
    BY ShedKeeps
  <2>2. spent.turns \subseteq spent'.turns
    BY DEF Sheds
  <2> QED
    BY <2>1, <2>2 DEF NothingUnsaid, Said
<1>8. ASSUME CallersLead
      PROVE  CallersLead'
  <2>1. \A g \in gone : g > Callers /\ g \in Int
    BY <1>4, <1>8, CallersAreSpared DEF Sheds
  <2>2. Callers \in Nat /\ Callers <= Len(payload)
    BY <1>8, PromptAssumption DEF CallersLead
  <2>3. \A k \in 1 .. Callers : k \in DOMAIN payload \ gone
    BY <1>4, <2>1, <2>2
  <2>4. ASSUME NEW k \in 1 .. Callers
        PROVE  k \in DOMAIN payload' /\ from[k] = k
    <3>1. PICK m \in DOMAIN payload' : from[m] = k
      BY <1>5, <2>3
    <3>2. \A j \in DOMAIN payload' : j <= Callers => from[j] = j
      <4> TAKE j \in DOMAIN payload'
      <4>1. j \in Int
        BY <1>4
      <4> QED
        BY <1>5, <2>1, <2>2, <4>1
    <3>3. CASE m <= Callers
      BY <3>1, <3>2, <3>3
    <3>4. CASE ~(m <= Callers)
      <4>1. k \in DOMAIN payload'
        BY <1>4, <2>2, <3>1, <3>4
      <4>2. from[k] = k
        BY <3>2, <4>1
      <4> QED
        BY <4>1, <4>2
    <3> QED
      BY <3>3, <3>4
  <2>5. Callers <= Len(payload')
    <3>1. Callers > 0 => Callers \in 1 .. Callers
      BY <2>2
    <3> QED
      BY <1>4, <2>2, <2>4, <3>1
  <2>6. ASSUME NEW k \in DOMAIN payload'
        PROVE  payload'[k].who = "caller" <=> k <= Callers
    <3>1. CASE k <= Callers
      <4>1. k \in 1 .. Callers
        BY <1>4, <2>2, <3>1
      <4> QED
        BY <1>3, <1>8, <2>3, <2>4, <3>1, <4>1 DEF CallersLead
    <3>2. CASE ~(k <= Callers)
      <4>1. ~(from[k] <= Callers)
        <5>1. CASE Callers = 0
          BY <1>3, <1>4, <5>1
        <5>2. CASE Callers # 0
          <6>1. Callers \in 1 .. Callers
            BY <2>2, <5>2
          <6>2. from[Callers] = Callers /\ Callers \in DOMAIN payload' /\ Callers < k
            BY <1>4, <2>2, <2>4, <3>2, <6>1
          <6>3. from[Callers] < from[k] /\ from[k] \in Int
            BY <1>3, <1>4, <1>5, <6>2
          <6> QED
            BY <2>2, <6>2, <6>3
        <5> QED
          BY <5>1, <5>2
      <4> QED
        BY <1>3, <1>8, <3>2, <4>1 DEF CallersLead
    <3> QED
      BY <3>1, <3>2
  <2>7. \A k \in 1 .. Callers : Size(payload'[k]) = CallerSize
    <3> TAKE k \in 1 .. Callers
    <3>1. payload'[k] = payload[k]
      BY <1>3, <2>4
    <3> QED
      BY <1>8, <3>1 DEF CallersLead
  <2> QED
    BY <2>5, <2>6, <2>7 DEF CallersLead, Size
<1> QED
  BY <1>6, <1>7, <1>8

LEMMA CutSpares ==
  ASSUME payload \in Seq(Msgs), NEW i, Cuts(i)
  PROVE  /\ NewestStays => NewestStays'
         /\ NothingUnsaid => NothingUnsaid'
         /\ CallersLead => CallersLead'
<1>1. TurnIndices' = TurnIndices /\ Said(payload') = Said(payload)
  BY CutKeeps
<1>2. NewestStays => NewestStays'
  <2>1. \A k \in TurnIndices : payload'[k].says = payload[k].says
    BY DEF Cuts, TurnIndices
  <2> QED
    BY <1>1, <2>1 DEF NewestStays
<1>3. NothingUnsaid => NothingUnsaid'
  BY <1>1 DEF NothingUnsaid, Cuts, Said
<1>4. ASSUME CallersLead
      PROVE  CallersLead'
  <2>1. i > Callers /\ Callers \in Nat
    BY <1>4, CallersAreSpared, PromptAssumption DEF Cuts
  <2>2. Len(payload') = Len(payload) /\ DOMAIN payload = 1 .. Len(payload) /\ Len(payload) \in Nat
    BY DEF Cuts
  <2>3. \A k \in 1 .. Callers : k \in DOMAIN payload /\ k # i
    BY <1>4, <2>1, <2>2 DEF CallersLead
  <2>4. \A k \in 1 .. Callers : Size(payload'[k]) = Size(payload[k])
    BY <2>3 DEF Cuts
  <2> QED
    BY <1>4, <2>2, <2>4 DEF CallersLead, Cuts, Size
<1> QED
  BY <1>2, <1>3, <1>4

----------------------------------------------------------------------------
(* The steps of the guard. *)

LEMMA CostsAre ==
  ASSUME NEW p \in Seq(Msgs)
  PROVE  Costs(p) \in Nat /\ Locals(p) \in Nat /\ (Len(p) > 0 => Locals(p) > 0)
<1> DEFINE n == Len(p)
           costs == [i \in 1 .. n |-> p[i].cost]
           locals == [i \in 1 .. n |-> p[i].local]
<1>1. n \in Nat /\ DOMAIN p = 1 .. n /\ \A i \in 1 .. n : p[i] \in Msgs
  OBVIOUS
<1>2. costs \in [1 .. n -> Nat] /\ locals \in [1 .. n -> Nat \ {0}]
      /\ locals \in [1 .. n -> Nat]
  BY <1>1 DEF Msgs
<1>3. Costs(p) = Total(costs) /\ Locals(p) = Total(locals)
  BY <1>1 DEF Costs, Locals
<1> HIDE DEF costs, locals, n
<1>4. Total(costs) \in Nat /\ Total(locals) \in Nat /\ (n > 0 => Total(locals) > 0)
  BY <1>1, <1>2, TotalIs
<1> QED
  BY <1>3, <1>4 DEF n

LEMMA MeasuresIs ==
  ASSUME PromptTypes, NEW p \in Seq(Msgs), Measures(p)
  PROVE  /\ running' \in Nat /\ counted' \in {"exact", "local"}
         /\ counted' = "exact" => running' = Costs(p)
<1> DEFINE a == Locals(p)
           c == scale.cost
           d == scale.local
<1>1. Costs(p) \in Nat /\ a \in Nat /\ a <= a
  BY CostsAre
<1>2. c \in Nat /\ d \in Nat \ {0}
  BY DEF PromptTypes
<1>3. \/ running' = Costs(p) /\ counted' = "exact"
      \/ running' = (a * c) \div d /\ counted' = "local"
  BY DEF Measures
<1> HIDE DEF a, c, d
<1>4. (a * c) \div d \in Nat
  BY <1>1, <1>2, Share
<1> QED
  BY <1>1, <1>3, <1>4

LEMMA LastOfIs ==
  ASSUME payload \in Seq(Msgs)
  PROVE  /\ Droppable # {} => Max(Droppable) \in Droppable
         /\ Memory # {} => Max(Memory) \in Memory
         /\ Droppable \subseteq DOMAIN payload
<1>1. /\ DOMAIN payload = 1 .. Len(payload) /\ Len(payload) \in Nat
      /\ Droppable \subseteq DOMAIN payload /\ Memory \subseteq DOMAIN payload
  BY IndicesAre DEF Systems
<1>2. ASSUME NEW S \in SUBSET DOMAIN payload, S # {}
      PROVE  Max(S) \in S
  <2>1. S \in SUBSET Nat /\ \A n \in S : n <= Len(payload)
    BY <1>1
  <2> QED
    BY <1>1, <1>2, <2>1, MaxIs
<1> QED
  BY <1>1, <1>2

LEMMA TurnsAre ==
  ASSUME payload \in Seq(Msgs), NewestStays
  PROVE  TurnIndices # {} /\ Talks \in Nat \ {0} /\ Len(payload) > 0
<1>1. PICK i \in TurnIndices : TRUE
  BY DEF NewestStays
<1>2. IsFiniteSet(TurnIndices) /\ DOMAIN payload = 1 .. Len(payload)
  BY IndicesAre
<1>3. Talks # 0
  BY <1>1, <1>2, FS_EmptySet DEF Talks
<1>4. Len(payload) > 0
  BY <1>1, <1>2 DEF TurnIndices
<1> QED
  BY <1>1, <1>3, <1>4, IndicesAre

Round ==
    Owed \/ TrimMemory \/ DropMemory \/ DropTurns \/ Repair \/ Trim \/ Drop

Stays == payload' = payload /\ spent' = spent

LEMMA StaysKeeps ==
  ASSUME Stays
  PROVE  /\ TurnIndices' = TurnIndices /\ Droppable' = Droppable /\ Memory' = Memory
         /\ Talks' = Talks /\ Exchange' = Exchange
         /\ \A i : IsStandin(i)' <=> IsStandin(i)
         /\ \A w : Whole(w)' = Whole(w)
         /\ NewestStays => NewestStays'
         /\ NothingUnsaid => NothingUnsaid'
         /\ CallersLead => CallersLead'
<1>1. /\ TurnIndices' = TurnIndices /\ Systems' = Systems
      /\ \A i : IsStandin(i)' <=> IsStandin(i)
      /\ \A w : Whole(w)' = Whole(w)
  BY DEF Stays, TurnIndices, Systems, IsStandin, Whole
<1>2. Droppable' = Droppable
  BY <1>1 DEF Droppable, Protected
<1>3. Memory' = Memory
  BY <1>1, <1>2 DEF Memory
<1>4. Talks' = Talks /\ First' = First
  BY <1>1 DEF Talks, First
<1>5. Exchange' = Exchange
  BY <1>1, <1>4 DEF Stays, Exchange
<1>6. NewestStays => NewestStays'
  BY <1>1 DEF Stays, NewestStays
<1>7. NothingUnsaid => NothingUnsaid'
  BY DEF Stays, NothingUnsaid
<1>8. CallersLead => CallersLead'
  BY DEF Stays, CallersLead
<1> QED
  BY <1>1, <1>2, <1>3, <1>4, <1>5, <1>6, <1>7, <1>8

\* What a step of a round does, from the guard it passes.
LEMMA RoundIs ==
  ASSUME PromptTypes, NewestStays, Round
  PROVE  /\ pc \in InRound /\ pc' \in InRound \union {"verify"}
         /\ UNCHANGED <<recorded, stored, limit, line, round, scale, counted, standin>>
         /\ Stays \/ (\E gone : Sheds(gone)) \/ (\E i : Cuts(i))
         /\ running' \in Nat /\ running' <= running /\ trims' \in Nat
         /\ spent' \in [turns : SUBSET Turns, blocks : Nat]
<1>1. payload \in Seq(Msgs) /\ running \in Nat /\ trims \in Nat
      /\ spent \in [turns : SUBSET Turns, blocks : Nat]
  BY DEF PromptTypes
<1>2. TurnIndices # {} /\ Talks \in Nat \ {0}
  BY <1>1, TurnsAre
<1>3. Memory \subseteq Droppable /\ Droppable \subseteq DOMAIN payload
      /\ First \in DOMAIN payload
  BY <1>1, <1>2, IndicesAre, LastOfIs, ExchangeIs DEF TurnIndices
<1>4. CASE Owed
  <2>1. CASE Over /\ Talks - Exchange >= Recent
    <3>1. /\ Sheds(First .. First + Exchange - 1)
          /\ spent' \in [turns : SUBSET Turns, blocks : Nat]
          /\ running' \in Nat /\ running' <= running /\ pc' = pc
      BY <1>2, <1>4, <2>1, OwedIs
    <3>2. pc = "owed" /\ trims' = trims
          /\ UNCHANGED <<recorded, stored, limit, line, round, scale, counted, standin>>
      BY <1>4 DEF Owed, Ours
    <3> QED
      BY <1>1, <3>1, <3>2 DEF InRound
  <2>2. CASE ~(Over /\ Talks - Exchange >= Recent)
    BY <1>1, <1>4, <2>2 DEF Owed, Talks, Goes, Ours, Stays, InRound
  <2> QED
    BY <2>1, <2>2
<1>5. CASE TrimMemory
  <2>1. CASE Over /\ trims < MaxTrims /\ Trimmable(Memory) # {}
    <3>1. Trims(Memory) /\ spent' = spent /\ pc' = pc
      BY <1>5, <2>1 DEF TrimMemory
    <3> QED
      BY <1>1, <1>3, <1>5, <2>1, <3>1, TrimsIs DEF TrimMemory, Ours, InRound
  <2>2. CASE ~(Over /\ trims < MaxTrims /\ Trimmable(Memory) # {})
    BY <1>1, <1>5, <2>2 DEF TrimMemory, Goes, Ours, Stays, InRound
  <2> QED
    BY <2>1, <2>2
<1>6. CASE DropMemory
  <2>1. CASE Over /\ Memory # {}
    <3>1. Drops(Max(Memory)) /\ pc' = pc /\ Max(Memory) \in Droppable
      BY <1>1, <1>3, <1>6, <2>1, LastOfIs DEF DropMemory
    <3> QED
      BY <1>1, <1>3, <1>6, <3>1, DropsIs DEF DropMemory, Ours, InRound
  <2>2. CASE ~(Over /\ Memory # {})
    BY <1>1, <1>6, <2>2 DEF DropMemory, Goes, Ours, Stays, InRound
  <2> QED
    BY <2>1, <2>2
<1>7. CASE DropTurns
  <2>1. CASE Over /\ Talks > 1
    <3>1. Drops(First) /\ pc' = pc
      BY <1>7, <2>1 DEF DropTurns, Talks
    <3> QED
      BY <1>1, <1>3, <1>7, <2>1, <3>1, DropsIs DEF DropTurns, Ours, InRound
  <2>2. CASE ~(Over /\ Talks > 1)
    BY <1>1, <1>7, <2>2 DEF DropTurns, Talks, Goes, Ours, Stays, InRound
  <2> QED
    BY <2>1, <2>2
<1>8. CASE Repair
  <2>1. CASE Talks > 1 /\ payload[First].who # "user"
    <3>1. Drops(First) /\ pc' = pc
      BY <1>8, <2>1 DEF Repair, Talks
    <3> QED
      BY <1>1, <1>3, <1>8, <2>1, <3>1, DropsIs DEF Repair, Ours, InRound
  <2>2. CASE ~(Talks > 1 /\ payload[First].who # "user")
    BY <1>1, <1>8, <2>2 DEF Repair, Talks, Goes, Ours, Stays, InRound
  <2> QED
    BY <2>1, <2>2
<1>9. CASE Trim
  <2>1. CASE Over /\ trims < MaxTrims /\ Trimmable(Droppable) # {}
    <3>1. Trims(Droppable) /\ spent' = spent /\ pc' = pc
      BY <1>9, <2>1 DEF Trim
    <3> QED
      BY <1>1, <1>9, <2>1, <3>1, TrimsIs DEF Trim, Ours, InRound
  <2>2. CASE ~(Over /\ trims < MaxTrims /\ Trimmable(Droppable) # {})
    BY <1>1, <1>9, <2>2 DEF Trim, Goes, Ours, Stays, InRound
  <2> QED
    BY <2>1, <2>2
<1>10. CASE Drop
  <2>1. CASE Over /\ Droppable # {}
    <3>1. Drops(Max(Droppable)) /\ pc' = pc /\ Max(Droppable) \in Droppable
      BY <1>1, <1>10, <2>1, LastOfIs DEF Drop
    <3> QED
      BY <1>1, <1>3, <1>10, <3>1, DropsIs DEF Drop, Ours, InRound
  <2>2. CASE ~(Over /\ Droppable # {})
    BY <1>1, <1>10, <2>2 DEF Drop, Goes, Ours, Stays, InRound
  <2> QED
    BY <2>1, <2>2
<1> QED
  BY <1>4, <1>5, <1>6, <1>7, <1>8, <1>9, <1>10 DEF Round

LEMMA EscalateIs ==
  ASSUME PromptTypes, Escalate, Over /\ Droppable # {}
  PROVE  /\ \E gone : Sheds(gone) /\ gone \subseteq Droppable
         /\ spent' \in [turns : SUBSET Turns, blocks : Nat]
         /\ running' \in Nat /\ counted' \in {"exact", "local"} /\ pc' = pc
         /\ counted' = "exact" => running' = Costs(payload')
<1> DEFINE i == Max(Droppable)
<1>1. payload \in Seq(Msgs) /\ spent \in [turns : SUBSET Turns, blocks : Nat]
  BY DEF PromptTypes
<1>2. i \in Droppable /\ i \in DOMAIN payload
  BY <1>1, LastOfIs
<1>3. /\ payload' = RemoveAt(payload, i)
      /\ spent' = [turns |-> spent.turns \union payload[i].says, blocks |-> spent.blocks + 1]
      /\ Measures(RemoveAt(payload, i)) /\ pc' = pc
  BY DEF Escalate
<1> HIDE DEF i
<1>4. payload[i] \in Msgs
  BY <1>1, <1>2, IndicesAre
<1>5. payload' \in Seq(Msgs) /\ \E from : IsWithout(payload', payload, {i}, from)
  BY <1>1, <1>2, <1>3, RemoveAtIs
<1>6. spent' \in [turns : SUBSET Turns, blocks : Nat]
      /\ spent'.turns = spent.turns \union UNION {payload[g].says : g \in {i}}
  BY <1>1, <1>3, <1>4 DEF Msgs
<1>7. Sheds({i})
  BY <1>2, <1>5, <1>6 DEF Sheds
<1>8. /\ running' \in Nat /\ counted' \in {"exact", "local"}
      /\ counted' = "exact" => running' = Costs(payload')
  BY <1>3, <1>5, MeasuresIs
<1> QED
  BY <1>2, <1>3, <1>6, <1>7, <1>8

LEMMA ForcedIs ==
  ASSUME PromptTypes, Forced, Over /\ Droppable # {}
  PROVE  /\ \E gone : Sheds(gone) /\ gone \subseteq Droppable
         /\ spent' \in [turns : SUBSET Turns, blocks : Nat] /\ spent'.blocks > 0
         /\ running' \in Nat /\ pc' = pc
<1>1. payload \in Seq(Msgs)
  BY DEF PromptTypes
<1>2. Max(Droppable) \in Droppable /\ Max(Droppable) \in DOMAIN payload
  BY <1>1, LastOfIs
<1>3. Drops(Max(Droppable)) /\ pc' = pc
  BY DEF Forced
<1>4. /\ Sheds({Max(Droppable)}) /\ spent' \in [turns : SUBSET Turns, blocks : Nat]
      /\ spent'.blocks > 0 /\ running' \in Nat
  BY <1>2, <1>3, DropsIs
<1> QED
  BY <1>2, <1>3, <1>4

----------------------------------------------------------------------------
(* What is sent. *)

Shape ==
    /\ PromptTypes /\ AsRequested /\ NewestStays /\ NothingUnsaid
    /\ ~Late => CallersLead

LEMMA KindKeeps ==
  ASSUME payload \in Seq(Msgs),
         Stays \/ (\E gone : Sheds(gone)) \/ (\E i : Cuts(i))
  PROVE  /\ payload' \in Seq(Msgs)
         /\ NewestStays => NewestStays'
         /\ NothingUnsaid => NothingUnsaid'
         /\ CallersLead => CallersLead'
<1>1. CASE Stays
  BY <1>1, StaysKeeps DEF Stays
<1>2. CASE \E gone : Sheds(gone)
  BY <1>2, ShedSpares DEF Sheds
<1>3. CASE \E i : Cuts(i)
  BY <1>3, CutSpares DEF Cuts
<1> QED
  BY <1>1, <1>2, <1>3

LEMMA ShapeInit ==
  ASSUME Init
  PROVE  Shape
<1>1. PICK size \in Sizings : payload = Request(size)
  BY DEF Init
<1>2. /\ payload \in Seq(Msgs) /\ At(N) \in TurnIndices /\ N \in Turns
      /\ payload[At(N)].says = {N} /\ \A k \in TurnIndices : k <= At(N)
      /\ Turns \subseteq Said(payload)
      /\ ~Late => CallersLead
  BY <1>1, RequestedIs
<1>3. NewestStays /\ NothingUnsaid
  BY <1>2 DEF NewestStays, NothingUnsaid
<1>4. AsRequested
  BY <1>1 DEF AsRequested
<1>5. PromptTypes
  <2>1. limit \in Nat /\ line \in Nat
    BY PromptAssumption DEF Init
  <2>2. pc \in Places /\ recorded \in SUBSET Older /\ stored \in BOOLEAN /\ standin \in BOOLEAN
    BY DEF Init, Places, Begun
  <2>3. spent \in [turns : SUBSET Turns, blocks : Nat]
        /\ scale \in [cost : Nat, local : Nat \ {0}]
    BY DEF Init
  <2>4. round \in Nat /\ trims \in Nat /\ running \in Nat /\ counted = "none"
    BY DEF Init
  <2> QED
    BY <1>2, <2>1, <2>2, <2>3, <2>4 DEF PromptTypes
<1> QED
  BY <1>2, <1>3, <1>4, <1>5 DEF Shape

LEMMA ShapeStep ==
  ASSUME Shape, [Next]_vars
  PROVE  Shape'
<1>1. /\ PromptTypes /\ NewestStays /\ NothingUnsaid /\ payload \in Seq(Msgs)
      /\ ~Late => CallersLead
  BY DEF Shape, PromptTypes
<1>2. ASSUME Stays \/ (\E gone : Sheds(gone)) \/ (\E i : Cuts(i)),
             pc' # "compact",
             recorded' = recorded /\ stored' = stored /\ limit' = limit,
             line' \in Nat, pc' \in Places, round' \in Nat, trims' \in Nat, running' \in Nat,
             scale' \in [cost : Nat, local : Nat \ {0}],
             counted' \in {"none", "prescreen", "exact", "local"}, standin' \in BOOLEAN,
             spent' \in [turns : SUBSET Turns, blocks : Nat]
      PROVE  Shape'
  <2>1. /\ payload' \in Seq(Msgs) /\ NewestStays' /\ NothingUnsaid'
        /\ ~Late => CallersLead'
    BY <1>1, <1>2, KindKeeps
  <2>2. PromptTypes'
    BY <1>1, <1>2, <2>1 DEF PromptTypes
  <2> QED
    BY <1>2, <2>1, <2>2 DEF Shape, AsRequested
<1>3. CASE Compact
  <2>1. /\ payload' \in Seq(Msgs) /\ NewestStays' /\ Turns \subseteq Said(payload')
        /\ ~Late => CallersLead'
    BY <1>3, CompactIs DEF Shape
  <2>2. NothingUnsaid'
    BY <2>1 DEF NothingUnsaid, Said
  <2>3. pc' = "inject" /\ stored' \in BOOLEAN /\ UNCHANGED <<recorded, limit, line, guard>>
    <3>1. (CoveragePlan(recorded \intersect Older).covered > 0) \in BOOLEAN
      OBVIOUS
    <3>2. stored' \in BOOLEAN
      BY <1>3, <3>1 DEF Compact
    <3> QED
      BY <1>3, <3>2 DEF Compact
  <2>4. PromptTypes'
    BY <1>1, <2>1, <2>3 DEF PromptTypes, guard, Places, Begun
  <2> QED
    BY <2>1, <2>2, <2>3, <2>4 DEF Shape, AsRequested
<1>4. CASE CompactNot
  BY <1>1, <1>2, <1>4 DEF CompactNot, guard, Stays, PromptTypes, Places, Begun
<1>5. CASE Inject
  <2>1. /\ payload' \in Seq(Msgs) /\ NewestStays' /\ Said(payload) \subseteq Said(payload')
        /\ ~Late => CallersLead'
    BY <1>1, <1>5, InjectIs
  <2>2. pc' = "count" /\ UNCHANGED <<recorded, stored, limit, line, guard>>
    BY <1>5 DEF Inject
  <2>3. NothingUnsaid'
    BY <1>1, <2>1, <2>2 DEF NothingUnsaid, Said, guard
  <2>4. PromptTypes'
    BY <1>1, <2>1, <2>2 DEF PromptTypes, guard, Places, Begun
  <2> QED
    BY <2>1, <2>2, <2>3, <2>4 DEF Shape, AsRequested
<1>6. CASE Prescreen
  BY <1>1, <1>2, <1>6 DEF Prescreen, Goes, Ours, Stays, PromptTypes, Places
<1>7. CASE Count
  <2>1. Costs(payload) \in Nat /\ Locals(payload) \in Nat \ {0}
    BY <1>1, CostsAre, TurnsAre
  <2>2. /\ running' \in Nat /\ counted' \in {"exact", "local"}
        /\ scale' \in [cost : Nat, local : Nat \ {0}]
    BY <1>7, <2>1 DEF Count
  <2>3. pc' \in {"line", "round"} /\ Stays
        /\ UNCHANGED <<recorded, stored, limit, line, round, trims, standin, spent>>
    BY <1>7 DEF Count, Goes, Ours, Stays
  <2> QED
    BY <1>1, <1>2, <2>2, <2>3 DEF PromptTypes, Places
<1>8. CASE NextRound
  <2>1. round' \in Nat /\ standin' \in BOOLEAN /\ pc' \in {"owed", "turns"} /\ Stays
        /\ UNCHANGED <<recorded, stored, limit, line, trims, scale, running, counted, spent>>
    BY <1>1, <1>8 DEF NextRound, Goes, Ours, Stays, PromptTypes
  <2> QED
    BY <1>1, <1>2, <2>1 DEF PromptTypes, Places, InRound
<1>9. CASE Round
  <2>1. /\ pc \in InRound /\ pc' \in InRound \union {"verify"}
        /\ UNCHANGED <<recorded, stored, limit, line, round, scale, counted, standin>>
        /\ Stays \/ (\E gone : Sheds(gone)) \/ (\E i : Cuts(i))
        /\ running' \in Nat /\ trims' \in Nat
        /\ spent' \in [turns : SUBSET Turns, blocks : Nat]
    BY <1>1, <1>9, RoundIs
  <2>2. pc' # "compact" /\ pc' \in Places
    BY <2>1 DEF InRound, Places
  <2> QED
    BY <1>1, <1>2, <2>1, <2>2 DEF PromptTypes
<1>10. CASE Verify
  <2>1. running' \in Nat /\ counted' \in {"exact", "local"}
    BY <1>1, <1>10, MeasuresIs DEF Verify
  <2>2. pc' \in {"line", "round", "forced"}
    BY <1>10 DEF Verify, Goes, AfterVerify
  <2> QED
    BY <1>1, <1>2, <1>10, <2>1, <2>2 DEF Verify, Ours, Stays, PromptTypes, Places
<1>11. CASE Forced
  <2>1. pc = "forced" /\ UNCHANGED <<recorded, stored, limit, line, round, trims, scale, counted, standin>>
    BY <1>11 DEF Forced, Ours
  <2>2. CASE Over /\ Droppable # {}
    <3>1. /\ \E gone : Sheds(gone)
          /\ spent' \in [turns : SUBSET Turns, blocks : Nat] /\ running' \in Nat /\ pc' = pc
      BY <1>1, <1>11, <2>2, ForcedIs
    <3> QED
      BY <1>1, <1>2, <2>1, <3>1 DEF PromptTypes, Places
  <2>3. CASE ~(Over /\ Droppable # {})
    BY <1>1, <1>2, <1>11, <2>1, <2>3 DEF Forced, Goes, Stays, PromptTypes, Places
  <2> QED
    BY <2>2, <2>3
<1>12. CASE Settle
  <2>1. running' \in Nat /\ counted' \in {"none", "prescreen", "exact", "local"}
    <3>1. CASE spent.blocks > 0
      BY <1>1, <1>12, <3>1, MeasuresIs DEF Settle
    <3>2. CASE ~(spent.blocks > 0)
      BY <1>1, <1>12, <3>2 DEF Settle, PromptTypes
    <3> QED
      BY <3>1, <3>2
  <2> QED
    BY <1>1, <1>2, <1>12, <2>1 DEF Settle, Goes, Ours, Stays, PromptTypes, Places
<1>13. CASE Escalate
  <2>1. pc = "escalate" /\ UNCHANGED <<recorded, stored, limit, line, round, trims, scale, standin>>
    BY <1>13 DEF Escalate, Ours
  <2>2. CASE Over /\ Droppable # {}
    <3>1. /\ \E gone : Sheds(gone)
          /\ spent' \in [turns : SUBSET Turns, blocks : Nat]
          /\ running' \in Nat /\ counted' \in {"exact", "local"} /\ pc' = pc
      BY <1>1, <1>13, <2>2, EscalateIs
    <3> QED
      BY <1>1, <1>2, <2>1, <3>1 DEF PromptTypes, Places
  <2>3. CASE ~(Over /\ Droppable # {})
    BY <1>1, <1>2, <1>13, <2>1, <2>3 DEF Escalate, Goes, Stays, PromptTypes, Places
  <2> QED
    BY <2>2, <2>3
<1>14. CASE AddLine
  BY <1>1, <1>2, <1>14 DEF AddLine, Goes, guard, Stays, PromptTypes, Places
<1>15. CASE UNCHANGED vars
  <2>1. Stays /\ UNCHANGED <<recorded, payload, stored, limit, line, pc, round, trims, scale,
                             running, counted, standin, spent>>
    BY <1>15 DEF vars, guard, Stays
  <2>2. NewestStays' /\ NothingUnsaid' /\ (CallersLead => CallersLead')
    BY <1>1, <2>1, StaysKeeps
  <2>3. PromptTypes'
    BY <1>1, <2>1 DEF PromptTypes
  <2>4. AsRequested'
    BY <2>1 DEF Shape, AsRequested
  <2> QED
    BY <1>1, <2>2, <2>3, <2>4 DEF Shape
<1> QED
  BY <1>3, <1>4, <1>5, <1>6, <1>7, <1>8, <1>9, <1>10, <1>11, <1>12, <1>13, <1>14, <1>15
     DEF Next, Round

LEMMA ShapeInvariance ==
  Spec => []Shape
<1>1. Init => Shape
  BY ShapeInit
<1>2. Shape /\ [Next]_vars => Shape'
  BY ShapeStep
<1> QED
  BY <1>1, <1>2, PTL DEF Spec

----------------------------------------------------------------------------
(* What is certified. *)

\* The payload was measured as it is.
Measured == Certified /\ CertifiedFits

LEMMA MeasuredStep ==
  ASSUME Shape, Measured, [Next]_vars
  PROVE  Measured'
<1>1. /\ PromptTypes /\ NewestStays /\ payload \in Seq(Msgs)
      /\ limit \in Nat /\ line \in Nat /\ running \in Nat /\ Costs(payload) \in Nat
      /\ Certified /\ CertifiedFits
  BY CostsAre DEF Shape, PromptTypes, Measured
<1>2. ASSUME counted' = counted, pc' \in InRound \union {"verify"}, pc \notin Begun \union {"line", "sent"}
      PROVE  Measured'
  BY <1>1, <1>2 DEF Certified, CertifiedFits, Measured, InRound, Begun
<1>3. CASE Compact \/ CompactNot \/ Inject
  <2>1. pc \in Begun /\ pc' \in Begun /\ counted' = counted
    BY <1>3 DEF Compact, CompactNot, Inject, Begun, guard
  <2> QED
    BY <1>1, <2>1 DEF Certified, CertifiedFits, Measured, Begun
<1>4. CASE Prescreen
  <2>1. /\ 2 * Costs(payload) <= Room /\ counted' = "prescreen" /\ running' = 0
        /\ pc' = "line" /\ payload' = payload /\ limit' = limit /\ line' = line
    BY <1>4 DEF Prescreen, SmallEnough, Goes, Ours
  <2>2. Costs(payload)' <= Room'
    BY <1>1, <2>1 DEF Room
  <2> QED
    BY <2>1, <2>2 DEF Certified, CertifiedFits, Measured
<1>5. CASE Count
  <2>1. /\ pc' \in {"line", "round"} /\ counted' \in {"exact", "local"}
        /\ counted' = "exact" => running' = Costs(payload)
        /\ payload' = payload
    BY <1>5 DEF Count, Goes
  <2> QED
    BY <2>1 DEF Certified, CertifiedFits, Measured
<1>6. CASE NextRound
  <2>1. pc = "round" /\ pc' \in {"owed", "turns"} /\ counted' = counted
    BY <1>6 DEF NextRound, Goes
  <2> QED
    BY <1>2, <2>1 DEF InRound, Begun
<1>7. CASE Round
  <2>1. pc \in InRound /\ pc' \in InRound \union {"verify"} /\ counted' = counted
    BY <1>1, <1>7, RoundIs
  <2> QED
    BY <1>2, <2>1 DEF InRound, Begun
<1>8. CASE Verify
  <2>1. /\ pc' \in {"line", "round", "forced"} /\ counted' \in {"exact", "local"}
        /\ counted' = "exact" => running' = Costs(payload)
        /\ payload' = payload
    BY <1>1, <1>8, MeasuresIs DEF Verify, Goes, AfterVerify
  <2> QED
    BY <2>1 DEF Certified, CertifiedFits, Measured
<1>9. CASE Forced
  <2>1. pc = "forced" /\ counted' = counted /\ counted \in {"exact", "local"}
    BY <1>1, <1>9 DEF Forced, Certified, PromptTypes, Begun
  <2>2. CASE Over /\ Droppable # {}
    <3>1. spent'.blocks > 0 /\ pc' = "forced" /\ spent' \in [turns : SUBSET Turns, blocks : Nat]
      BY <1>1, <1>9, <2>1, <2>2, ForcedIs
    <3> QED
      BY <2>1, <3>1 DEF Certified, CertifiedFits, Measured, Begun
  <2>3. CASE ~(Over /\ Droppable # {})
    BY <1>1, <1>9, <2>1, <2>3 DEF Forced, Goes, Certified, CertifiedFits, Measured, Begun
  <2> QED
    BY <2>2, <2>3
<1>10. CASE Settle
  <2>1. pc = "settle" /\ counted \in {"exact", "local"} /\ pc' = "escalate" /\ payload' = payload
        /\ spent.blocks \in Nat
    BY <1>1, <1>10 DEF Settle, Goes, Certified, PromptTypes, Begun
  <2>2. CASE spent.blocks > 0
    <3>1. /\ counted' \in {"exact", "local"}
          /\ counted' = "exact" => running' = Costs(payload)
      BY <1>1, <1>10, <2>2, MeasuresIs DEF Settle
    <3> QED
      BY <2>1, <3>1 DEF Certified, CertifiedFits, Measured
  <2>3. CASE ~(spent.blocks > 0)
    BY <1>1, <1>10, <2>1, <2>3 DEF Settle, Certified, CertifiedFits, Measured
  <2> QED
    BY <2>2, <2>3
<1>11. CASE Escalate
  <2>1. pc = "escalate" /\ counted \in {"exact", "local"}
    BY <1>1, <1>11 DEF Escalate, Certified, PromptTypes, Begun
  <2>2. CASE Over /\ Droppable # {}
    <3>1. /\ counted' \in {"exact", "local"} /\ pc' = "escalate"
          /\ counted' = "exact" => running' = Costs(payload')
      BY <1>1, <1>11, <2>1, <2>2, EscalateIs
    <3> QED
      BY <3>1 DEF Certified, CertifiedFits, Measured
  <2>3. CASE ~(Over /\ Droppable # {})
    BY <1>1, <1>11, <2>1, <2>3 DEF Escalate, Goes, Certified, CertifiedFits, Measured
  <2> QED
    BY <2>2, <2>3
<1>12. CASE AddLine
  <2>1. /\ pc = "line" /\ pc' = "sent" /\ line' = IF Over THEN 0 ELSE line
        /\ UNCHANGED <<payload, limit, running, counted>>
    BY <1>12 DEF AddLine, Goes, guard
  <2>2. counted # "none"
    BY <1>1, <2>1 DEF Certified, Begun
  <2>3. ASSUME ~Over', counted # "local"
        PROVE  (Costs(payload) + line <= limit)'
    <3>1. /\ counted = "exact" => running = Costs(payload)
          /\ counted = "prescreen" => running = 0 /\ Costs(payload) <= limit - line
      BY <1>1, <2>1 DEF Certified, Room
    <3>2. counted \in {"exact", "prescreen"}
      BY <1>1, <2>2, <2>3 DEF PromptTypes
    <3>3. line' \in Nat /\ line' <= line /\ running <= limit - line'
      BY <1>1, <2>1, <2>3 DEF Over, Room
    <3> QED
      BY <1>1, <2>1, <3>1, <3>2, <3>3
  <2> QED
    BY <2>1, <2>2, <2>3 DEF Certified, CertifiedFits, Measured
<1>13. CASE UNCHANGED vars
  <2>1. UNCHANGED <<payload, limit, line, pc, running, counted, spent>>
    BY <1>13 DEF vars, guard
  <2> QED
    BY <1>1, <2>1 DEF Certified, CertifiedFits, Measured, Over, Room
<1> QED
  BY <1>3, <1>4, <1>5, <1>6, <1>7, <1>8, <1>9, <1>10, <1>11, <1>12, <1>13
     DEF Next, Round

----------------------------------------------------------------------------
(* What is left where nothing fits. *)

Spent == Resort /\ FailsEmptyHanded

LEMMA SpentStep ==
  ASSUME Shape, Measured, Spent, [Next]_vars
  PROVE  Spent'
<1>1. /\ PromptTypes /\ NewestStays /\ payload \in Seq(Msgs)
      /\ limit \in Nat /\ line \in Nat /\ running \in Nat /\ round \in Nat
      /\ Costs(payload) \in Nat /\ Talks \in Nat \ {0} /\ Rounds \in Nat \ {0}
      /\ Resort /\ FailsEmptyHanded
  BY CostsAre, TurnsAre, PromptAssumption DEF Shape, PromptTypes, Spent
<1>2. ASSUME round' = round, pc' \in InRound \union {"verify"}, pc \notin Begun
      PROVE  Spent'
  BY <1>1, <1>2 DEF Resort, FailsEmptyHanded, Spent, InRound, Begun
<1>3. CASE Compact \/ CompactNot \/ Inject
  <2>1. pc \in Begun /\ pc' \in Begun /\ round' = round
    BY <1>3 DEF Compact, CompactNot, Inject, Begun, guard
  <2> QED
    BY <1>1, <2>1 DEF Resort, FailsEmptyHanded, Spent, Begun
<1>4. CASE Prescreen
  <2>1. /\ 2 * Costs(payload) <= Room /\ running' = 0 /\ pc = "count"
        /\ pc' = "line" /\ round' = round /\ limit' = limit /\ line' = line
    BY <1>4 DEF Prescreen, SmallEnough, Goes, Ours
  <2>2. ~Over' /\ round = 0
    BY <1>1, <2>1 DEF Room, Over, Resort, Begun
  <2> QED
    BY <1>1, <2>1, <2>2 DEF Resort, FailsEmptyHanded, Spent, Begun
<1>5. CASE Count
  <2>1. /\ pc' = (IF running' <= Room THEN "line" ELSE "round")
        /\ round' = round /\ limit' = limit /\ line' = line /\ pc = "count"
    BY <1>5 DEF Count, Goes, Ours
  <2>2. running' \in Nat
    BY ShapeStep DEF Shape, PromptTypes
  <2>3. round = 0 /\ (pc' = "line" => ~Over')
    BY <1>1, <2>1, <2>2 DEF Room, Over, Resort, Begun
  <2> QED
    BY <1>1, <2>1, <2>3 DEF Resort, FailsEmptyHanded, Spent, Begun
<1>6. CASE NextRound
  <2>1. pc = "round" /\ pc' \in {"owed", "turns"} /\ round' = round + 1
    BY <1>6 DEF NextRound, Goes
  <2>2. round' <= Rounds
    BY <1>1, <2>1 DEF Resort
  <2> QED
    BY <2>1, <2>2 DEF Resort, FailsEmptyHanded, Spent, Begun
<1>7. CASE Round
  <2>1. pc \in InRound /\ pc' \in InRound \union {"verify"} /\ round' = round
    BY <1>1, <1>7, RoundIs
  <2> QED
    BY <1>2, <2>1 DEF InRound, Begun
<1>8. CASE Verify
  <2>1. /\ pc' = AfterVerify(running') /\ payload' = payload /\ spent' = spent
        /\ round' = round /\ limit' = limit /\ line' = line /\ pc = "verify"
    BY <1>8 DEF Verify, Goes, Ours
  <2>2. Talks' = Talks /\ Droppable' = Droppable
    BY <2>1, StaysKeeps DEF Stays
  <2>3. running' \in Nat
    BY ShapeStep DEF Shape, PromptTypes
  <2>4. /\ pc' \in {"line", "round", "forced"} /\ (pc' = "line" => ~Over')
        /\ pc' = "round" => round < Rounds
        /\ pc' = "forced" => ~(Sheddable /\ round < Rounds)
    BY <1>1, <2>1, <2>3 DEF AfterVerify, Room, Over
  <2>5. pc' = "forced" => Talks <= 1 \/ round = Rounds
    BY <1>1, <2>4 DEF Sheddable, Talks, Resort
  <2> QED
    BY <1>1, <2>1, <2>2, <2>4, <2>5 DEF Resort, FailsEmptyHanded, Spent, Begun
<1>9. CASE Forced
  <2>1. /\ pc = "forced" /\ pc' \in {"forced", "settle"} /\ round' = round
        /\ Talks <= 1 \/ round = Rounds
    BY <1>1, <1>9 DEF Forced, Goes, Resort
  <2>2. Talks' = Talks
    <3>1. CASE Over /\ Droppable # {}
      BY <1>1, <1>9, <3>1, ForcedIs, ShedKeeps
    <3>2. CASE ~(Over /\ Droppable # {})
      BY <1>9, <3>2, StaysKeeps DEF Forced, Stays
    <3> QED
      BY <3>1, <3>2
  <2> QED
    BY <1>1, <2>1, <2>2 DEF Resort, FailsEmptyHanded, Spent, Begun
<1>10. CASE Settle
  <2>1. /\ pc = "settle" /\ pc' = "escalate" /\ round' = round
        /\ Talks <= 1 \/ round = Rounds
    BY <1>1, <1>10 DEF Settle, Goes, Resort
  <2>2. Talks' = Talks
    BY <1>10, StaysKeeps DEF Settle, Stays
  <2> QED
    BY <1>1, <2>1, <2>2 DEF Resort, FailsEmptyHanded, Spent, Begun
<1>11. CASE Escalate
  <2>1. /\ pc = "escalate" /\ round' = round /\ limit' = limit /\ line' = line
        /\ Talks <= 1 \/ round = Rounds
    BY <1>1, <1>11 DEF Escalate, Resort, Ours
  <2>2. CASE Over /\ Droppable # {}
    <3>1. pc' = "escalate" /\ Talks' = Talks
      BY <1>1, <1>11, <2>1, <2>2, EscalateIs, ShedKeeps
    <3> QED
      BY <1>1, <2>1, <3>1 DEF Resort, FailsEmptyHanded, Spent, Begun
  <2>3. CASE ~(Over /\ Droppable # {})
    <3>1. pc' = "line" /\ Stays /\ running' = running
      BY <1>11, <2>3 DEF Escalate, Goes, Stays
    <3>2. Talks' = Talks /\ Droppable' = Droppable /\ (Over' <=> Over)
      BY <2>1, <3>1, StaysKeeps DEF Over, Room
    <3> QED
      BY <1>1, <2>1, <2>3, <3>1, <3>2 DEF Resort, FailsEmptyHanded, Spent, Begun
  <2> QED
    BY <2>2, <2>3
<1>12. CASE AddLine
  <2>1. /\ pc = "line" /\ pc' = "sent" /\ line' = (IF Over THEN 0 ELSE line) /\ Stays
        /\ UNCHANGED <<limit, running, round>>
    BY <1>12 DEF AddLine, Goes, guard, Stays
  <2>2. Talks' = Talks /\ Droppable' = Droppable
    BY <2>1, StaysKeeps
  <2>3. Over' => Over
    BY <1>1, <2>1 DEF Over, Room
  <2> QED
    BY <1>1, <2>1, <2>2, <2>3 DEF Resort, FailsEmptyHanded, Spent, Begun, Talks
<1>13. CASE UNCHANGED vars
  <2>1. Stays /\ UNCHANGED <<limit, line, pc, running, round>>
    BY <1>13 DEF vars, guard, Stays
  <2>2. Talks' = Talks /\ Droppable' = Droppable /\ (Over' <=> Over)
    BY <2>1, StaysKeeps DEF Over, Room
  <2> QED
    BY <1>1, <2>1, <2>2 DEF Resort, FailsEmptyHanded, Spent, Begun, Talks
<1> QED
  BY <1>3, <1>4, <1>5, <1>6, <1>7, <1>8, <1>9, <1>10, <1>11, <1>12, <1>13
     DEF Next, Round

----------------------------------------------------------------------------
(* What is shed first. *)

\* A step of a round that changes the stand-in or memory.
Valued ==
    /\ Whole("standin") # Whole("standin")' => Talks = 1 /\ Memory = {}
    /\ Whole("memory") # Whole("memory")' =>
            IF standin THEN Talks - Exchange < Recent ELSE Talks = 1

LEMMA TurnsGo ==
  ASSUME payload \in Seq(Msgs), NEW gone, Sheds(gone), gone \subseteq TurnIndices
  PROVE  Whole("standin")' = Whole("standin") /\ Whole("memory")' = Whole("memory")
<1>1. \A g \in gone : payload[g].who # "standin" /\ payload[g].who # "memory"
  BY DEF TurnIndices, IsTurn, Owners
<1> QED
  BY <1>1, ShedKeeps

LEMMA ByValueRound ==
  ASSUME PromptTypes, NewestStays, ByValue, Round
  PROVE  ByValue' /\ Valued
<1>1. /\ payload \in Seq(Msgs) /\ running \in Nat /\ limit \in Nat /\ line \in Nat
      /\ Talks \in Nat \ {0} /\ Recent \in Nat /\ TurnIndices # {} /\ standin \in BOOLEAN
  BY TurnsAre, PromptAssumption DEF PromptTypes
<1>2. /\ First \in TurnIndices /\ First \in DOMAIN payload
      /\ Exchange \in {1, 2} /\ First .. First + Exchange - 1 \subseteq TurnIndices
      /\ Memory \subseteq Droppable /\ Droppable \subseteq DOMAIN payload
  BY <1>1, ExchangeIs, IndicesAre, LastOfIs DEF TurnIndices
<1>3. /\ pc \in InRound /\ pc' \in InRound \union {"verify"}
      /\ standin' = standin /\ limit' = limit /\ line' = line
      /\ running' \in Nat /\ running' <= running
  BY RoundIs
<1>4. Over' => Over
  BY <1>1, <1>3 DEF Over, Room
<1>5. ~standin => \A i \in Droppable : ~IsStandin(i)
  BY <1>3 DEF ByValue
<1>6. ASSUME NEW gone, Sheds(gone)
      PROVE  /\ Talks' <= Talks /\ (gone \subseteq Droppable => Talks' = Talks)
             /\ Talks' \in Nat /\ Exchange' \in {1, 2}
             /\ Memory = {} => Memory' = {}
             /\ ~standin => \A i \in Droppable' : ~IsStandin(i)'
             /\ gone \subseteq Droppable => Exchange' >= Exchange
             /\ \A w : (\A g \in gone : payload[g].who # w) => Whole(w)' = Whole(w)
  BY <1>1, <1>5, <1>6, ShedKeeps DEF Exchange
<1>7. ASSUME NEW i, Cuts(i)
      PROVE  /\ Droppable' = Droppable /\ Memory' = Memory
             /\ Talks' = Talks /\ Exchange' = Exchange
             /\ ~standin => \A k \in Droppable' : ~IsStandin(k)'
             /\ \A w : payload[i].who # w => Whole(w)' = Whole(w)
  BY <1>1, <1>5, <1>7, CutKeeps
<1>8. ASSUME Stays
      PROVE  /\ Droppable' = Droppable /\ Memory' = Memory
             /\ Talks' = Talks /\ Exchange' = Exchange
             /\ ~standin => \A k \in Droppable' : ~IsStandin(k)'
             /\ Valued
  BY <1>5, <1>8, StaysKeeps DEF Valued
<1>9. \A i \in Memory : payload[i].who # "standin"
  BY DEF Memory, IsStandin
<1>10. \A i \in Droppable : payload[i].who = "standin" \/ i \in Memory
  BY DEF Memory, IsStandin
<1>11. CASE Owed
  <2>1. CASE Over /\ Talks - Exchange >= Recent
    <3>1. Sheds(First .. First + Exchange - 1) /\ pc' = pc /\ pc = "owed"
      BY <1>1, <1>11, <2>1, OwedIs DEF Owed
    <3>2. Valued
      BY <1>1, <1>2, <3>1, TurnsGo DEF Valued
    <3>3. standin
      BY <3>1 DEF ByValue
    <3> QED
      BY <1>3, <3>1, <3>2, <3>3 DEF ByValue
  <2>2. CASE ~(Over /\ Talks - Exchange >= Recent)
    <3>1. Stays /\ pc' = "trimMemory" /\ standin /\ running' = running
      BY <1>11, <2>2 DEF Owed, Talks, Goes, Stays, ByValue
    <3>2. Talks' = Talks /\ Exchange' = Exchange /\ Valued
      BY <1>8, <3>1
    <3>3. Over => Talks - Exchange < Recent
      BY <1>1, <1>2, <2>2
    <3> QED
      BY <1>3, <1>4, <3>1, <3>2, <3>3 DEF ByValue
  <2> QED
    BY <2>1, <2>2
<1>12. CASE TrimMemory
  <2>0. pc = "trimMemory" /\ standin /\ (Over => Talks - Exchange < Recent)
    BY <1>12 DEF TrimMemory, ByValue
  <2>1. CASE Over /\ trims < MaxTrims /\ Trimmable(Memory) # {}
    <3>1. Trims(Memory) /\ spent' = spent /\ pc' = pc
      BY <1>12, <2>1 DEF TrimMemory
    <3>2. PICK i \in Memory : Cuts(i)
      BY <1>2, <2>1, <3>1, TrimsIs
    <3>3. Talks' = Talks /\ Exchange' = Exchange /\ Whole("standin")' = Whole("standin")
      BY <1>7, <1>9, <3>2
    <3> QED
      BY <1>3, <1>4, <2>0, <2>1, <3>1, <3>3 DEF ByValue, Valued
  <2>2. CASE ~(Over /\ trims < MaxTrims /\ Trimmable(Memory) # {})
    <3>1. Stays /\ pc' = "dropMemory"
      BY <1>12, <2>2 DEF TrimMemory, Goes, Stays
    <3> QED
      BY <1>3, <1>4, <1>8, <2>0, <3>1 DEF ByValue
  <2> QED
    BY <2>1, <2>2
<1>13. CASE DropMemory
  <2>0. pc = "dropMemory" /\ standin /\ (Over => Talks - Exchange < Recent)
    BY <1>13 DEF DropMemory, ByValue
  <2>1. CASE Over /\ Memory # {}
    <3>1. Drops(Max(Memory)) /\ pc' = pc /\ Max(Memory) \in Memory
      BY <1>1, <1>13, <2>1, LastOfIs DEF DropMemory
    <3> DEFINE i == Max(Memory)
    <3> HIDE DEF i
    <3>2. i \in Memory /\ Sheds({i}) /\ {i} \subseteq Droppable
      BY <1>2, <3>1, DropsIs DEF i
    <3>3. Talks' = Talks /\ Exchange' >= Exchange /\ Exchange' \in {1, 2}
          /\ Whole("standin")' = Whole("standin")
      BY <1>6, <1>9, <3>2
    <3>4. Over' => Talks' - Exchange' < Recent
      <4>1. \A t, u \in Nat, e, f \in {1, 2} :
                t - e < Recent /\ u = t /\ f >= e => u - f < Recent
        BY <1>1
      <4>2. Over' => Talks - Exchange < Recent
        BY <1>4, <2>0
      <4>3. Talks \in Nat /\ Talks' \in Nat
        BY <1>1, <3>3
      <4> QED
        BY <1>2, <3>3, <4>1, <4>2, <4>3
    <3> QED
      BY <1>3, <2>0, <2>1, <3>1, <3>3, <3>4 DEF ByValue, Valued
  <2>2. CASE ~(Over /\ Memory # {})
    <3>1. Stays /\ pc' = "turns"
      BY <1>13, <2>2 DEF DropMemory, Goes, Stays
    <3>2. Over' => Memory' = {}
      BY <1>4, <1>8, <2>2, <3>1
    <3> QED
      BY <1>3, <1>8, <2>0, <3>1, <3>2 DEF ByValue
  <2> QED
    BY <2>1, <2>2
<1>14. CASE DropTurns
  <2>0. pc = "turns" /\ (standin /\ Over => Memory = {})
    BY <1>14 DEF DropTurns, ByValue
  <2>1. CASE Over /\ Talks > 1
    <3>1. Drops(First) /\ pc' = pc
      BY <1>14, <2>1 DEF DropTurns, Talks
    <3>2. Sheds({First}) /\ {First} \subseteq TurnIndices
      BY <1>2, <2>1, <3>1, DropsIs
    <3>3. Valued
      BY <1>1, <3>2, TurnsGo DEF Valued
    <3> QED
      BY <1>3, <1>4, <1>6, <2>0, <3>1, <3>2, <3>3 DEF ByValue
  <2>2. CASE ~(Over /\ Talks > 1)
    <3>1. Stays /\ pc' = "repair"
      BY <1>14, <2>2 DEF DropTurns, Talks, Goes, Stays
    <3>2. Over' => Talks' <= 1
      BY <1>1, <1>4, <1>8, <2>2, <3>1
    <3> QED
      BY <1>3, <1>4, <1>8, <2>0, <3>1, <3>2 DEF ByValue
  <2> QED
    BY <2>1, <2>2
<1>15. CASE Repair
  <2>0. pc = "repair" /\ (standin /\ Over => Memory = {}) /\ (Over => Talks <= 1)
    BY <1>15 DEF Repair, ByValue
  <2>1. CASE Talks > 1 /\ payload[First].who # "user"
    <3>1. Drops(First) /\ pc' = pc
      BY <1>15, <2>1 DEF Repair, Talks
    <3>2. Sheds({First}) /\ {First} \subseteq TurnIndices
      BY <1>2, <2>1, <3>1, DropsIs
    <3>3. Valued /\ ~Over'
      BY <1>1, <1>4, <2>0, <2>1, <3>2, TurnsGo DEF Valued
    <3> QED
      BY <1>3, <1>6, <2>0, <3>1, <3>2, <3>3 DEF ByValue
  <2>2. CASE ~(Talks > 1 /\ payload[First].who # "user")
    <3>1. Stays /\ pc' = "trim"
      BY <1>15, <2>2 DEF Repair, Talks, Goes, Stays
    <3> QED
      BY <1>3, <1>4, <1>8, <2>0, <3>1 DEF ByValue
  <2> QED
    BY <2>1, <2>2
<1>16. ASSUME Over, pc \in {"trim", "drop"}
       PROVE  Talks = 1 /\ (standin => Memory = {}) /\ (~standin => Droppable = Memory)
  <2>1. Talks <= 1 /\ (standin => Memory = {})
    BY <1>16 DEF ByValue
  <2>2. ~standin => Droppable = Memory
    BY <1>5 DEF Memory
  <2> QED
    BY <1>1, <2>1, <2>2
<1>17. CASE Trim
  <2>0. /\ pc = "trim" /\ (standin /\ Over => Memory = {}) /\ (Over => Talks <= 1)
    BY <1>17 DEF Trim, ByValue
  <2>1. CASE Over /\ trims < MaxTrims /\ Trimmable(Droppable) # {}
    <3>1. Trims(Droppable) /\ spent' = spent /\ pc' = pc
      BY <1>17, <2>1 DEF Trim
    <3>2. PICK i \in Droppable : Cuts(i)
      BY <2>1, <3>1, TrimsIs
    <3>3. Valued
      <4>1. CASE standin
        <5>1. payload[i].who = "standin"
          BY <1>10, <1>16, <2>0, <2>1, <3>2, <4>1
        <5>2. Whole("memory")' = Whole("memory")
          BY <1>7, <3>2, <5>1
        <5> QED
          BY <1>16, <2>0, <2>1, <4>1, <5>2 DEF Valued
      <4>2. CASE ~standin
        <5>1. payload[i].who # "standin"
          BY <1>5, <3>2, <4>2 DEF IsStandin
        <5>2. Whole("standin")' = Whole("standin")
          BY <1>7, <3>2, <5>1
        <5> QED
          BY <1>16, <2>0, <2>1, <4>2, <5>2 DEF Valued
      <4> QED
        BY <4>1, <4>2
    <3> QED
      BY <1>3, <1>4, <1>7, <2>0, <3>1, <3>2, <3>3 DEF ByValue
  <2>2. CASE ~(Over /\ trims < MaxTrims /\ Trimmable(Droppable) # {})
    <3>1. Stays /\ pc' = "drop"
      BY <1>17, <2>2 DEF Trim, Goes, Stays
    <3> QED
      BY <1>3, <1>4, <1>8, <2>0, <3>1 DEF ByValue
  <2> QED
    BY <2>1, <2>2
<1>18. CASE Drop
  <2>0. /\ pc = "drop" /\ (standin /\ Over => Memory = {}) /\ (Over => Talks <= 1)
    BY <1>18 DEF Drop, ByValue
  <2>1. CASE Over /\ Droppable # {}
    <3>1. Drops(Max(Droppable)) /\ pc' = pc /\ Max(Droppable) \in Droppable
      BY <1>1, <1>18, <2>1, LastOfIs DEF Drop
    <3> DEFINE i == Max(Droppable)
    <3> HIDE DEF i
    <3>2. i \in Droppable /\ Sheds({i}) /\ {i} \subseteq Droppable
      BY <1>2, <3>1, DropsIs DEF i
    <3>3. Valued
      <4>1. CASE standin
        <5>1. payload[i].who = "standin"
          BY <1>10, <1>16, <2>0, <2>1, <3>2, <4>1
        <5>2. Whole("memory")' = Whole("memory")
          BY <1>6, <3>2, <5>1
        <5> QED
          BY <1>16, <2>0, <2>1, <4>1, <5>2 DEF Valued
      <4>2. CASE ~standin
        <5>1. payload[i].who # "standin"
          BY <1>5, <3>2, <4>2 DEF IsStandin
        <5>2. Whole("standin")' = Whole("standin")
          BY <1>6, <3>2, <5>1
        <5> QED
          BY <1>16, <2>0, <2>1, <4>2, <5>2 DEF Valued
      <4> QED
        BY <4>1, <4>2
    <3> QED
      BY <1>3, <1>4, <1>6, <2>0, <3>1, <3>2, <3>3 DEF ByValue
  <2>2. CASE ~(Over /\ Droppable # {})
    <3>1. Stays /\ pc' = "verify"
      BY <1>18, <2>2 DEF Drop, Goes, Stays
    <3> QED
      BY <1>8, <3>1 DEF ByValue, InRound
  <2> QED
    BY <2>1, <2>2
<1> QED
  BY <1>11, <1>12, <1>13, <1>14, <1>15, <1>17, <1>18 DEF Round

\* Outside a round nothing but compaction, memory and the last resort changes
\* the payload.
LEMMA ByValueStep ==
  ASSUME Shape, ByValue, [Next]_vars
  PROVE  /\ ByValue'
         /\ (pc' # "inject" /\ pc \notin {"compact", "inject", "forced", "escalate"}) => Valued
<1>1. PromptTypes /\ NewestStays
  BY DEF Shape
<1>2. CASE Round
  BY <1>1, <1>2, ByValueRound
<1>3. CASE Compact \/ CompactNot \/ Inject
  <2>1. pc \in {"compact", "inject"} /\ pc' \in {"inject", "count"}
    BY <1>3 DEF Compact, CompactNot, Inject
  <2> QED
    BY <2>1 DEF ByValue, InRound
<1>4. CASE Prescreen \/ Count \/ Verify \/ Settle \/ AddLine
  <2>1. Stays /\ pc' \in {"line", "round", "forced", "escalate", "sent"}
    BY <1>4 DEF Prescreen, Count, Verify, Settle, AddLine, AfterVerify, Goes, Stays, guard
  <2> QED
    BY <2>1, StaysKeeps DEF ByValue, InRound, Valued
<1>5. CASE NextRound
  <2>1. /\ Stays /\ standin' = (\E i \in Droppable : IsStandin(i))
        /\ pc' = (IF standin' THEN "owed" ELSE "turns")
    BY <1>5 DEF NextRound, Goes, Stays
  <2>2. Droppable' = Droppable /\ \A i : IsStandin(i)' <=> IsStandin(i)
    BY <2>1, StaysKeeps
  <2> QED
    BY <2>1, <2>2, StaysKeeps DEF ByValue, InRound, Valued
<1>6. CASE Forced \/ Escalate
  <2>1. pc \in {"forced", "escalate"} /\ pc' \in {"forced", "settle", "escalate", "line"}
    BY <1>6 DEF Forced, Escalate, Goes
  <2> QED
    BY <2>1 DEF ByValue, InRound
<1>7. CASE UNCHANGED vars
  <2>1. Stays /\ UNCHANGED <<pc, running, limit, line, standin>>
    BY <1>7 DEF vars, guard, Stays
  <2>2. /\ Over' <=> Over
        /\ Droppable' = Droppable /\ \A i : IsStandin(i)' <=> IsStandin(i)
        /\ Memory' = Memory /\ Talks' = Talks /\ Exchange' = Exchange
    BY <2>1, StaysKeeps DEF Over, Room
  <2> QED
    BY <2>1, <2>2, StaysKeeps DEF ByValue, Valued
<1> QED
  BY <1>2, <1>3, <1>4, <1>5, <1>6, <1>7 DEF Next, Round

----------------------------------------------------------------------------
(* The theorems. *)

PromptInv == Shape /\ Measured /\ Spent /\ ByValue

LEMMA InitPromptInv == Init => PromptInv
<1> SUFFICES ASSUME Init PROVE PromptInv
  OBVIOUS
<1>1. Shape
  BY ShapeInit
<1>2. pc = "compact" /\ counted = "none" /\ round = 0 /\ Rounds \in Nat \ {0}
  BY PromptAssumption DEF Init
<1>3. Measured /\ Spent /\ ByValue
  BY <1>2 DEF Measured, Certified, CertifiedFits, Spent, Resort, FailsEmptyHanded,
              ByValue, Begun, InRound
<1> QED
  BY <1>1, <1>3 DEF PromptInv

LEMMA PromptInvariance == Spec => []PromptInv
<1>1. PromptInv /\ [Next]_vars => PromptInv'
  BY ShapeStep, MeasuredStep, SpentStep, ByValueStep DEF PromptInv
<1> QED
  BY <1>1, InitPromptInv, PTL DEF Spec

\* Messages, sizes and counts are what they are declared to be.
THEOREM PromptIsTyped == Spec => []TypeOK
<1>1. PromptInv => TypeOK
  BY IndicesAre DEF PromptInv, Shape, PromptTypes, TypeOK, Older, Msgs
<1> QED
  BY <1>1, PromptInvariance, PTL

\* Every turn of the request reaches the model, or the guard shed it.
THEOREM EveryTurnIsSaid == Spec => []NothingUnsaid
<1>1. PromptInv => NothingUnsaid
  BY DEF PromptInv, Shape
<1> QED
  BY <1>1, PromptInvariance, PTL

\* What is certified to fit fits.
THEOREM WhatIsCertifiedFits == Spec => []CertifiedFits
<1>1. PromptInv => CertifiedFits
  BY DEF PromptInv, Measured
<1> QED
  BY <1>1, PromptInvariance, PTL

\* What does not fit has nothing left to shed.
THEOREM WhatFailsIsSpent == Spec => []FailsEmptyHanded
<1>1. PromptInv => FailsEmptyHanded
  BY DEF PromptInv, Spent
<1> QED
  BY <1>1, PromptInvariance, PTL

\* The system messages of a client that sends them first, and its newest turn,
\* are never shed nor cut.
THEOREM CallersAreKept == ~Late => (Spec => []UsersOwnStays)
<1> SUFFICES ASSUME ~Late PROVE Spec => []UsersOwnStays
  OBVIOUS
<1>1. PromptInv => UsersOwnStays
  <2> SUFFICES ASSUME PromptInv PROVE UsersOwnStays
    OBVIOUS
  <2>1. payload \in Seq(Msgs) /\ CallersLead /\ NewestStays
    BY DEF PromptInv, Shape, PromptTypes
  <2> DEFINE own == {i \in Systems : payload[i].who = "caller" /\ Size(payload[i]) = CallerSize}
  <2>2. Callers \in Nat /\ DOMAIN payload = 1 .. Len(payload)
    BY <2>1, PromptAssumption
  <2>3. \A i \in 1 .. Callers : i \in Systems
    BY <2>1, <2>2, CallersAreSpared DEF CallersLead, Systems
  <2>4. own = 1 .. Callers
    <3>1. \A i \in own : i \in 1 .. Callers
      BY <2>1, <2>2 DEF CallersLead, Systems
    <3>2. \A i \in 1 .. Callers : i \in own
      BY <2>1, <2>2, <2>3 DEF CallersLead, Systems
    <3> QED
      BY <3>1, <3>2
  <2>5. Cardinality(own) = Callers
    <3>1. Cardinality(1 .. Callers) = IF 1 > Callers THEN 0 ELSE Callers - 1 + 1
      BY <2>2, FS_Interval
    <3> HIDE DEF own
    <3> QED
      BY <2>2, <2>4, <3>1
  <2>6. \E i \in TurnIndices : payload[i].says = {N}
    BY <2>1 DEF NewestStays
  <2> QED
    BY <2>5, <2>6 DEF UsersOwnStays
<1> QED
  BY <1>1, PromptInvariance, PTL

\* What is shed has least value.
THEOREM LeastValueGoesFirst == Spec => ShedsByValue
<1>1. PromptInv /\ [Next]_vars =>
        [(pc' # "inject" /\ pc \notin {"compact", "inject", "forced", "escalate"}) =>
            /\ Whole("standin") # Whole("standin")' =>
                    Talks = 1 /\ Memory = {}
            /\ Whole("memory") # Whole("memory")' =>
                    IF standin THEN Talks - Exchange < Recent ELSE Talks = 1]_vars
  BY ByValueStep DEF PromptInv, Valued
<1> QED
  BY <1>1, PromptInvariance, PTL DEF Spec, ShedsByValue

----------------------------------------------------------------------------
(* The guard ends. *)

\* Counting down, in numbers.
LEMMA Fewer ==
  ASSUME NEW rounds \in Nat, NEW most \in Nat, NEW r \in 0 .. rounds, NEW s \in 0 .. rounds,
         NEW t \in 0 .. most, NEW u \in 0 .. most,
         NEW k \in Nat, NEW l \in Nat, NEW a \in Nat, NEW b \in Nat,
         9 * (rounds - s) + (most - u) + l + b < 9 * (rounds - r) + (most - t) + k + a
  PROVE  9 * (rounds - s) + (most - u) + l + b
             \in 0 .. (9 * (rounds - r) + (most - t) + k + a) - 1
<1> DEFINE p == rounds - r
           q == rounds - s
           v == most - t
           w == most - u
<1>1. p \in Nat /\ q \in Nat /\ v \in Nat /\ w \in Nat
  OBVIOUS
<1>2. 9 * q + w + l + b < 9 * p + v + k + a
  OBVIOUS
<1> HIDE DEF p, q, v, w
<1>3. 9 * q + w + l + b \in 0 .. (9 * p + v + k + a) - 1
  BY <1>1, <1>2
<1> QED BY <1>3 DEF p, q, v, w

LEMMA DropsShorten ==
  ASSUME PromptTypes, NEW i \in DOMAIN payload, Drops(i)
  PROVE  Len(payload') = Len(payload) - 1
BY RemoveAtIs DEF PromptTypes, Drops

\* What a step of a round takes: a message, a trim or a stage.
LEMMA RoundCounts ==
  ASSUME PromptTypes, NewestStays, Round, trims <= MaxTrims
  PROVE  /\ trims' <= MaxTrims
         /\ (MaxTrims - trims') + Len(payload') + Stage' < (MaxTrims - trims) + Len(payload) + Stage
<1>1. /\ payload \in Seq(Msgs) /\ Len(payload) \in Nat /\ trims \in Nat /\ MaxTrims \in Nat
      /\ TurnIndices # {}
  BY TurnsAre, PromptAssumption DEF PromptTypes
<1>2. Memory \subseteq Droppable /\ Droppable \subseteq DOMAIN payload
      /\ First \in DOMAIN payload
  BY <1>1, IndicesAre, LastOfIs, ExchangeIs DEF TurnIndices
<1>4. ASSUME NEW among, Trims(among), trims < MaxTrims, pc' = pc
      PROVE  /\ trims' <= MaxTrims
             /\ (MaxTrims - trims') + Len(payload') + Stage'
                    < (MaxTrims - trims) + Len(payload) + Stage
  <2>1. trims' = trims + 1 /\ DOMAIN payload' = DOMAIN payload
    BY <1>4 DEF Trims
  <2>2. payload' \in Seq(Msgs)
    BY RoundIs, KindKeeps, <1>1
  <2>3. Len(payload') = Len(payload)
    BY <1>1, <2>1, <2>2
  <2>4. Stage' = Stage /\ Stage \in Nat
    BY <1>4 DEF Stage
  <2> QED BY <1>1, <1>4, <2>1, <2>3, <2>4
<1>5. ASSUME NEW i \in DOMAIN payload, Drops(i), pc' = pc, trims' = trims
      PROVE  /\ trims' <= MaxTrims
             /\ (MaxTrims - trims') + Len(payload') + Stage'
                    < (MaxTrims - trims) + Len(payload) + Stage
  <2>1. Stage' = Stage /\ Stage \in Nat
    BY <1>5 DEF Stage
  <2> QED BY <1>1, <1>5, <2>1, DropsShorten
<1>6. ASSUME payload' = payload, trims' = trims, Stage' < Stage, Stage \in Nat, Stage' \in Nat
      PROVE  /\ trims' <= MaxTrims
             /\ (MaxTrims - trims') + Len(payload') + Stage'
                    < (MaxTrims - trims) + Len(payload) + Stage
  BY <1>1, <1>6
<1>7. CASE Owed
  <2>1. CASE Over /\ Talks - Exchange >= Recent
    <3> DEFINE n == Len(payload) - Exchange
    <3>1. /\ payload' = [k \in 1 .. n |-> IF k < First THEN payload[k] ELSE payload[k + Exchange]]
          /\ pc' = pc /\ trims' = trims
      BY <1>7, <2>1 DEF Owed, Talks
    <3>2. Exchange \in {1, 2} /\ First .. First + Exchange - 1 \subseteq TurnIndices
          /\ First \in TurnIndices
      BY <1>1, ExchangeIs
    <3>3. First + Exchange - 1 \in 1 .. Len(payload) /\ First \in 1 .. Len(payload)
      <4>1. First + Exchange - 1 \in First .. First + Exchange - 1 /\ TurnIndices \subseteq DOMAIN payload
        BY <1>1, <3>2, IndicesAre DEF TurnIndices
      <4> QED BY <1>1, <3>2, <4>1
    <3>4. n \in Nat /\ DOMAIN payload' = 1 .. n /\ payload' \in Seq(Msgs)
      BY <1>1, <3>1, <3>2, <3>3, RoundIs, KindKeeps
    <3>5. Len(payload') = n
      BY <3>4
    <3>6. Stage' = Stage /\ Stage \in Nat
      BY <3>1 DEF Stage
    <3>7. Len(payload') \in Nat /\ Len(payload') < Len(payload)
      BY <1>1, <3>2, <3>4, <3>5
    <3>8. trims' = trims
      BY <3>1
    <3> QED BY <1>1, <3>6, <3>7, <3>8
  <2>2. CASE ~(Over /\ Talks - Exchange >= Recent)
    <3>1. payload' = payload /\ trims' = trims /\ pc = "owed" /\ pc' = "trimMemory"
      BY <1>7, <2>2 DEF Owed, Talks, Goes
    <3>2. Stage = 13 /\ Stage' = 12
      BY <3>1 DEF Stage
    <3> QED BY <1>6, <3>1, <3>2
  <2> QED BY <2>1, <2>2
<1>8. CASE TrimMemory
  <2>1. CASE Over /\ trims < MaxTrims /\ Trimmable(Memory) # {}
    BY <1>4, <1>8, <2>1 DEF TrimMemory
  <2>2. CASE ~(Over /\ trims < MaxTrims /\ Trimmable(Memory) # {})
    <3>1. payload' = payload /\ trims' = trims /\ pc = "trimMemory" /\ pc' = "dropMemory"
      BY <1>8, <2>2 DEF TrimMemory, Goes
    <3>2. Stage = 12 /\ Stage' = 11
      BY <3>1 DEF Stage
    <3> QED BY <1>6, <3>1, <3>2
  <2> QED BY <2>1, <2>2
<1>9. CASE DropMemory
  <2>1. CASE Over /\ Memory # {}
    <3>1. Max(Memory) \in DOMAIN payload
      BY <1>1, <1>2, <2>1, LastOfIs
    <3> QED BY <1>5, <1>9, <2>1, <3>1 DEF DropMemory
  <2>2. CASE ~(Over /\ Memory # {})
    <3>1. payload' = payload /\ trims' = trims /\ pc = "dropMemory" /\ pc' = "turns"
      BY <1>9, <2>2 DEF DropMemory, Goes
    <3>2. Stage = 11 /\ Stage' = 10
      BY <3>1 DEF Stage
    <3> QED BY <1>6, <3>1, <3>2
  <2> QED BY <2>1, <2>2
<1>10. CASE DropTurns
  <2>1. CASE Over /\ Cardinality(TurnIndices) > 1
    BY <1>2, <1>5, <1>10, <2>1 DEF DropTurns
  <2>2. CASE ~(Over /\ Cardinality(TurnIndices) > 1)
    <3>1. payload' = payload /\ trims' = trims /\ pc = "turns" /\ pc' = "repair"
      BY <1>10, <2>2 DEF DropTurns, Goes
    <3>2. Stage = 10 /\ Stage' = 9
      BY <3>1 DEF Stage
    <3> QED BY <1>6, <3>1, <3>2
  <2> QED BY <2>1, <2>2
<1>11. CASE Repair
  <2>1. CASE Cardinality(TurnIndices) > 1 /\ payload[First].who # "user"
    BY <1>2, <1>5, <1>11, <2>1 DEF Repair
  <2>2. CASE ~(Cardinality(TurnIndices) > 1 /\ payload[First].who # "user")
    <3>1. payload' = payload /\ trims' = trims /\ pc = "repair" /\ pc' = "trim"
      BY <1>11, <2>2 DEF Repair, Goes
    <3>2. Stage = 9 /\ Stage' = 8
      BY <3>1 DEF Stage
    <3> QED BY <1>6, <3>1, <3>2
  <2> QED BY <2>1, <2>2
<1>12. CASE Trim
  <2>1. CASE Over /\ trims < MaxTrims /\ Trimmable(Droppable) # {}
    BY <1>4, <1>12, <2>1 DEF Trim
  <2>2. CASE ~(Over /\ trims < MaxTrims /\ Trimmable(Droppable) # {})
    <3>1. payload' = payload /\ trims' = trims /\ pc = "trim" /\ pc' = "drop"
      BY <1>12, <2>2 DEF Trim, Goes
    <3>2. Stage = 8 /\ Stage' = 7
      BY <3>1 DEF Stage
    <3> QED BY <1>6, <3>1, <3>2
  <2> QED BY <2>1, <2>2
<1>13. CASE Drop
  <2>1. CASE Over /\ Droppable # {}
    <3>1. Max(Droppable) \in DOMAIN payload
      BY <1>1, <1>2, <2>1, LastOfIs
    <3> QED BY <1>5, <1>13, <2>1, <3>1 DEF Drop
  <2>2. CASE ~(Over /\ Droppable # {})
    <3>1. payload' = payload /\ trims' = trims /\ pc = "drop" /\ pc' = "verify"
      BY <1>13, <2>2 DEF Drop, Goes
    <3>2. Stage = 7 /\ Stage' = 6
      BY <3>1 DEF Stage
    <3> QED BY <1>6, <3>1, <3>2
  <2> QED BY <2>1, <2>2
<1> QED
  BY <1>7, <1>8, <1>9, <1>10, <1>11, <1>12, <1>13 DEF Round

TrimsInv == PromptInv /\ trims <= MaxTrims

LEMMA GuardCounts ==
  ASSUME TrimsInv, [Next]_vars
  PROVE  /\ TrimsInv'
         /\ [pc \notin {"compact", "inject"} => StepsLeft' \in 0 .. StepsLeft - 1]_vars
<1>1. /\ PromptTypes /\ NewestStays /\ payload \in Seq(Msgs) /\ Len(payload) \in Nat
      /\ trims \in Nat /\ round \in Nat /\ MaxTrims \in Nat /\ Rounds \in Nat
      /\ trims <= MaxTrims /\ round <= Rounds /\ (pc = "round" => round < Rounds)
  BY PromptAssumption DEF TrimsInv, PromptInv, Shape, PromptTypes, Spent, Resort
<1>2. /\ PromptInv' /\ Len(payload') \in Nat /\ trims' \in Nat /\ round' \in Nat
      /\ round' <= Rounds
  <2>1. PromptInv'
    BY ShapeStep, MeasuredStep, SpentStep, ByValueStep DEF TrimsInv, PromptInv
  <2> QED BY <2>1 DEF PromptInv, Shape, PromptTypes, Spent, Resort
<1>3. Stage \in Nat /\ Stage' \in Nat
  BY DEF Stage
<1>4. ASSUME trims' <= MaxTrims,
             9 * (Rounds - round') + (MaxTrims - trims') + Len(payload') + Stage'
                 < 9 * (Rounds - round) + (MaxTrims - trims) + Len(payload) + Stage
      PROVE  TrimsInv' /\ StepsLeft' \in 0 .. StepsLeft - 1
  <2>1. /\ round \in 0 .. Rounds /\ round' \in 0 .. Rounds
        /\ trims \in 0 .. MaxTrims /\ trims' \in 0 .. MaxTrims
    BY <1>1, <1>2, <1>4
  <2>2. 9 * (Rounds - round') + (MaxTrims - trims') + Len(payload') + Stage'
            \in 0 .. (9 * (Rounds - round) + (MaxTrims - trims) + Len(payload) + Stage) - 1
    BY <1>1, <1>2, <1>3, <1>4, <2>1, Fewer
  <2>3. StepsLeft' \in 0 .. StepsLeft - 1
    BY <2>2 DEF StepsLeft
  <2> QED BY <1>2, <1>4, <2>3 DEF TrimsInv
<1>5. ASSUME payload' = payload, trims' = trims, round' = round, Stage' < Stage
      PROVE  TrimsInv' /\ StepsLeft' \in 0 .. StepsLeft - 1
  BY <1>1, <1>2, <1>3, <1>4, <1>5
<1>6. ASSUME Len(payload') = Len(payload) - 1, trims' = trims, round' = round, pc' = pc
      PROVE  TrimsInv' /\ StepsLeft' \in 0 .. StepsLeft - 1
  <2>1. Stage' = Stage
    BY <1>6 DEF Stage
  <2> QED BY <1>1, <1>2, <1>3, <1>4, <1>6, <2>1
<1>7. CASE Compact \/ CompactNot \/ Inject
  BY <1>1, <1>2, <1>7 DEF Compact, CompactNot, Inject, guard, TrimsInv
<1>8. CASE Prescreen
  BY <1>5, <1>8 DEF Prescreen, Goes, Stage
<1>9. CASE Count
  BY <1>5, <1>9 DEF Count, Goes, Stage
<1>10. CASE NextRound
  <2>1. /\ payload' = payload /\ trims' = trims /\ round' = round + 1 /\ round < Rounds
        /\ Stage = 5 /\ Stage' \in {10, 13}
    BY <1>1, <1>10 DEF NextRound, Goes, Stage
  <2> QED BY <1>1, <1>2, <1>3, <1>4, <2>1
<1>11. CASE Round
  <2>1. /\ trims' <= MaxTrims /\ round' = round
        /\ (MaxTrims - trims') + Len(payload') + Stage'
              < (MaxTrims - trims) + Len(payload) + Stage
    BY <1>1, <1>11, RoundCounts, RoundIs
  <2> QED BY <1>1, <1>2, <1>3, <1>4, <2>1
<1>12. CASE Verify
  <2>1. payload' = payload /\ trims' = trims /\ round' = round /\ pc = "verify"
        /\ pc' \in {"line", "round", "forced"}
    BY <1>12 DEF Verify, Goes, AfterVerify
  <2>2. Stage = 6 /\ Stage' \in {1, 5, 4}
    BY <2>1 DEF Stage
  <2> QED BY <1>5, <2>1, <2>2
<1>13. CASE Forced
  <2>1. CASE Over /\ Droppable # {}
    <3>1. Max(Droppable) \in DOMAIN payload
      BY <1>1, <2>1, IndicesAre, LastOfIs
    <3>2. Drops(Max(Droppable)) /\ pc' = pc /\ trims' = trims /\ round' = round
      BY <1>13, <2>1 DEF Forced
    <3> QED BY <1>1, <1>6, <3>1, <3>2, DropsShorten
  <2>2. CASE ~(Over /\ Droppable # {})
    BY <1>5, <1>13, <2>2 DEF Forced, Goes, Stage
  <2> QED BY <2>1, <2>2
<1>14. CASE Settle
  BY <1>5, <1>14 DEF Settle, Goes, Stage
<1>15. CASE Escalate
  <2>1. CASE Over /\ Droppable # {}
    <3>1. Max(Droppable) \in DOMAIN payload
      BY <1>1, <2>1, IndicesAre, LastOfIs
    <3>2. /\ payload' = RemoveAt(payload, Max(Droppable)) /\ pc' = pc
          /\ trims' = trims /\ round' = round
      BY <1>15, <2>1 DEF Escalate
    <3>3. Len(payload') = Len(payload) - 1
      BY <1>1, <3>1, <3>2, RemoveAtIs
    <3> QED BY <1>6, <3>2, <3>3
  <2>2. CASE ~(Over /\ Droppable # {})
    BY <1>5, <1>15, <2>2 DEF Escalate, Goes, Stage
  <2> QED BY <2>1, <2>2
<1>16. CASE AddLine
  BY <1>5, <1>16 DEF AddLine, Goes, guard, Stage
<1>17. CASE UNCHANGED vars
  BY <1>1, <1>2, <1>17 DEF vars, guard, TrimsInv
<1> QED
  BY <1>7, <1>8, <1>9, <1>10, <1>11, <1>12, <1>13, <1>14, <1>15, <1>16, <1>17 DEF Next, Round

\* The guard ends: from the count on, every step takes a round, a trim, a
\* message or a stage, and there are finitely many of them.
THEOREM EveryGuardStepCounts == Spec => GuardEnds
<1>1. Init => TrimsInv
  <2>1. Init => PromptInv
    BY InitPromptInv
  <2> QED BY <2>1, PromptAssumption DEF Init, TrimsInv
<1>2. TrimsInv /\ [Next]_vars =>
          TrimsInv' /\ [pc \notin {"compact", "inject"} => StepsLeft' \in 0 .. StepsLeft - 1]_vars
  BY GuardCounts
<1> QED
  BY <1>1, <1>2, PTL DEF Spec, GuardEnds

----------------------------------------------------------------------------
(* The backfill. *)

Busy == Alive \union {r \in Requests : request[r] = "redacting"}

\* One request at most has a backfill, or is about to.
OneBusy == \A r, s \in Busy : r = s

\* Its claim stands as long as it has.
Claimed == Busy # {} => inProgress

\* A request that is about to have a backfill has none yet.
NoneBefore == \A r \in Requests : request[r] = "redacting" => backfill[r] = "none"

\* What comes after the write comes after the write.
RollupIsSaved == \A r \in Requests : backfill[r] = "rollup" => saved

\* The inductive invariant.
BackfillInv == BackfillTypeOK /\ OneBusy /\ Claimed /\ NoneBefore /\ RollupIsSaved /\ CompleteIsTrue

LEMMA NoneYet == 0 \in 0 .. Exchanges
  BY BackfillAssumption

LEMMA OneMore == \A n \in 0 .. Exchanges : n < Exchanges => n + 1 \in 0 .. Exchanges
  BY BackfillAssumption

LEMMA BackfillInvInit == BackfillInit => BackfillInv
  BY NoneYet DEF BackfillInit, BackfillInv, BackfillTypeOK, OneBusy, Claimed, NoneBefore, RollupIsSaved, CompleteIsTrue,
     Busy, Alive, States, Sources

\* Type correctness is preserved.
LEMMA TypeStep == BackfillTypeOK /\ [BackfillNext]_backfillVars => BackfillTypeOK'
<1> SUFFICES ASSUME BackfillTypeOK, [BackfillNext]_backfillVars PROVE BackfillTypeOK'
  OBVIOUS
<1> USE NoneYet DEF BackfillTypeOK, States, Sources, disk, work, history, WriteState, Ends
<1>1. ASSUME NEW r \in Requests, Kickoff(r) PROVE BackfillTypeOK'
  BY <1>1 DEF Kickoff, Claim
<1>2. ASSUME NEW r \in Requests, Redacted(r) PROVE BackfillTypeOK'
  BY <1>2 DEF Redacted
<1>3. ASSUME NEW r \in Requests, TailDone(r) PROVE BackfillTypeOK'
  BY <1>3 DEF TailDone
<1>4. ASSUME NEW r \in Requests, Check(r) PROVE BackfillTypeOK'
  BY <1>4 DEF Check
<1>5. ASSUME NEW r \in Requests, Extracted(r) PROVE BackfillTypeOK'
  <2>1. progress[r] + 1 \in 0 .. Exchanges
    BY <1>5, OneMore DEF Extracted, Remaining
  <2>2. (progress \in [Requests -> 0 .. Exchanges])'
    BY <1>5, <2>1 DEF Extracted
  <2> QED
    BY <1>5, <2>2 DEF Extracted
<1>6. ASSUME NEW r \in Requests, Saved(r) PROVE BackfillTypeOK'
  BY <1>6 DEF Saved, MergedWith
<1>7. ASSUME NEW r \in Requests, Completed(r) PROVE BackfillTypeOK'
  BY <1>7 DEF Completed
<1>8. ASSUME NEW r \in Requests, Aborted(r) PROVE BackfillTypeOK'
  BY <1>8 DEF Aborted, FailedState
<1>9. ASSUME NEW r \in Requests, Cancelled(r) PROVE BackfillTypeOK'
  BY <1>9 DEF Cancelled
<1>10. CASE TimePasses
  BY <1>10 DEF TimePasses
<1>11. CASE Forget
  BY <1>11 DEF Forget
<1>12. CASE Crash
  BY <1>12 DEF Crash
<1>13. CASE Damage
  BY <1>13 DEF Damage
<1>14. CASE UNCHANGED backfillVars
  BY <1>14 DEF backfillVars
<1> QED
  BY <1>1, <1>2, <1>3, <1>4, <1>5, <1>6, <1>7, <1>8, <1>9, <1>10, <1>11, <1>12, <1>13, <1>14
  DEF BackfillNext, BackfillSteps

\* When the only backfill is over, nobody is busy.
LEMMA OverIsIdle ==
  ASSUME BackfillInv, NEW r \in Requests, backfill[r] # "none", Ends(r), request' = request
  PROVE  (OneBusy /\ Claimed /\ NoneBefore)'
<1>1. r \in Busy
  BY DEF Busy, Alive
<1>2. \A s \in Requests : s # r => backfill[s] = "none" /\ request[s] # "redacting"
  BY <1>1 DEF BackfillInv, OneBusy, Busy, Alive
<1>3. backfill' \in [Requests -> {"none", "queued", "extracting", "rollup"}]
      /\ backfill'[r] = "none" /\ \A s \in Requests : s # r => backfill'[s] = backfill[s]
  BY DEF BackfillInv, BackfillTypeOK, Ends
<1>4. request[r] # "redacting"
  BY DEF BackfillInv, NoneBefore
<1>5. Busy' = {}
  BY <1>2, <1>3, <1>4 DEF Busy, Alive
<1> QED
  BY <1>5, <1>3 DEF OneBusy, Claimed, NoneBefore, BackfillInv

\* The claim keeps a second backfill away, and the claim is only given up
\* by the one that holds it.
LEMMA ClaimStep == BackfillInv /\ [BackfillNext]_backfillVars => (OneBusy /\ Claimed /\ NoneBefore)'
<1> SUFFICES ASSUME BackfillInv, [BackfillNext]_backfillVars PROVE (OneBusy /\ Claimed /\ NoneBefore)'
  OBVIOUS
<1> USE DEF BackfillInv, BackfillTypeOK, OneBusy, Claimed, NoneBefore, Busy, Alive
<1>1. ASSUME NEW r \in Requests, Kickoff(r) PROVE (OneBusy /\ Claimed /\ NoneBefore)'
  BY <1>1 DEF Kickoff, Claim, work
<1>2. ASSUME NEW r \in Requests, Redacted(r) PROVE (OneBusy /\ Claimed /\ NoneBefore)'
  BY <1>2 DEF Redacted
<1>3. ASSUME NEW r \in Requests, TailDone(r) PROVE (OneBusy /\ Claimed /\ NoneBefore)'
  BY <1>3 DEF TailDone, work
<1>4. ASSUME NEW r \in Requests, Check(r) PROVE (OneBusy /\ Claimed /\ NoneBefore)'
  BY <1>4, OverIsIdle DEF Check
<1>5. ASSUME NEW r \in Requests, Extracted(r) PROVE (OneBusy /\ Claimed /\ NoneBefore)'
  BY <1>5 DEF Extracted
<1>6. ASSUME NEW r \in Requests, Saved(r) PROVE (OneBusy /\ Claimed /\ NoneBefore)'
  BY <1>6, OverIsIdle DEF Saved
<1>7. ASSUME NEW r \in Requests, Completed(r) PROVE (OneBusy /\ Claimed /\ NoneBefore)'
  BY <1>7, OverIsIdle DEF Completed
<1>8. ASSUME NEW r \in Requests, Aborted(r) PROVE (OneBusy /\ Claimed /\ NoneBefore)'
  BY <1>8, OverIsIdle DEF Aborted
<1>9. ASSUME NEW r \in Requests, Cancelled(r) PROVE (OneBusy /\ Claimed /\ NoneBefore)'
  BY <1>9, OverIsIdle DEF Cancelled
<1>10. CASE TimePasses
  BY <1>10 DEF TimePasses, work
<1>11. CASE Forget
  BY <1>11 DEF Forget, work
<1>12. CASE Crash
  BY <1>12 DEF Crash
<1>13. CASE Damage
  BY <1>13 DEF Damage, work
<1>14. CASE UNCHANGED backfillVars
  BY <1>14 DEF backfillVars, work
<1> QED
  BY <1>1, <1>2, <1>3, <1>4, <1>5, <1>6, <1>7, <1>8, <1>9, <1>10, <1>11, <1>12, <1>13, <1>14
  DEF BackfillNext, BackfillSteps

\* Nothing but the write leads to the rollup, and nothing but the rollup to
\* "complete".
LEMMA CompleteStep == BackfillInv /\ [BackfillNext]_backfillVars => (RollupIsSaved /\ CompleteIsTrue)'
<1> SUFFICES ASSUME BackfillInv, [BackfillNext]_backfillVars PROVE (RollupIsSaved /\ CompleteIsTrue)'
  OBVIOUS
<1> USE DEF BackfillInv, BackfillTypeOK, RollupIsSaved, CompleteIsTrue, Ends, WriteState, disk, work, history
<1>1. ASSUME NEW r \in Requests, Kickoff(r) PROVE (RollupIsSaved /\ CompleteIsTrue)'
  BY <1>1 DEF Kickoff
<1>2. ASSUME NEW r \in Requests, Redacted(r) PROVE (RollupIsSaved /\ CompleteIsTrue)'
  BY <1>2 DEF Redacted
<1>3. ASSUME NEW r \in Requests, TailDone(r) PROVE (RollupIsSaved /\ CompleteIsTrue)'
  BY <1>3 DEF TailDone
<1>4. ASSUME NEW r \in Requests, Check(r) PROVE (RollupIsSaved /\ CompleteIsTrue)'
  BY <1>4 DEF Check
<1>5. ASSUME NEW r \in Requests, Extracted(r) PROVE (RollupIsSaved /\ CompleteIsTrue)'
  BY <1>5 DEF Extracted
<1>6. ASSUME NEW r \in Requests, Saved(r) PROVE (RollupIsSaved /\ CompleteIsTrue)'
  BY <1>6 DEF Saved
<1>7. ASSUME NEW r \in Requests, Completed(r) PROVE (RollupIsSaved /\ CompleteIsTrue)'
  BY <1>7 DEF Completed
<1>8. ASSUME NEW r \in Requests, Aborted(r) PROVE (RollupIsSaved /\ CompleteIsTrue)'
  BY <1>8 DEF Aborted, FailedState
<1>9. ASSUME NEW r \in Requests, Cancelled(r) PROVE (RollupIsSaved /\ CompleteIsTrue)'
  BY <1>9 DEF Cancelled
<1>10. CASE TimePasses
  BY <1>10 DEF TimePasses
<1>11. CASE Forget
  BY <1>11 DEF Forget
<1>12. CASE Crash
  BY <1>12 DEF Crash
<1>13. CASE Damage
  BY <1>13 DEF Damage
<1>14. CASE UNCHANGED backfillVars
  BY <1>14 DEF backfillVars
<1> QED
  BY <1>1, <1>2, <1>3, <1>4, <1>5, <1>6, <1>7, <1>8, <1>9, <1>10, <1>11, <1>12, <1>13, <1>14
  DEF BackfillNext, BackfillSteps

THEOREM BackfillInvariance == BackfillSpec => []BackfillInv
<1>1. BackfillInv /\ [BackfillNext]_backfillVars => BackfillInv'
  BY TypeStep, ClaimStep, CompleteStep DEF BackfillInv
<1> QED
  BY BackfillInvInit, <1>1, PTL DEF BackfillSpec

\* Two backfills of one conversation never run side by side.
THEOREM OneBackfill == BackfillSpec => []AtMostOne
<1>1. BackfillInv => AtMostOne
  <2> SUFFICES ASSUME BackfillInv PROVE AtMostOne
    OBVIOUS
  <2>0. AtMostOne <=> Cardinality(Busy) <= 1
    BY DEF AtMostOne, Busy
  <2>1. CASE Busy = {}
    BY <2>0, <2>1, FS_EmptySet
  <2>2. CASE Busy # {}
    <3>1. PICK r \in Busy : Busy = {r}
      BY <2>2 DEF BackfillInv, OneBusy
    <3> QED
      BY <2>0, <3>1, FS_Singleton
  <2> QED
    BY <2>1, <2>2
<1> QED
  BY BackfillInvariance, <1>1, PTL

\* A conversation marked complete had its reconstruction written.
THEOREM CompleteMeansWritten == BackfillSpec => []CompleteIsTrue
<1>1. BackfillInv => CompleteIsTrue
  BY DEF BackfillInv
<1> QED
  BY BackfillInvariance, <1>1, PTL

\* Whatever interleaves with it, a backfill only adds, and leaves a store it
\* cannot read as it is.
THEOREM BackfillAdds == BackfillSpec => OnlyAdds
<1> DEFINE Adds == /\ forgotten' = forgotten => facts \subseteq facts'
                   /\ ~readable /\ ~readable' => facts' = facts /\ file' = file
<1>1. BackfillInv /\ [BackfillNext]_backfillVars => [Adds]_backfillVars
  <2> SUFFICES ASSUME BackfillInv, BackfillNext PROVE Adds
    OBVIOUS
  <2> USE DEF BackfillInv, BackfillTypeOK, disk
  <2>1. ASSUME NEW r \in Requests, Kickoff(r) \/ Redacted(r) \/ TailDone(r) PROVE Adds
    BY <2>1 DEF Kickoff, Redacted, TailDone
  <2>2. ASSUME NEW r \in Requests, Check(r) \/ Extracted(r) \/ Completed(r) PROVE Adds
    BY <2>2 DEF Check, Extracted, Completed
  <2>3. ASSUME NEW r \in Requests, Saved(r) PROVE Adds
    BY <2>3 DEF Saved, MergedWith
  <2>4. ASSUME NEW r \in Requests, Aborted(r) \/ Cancelled(r) PROVE Adds
    BY <2>4 DEF Aborted, Cancelled
  <2>5. CASE TimePasses \/ Crash \/ Damage
    BY <2>5 DEF TimePasses, Crash, Damage
  <2>6. CASE Forget
    BY <2>6 DEF Forget
  <2> QED
    BY <2>1, <2>2, <2>3, <2>4, <2>5, <2>6 DEF BackfillNext, BackfillSteps
<1> QED
  BY BackfillInvariance, <1>1, PTL DEF BackfillSpec, OnlyAdds
=============================================================================
