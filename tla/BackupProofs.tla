---------------------------- MODULE BackupProofs ----------------------------
(***************************************************************************)
(* Proofs about Backup: whatever the store, the chats, the sources, the    *)
(* pod and the archives do, for any number of conversations, any clock and *)
(* any number of faults, the archives published are those a cycle may      *)
(* publish, and what is pruned is what no promise needs.                   *)
(*                                                                         *)
(* The properties speak of pairs of archives; what a step adds is one      *)
(* archive, compared with the one before it.  Between the two lies a       *)
(* cycle of several steps, so that each invariant has a part about the     *)
(* archive in the making, and all of them rest on the newest archive never *)
(* being pruned (Kept): the baseline of a comparison is the one before.    *)
(***************************************************************************)
EXTENDS Backup, FiniteSetTheorems, WellFoundedInduction, TLAPS

\* The newest archive is listed, and so is the one before it until the cycle
\* that published the newest has pruned.
Kept ==
    /\ log # <<>> => log[Len(log)].listed
    /\ pc \in {"compare", "prune"} =>
          /\ log # <<>>
          /\ Len(log) > 1 => log[Len(log) - 1].listed
          /\ Len(log) = 1 => log[Len(log)].blind
    /\ pc = "compare" => part = log[Len(log)]

Making == {"verify", "judge", "publish"}

\* The archive in the making has been compared with none only where there was
\* none that could be read, and goes on from the marks of its baseline.
Made ==
    /\ ~part.told
    /\ pc \in Making =>
          /\ part.listed
          /\ log = <<>> => part.blind
          /\ ~part.blind =>
                part.hwm = Marks(log[Len(log)].hwm, part.memory.text)

IInv == TypeOK /\ Kept /\ Made

----------------------------------------------------------------------------
(* The newest archive. *)

LEMMA MaxOf ==
    ASSUME NEW S \in SUBSET Nat, NEW m \in S, \A x \in S : m >= x
    PROVE  Max(S) = m
  <1>1. \A y \in S : (\A x \in S : y >= x) => y = m
    OBVIOUS
  <1> QED
    BY <1>1 DEF Max

LEMMA NewestIsLast ==
    ASSUME TypeOK, log # <<>>, log[Len(log)].listed
    PROVE  /\ Newest = Len(log) /\ Listed # {}
           /\ Len(log) \in DOMAIN log /\ Len(log) \in Nat \ {0}
  <1>1. Len(log) \in DOMAIN log /\ Len(log) \in Nat \ {0}
    BY DEF TypeOK
  <1>2. Listed \in SUBSET Nat /\ Len(log) \in Listed
    BY <1>1 DEF Listed, TypeOK
  <1>3. \A i \in Listed : Len(log) >= i
    BY DEF Listed, TypeOK
  <1> QED
    BY <1>1, <1>2, <1>3, MaxOf DEF Newest

LEMMA BeforeIsLast ==
    ASSUME TypeOK, Len(log) > 1, log[Len(log) - 1].listed
    PROVE  Max(Before) = Len(log) - 1
  <1>1. Before \in SUBSET Nat /\ Len(log) - 1 \in Before
    BY DEF Before, Listed, TypeOK
  <1>2. \A i \in Before : Len(log) - 1 >= i
    BY DEF Before, Listed, TypeOK
  <1> QED
    BY <1>1, <1>2, MaxOf

----------------------------------------------------------------------------
(* The type. *)

LEMMA NoneIsArchive == None \in Archive
  BY BackupAssumption DEF None, Archive, Memory, Sizes

LEMMA BaseIsArchive ==
    ASSUME TypeOK, Kept
    PROVE  /\ Base \in Archive
           /\ Baseless <=> (log = <<>> \/ ~log[Len(log)].legible)
           /\ ~Baseless => log # <<>> /\ Base = log[Len(log)]
           /\ Baseless => Base = None
  <1>1. CASE log = <<>>
    <2>1. Listed = {}
      BY <1>1 DEF Listed
    <2> QED
      BY <1>1, <2>1, NoneIsArchive DEF Base, Baseless
  <1>2. CASE log # <<>>
    <2>1. Newest = Len(log) /\ Listed # {} /\ Len(log) \in DOMAIN log
      BY <1>2, NewestIsLast DEF Kept
    <2>2. log[Len(log)] \in Archive
      BY <2>1 DEF TypeOK
    <2> QED
      BY <1>2, <2>1, <2>2, NoneIsArchive DEF Base, Baseless
  <1> QED
    BY <1>1, <1>2

LEMMA MarksType ==
    ASSUME NEW hwm \in [Convs -> Sizes], NEW text \in [Convs -> Sizes]
    PROVE  Marks(hwm, text) \in [Convs -> Sizes]
  BY DEF Marks, Mark

LEMMA TypeInit == Init => TypeOK
  <1> SUFFICES ASSUME Init PROVE TypeOK
    OBVIOUS
  <1>1. memory \in Memory /\ chats \in Sizes /\ bytes \in Sizes
    BY BackupAssumption DEF Init, Memory, Sizes
  <1>2. log \in Seq(Archive) /\ debris \subseteq 0 .. MaxClock
    BY DEF Init
  <1>3. clock \in 0 .. MaxClock /\ faults \in 0 .. MaxFaults
        /\ wake \in 0 .. MaxClock + Interval
    BY BackupAssumption DEF Init
  <1> QED
    BY <1>1, <1>2, <1>3, NoneIsArchive DEF Init, TypeOK

\* Only the marks of an archive change once it is published.
LEMMA Relabels ==
    ASSUME TypeOK, NEW i \in DOMAIN log, NEW b \in BOOLEAN
    PROVE  /\ [log EXCEPT ![i].told = b] \in Seq(Archive)
           /\ [log EXCEPT ![i].legible = b] \in Seq(Archive)
           /\ [log EXCEPT ![i].cut = b] \in Seq(Archive)
  <1>1. log[i] \in Archive
    BY DEF TypeOK
  <1>2. [log[i] EXCEPT !.told = b] \in Archive
    BY <1>1 DEF Archive
  <1>3. [log[i] EXCEPT !.legible = b] \in Archive
    BY <1>1 DEF Archive
  <1>4. [log[i] EXCEPT !.cut = b] \in Archive
    BY <1>1 DEF Archive
  <1> QED
    BY <1>2, <1>3, <1>4 DEF TypeOK

LEMMA Unlists ==
    ASSUME TypeOK, NEW gone
    PROVE  [i \in DOMAIN log |-> [log[i] EXCEPT !.listed = @ /\ i \notin gone]]
                \in Seq(Archive)
  <1>1. ASSUME NEW i \in DOMAIN log
        PROVE  [log[i] EXCEPT !.listed = @ /\ i \notin gone] \in Archive
    <2>1. log[i] \in Archive
      BY DEF TypeOK
    <2> QED
      BY <2>1 DEF Archive
  <1> QED
    BY <1>1 DEF TypeOK

LEMMA Bounds ==
    /\ Full \in Nat \ {0} /\ Interval \in Nat \ {0}
    /\ WeekLen \in Nat \ {0} /\ Floor \in Nat \ {0}
    /\ RetainAge \in Nat /\ Weeks \in Nat
    /\ MaxClock \in Nat /\ MaxFaults \in Nat
  BY BackupAssumption

LEMMA Struck ==
    ASSUME TypeOK, faults < MaxFaults, faults' = faults + 1
    PROVE  faults' \in 0 .. MaxFaults
  BY Bounds DEF TypeOK

LEMMA EndsType ==
    ASSUME TypeOK, Ends, log' \in Seq(Archive)
    PROVE  TypeOK'
  <1>1. clock + Interval \in 0 .. MaxClock + Interval
    BY Bounds DEF TypeOK
  <1> QED
    BY <1>1, NoneIsArchive DEF Ends, Goes, TypeOK, world

LEMMA TypeNext ==
    ASSUME TypeOK, Kept, [Next]_vars
    PROVE  TypeOK'
  <1> USE Bounds
  <1>1. CASE UNCHANGED vars
    BY <1>1 DEF vars, world, TypeOK
  <1>2. CASE Boot
    <2>1. CASE Listed # {}
      <3>1. log # <<>>
        BY <2>1 DEF Listed
      <3>2. Newest \in DOMAIN log
        BY <3>1, NewestIsLast DEF Kept
      <3>3. log[Newest] \in Archive
        BY <3>2 DEF TypeOK
      <3>4. log[Newest].at \in 0 .. MaxClock
        BY <3>3 DEF Archive
      <3> QED
        BY <1>2, <3>4 DEF Boot, TypeOK, Goes, world
    <2>2. CASE Listed = {}
      BY <1>2, <2>2 DEF Boot, TypeOK, Goes, world
    <2> QED
      BY <2>1, <2>2
  <1>3. CASE Wakes
    BY <1>3 DEF Wakes, TypeOK, Goes, world
  <1>4. CASE Begin
    BY <1>4 DEF Begin, TypeOK, Goes, world
  <1>5. CASE SnapDb
    <2>1. [part EXCEPT !.chats = chats, !.bytes = bytes,
                       !.present = TRUE] \in Archive
      BY DEF TypeOK, Archive
    <2> QED
      BY <1>5, <2>1, NoneIsArchive DEF SnapDb, Fails, TypeOK, Goes, world
  <1>6. CASE CopyStore
    <2>1. [part EXCEPT !.at = clock, !.memory = memory, !.legible = TRUE,
                !.listed = TRUE, !.blind = Baseless,
                !.hwm = Marks(Base.hwm, memory.text)] \in Archive
      <3>1. Baseless \in BOOLEAN
        BY BaseIsArchive DEF Archive, Baseless
      <3>2. Marks(Base.hwm, memory.text) \in [Convs -> Sizes]
        BY BaseIsArchive, MarksType DEF Archive, TypeOK, Memory
      <3>3. memory \in Memory /\ clock \in 0 .. MaxClock /\ part \in Archive
        BY DEF TypeOK
      <3> QED
        BY <3>1, <3>2, <3>3 DEF Archive
    <2> QED
      BY <1>6, <2>1, NoneIsArchive DEF CopyStore, Fails, TypeOK, Goes, world
  <1>7. CASE Verify
    <2>1. faults' \in 0 .. MaxFaults
      BY <1>7, Struck DEF Verify, TypeOK
    <2> QED
      BY <1>7, <2>1, NoneIsArchive DEF Verify, TypeOK, Goes, world
  <1>8. CASE Judge
    BY <1>8, NoneIsArchive DEF Judge, Fails, TypeOK, Goes, world
  <1>9. CASE Publish
    BY <1>9 DEF Publish, TypeOK, Goes, world
  <1>10. CASE Compare
    <2>1. Len(log) \in DOMAIN log
      BY <1>10 DEF Compare, Kept, TypeOK
    <2>2. [log EXCEPT ![Len(log)].told = TRUE] \in Seq(Archive)
      BY <2>1, Relabels
    <2> QED
      BY <1>10, <2>2, EndsType DEF Compare, TypeOK, Goes, world
  <1>11. CASE Prune
    <2>1. log' \in Seq(Archive)
      BY <1>11, Unlists DEF Prune
    <2> QED
      BY <1>11, <2>1, EndsType DEF Prune
  <1>12. CASE Tick
    BY <1>12 DEF Tick, TypeOK, world
  <1>13. CASE Kill
    <2>1. faults' \in 0 .. MaxFaults
      BY <1>13, Struck DEF Kill, Strikes
    <2>2. debris' \subseteq 0 .. MaxClock
      BY <1>13 DEF Kill, TypeOK
    <2>3. log' \in Seq(Archive)
      <3>1. pc = "compare" => Len(log) \in DOMAIN log
        BY DEF Kept, TypeOK
      <3> QED
        BY <1>13, <3>1, Relabels DEF Kill, TypeOK
    <2> QED
      BY <1>13, <2>1, <2>2, <2>3, NoneIsArchive DEF Kill, Goes, TypeOK, world
  <1>14. CASE Change
    <2>1. \A n \in Sizes : n \div 2 \in Sizes
      BY DEF Sizes
    <2>2. 0 \in Sizes /\ Full \in Sizes
      BY DEF Sizes
    <2>3. memory' \in Memory
      <3>1. memory \in Memory
        BY DEF TypeOK
      <3>2. ASSUME NEW c \in Convs
            PROVE  /\ [memory EXCEPT !.text[c] = @ \div 2] \in Memory
                   /\ [memory EXCEPT !.text[c] = Full] \in Memory
                   /\ [memory EXCEPT !.deep[c] = 0] \in Memory
        <4>1. [memory.text EXCEPT ![c] = @ \div 2] \in [Convs -> Sizes]
          BY <2>1, <3>1 DEF Memory
        <4> QED
          BY <2>2, <3>1, <4>1 DEF Memory
      <3> QED
        BY <1>14, <3>1, <3>2 DEF Change
    <2>4. chats' \in Sizes /\ bytes' \in Sizes
      BY <1>14, <2>1, <2>2 DEF Change, TypeOK
    <2> QED
      BY <1>14, <2>3, <2>4, Struck DEF Change, Strikes, TypeOK
  <1>15. CASE Vanish
    <2>1. faults' \in 0 .. MaxFaults
      BY <1>15, Struck DEF Vanish, Strikes
    <2> QED
      BY <1>15, <2>1 DEF Vanish, TypeOK
  <1>16. CASE Return
    BY <1>16 DEF Return, TypeOK
  <1>17. CASE Rot
    <2>1. log # <<>>
      BY <1>17 DEF Rot, Listed
    <2>2. Newest \in DOMAIN log
      BY <2>1, NewestIsLast DEF Kept
    <2>3. log' \in Seq(Archive)
      BY <1>17, <2>2, Relabels DEF Rot
    <2>4. faults' \in 0 .. MaxFaults
      BY <1>17, Struck DEF Rot, Strikes
    <2> QED
      BY <1>17, <2>3, <2>4, Zenon DEF Rot, TypeOK, world
  <1> QED
    BY <1>1, <1>2, <1>3, <1>4, <1>5, <1>6, <1>7, <1>8, <1>9, <1>10, <1>11,
       <1>12, <1>13, <1>14, <1>15, <1>16, <1>17 DEF Next, Cycle

----------------------------------------------------------------------------
(* The newest archive stays, and the one in the making knows it. *)

\* What every step but a publication does to the log: it changes what is
\* known of an archive, never what is in it.
SameLog ==
    /\ log' \in Seq(Archive) /\ Len(log') = Len(log)
    /\ \A i \in DOMAIN log :
          /\ log'[i].at = log[i].at /\ log'[i].memory = log[i].memory
          /\ log'[i].chats = log[i].chats /\ log'[i].hwm = log[i].hwm
          /\ log'[i].blind = log[i].blind
          /\ log[i].told => log'[i].told
          /\ log[i].cut => log'[i].cut

LEMMA NewestIsKept ==
    ASSUME TypeOK, log # <<>>, log[Len(log)].listed, NEW now
    PROVE  Len(log) \in KeepSet(now)
  <1>1. Len(log) \in Listed
    BY NewestIsLast DEF Listed
  <1>2. {j \in Listed : j > Len(log)} = {}
    BY DEF Listed, TypeOK
  <1>3. Cardinality({j \in Listed : j > Len(log)}) = 0
    BY <1>2, FS_EmptySet
  <1> QED
    BY <1>1, <1>3, Bounds DEF KeepSet

LEMMA PruneIs ==
    ASSUME TypeOK, Kept, Prune
    PROVE  /\ SameLog
           /\ \A i \in DOMAIN log : log'[i].told = log[i].told
           /\ \A i \in DOMAIN log : log'[i].listed =>  log[i].listed
           /\ \A i \in KeepSet(clock) : log'[i].listed
           /\ log # <<>> => log'[Len(log)].listed
  <1>1. PICK gone \in {Listed \ KeepSet(clock), {}} :
            log' = [i \in DOMAIN log |-> [log[i] EXCEPT !.listed = @ /\ i \notin gone]]
    BY DEF Prune
  <1>2. log' \in Seq(Archive) /\ DOMAIN log' = DOMAIN log
    BY <1>1, Unlists
  <1>3. Len(log') = Len(log)
    BY <1>2 DEF TypeOK
  <1>4. ASSUME NEW i \in DOMAIN log
        PROVE  /\ log'[i].at = log[i].at /\ log'[i].memory = log[i].memory
               /\ log'[i].chats = log[i].chats /\ log'[i].hwm = log[i].hwm
               /\ log'[i].blind = log[i].blind /\ log'[i].told = log[i].told
               /\ log'[i].cut = log[i].cut
               /\ log'[i].listed <=> (log[i].listed /\ i \notin gone)
    <2>1. log[i] \in Archive
      BY DEF TypeOK
    <2> QED
      BY <1>1, <2>1 DEF Archive
  <1>5. \A i \in KeepSet(clock) : i \in DOMAIN log /\ log[i].listed /\ i \notin gone
    BY DEF KeepSet, Listed
  <1>6. log # <<>> => Len(log) \in KeepSet(clock)
    BY NewestIsKept DEF Kept
  <1>7. \A i \in KeepSet(clock) : log'[i].listed
    BY <1>4, <1>5
  <1> QED
    BY <1>2, <1>3, <1>4, <1>6, <1>7 DEF SameLog

LEMMA CompareIs ==
    ASSUME TypeOK, Kept, Compare
    PROVE  /\ SameLog
           /\ \A i \in DOMAIN log : log'[i].listed = log[i].listed
           /\ \A i \in DOMAIN log \ {Len(log)} : log'[i] = log[i]
           /\ \/ Lost(BaseOfLast, part) /\ log'[Len(log)].told
                 /\ pc' = "asleep"
              \/ ~Lost(BaseOfLast, part) /\ log' = log /\ pc' = "prune"
                 /\ part' = part
  <1>1. Len(log) \in DOMAIN log /\ log \in Seq(Archive)
    BY DEF Compare, Kept, TypeOK
  <1>2. CASE ~Lost(BaseOfLast, part) /\ log' = log /\ pc' = "prune" /\ part' = part
    BY <1>1, <1>2 DEF SameLog
  <1>3. CASE Lost(BaseOfLast, part) /\ pc' = "asleep"
             /\ log' = [log EXCEPT ![Len(log)].told = TRUE]
    <2>1. log' \in Seq(Archive) /\ DOMAIN log' = DOMAIN log
      BY <1>1, <1>3, Relabels
    <2>2. Len(log') = Len(log)
      BY <1>1, <2>1
    <2>3. log[Len(log)] \in Archive
      BY <1>1
    <2>4. log'[Len(log)] = [log[Len(log)] EXCEPT !.told = TRUE]
      BY <1>1, <1>3
    <2>5. /\ log'[Len(log)].told /\ log'[Len(log)].listed = log[Len(log)].listed
          /\ log'[Len(log)].at = log[Len(log)].at
          /\ log'[Len(log)].memory = log[Len(log)].memory
          /\ log'[Len(log)].chats = log[Len(log)].chats
          /\ log'[Len(log)].hwm = log[Len(log)].hwm
          /\ log'[Len(log)].blind = log[Len(log)].blind
          /\ log'[Len(log)].cut = log[Len(log)].cut
      BY <2>3, <2>4 DEF Archive
    <2>6. \A i \in DOMAIN log \ {Len(log)} : log'[i] = log[i]
      BY <1>1, <1>3
    <2> QED
      BY <1>3, <2>1, <2>2, <2>5, <2>6 DEF SameLog
  <1> QED
    BY <1>2, <1>3 DEF Compare, Ends, Goes

LEMMA RotIs ==
    ASSUME TypeOK, Kept, Rot
    PROVE  /\ SameLog
           /\ \A i \in DOMAIN log : /\ log'[i].listed = log[i].listed
                                    /\ log'[i].told = log[i].told
  <1>1. log # <<>>
    BY DEF Rot, Listed
  <1>2. Newest = Len(log) /\ Len(log) \in DOMAIN log /\ log \in Seq(Archive)
    BY <1>1, NewestIsLast DEF Kept, TypeOK
  <1>3. log' = [log EXCEPT ![Len(log)].legible = FALSE]
    BY <1>2 DEF Rot
  <1>4. log' \in Seq(Archive) /\ DOMAIN log' = DOMAIN log
    BY <1>2, <1>3, Relabels
  <1>5. Len(log') = Len(log)
    BY <1>2, <1>4
  <1>6. log[Len(log)] \in Archive
    BY <1>2
  <1>7. log'[Len(log)] = [log[Len(log)] EXCEPT !.legible = FALSE]
    BY <1>2, <1>3
  <1>8. /\ log'[Len(log)].told = log[Len(log)].told
        /\ log'[Len(log)].listed = log[Len(log)].listed
        /\ log'[Len(log)].at = log[Len(log)].at
        /\ log'[Len(log)].memory = log[Len(log)].memory
        /\ log'[Len(log)].chats = log[Len(log)].chats
        /\ log'[Len(log)].hwm = log[Len(log)].hwm
        /\ log'[Len(log)].blind = log[Len(log)].blind
        /\ log'[Len(log)].cut = log[Len(log)].cut
    BY <1>6, <1>7 DEF Archive
  <1>9. \A i \in DOMAIN log \ {Len(log)} : log'[i] = log[i]
    BY <1>2, <1>3
  <1> QED
    BY <1>4, <1>5, <1>8, <1>9 DEF SameLog

\* A kill between a publication that lost something and its alarm.
Cuts == Kill /\ pc = "compare" /\ Lost(BaseOfLast, part)

LEMMA CutIs ==
    ASSUME TypeOK, Kept, Cuts
    PROVE  /\ SameLog
           /\ \A i \in DOMAIN log : log'[i].listed = log[i].listed
           /\ log # <<>> /\ log'[Len(log)].cut
           /\ pc' = "boot" /\ ~part'.told
  <1>1. /\ Len(log) \in DOMAIN log /\ log \in Seq(Archive) /\ log # <<>>
        /\ log' = [log EXCEPT ![Len(log)].cut = TRUE]
    BY DEF Cuts, Kill, Kept, TypeOK
  <1>2. log' \in Seq(Archive) /\ DOMAIN log' = DOMAIN log
    BY <1>1, Relabels
  <1>3. Len(log') = Len(log)
    BY <1>1, <1>2
  <1>4. log[Len(log)] \in Archive
    BY <1>1
  <1>5. log'[Len(log)] = [log[Len(log)] EXCEPT !.cut = TRUE]
    BY <1>1
  <1>6. /\ log'[Len(log)].told = log[Len(log)].told
        /\ log'[Len(log)].listed = log[Len(log)].listed
        /\ log'[Len(log)].at = log[Len(log)].at
        /\ log'[Len(log)].memory = log[Len(log)].memory
        /\ log'[Len(log)].chats = log[Len(log)].chats
        /\ log'[Len(log)].hwm = log[Len(log)].hwm
        /\ log'[Len(log)].blind = log[Len(log)].blind
        /\ log'[Len(log)].cut
    BY <1>4, <1>5 DEF Archive
  <1>7. \A i \in DOMAIN log \ {Len(log)} : log'[i] = log[i]
    BY <1>1
  <1>8. pc' = "boot" /\ ~part'.told
    BY DEF Cuts, Kill, Goes, None
  <1> QED
    BY <1>1, <1>2, <1>3, <1>6, <1>7, <1>8 DEF SameLog

\* The steps that do not touch the log.
Quietly ==
    Boot \/ Wakes \/ Begin \/ SnapDb \/ CopyStore \/ Verify \/ Judge \/ Tick
    \/ (Kill /\ ~Cuts) \/ Change \/ Vanish \/ Return

LEMMA QuietlyIs ==
    ASSUME Quietly
    PROVE  UNCHANGED log
  BY DEF Quietly, Boot, Wakes, Begin, SnapDb, CopyStore, Verify, Judge, Fails,
         Tick, Kill, Cuts, Change, Vanish, Return

LEMMA StepsAre ==
    ASSUME [Next]_vars
    PROVE  UNCHANGED vars \/ Quietly \/ Publish \/ Compare \/ Prune \/ Rot
           \/ Cuts
  BY DEF Next, Cycle, Quietly, Cuts

LEMMA NoneIs == ~None.told /\ ~None.listed /\ ~None.present /\ None.chats = 0
                /\ \A c \in Convs : None.memory.text[c] = 0
                        /\ None.memory.deep[c] = 0 /\ None.hwm[c] = 0
  BY DEF None

\* What the making of an archive carries from step to step.
LEMMA QuietlyMakes ==
    ASSUME TypeOK, Kept, Made, Quietly
    PROVE  /\ ~part'.told
           /\ pc' = "compare" => pc = "compare" /\ part' = part
           /\ pc' \in {"compare", "prune"} => pc = pc'
           /\ pc' \in Making =>
                 \/ pc \in Making /\ part' = part
                 \/ CopyStore /\ pc' = "verify"
  <1>0. part \in Archive
    BY DEF TypeOK
  <1>1. CASE SnapDb
    <2>1. ~[part EXCEPT !.chats = chats, !.bytes = bytes,
                        !.present = TRUE].told
      BY <1>0 DEF Archive, Made
    <2> QED
      BY <1>1, <2>1, NoneIs DEF SnapDb, Fails, Goes, Made, Making
  <1>2. CASE CopyStore
    <2>1. ~[part EXCEPT !.at = clock, !.memory = memory, !.legible = TRUE,
                !.listed = TRUE, !.blind = Baseless,
                !.hwm = Marks(Base.hwm, memory.text)].told
      BY <1>0 DEF Archive, Made
    <2> QED
      BY <1>2, <2>1, NoneIs DEF CopyStore, Fails, Goes, Made, Making
  <1>3. CASE Boot
    BY <1>3 DEF Boot, Goes, Made, Making
  <1>4. CASE Wakes \/ Begin
    BY <1>4 DEF Wakes, Begin, Goes, Made, Making
  <1>5. CASE Verify
    BY <1>5, NoneIs DEF Verify, Goes, Made, Making
  <1>6. CASE Judge
    BY <1>6, NoneIs DEF Judge, Fails, Goes, Made, Making
  <1>7. CASE Kill
    BY <1>7, NoneIs DEF Kill, Goes, Made, Making
  <1>8. CASE Tick \/ Change \/ Vanish \/ Return
    BY <1>8 DEF Tick, Change, Vanish, Return, Made, Making
  <1> QED
    BY <1>1, <1>2, <1>3, <1>4, <1>5, <1>6, <1>7, <1>8 DEF Quietly

\* What CopyStore writes into it.
LEMMA CopyIs ==
    ASSUME TypeOK, Kept, CopyStore, pc' = "verify"
    PROVE  /\ part'.at = clock /\ part'.memory = memory /\ part'.listed
           /\ part'.blind = Baseless /\ part'.chats = part.chats
           /\ part'.present = part.present
           /\ part'.hwm = Marks(Base.hwm, memory.text)
  <1>1. part \in Archive
    BY DEF TypeOK
  <1>2. part' = [part EXCEPT
                !.at = clock, !.memory = memory, !.legible = TRUE,
                !.listed = TRUE, !.blind = Baseless,
                !.hwm = Marks(Base.hwm, memory.text)]
    BY DEF CopyStore, Fails, Goes
  <1> QED
    BY <1>1, <1>2 DEF Archive

LEMMA PublishIs ==
    ASSUME TypeOK, Publish
    PROVE  /\ pc = "publish" /\ pc' = "compare" /\ part' = part
           /\ log' \in Seq(Archive) /\ Len(log') = Len(log) + 1
           /\ log'[Len(log) + 1] = part
           /\ \A i \in DOMAIN log : i \in DOMAIN log' /\ log'[i] = log[i]
           /\ DOMAIN log' = 1 .. Len(log) + 1 /\ DOMAIN log = 1 .. Len(log)
  BY DEF Publish, TypeOK, Goes

LEMMA NextKept ==
    ASSUME TypeOK, Kept, Made, [Next]_vars
    PROVE  Kept'
  <1>1. CASE UNCHANGED vars
    BY <1>1 DEF vars, Kept
  <1>2. CASE Quietly
    BY <1>2, QuietlyIs, QuietlyMakes DEF Kept
  <1>3. CASE Publish
    <2>1. part.listed /\ (log = <<>> => part.blind)
      BY <1>3, PublishIs DEF Made, Making
    <2>2. Len(log) \in Nat /\ (log = <<>> <=> Len(log) = 0)
      BY DEF TypeOK
    <2>3. Len(log) > 0 => log'[Len(log)].listed
      BY <1>3, <2>2, PublishIs DEF Kept
    <2> QED
      BY <1>3, <2>1, <2>2, <2>3, PublishIs DEF Kept
  <1>4. CASE Compare
    <2>1. log # <<>> /\ Len(log) \in Nat /\ pc = "compare" /\ log' # <<>>
      BY <1>4, CompareIs DEF Compare, Kept, TypeOK, SameLog
    <2>2. Len(log) \in DOMAIN log /\ (Len(log) > 1 => Len(log) - 1 \in DOMAIN log)
      BY <2>1 DEF TypeOK
    <2>3. log'[Len(log)].listed
          /\ (Len(log) > 1 => log'[Len(log) - 1].listed)
          /\ (Len(log) = 1 => log'[Len(log)].blind)
      BY <1>4, <2>1, <2>2, CompareIs DEF Kept, SameLog
    <2> QED
      BY <1>4, <2>1, <2>3, CompareIs DEF Kept, SameLog
  <1>5. CASE Prune
    <2>1. pc' = "asleep"
      BY <1>5 DEF Prune, Ends, Goes
    <2>2. log' # <<>> => log # <<>>
      BY <1>5, PruneIs DEF SameLog, TypeOK
    <2> QED
      BY <1>5, <2>1, <2>2, PruneIs DEF Kept, SameLog
  <1>6. CASE Rot
    <2>1. pc' \notin {"compare", "prune"}
      BY <1>6 DEF Rot
    <2>2. log # <<>> /\ Len(log) \in DOMAIN log
      BY <1>6 DEF Rot, Listed, TypeOK
    <2> QED
      BY <1>6, <2>1, <2>2, RotIs DEF Kept, SameLog
  <1>7. CASE Cuts
    <2>1. Len(log) \in DOMAIN log /\ Len(log') = Len(log)
      BY <1>7, CutIs DEF TypeOK, SameLog
    <2> QED
      BY <1>7, <2>1, CutIs DEF Kept, SameLog
  <1> QED
    BY <1>1, <1>2, <1>3, <1>4, <1>5, <1>6, <1>7, StepsAre

LEMMA NextMade ==
    ASSUME TypeOK, Kept, Made, [Next]_vars
    PROVE  Made'
  <1>1. CASE UNCHANGED vars
    BY <1>1 DEF vars, Made
  <1>2. CASE Quietly
    <2>1. CASE pc' \in Making /\ CopyStore /\ pc' = "verify"
      BY <1>2, <2>1, CopyIs, QuietlyIs, QuietlyMakes, BaseIsArchive DEF Made
    <2> QED
      BY <1>2, <2>1, QuietlyIs, QuietlyMakes DEF Made
  <1>3. CASE Publish
    BY <1>3, PublishIs DEF Made, Making
  <1>4. CASE Compare
    BY <1>4, NoneIs DEF Compare, Ends, Goes, Made, Making
  <1>5. CASE Prune
    BY <1>5, NoneIs DEF Prune, Ends, Goes, Made, Making
  <1>6. CASE Rot
    BY <1>6 DEF Rot, Made, Making
  <1>7. CASE Cuts
    BY <1>7, CutIs DEF Made, Making
  <1> QED
    BY <1>1, <1>2, <1>3, <1>4, <1>5, <1>6, <1>7, StepsAre

LEMMA InitIInv == Init => IInv
  <1>1. Init => Kept /\ Made
    BY NoneIs DEF Init, Kept, Made, Making
  <1> QED
    BY <1>1, TypeInit DEF IInv

LEMMA NextIInv == IInv /\ [Next]_vars => IInv'
  BY TypeNext, NextKept, NextMade DEF IInv

THEOREM Invariant == Spec => []IInv
  BY InitIInv, NextIInv, PTL DEF Spec

\* Whatever happens to the sources, the archives and the pod, the daemon and
\* its archives keep their type.
THEOREM TypeCorrect == Spec => []TypeOK
  <1>1. IInv => TypeOK
    BY DEF IInv
  <1> QED
    BY <1>1, Invariant, PTL

----------------------------------------------------------------------------
(* No loss goes untold. *)

\* One archive follows another: no mark went down, no text was halved since
\* the mark, and nothing that only grows shrank.
Follows(a, b) ==
    \A c \in Convs :
        /\ b.hwm[c] >= a.hwm[c]
        /\ ~Halved(a.hwm[c], b.memory.text[c])
        /\ b.memory.deep[c] >= a.memory.deep[c]

Marked(a) == \A c \in Convs : a.hwm[c] >= a.memory.text[c]

AllMarked ==
    /\ \A i \in DOMAIN log : Marked(log[i])
    /\ pc \in Making => Marked(part)

\* The archive just published goes on from the marks of the one before.
Linked ==
    pc = "compare" /\ ~part.blind =>
        /\ Len(log) > 1
        /\ part.hwm = Marks(log[Len(log) - 1].hwm, part.memory.text)

Chained ==
    \A j \in 1 .. Settled : \A i \in 1 .. j - 1 :
        CleanBetween(i, j) => Follows(log[i], log[j])

LEMMA MarkIs ==
    ASSUME NEW old \in Sizes, NEW new \in Sizes
    PROVE  /\ Mark(old, new) >= new
           /\ ~Halved(old, new) => Mark(old, new) >= old
  BY Bounds DEF Sizes, Mark, Halved

LEMMA ArchiveSizes ==
    ASSUME NEW a \in Archive, NEW c \in Convs
    PROVE  /\ a.hwm[c] \in Nat /\ a.hwm[c] \in Sizes
           /\ a.memory.text[c] \in Nat /\ a.memory.text[c] \in Sizes
           /\ a.memory.deep[c] \in Nat
  <1>1. a.hwm \in [Convs -> Sizes] /\ a.memory \in Memory
    BY DEF Archive
  <1> QED
    BY <1>1, Bounds DEF Memory, Sizes

LEMMA FollowsOn ==
    ASSUME NEW a \in Archive, NEW b \in Archive, NEW d \in Archive,
           Follows(a, b), Follows(b, d)
    PROVE  Follows(a, d)
  <1> SUFFICES ASSUME NEW c \in Convs
               PROVE  /\ d.hwm[c] >= a.hwm[c]
                      /\ ~Halved(a.hwm[c], d.memory.text[c])
                      /\ d.memory.deep[c] >= a.memory.deep[c]
    BY DEF Follows
  <1> QED
    BY ArchiveSizes DEF Follows, Halved

\* A comparison that finds nothing shows that the new one follows.
LEMMA ComparedFollows ==
    ASSUME IInv, Linked, pc = "compare", ~Lost(BaseOfLast, part)
    PROVE  \/ log[Len(log)].blind
           \/ Len(log) > 1 /\ Follows(log[Len(log) - 1], log[Len(log)])
  <1> SUFFICES ASSUME ~part.blind
               PROVE  Len(log) > 1 /\ Follows(log[Len(log) - 1], part)
    BY DEF IInv, Kept
  <1>1. Len(log) > 1 /\ part.hwm = Marks(log[Len(log) - 1].hwm, part.memory.text)
    BY DEF Linked
  <1>2. BaseOfLast = log[Len(log) - 1]
    BY <1>1, BeforeIsLast DEF IInv, Kept, BaseOfLast
  <1>3. log[Len(log) - 1] \in Archive /\ part \in Archive
    BY <1>1 DEF IInv, TypeOK
  <1>4. ~MemoryLost(log[Len(log) - 1], part)
    BY <1>2 DEF Lost
  <1>5. ASSUME NEW c \in Convs
        PROVE  part.hwm[c] = Mark(log[Len(log) - 1].hwm[c], part.memory.text[c])
    BY <1>1 DEF Marks
  <1> QED
    BY <1>1, <1>3, <1>4, <1>5, MarkIs, ArchiveSizes DEF MemoryLost, Follows

LEMMA SettledIs ==
    ASSUME TypeOK, Kept
    PROVE  /\ Settled \in Nat /\ Len(log) \in Nat
           /\ Settled =< Len(log)
           /\ pc = "compare" => Settled = Len(log) - 1
           /\ pc # "compare" => Settled = Len(log)
  BY DEF Settled, Kept, TypeOK

\* What is known of the archives compared so far stays.
LEMMA ChainStays ==
    ASSUME IInv, IInv', Chained, SameLog, NEW n \in Nat, n =< Settled,
           NEW j \in 1 .. n, NEW i \in 1 .. j - 1, CleanBetween(i, j)'
    PROVE  Follows(log'[i], log'[j])
  <1>1. i \in DOMAIN log /\ j \in DOMAIN log
        /\ \A k \in i + 1 .. j : k \in DOMAIN log
    <2>1. /\ Settled \in Nat /\ Len(log) \in Nat /\ Settled =< Len(log)
          /\ DOMAIN log = 1 .. Len(log)
      BY SettledIs DEF IInv, TypeOK
    <2> QED
      BY ONLY <2>1, n \in Nat, n =< Settled, j \in 1 .. n, i \in 1 .. j - 1
  <1>2. CleanBetween(i, j)
    BY <1>1 DEF SameLog, CleanBetween
  <1>3. Follows(log[i], log[j])
    BY <1>2, SettledIs DEF Chained, IInv
  <1> QED
    BY <1>1, <1>3 DEF SameLog, Follows

LEMMA ChainHolds ==
    ASSUME IInv, IInv', Chained, SameLog, Settled' = Settled
    PROVE  Chained'
  BY ChainStays, SettledIs DEF Chained, IInv

LEMMA ChainGrows ==
    ASSUME IInv, IInv', Chained, SameLog, pc = "compare", pc' # "compare",
           \/ log'[Len(log)].told \/ log[Len(log)].blind
           \/ log'[Len(log)].cut
           \/ Len(log) > 1 /\ Follows(log[Len(log) - 1], log[Len(log)])
    PROVE  Chained'
  <1>1. Settled' = Len(log) /\ Settled = Len(log) - 1 /\ Len(log) \in Nat \ {0}
        /\ Len(log') = Len(log)
    <2>1. Len(log) \in Nat /\ log # <<>> /\ Len(log') = Len(log)
      BY DEF IInv, TypeOK, Kept, SameLog
    <2>2. Len(log) # 0
      BY <2>1 DEF IInv, TypeOK
    <2> QED
      BY <2>1, <2>2 DEF Settled
  <1> SUFFICES ASSUME NEW j \in 1 .. Len(log), NEW i \in 1 .. j - 1,
                      CleanBetween(i, j)'
               PROVE  Follows(log'[i], log'[j])
    BY <1>1 DEF Chained
  <1>2. CASE j =< Len(log) - 1
    BY <1>1, <1>2, ChainStays
  <1>3. CASE j = Len(log)
    <2>1. j \in DOMAIN log /\ j - 1 \in DOMAIN log /\ i \in DOMAIN log
          /\ \A k \in i + 1 .. j : k \in DOMAIN log
      BY <1>3 DEF IInv, TypeOK
    <2>2. ~log'[j].told /\ ~log'[j].cut /\ ~log[j].blind
      BY <1>3, <2>1 DEF CleanBetween, SameLog
    <2>3. Follows(log[j - 1], log[j])
      BY <1>3, <2>2
    <2>4. CASE i = j - 1
      BY <2>1, <2>3, <2>4 DEF SameLog, Follows
    <2>5. CASE i # j - 1
      <3>1. CleanBetween(i, j - 1)
        <4>1. \A k \in i + 1 .. j - 1 :
                  k \in i + 1 .. j /\ k \in DOMAIN log /\ log'[k].blind = log[k].blind
                  /\ (log[k].told => log'[k].told)
                  /\ (log[k].cut => log'[k].cut)
          <5>1. \A k \in i + 1 .. j - 1 : k \in i + 1 .. j
            BY <1>1
          <5> QED
            BY <2>1, <5>1 DEF SameLog
        <4> QED
          BY <4>1 DEF CleanBetween
      <3>2. Follows(log[i], log[j - 1])
        BY <1>1, <1>3, <2>5, <3>1 DEF Chained
      <3>3. log[i] \in Archive /\ log[j - 1] \in Archive /\ log[j] \in Archive
        BY <2>1 DEF IInv, TypeOK
      <3>4. Follows(log[i], log[j])
        BY <2>3, <3>2, <3>3, FollowsOn
      <3> QED
        BY <2>1, <3>4 DEF SameLog, Follows
    <2> QED
      BY <2>4, <2>5
  <1> QED
    BY <1>1, <1>2, <1>3

Traced == AllMarked /\ Linked /\ Chained

LEMMA InitTraced == Init => Traced
  <1> SUFFICES ASSUME Init PROVE Traced
    OBVIOUS
  <1>1. Len(log) = 0 /\ DOMAIN log = {}
    BY DEF Init
  <1>2. Settled = 0
    BY <1>1 DEF Init, Settled
  <1> QED
    BY <1>1, <1>2 DEF Init, Traced, AllMarked, Linked, Chained, Making

LEMMA SameMarks ==
    ASSUME IInv, AllMarked, SameLog
    PROVE  \A i \in DOMAIN log' : Marked(log'[i])
  <1>1. DOMAIN log' = DOMAIN log
    BY DEF SameLog, IInv, TypeOK
  <1> QED
    BY <1>1 DEF AllMarked, SameLog, Marked

LEMMA NextMarked ==
    ASSUME IInv, AllMarked, [Next]_vars
    PROVE  AllMarked'
  <1>1. CASE UNCHANGED vars
    BY <1>1 DEF vars, AllMarked, Marked
  <1>2. CASE Quietly
    <2>1. UNCHANGED log
      BY <1>2, QuietlyIs
    <2>2. CASE pc' \in Making /\ pc \in Making /\ part' = part
      BY <2>1, <2>2 DEF AllMarked, Marked
    <2>3. CASE pc' = "verify" /\ CopyStore
      <3>1. /\ part'.memory = memory
            /\ part'.hwm = Marks(Base.hwm, memory.text)
        BY <2>3, CopyIs DEF IInv
      <3>2. Base \in Archive
        BY BaseIsArchive DEF IInv
      <3>3. \A c \in Convs : memory.text[c] \in Sizes
        BY DEF IInv, TypeOK, Memory
      <3>4. ASSUME NEW c \in Convs
            PROVE  part'.hwm[c] >= part'.memory.text[c]
        BY <3>1, <3>2, <3>3, ArchiveSizes, MarkIs DEF Marks
      <3> QED
        BY <2>1, <3>4 DEF AllMarked, Marked
    <2>4. CASE pc' \notin Making
      BY <2>1, <2>4 DEF AllMarked, Marked
    <2> QED
      BY <1>2, <2>2, <2>3, <2>4, QuietlyMakes DEF IInv
  <1>3. CASE Publish
    <2>1. Marked(part) /\ pc' \notin Making
      BY <1>3, PublishIs DEF IInv, AllMarked, Making
    <2>2. ASSUME NEW i \in DOMAIN log'
          PROVE  Marked(log'[i])
      <3>1. CASE i \in DOMAIN log
        BY <1>3, <3>1, PublishIs DEF IInv, AllMarked
      <3>2. CASE i \notin DOMAIN log
        BY <1>3, <2>1, <2>2, <3>2, PublishIs DEF IInv, TypeOK
      <3> QED
        BY <3>1, <3>2
    <2> QED
      BY <2>1, <2>2 DEF AllMarked
  <1>4. CASE Compare
    <2>1. pc' \notin Making
      BY <1>4, CompareIs DEF IInv, Making
    <2> QED
      BY <1>4, <2>1, CompareIs, SameMarks DEF IInv, AllMarked
  <1>5. CASE Prune
    <2>1. pc' \notin Making
      BY <1>5 DEF Prune, Ends, Goes, Making
    <2> QED
      BY <1>5, <2>1, PruneIs, SameMarks DEF IInv, AllMarked
  <1>6. CASE Rot
    <2>1. pc' \notin Making
      BY <1>6 DEF Rot, Making
    <2> QED
      BY <1>6, <2>1, RotIs, SameMarks DEF IInv, AllMarked
  <1>7. CASE Cuts
    <2>1. pc' \notin Making
      BY <1>7, CutIs DEF IInv, Making
    <2> QED
      BY <1>7, <2>1, CutIs, SameMarks DEF IInv, AllMarked
  <1> QED
    BY <1>1, <1>2, <1>3, <1>4, <1>5, <1>6, <1>7, StepsAre

LEMMA NextLinked ==
    ASSUME IInv, Linked, [Next]_vars
    PROVE  Linked'
  <1>1. CASE UNCHANGED vars
    BY <1>1 DEF vars, Linked
  <1>2. CASE Quietly
    BY <1>2, QuietlyIs, QuietlyMakes DEF IInv, Linked
  <1>3. CASE Publish
    <2>1. ASSUME ~part.blind
          PROVE  Len(log') > 1
                 /\ part.hwm = Marks(log'[Len(log') - 1].hwm, part.memory.text)
      <3>1. log # <<>> /\ part.hwm = Marks(log[Len(log)].hwm, part.memory.text)
        BY <1>3, <2>1, PublishIs DEF IInv, Made, Making
      <3>2. Len(log) \in Nat \ {0} /\ Len(log) \in DOMAIN log
        BY <3>1 DEF IInv, TypeOK
      <3> QED
        BY <1>3, <3>1, <3>2, PublishIs DEF IInv
    <2> QED
      BY <1>3, <2>1, PublishIs DEF IInv, Linked
  <1>4. CASE Compare
    <2>1. pc' # "compare"
      BY <1>4, CompareIs DEF IInv
    <2> QED
      BY <2>1 DEF Linked
  <1>5. CASE Prune
    BY <1>5 DEF Prune, Ends, Goes, Linked
  <1>6. CASE Rot
    BY <1>6 DEF Rot, Linked
  <1>7. CASE Cuts
    BY <1>7, CutIs DEF IInv, Linked
  <1> QED
    BY <1>1, <1>2, <1>3, <1>4, <1>5, <1>6, <1>7, StepsAre

LEMMA LogStays ==
    ASSUME TypeOK, UNCHANGED log
    PROVE  SameLog
  BY DEF SameLog, TypeOK

LEMMA NextChained ==
    ASSUME IInv, IInv', Linked, Chained, [Next]_vars
    PROVE  Chained'
  <1>1. CASE UNCHANGED vars
    <2>1. UNCHANGED <<log, pc>>
      BY <1>1 DEF vars
    <2>2. Settled' = Settled
      BY <2>1 DEF Settled
    <2> QED
      BY <2>1, <2>2, LogStays, ChainHolds DEF IInv
  <1>2. CASE Quietly
    <2>1. UNCHANGED log /\ SameLog
      BY <1>2, QuietlyIs, LogStays DEF IInv
    <2>2. CASE pc = "compare" /\ pc' # "compare"
      <3>1. ~Lost(BaseOfLast, part)
        BY <1>2, <2>2 DEF Quietly, Boot, Wakes, Begin, SnapDb, CopyStore,
           Verify, Judge, Tick, Kill, Cuts, Change, Vanish, Return
      <3> QED
        BY <2>1, <2>2, <3>1, ComparedFollows, ChainGrows
    <2>3. CASE pc # "compare" \/ pc' = "compare"
      <3>1. pc' = "compare" <=> pc = "compare"
        BY <1>2, <2>3, QuietlyMakes DEF IInv
      <3>2. Settled' = Settled
        BY <2>1, <3>1 DEF Settled
      <3> QED
        BY <2>1, <3>2, ChainHolds
    <2> QED
      BY <2>2, <2>3
  <1>3. CASE Publish
    <2>1. Settled' = Len(log) /\ Settled = Len(log) /\ Len(log) \in Nat
      BY <1>3, PublishIs DEF IInv, TypeOK, Settled
    <2> SUFFICES ASSUME NEW j \in 1 .. Len(log), NEW i \in 1 .. j - 1,
                        CleanBetween(i, j)'
                 PROVE  Follows(log'[i], log'[j])
      BY <2>1 DEF Chained
    <2>2. \A k \in i .. j : log'[k] = log[k]
      BY <1>3, <2>1, PublishIs DEF IInv
    <2>3. CleanBetween(i, j)
      BY <2>1, <2>2 DEF CleanBetween
    <2>4. log'[i] = log[i] /\ log'[j] = log[j]
      BY <2>1, <2>2
    <2> QED
      BY <2>1, <2>3, <2>4 DEF Chained
  <1>4. CASE Compare
    <2>1. pc = "compare" /\ pc' # "compare" /\ SameLog
      BY <1>4, CompareIs DEF IInv, Compare
    <2>2. CASE Lost(BaseOfLast, part)
      BY <1>4, <2>1, <2>2, CompareIs, ChainGrows DEF IInv
    <2>3. CASE ~Lost(BaseOfLast, part)
      BY <2>1, <2>3, ComparedFollows, ChainGrows
    <2> QED
      BY <2>2, <2>3
  <1>5. CASE Prune
    <2>1. pc # "compare" /\ pc' # "compare"
      BY <1>5 DEF Prune, Ends, Goes
    <2>2. SameLog /\ Len(log') = Len(log)
      BY <1>5, PruneIs DEF IInv, SameLog
    <2>3. Settled' = Settled
      BY <2>1, <2>2 DEF Settled
    <2> QED
      BY <2>2, <2>3, ChainHolds
  <1>6. CASE Rot
    <2>1. pc # "compare" /\ pc' # "compare"
      BY <1>6 DEF Rot
    <2>2. SameLog /\ Len(log') = Len(log)
      BY <1>6, RotIs DEF IInv, SameLog
    <2>3. Settled' = Settled
      BY <2>1, <2>2 DEF Settled
    <2> QED
      BY <2>2, <2>3, ChainHolds
  <1>7. CASE Cuts
    BY <1>7, CutIs, ChainGrows DEF Cuts, IInv
  <1> QED
    BY <1>1, <1>2, <1>3, <1>4, <1>5, <1>6, <1>7, StepsAre

\* However slowly memory is lost, an alarm tells of it: what the archives
\* with no alarm and no killed comparison between them hold went down by less
\* than half, and what only grows did not go down.
THEOREM LossesAreTold == Spec => []LossIsTold
  <1>1. Init => Traced
    BY InitTraced
  <1>2. IInv /\ IInv' /\ Traced /\ [Next]_vars => Traced'
    BY NextMarked, NextLinked, NextChained DEF Traced
  <1>3. IInv /\ Traced => LossIsTold
    <2> SUFFICES ASSUME IInv, Traced, NEW j \in 1 .. Settled,
                        NEW i \in 1 .. j - 1, CleanBetween(i, j), NEW c \in Convs
                 PROVE  /\ ~Halved(log[i].memory.text[c], log[j].memory.text[c])
                        /\ log[j].memory.deep[c] >= log[i].memory.deep[c]
      BY DEF LossIsTold, Keeps
    <2>1. i \in DOMAIN log /\ j \in DOMAIN log
      BY SettledIs DEF IInv, TypeOK
    <2>2. log[i] \in Archive /\ log[j] \in Archive
      BY <2>1 DEF IInv, TypeOK
    <2>3. Follows(log[i], log[j])
      BY DEF Traced, Chained
    <2>4. log[i].hwm[c] >= log[i].memory.text[c]
      BY <2>1 DEF Traced, AllMarked, Marked
    <2> QED
      BY <2>2, <2>3, <2>4, ArchiveSizes DEF Follows, Halved
  <1> QED
    BY <1>1, <1>2, <1>3, Invariant, PTL DEF Spec

----------------------------------------------------------------------------
(* Nothing is pruned behind a loss. *)

Cleared ==
    pc = "prune" =>
        log[Len(log)].blind \/ ~Lost(log[Max(Before)], log[Len(log)])

LEMMA NextCleared ==
    ASSUME IInv, IInv', Cleared, [Next]_vars
    PROVE  Cleared'
  <1>1. CASE UNCHANGED vars
    BY <1>1 DEF vars, Cleared, Before, Listed
  <1>2. CASE Quietly
    <2>1. CASE pc' = "prune"
      BY <1>2, <2>1, QuietlyMakes, QuietlyIs DEF IInv, Cleared, Before, Listed
    <2> QED
      BY <2>1 DEF Cleared
  <1>3. CASE Publish
    BY <1>3 DEF Publish, Goes, Cleared
  <1>4. CASE Compare
    <2>1. CASE pc' = "prune"
      <3>1. ~Lost(BaseOfLast, part) /\ UNCHANGED log /\ part = log[Len(log)]
        BY <1>4, <2>1, CompareIs DEF IInv, Compare, Kept
      <3> QED
        BY <3>1 DEF Cleared, BaseOfLast, Before, Listed
    <2> QED
      BY <2>1 DEF Cleared
  <1>5. CASE Prune
    BY <1>5 DEF Prune, Ends, Goes, Cleared
  <1>6. CASE Rot
    BY <1>6 DEF Rot, Cleared
  <1>7. CASE Cuts
    BY <1>7, CutIs DEF IInv, Cleared
  <1> QED
    BY <1>1, <1>2, <1>3, <1>4, <1>5, <1>6, <1>7, StepsAre

\* A cycle that found fewer chats or less memory than the archive before it
\* removes none.
THEOREM LossKeepsArchives == Spec => NoPruneBehindLoss
  <1>1. Init => Cleared
    BY DEF Init, Cleared
  <1>2. IInv /\ IInv' /\ Cleared /\ [Next]_vars => Cleared'
    BY NextCleared
  <1>3. IInv /\ Cleared /\ [Next]_vars =>
          [(\E i \in Listed : ~log'[i].listed) =>
             (log[Len(log)].blind \/ ~Lost(log[Max(Before)], log[Len(log)]))]_vars
    <2> SUFFICES ASSUME IInv, Cleared, [Next]_vars, NEW i \in Listed,
                        ~log'[i].listed
                 PROVE  log[Len(log)].blind \/ ~Lost(log[Max(Before)], log[Len(log)])
      OBVIOUS
    <2>1. i \in DOMAIN log /\ log[i].listed
      BY DEF Listed
    <2>2. ~(UNCHANGED log)
      BY <2>1
    <2>3. ~Publish /\ ~Compare /\ ~Rot /\ ~Cuts
      BY <2>1, PublishIs, CompareIs, RotIs, CutIs DEF IInv
    <2>4. Prune
      BY <2>2, <2>3, StepsAre, QuietlyIs DEF vars
    <2> QED
      BY <2>4 DEF Prune, Cleared
  <1> QED
    BY <1>1, <1>2, <1>3, Invariant, PTL DEF Spec, NoPruneBehindLoss

----------------------------------------------------------------------------
(* Each promised week has an archive. *)

\* The archives are in the order of their times, and none is of the future.
Ordered ==
    /\ \A i, j \in DOMAIN log : i =< j => log[i].at =< log[j].at
    /\ \A i \in DOMAIN log : log[i].at =< clock
    /\ pc \in Making =>
          part.at =< clock /\ \A i \in DOMAIN log : log[i].at =< part.at

SameWeek(i, j) == WeekOf(log[i].at) = WeekOf(log[j].at)

\* An archive of a promised week is followed, in that week, by one that is
\* listed: pruning keeps the newest of a week, and with it the younger.
WeekKept ==
    \A i \in DOMAIN log :
        clock - log[i].at =< Weeks * WeekLen =>
            \E j \in Listed : j >= i /\ SameWeek(i, j)

LEMMA LastOf ==
    ASSUME NEW n \in Nat, NEW S \in SUBSET (1 .. n), NEW k \in S
    PROVE  \E m \in S : \A x \in S : x =< m
  <1> DEFINE T == {n - x : x \in S}
  <1>1. T \subseteq Nat /\ T # {}
    OBVIOUS
  <1>2. PICK t \in T : \A y \in T : ~(<<y, t>> \in OpToRel(<, Nat))
    BY <1>1, NatLessThanWellFounded, WFMin
  <1>3. \A y \in T : ~(y < t)
    BY <1>1, <1>2 DEF OpToRel
  <1>4. PICK m \in S : t = n - m
    OBVIOUS
  <1>5. ASSUME NEW x \in S
        PROVE  x =< m
    <2>1. ~(n - x < n - m)
      BY <1>3, <1>4
    <2> QED
      BY <2>1
  <1> QED
    BY <1>5

LEMMA InitOrdered == Init => Ordered /\ WeekKept
  <1> SUFFICES ASSUME Init PROVE Ordered /\ WeekKept
    OBVIOUS
  <1>1. DOMAIN log = {}
    BY DEF Init
  <1> QED
    BY <1>1 DEF Init, Ordered, WeekKept, Making

LEMMA Times ==
    ASSUME TypeOK
    PROVE  clock \in Nat /\ part.at \in Nat
           /\ \A i \in DOMAIN log : log[i].at \in Nat
  <1>1. part \in Archive /\ \A i \in DOMAIN log : log[i] \in Archive
    BY DEF TypeOK
  <1> QED
    BY <1>1, Bounds DEF TypeOK, Archive

LEMMA ClockGoes ==
    ASSUME TypeOK, [Next]_vars
    PROVE  /\ clock' \in Nat /\ clock' >= clock
           /\ UNCHANGED clock \/ Tick
  <1>1. UNCHANGED clock \/ Tick
    BY DEF Next, Cycle, Boot, Wakes, Begin, SnapDb, CopyStore, Verify, Judge,
       Publish, Compare, Prune, Fails, Ends, Kill, Change, Vanish, Return, Rot,
       vars
  <1> QED
    BY <1>1, Times DEF Tick

LEMMA NextOrdered ==
    ASSUME IInv, Ordered, [Next]_vars
    PROVE  Ordered'
  <1> USE DEF IInv
  <1>1. ASSUME SameLog
        PROVE  /\ \A i, j \in DOMAIN log' : i =< j => log'[i].at =< log'[j].at
               /\ \A i \in DOMAIN log' : log'[i].at =< clock'
    <2>1. DOMAIN log' = DOMAIN log /\ \A i \in DOMAIN log : log'[i].at = log[i].at
      BY <1>1 DEF SameLog, TypeOK
    <2>2. \A i \in DOMAIN log : log[i].at =< clock'
      BY ClockGoes, Times DEF Ordered
    <2> QED
      BY <2>1, <2>2 DEF Ordered
  <1>2. CASE UNCHANGED vars
    BY <1>2 DEF vars, Ordered
  <1>3. CASE Quietly
    <2>1. UNCHANGED log /\ SameLog
      BY <1>3, QuietlyIs, LogStays
    <2>2. CASE pc \in Making /\ part' = part
      BY <1>1, <2>1, <2>2, ClockGoes, Times DEF Ordered
    <2>3. CASE CopyStore /\ pc' = "verify"
      <3>1. part'.at = clock /\ clock' = clock
        BY <2>3, CopyIs DEF CopyStore, Fails
      <3> QED
        BY <1>1, <2>1, <3>1, Times DEF Ordered
    <2>4. CASE pc' \notin Making
      BY <1>1, <2>1, <2>4 DEF Ordered
    <2> QED
      BY <1>3, <2>2, <2>3, <2>4, QuietlyMakes
  <1>4. CASE Publish
    <2>1. /\ pc \in Making /\ pc' \notin Making /\ clock' = clock
          /\ part.at =< clock /\ \A i \in DOMAIN log : log[i].at =< part.at
      BY <1>4, PublishIs DEF Publish, Making, Ordered
    <2>2. \A i \in DOMAIN log' : i \in DOMAIN log \/ i = Len(log) + 1
      BY <1>4, PublishIs DEF TypeOK
    <2>3. \A i, j \in DOMAIN log' : i =< j => log'[i].at =< log'[j].at
      <3> SUFFICES ASSUME NEW i \in DOMAIN log', NEW j \in DOMAIN log', i =< j
                   PROVE  log'[i].at =< log'[j].at
        OBVIOUS
      <3>1. CASE j \in DOMAIN log
        <4>1. i \in DOMAIN log
          BY <1>4, <3>1, PublishIs DEF TypeOK
        <4> QED
          BY <1>4, <3>1, <4>1, PublishIs DEF Ordered
      <3>2. CASE j = Len(log) + 1
        BY <1>4, <2>1, <2>2, <3>2, PublishIs, Times DEF Ordered
      <3> QED
        BY <2>2, <3>1, <3>2
    <2>4. \A i \in DOMAIN log' : log'[i].at =< clock'
      BY <1>4, <2>1, <2>2, PublishIs DEF Ordered
    <2> QED
      BY <2>1, <2>3, <2>4 DEF Ordered
  <1>5. CASE Compare
    <2>1. pc' \notin Making
      BY <1>5, CompareIs DEF Making
    <2> QED
      BY <1>1, <1>5, <2>1, CompareIs DEF Ordered
  <1>6. CASE Prune
    <2>1. pc' \notin Making
      BY <1>6 DEF Prune, Ends, Goes, Making
    <2> QED
      BY <1>1, <1>6, <2>1, PruneIs DEF Ordered
  <1>7. CASE Rot
    <2>1. pc' \notin Making
      BY <1>7 DEF Rot, Making
    <2> QED
      BY <1>1, <1>7, <2>1, RotIs DEF Ordered
  <1>8. CASE Cuts
    <2>1. pc' \notin Making
      BY <1>8, CutIs DEF Making
    <2> QED
      BY <1>1, <1>8, <2>1, CutIs DEF Ordered
  <1> QED
    BY <1>2, <1>3, <1>4, <1>5, <1>6, <1>7, <1>8, StepsAre

\* Pruning keeps the last listed archive of a promised week.
LEMMA PruneKeepsWeek ==
    ASSUME IInv, Ordered, Prune, NEW i \in DOMAIN log, NEW j \in Listed,
           clock - log[i].at =< Weeks * WeekLen, j >= i, SameWeek(i, j)
    PROVE  \E m \in Listed : m >= i /\ SameWeek(i, m) /\ log'[m].listed
  <1> DEFINE S == {x \in Listed : SameWeek(i, x)}
  <1>1. Len(log) \in Nat /\ S \in SUBSET (1 .. Len(log)) /\ j \in S
    BY DEF IInv, TypeOK, Listed
  <1>2. PICK m \in S : \A x \in S : x =< m
    BY <1>1, LastOf
  <1>3. m \in DOMAIN log /\ i \in 1 .. Len(log) /\ m \in 1 .. Len(log) /\ j =< m
    BY <1>1, <1>2 DEF Listed, IInv, TypeOK
  <1>4. m >= i
    BY <1>1, <1>3
  <1>5. log[i].at =< log[m].at
    BY <1>3, <1>4 DEF Ordered
  <1>6. clock - log[m].at =< Weeks * WeekLen
    BY <1>3, <1>5, Times, Bounds DEF IInv
  <1>7. \A x \in Listed : WeekOf(log[x].at) = WeekOf(log[m].at) => x =< m
    BY <1>2 DEF SameWeek
  <1>8. m \in KeepSet(clock)
    BY <1>6, <1>7 DEF KeepSet
  <1> QED
    BY <1>4, <1>8, PruneIs DEF IInv

LEMMA NextWeekKept ==
    ASSUME IInv, IInv', Ordered, WeekKept, [Next]_vars
    PROVE  WeekKept'
  <1>1. ASSUME NEW i \in DOMAIN log, clock' - log[i].at =< Weeks * WeekLen
        PROVE  clock - log[i].at =< Weeks * WeekLen
    BY <1>1, ClockGoes, Times, Bounds DEF IInv
  <1>2. ASSUME SameLog, \A i \in DOMAIN log : log'[i].listed = log[i].listed
        PROVE  WeekKept'
    <2>1. DOMAIN log' = DOMAIN log /\ \A i \in DOMAIN log : log'[i].at = log[i].at
      BY <1>2 DEF SameLog, IInv, TypeOK
    <2>2. Listed' = Listed
      BY <1>2, <2>1 DEF Listed
    <2>3. \A j \in Listed : j \in DOMAIN log
      BY DEF Listed
    <2> QED
      BY <1>1, <2>1, <2>2, <2>3 DEF WeekKept, SameWeek
  <1>3. CASE UNCHANGED vars
    BY <1>3 DEF vars, WeekKept, Listed, SameWeek
  <1>4. CASE Quietly
    BY <1>2, <1>4, QuietlyIs, LogStays DEF IInv
  <1>5. CASE Publish
    <2>1. part.listed
      BY <1>5, PublishIs DEF IInv, Made, Making
    <2> SUFFICES ASSUME NEW i \in DOMAIN log',
                        clock' - log'[i].at =< Weeks * WeekLen
                 PROVE  \E j \in Listed' : j >= i /\ SameWeek(i, j)'
      BY DEF WeekKept
    <2>2. CASE i \in DOMAIN log
      <3>1. PICK j \in Listed : j >= i /\ SameWeek(i, j)
        BY <1>1, <1>5, <2>2, PublishIs DEF IInv, WeekKept
      <3>2. j \in DOMAIN log /\ log[j].listed
        BY DEF Listed
      <3> QED
        BY <1>5, <2>2, <3>1, <3>2, PublishIs DEF IInv, Listed, SameWeek
    <2>3. CASE i \notin DOMAIN log
      <3>1. i = Len(log) + 1 /\ i \in Nat
        BY <1>5, <2>3, PublishIs DEF IInv, TypeOK
      <3> QED
        BY <1>5, <2>1, <3>1, PublishIs DEF IInv, Listed, SameWeek
    <2> QED
      BY <2>2, <2>3
  <1>6. CASE Compare
    BY <1>2, <1>6, CompareIs DEF IInv
  <1>7. CASE Prune
    <2>1. SameLog /\ DOMAIN log' = DOMAIN log
          /\ \A i \in DOMAIN log : log'[i].at = log[i].at
      BY <1>7, PruneIs DEF SameLog, IInv, TypeOK
    <2> SUFFICES ASSUME NEW i \in DOMAIN log,
                        clock' - log'[i].at =< Weeks * WeekLen
                 PROVE  \E j \in Listed' : j >= i /\ SameWeek(i, j)'
      BY <2>1 DEF WeekKept
    <2>2. clock - log[i].at =< Weeks * WeekLen
      BY <1>1, <2>1
    <2>3. PICK j \in Listed : j >= i /\ SameWeek(i, j)
      BY <2>2 DEF WeekKept
    <2>4. PICK m \in Listed : m >= i /\ SameWeek(i, m) /\ log'[m].listed
      BY <1>7, <2>2, <2>3, PruneKeepsWeek
    <2> QED
      BY <2>1, <2>4 DEF Listed, SameWeek
  <1>8. CASE Rot
    BY <1>2, <1>8, RotIs DEF IInv
  <1>9. CASE Cuts
    BY <1>2, <1>9, CutIs DEF IInv
  <1> QED
    BY <1>3, <1>4, <1>5, <1>6, <1>7, <1>8, <1>9, StepsAre

\* Each week for which a weekly archive is promised has one, whatever was
\* pruned, failed or killed since.
THEOREM WeeksAreKept == Spec => []WeeklyRestorePoint
  <1>1. Init => Ordered /\ WeekKept
    BY InitOrdered
  <1>2. IInv /\ IInv' /\ (Ordered /\ WeekKept) /\ [Next]_vars
            => (Ordered /\ WeekKept)'
    BY NextOrdered, NextWeekKept
  <1>3. WeekKept => WeeklyRestorePoint
    BY DEF WeekKept, SameWeek, WeeklyRestorePoint
  <1> QED
    BY <1>1, <1>2, <1>3, Invariant, PTL DEF Spec

----------------------------------------------------------------------------
(* Restarts do not fill the volume. *)

Apart(t) == log # <<>> => 2 * (t - log[Len(log)].at) >= Interval

\* A cycle that has begun began late enough, and so did the archive it makes;
\* a sleep lasts long enough.
Spaced ==
    /\ pc \in {"retry", "begin", "snap", "copy"} => Apart(clock)
    /\ pc \in Making => Apart(part.at)
    /\ pc = "asleep" => Apart(wake)

LEMMA LastTime ==
    ASSUME IInv, log # <<>>
    PROVE  /\ Len(log) \in DOMAIN log /\ log[Len(log)].at \in Nat
           /\ Newest = Len(log) /\ Listed # {}
  BY NewestIsLast, Times DEF IInv, Kept

LEMMA WakeIsNat == TypeOK => wake \in Nat
  BY Bounds DEF TypeOK

LEMMA SameApart ==
    ASSUME IInv, SameLog, NEW t \in Nat, NEW u \in Nat, Apart(t), u >= t
    PROVE  log' # <<>> => 2 * (u - log'[Len(log')].at) >= Interval
  <1> SUFFICES ASSUME log' # <<>>
               PROVE  2 * (u - log'[Len(log')].at) >= Interval
    OBVIOUS
  <1>1. log # <<>>
    BY DEF SameLog, IInv, TypeOK
  <1>2. log'[Len(log')].at = log[Len(log)].at
    BY <1>1, LastTime DEF SameLog
  <1> QED
    BY <1>1, <1>2, LastTime, Bounds DEF Apart

LEMMA NextSpaced ==
    ASSUME IInv, IInv', Ordered, Spaced, [Next]_vars
    PROVE  Spaced'
  <1> USE DEF IInv
  <1>1. clock \in Nat /\ clock' \in Nat /\ clock' >= clock /\ wake \in Nat
        /\ part.at \in Nat /\ wake' \in Nat
    <2>1. wake' \in Nat
      BY Bounds DEF TypeOK
    <2> QED
      BY <2>1, ClockGoes, Times, WakeIsNat
  <1>2. CASE UNCHANGED vars
    BY <1>2 DEF vars, Spaced, Apart
  <1>3. CASE Boot
    <2>1. UNCHANGED <<log, clock>> /\ pc' \in {"asleep", "begin"}
      BY <1>3 DEF Boot, Goes
    <2>2. CASE log = <<>>
      BY <2>1, <2>2 DEF Spaced, Apart, Making
    <2>3. CASE log # <<>> /\ 2 * (clock - log[Newest].at) < Interval
      <3>1. wake' = log[Len(log)].at + Interval /\ pc' = "asleep"
        BY <1>3, <2>3, LastTime DEF Boot, Goes
      <3>2. 2 * (wake' - log[Len(log)].at) >= Interval
        BY <2>3, <3>1, LastTime, Bounds
      <3> QED
        BY <2>1, <3>1, <3>2 DEF Spaced, Apart, Making
    <2>4. CASE log # <<>> /\ ~(2 * (clock - log[Newest].at) < Interval)
      <3>1. pc' = "begin"
        BY <1>3, <2>4 DEF Boot, Goes
      <3>2. 2 * (clock - log[Len(log)].at) >= Interval
        BY <1>1, <2>4, LastTime, Bounds
      <3> QED
        BY <2>1, <3>1, <3>2 DEF Spaced, Apart, Making
    <2> QED
      BY <2>2, <2>3, <2>4
  <1>4. CASE Wakes
    <2>1. UNCHANGED <<log, clock>> /\ pc' = "begin" /\ SameLog
      BY <1>4, LogStays DEF Wakes, Goes
    <2>2. Apart(clock) \/ (Apart(wake) /\ clock >= wake)
      BY <1>4 DEF Wakes, Spaced
    <2>3. Apart(clock)
      BY <1>1, <2>1, <2>2, SameApart DEF Apart
    <2> QED
      BY <2>1, <2>3 DEF Spaced, Apart, Making
  <1>5. ASSUME pc \in {"begin", "snap", "copy"} \cup Making,
               pc' \in {"retry", "snap", "copy"}, UNCHANGED <<log, clock>>
        PROVE  Spaced'
    <2>1. Apart(clock)
      <3>1. CASE pc \in Making
        BY <1>1, <1>5, <3>1, LogStays, SameApart DEF Spaced, Ordered, Apart
      <3> QED
        BY <1>5, <3>1 DEF Spaced
    <2> QED
      BY <1>5, <2>1 DEF Spaced, Apart, Making
  <1>6. CASE Begin \/ SnapDb
    BY <1>5, <1>6 DEF Begin, SnapDb, Fails, Goes
  <1>7. CASE CopyStore
    <2>1. UNCHANGED <<log, clock>> /\ pc = "copy"
      BY <1>7 DEF CopyStore, Fails
    <2>2. CASE pc' = "verify"
      <3>1. part'.at = clock
        BY <1>7, <2>2, CopyIs
      <3> QED
        BY <2>1, <2>2, <3>1 DEF Spaced, Apart, Making
    <2>3. CASE pc' = "retry"
      BY <1>5, <2>1, <2>3
    <2> QED
      BY <1>7, <2>2, <2>3 DEF CopyStore, Fails, Goes
  <1>8. CASE Verify \/ Judge
    <2>1. UNCHANGED <<log, clock>> /\ pc \in Making
      BY <1>8 DEF Verify, Judge, Fails, Making
    <2>2. CASE pc' \in {"judge", "publish"} /\ part' = part
      BY <2>1, <2>2 DEF Spaced, Apart, Making
    <2>3. CASE pc' = "retry"
      BY <1>5, <2>1, <2>3
    <2> QED
      BY <1>8, <2>2, <2>3 DEF Verify, Judge, Fails, Goes
  <1>9. CASE Publish
    BY <1>9, PublishIs DEF Spaced, Making
  <1>10. ASSUME SameLog, Ends
         PROVE  Spaced'
    <2>1. pc' = "asleep" /\ wake' = clock + Interval
      BY <1>10 DEF Ends, Goes
    <2>2. log' # <<>> => 2 * (wake' - log'[Len(log')].at) >= Interval
      <3> SUFFICES ASSUME log' # <<>>
                   PROVE  2 * (wake' - log'[Len(log')].at) >= Interval
        OBVIOUS
      <3>1. log # <<>>
        BY <1>10 DEF SameLog, TypeOK
      <3>2. log'[Len(log')].at = log[Len(log)].at /\ log[Len(log)].at =< clock
        BY <1>10, <3>1, LastTime DEF SameLog, Ordered
      <3> QED
        BY <1>1, <2>1, <3>1, <3>2, LastTime, Bounds
    <2> QED
      BY <2>1, <2>2 DEF Spaced, Apart, Making
  <1>11. CASE Compare
    <2>1. CASE pc' = "prune"
      BY <2>1 DEF Spaced, Making
    <2> QED
      BY <1>10, <1>11, <2>1, CompareIs DEF Compare, Goes
  <1>12. CASE Prune
    BY <1>10, <1>12, PruneIs DEF Prune
  <1>13. CASE Tick \/ Change \/ Vanish \/ Return \/ Rot
    <2>1. UNCHANGED <<pc, part, wake>>
      BY <1>13 DEF Tick, Change, Vanish, Return, Rot
    <2>2. SameLog
      BY <1>13, LogStays, RotIs DEF Tick, Change, Vanish, Return
    <2>3. pc \in {"retry", "begin", "snap", "copy"} =>
              (log' # <<>> => 2 * (clock' - log'[Len(log')].at) >= Interval)
      BY <1>1, <2>2, SameApart DEF Spaced
    <2>4. pc \in Making =>
              (log' # <<>> => 2 * (part.at - log'[Len(log')].at) >= Interval)
      BY <1>1, <2>2, SameApart DEF Spaced
    <2>5. pc = "asleep" =>
              (log' # <<>> => 2 * (wake - log'[Len(log')].at) >= Interval)
      BY <1>1, <2>2, SameApart DEF Spaced
    <2> QED
      BY <2>1, <2>3, <2>4, <2>5 DEF Spaced, Apart
  <1>14. CASE Kill
    BY <1>14 DEF Kill, Goes, Spaced, Making
  <1> QED
    BY <1>2, <1>3, <1>4, <1>6, <1>7, <1>8, <1>9, <1>11, <1>12, <1>13, <1>14
       DEF Next, Cycle

LEMMA NextApart ==
    ASSUME IInv, Spaced, NoRestartStorm, [Next]_vars
    PROVE  NoRestartStorm'
  <1> USE DEF IInv
  <1>1. ASSUME SameLog
        PROVE  NoRestartStorm'
    <2>1. \A j \in 2 .. Len(log) : j \in DOMAIN log /\ j - 1 \in DOMAIN log
      BY DEF TypeOK
    <2> QED
      BY <1>1, <2>1 DEF SameLog, NoRestartStorm
  <1>2. CASE UNCHANGED vars
    BY <1>1, <1>2, LogStays DEF vars
  <1>3. CASE Quietly
    BY <1>1, <1>3, QuietlyIs, LogStays
  <1>4. CASE Publish
    <2> SUFFICES ASSUME NEW j \in 2 .. Len(log')
                 PROVE  2 * (log'[j].at - log'[j - 1].at) >= Interval
      BY DEF NoRestartStorm
    <2>1. CASE j = Len(log')
      <3>1. log # <<>> /\ j = Len(log) + 1 /\ Len(log) \in DOMAIN log
        BY <1>4, <2>1, PublishIs DEF TypeOK
      <3>2. Apart(part.at)
        BY <1>4, PublishIs DEF Spaced, Making
      <3> QED
        BY <1>4, <3>1, <3>2, PublishIs DEF Apart, TypeOK
    <2>2. CASE j # Len(log')
      <3>1. j \in 2 .. Len(log) /\ j \in DOMAIN log /\ j - 1 \in DOMAIN log
        BY <1>4, <2>2, PublishIs DEF TypeOK
      <3> QED
        BY <1>4, <3>1, PublishIs DEF NoRestartStorm
    <2> QED
      BY <2>1, <2>2
  <1>5. CASE Compare \/ Prune \/ Rot
    BY <1>1, <1>5, CompareIs, PruneIs, RotIs
  <1>6. CASE Cuts
    BY <1>1, <1>6, CutIs
  <1> QED
    BY <1>2, <1>3, <1>4, <1>5, <1>6, StepsAre

\* However often the process restarts, two archives are at least half an
\* interval apart.
THEOREM RestartsAreQuiet == Spec => []NoRestartStorm
  <1>1. Init => Ordered /\ WeekKept
    BY InitOrdered
  <1>2. Init => Spaced /\ NoRestartStorm
    <2> SUFFICES ASSUME Init PROVE Spaced /\ NoRestartStorm
      OBVIOUS
    <2>1. Len(log) = 0
      BY DEF Init
    <2> QED
      BY <2>1 DEF Init, Spaced, Making, NoRestartStorm
  <1>3. IInv /\ IInv' /\ (Ordered /\ Spaced /\ NoRestartStorm) /\ [Next]_vars
            => (Ordered /\ Spaced /\ NoRestartStorm)'
    BY NextOrdered, NextSpaced, NextApart
  <1> QED
    BY <1>1, <1>2, <1>3, Invariant, PTL DEF Spec
=============================================================================
