------------------------------- MODULE Prompt -------------------------------
(***************************************************************************)
(* What one request sends to the model: compactor/main.py                  *)
(* compact_if_needed, summarizer._coverage_plan, _bound_injected_blocks,   *)
(* _enforce_hard_budget and the line with the time.                        *)
(*                                                                         *)
(* The older turns are replaced by a block that says them (the stand-in),  *)
(* memory is injected, and what is then too large is shed by value.  A     *)
(* message has the tokens the compactor counts (local) and those the model *)
(* is charged (cost), which it can ask for (/tokenize) or not.             *)
(***************************************************************************)
EXTENDS Integers, Sequences, SequencesExt, FiniteSets

CONSTANTS
    N,             \* turns of the request; the odd ones are the user's
    Callers,       \* system messages of the client
    Late,          \* whether the last of them comes after its first turn
    Recent,        \* KEEP_RECENT_TURNS
    Target,        \* TARGET_TOKENS
    Limits,        \* what the window may leave for the prompt
    Line,          \* tokens reserved for the time
    Budget,        \* the share of memory
    Rounds,        \* rounds of the guard: 6
    MaxTrims,      \* trims of the guard: 32
    Sizings,       \* the sizes that the turns of a request may have
    CallerSize,    \* that of a system message of the client
    StandinSizes,
    MemoryScales   \* what the model may charge for a token of memory

Positive == [local : Nat \ {0}, cost : Nat \ {0}]

Layers == {"persona", "summary", "facts", "retrieval"}

ASSUME PromptAssumption ==
    /\ N \in Nat /\ N % 2 = 1 /\ {Recent, Rounds} \subseteq Nat \ {0}
    /\ {Callers, Target, Line, Budget, MaxTrims} \subseteq Nat /\ Limits \subseteq Nat
    /\ Sizings \subseteq [1 .. N -> Positive] /\ StandinSizes \subseteq Positive
    /\ CallerSize \in Positive
    /\ MemoryScales \subseteq Nat \ {0} /\ Late \in BOOLEAN /\ (Late => Callers > 0)

Turns == 1 .. N
Owners == {"caller", "standin", "memory"}

VARIABLES
    recorded, \* the turns the covered-turn record pairs with the older ones
    payload,  \* the messages
    stored,   \* whether the stand-in has the stored summaries
    limit,    \* what the window leaves for the prompt
    line,     \* the tokens reserved for the time
    pc,
    round,
    trims,
    scale,    \* what the model charged for the payload, and what was counted
    running,  \* the size of the payload as the guard has it
    counted,  \* what it has it from
    standin,  \* whether this round found a stand-in
    spent     \* the turns, and how many of the blocks, that the guard dropped

guard == <<round, trims, scale, running, counted, standin, spent>>
vars == <<recorded, payload, stored, limit, line, pc, guard>>

Role(i) == IF i % 2 = 1 THEN "user" ELSE "assistant"
IsTurn(m) == m.who \notin Owners
Size(m) == [local |-> m.local, cost |-> m.cost]
Message(who, says, size) ==
    [who |-> who, says |-> says, local |-> size.local, cost |-> size.cost]

Total(sizes) ==
    LET upto[i \in 0 .. Len(sizes)] == IF i = 0 THEN 0 ELSE upto[i - 1] + sizes[i]
    IN  upto[Len(sizes)]

Costs(p) == Total([i \in DOMAIN p |-> p[i].cost])
Locals(p) == Total([i \in DOMAIN p |-> p[i].local])
Said(p) == UNION {p[i].says : i \in DOMAIN p}

\* The messages of the client, a late system message after the first turn.
Request(size) ==
    LET caller == Message("caller", {}, CallerSize)
        turn == [i \in Turns |-> Message(Role(i), {i}, size[i])]
        first == Callers - (IF Late THEN 1 ELSE 0)
    IN  [k \in 1 .. first |-> caller]
        \o (IF Late THEN <<turn[1], caller>> ELSE <<turn[1]>>) \o Tail(turn)

\* split_messages: the recent turns begin with one of the user's.
RecentTurns ==
    LET from == N - Recent + 1 IN
    IF Role(from) = "user" THEN from .. N ELSE from + 1 .. N

Older == Turns \ RecentTurns

Init ==
    /\ payload \in {Request(size) : size \in Sizings}
    /\ recorded \in SUBSET Older
    /\ limit \in Limits /\ line \in {0, Line}
    /\ pc = "compact"
    /\ stored = FALSE /\ standin = FALSE
    /\ spent = [turns |-> {}, blocks |-> 0]
    /\ round = 0 /\ trims = 0 /\ running = 0 /\ counted = "none"
    /\ scale = [cost |-> 1, local |-> 1]

----------------------------------------------------------------------------
(* Compaction. *)

\* Mutant: what lies before a covered turn is covered.
CoveragePlanPrefix(matched) ==
    [covered |-> IF matched = {} THEN 0 ELSE Max(matched), changed |-> {}]

\* _coverage_plan: how far the record reaches, and what it lacks on the way.
CoveragePlan(matched) ==
    LET covered == IF matched = {} THEN 0 ELSE Max(matched)
    IN  [covered |-> covered, changed |-> (1 .. covered) \ matched]

\* The messages of p at some of its positions, in their order.
Kept(p, positions) ==
    LET before(i) == {j \in positions : j < i}
    IN  [k \in 1 .. Cardinality(positions) |->
            p[CHOOSE i \in positions : Cardinality(before(i)) = k - 1]]

TurnIndices == {i \in DOMAIN payload : IsTurn(payload[i])}
Systems == DOMAIN payload \ TurnIndices
OfTurns(which) == Kept(payload, {i \in TurnIndices : payload[i].says \subseteq which})

\* compact_if_needed: stored summaries replace what they cover, where they
\* fit whole; the rest is summarized now, or forwarded where that fails.
Compact ==
    /\ pc = "compact"
    /\ Locals(payload) > Target /\ Older # {}
    /\ LET plan == CoveragePlan(recorded \intersect Older) IN
       \E reuse \in {plan.covered > 0, FALSE}, works \in BOOLEAN,
          size \in StandinSizes :
          LET replaced == IF reuse THEN (1 .. plan.covered) \ plan.changed ELSE {}
              fresh == Older \ replaced
              deferred == IF works THEN {} ELSE fresh
              says == (recorded \intersect replaced) \union (fresh \ deferred)
              block == IF says = {} THEN <<>>
                       ELSE <<Message("standin", says, size)>>
          IN  /\ payload' = Kept(payload, Systems) \o block \o OfTurns(deferred)
                                \o OfTurns(RecentTurns)
              /\ stored' = reuse
    /\ pc' = "inject"
    /\ UNCHANGED <<recorded, limit, line, guard>>

\* Nothing to compact, or compaction raised.
CompactNot ==
    /\ pc = "compact"
    /\ pc' = "inject"
    /\ UNCHANGED <<recorded, payload, stored, limit, line, guard>>

----------------------------------------------------------------------------
(* Injection. *)

\* _INJECT_PRIORITY: the persona is the last to go.
Ranked == <<"persona", "summary", "facts", "retrieval">>

\* _bound_injected_blocks: the least valuable go until the rest is within the
\* budget or alone; a layer counts one token, charged at rate.
Bounded(found, rate) ==
    LET upTo(k) == {Ranked[i] : i \in 1 .. k} \intersect found
    IN  {Ranked[k] : k \in {j \in DOMAIN Ranked :
            /\ Ranked[j] \in found
            /\ Cardinality(upTo(j)) = 1 \/ rate * Cardinality(upTo(j)) <= Budget}}

\* inject_system_block: one block, behind the system messages that lead; the
\* summary only where the stand-in does not already carry it.
Inject ==
    /\ pc = "inject"
    /\ \E found \in SUBSET Layers, rate \in MemoryScales :
        /\ stored => "summary" \notin found
        /\ LET kept == Cardinality(Bounded(found, rate))
               leads == {k \in 0 .. Len(payload) :
                            \A i \in 1 .. k : ~IsTurn(payload[i])}
               at == Max(leads)
               block == Message("memory", {},
                                [local |-> kept, cost |-> rate * kept])
           IN payload' = IF kept = 0 THEN payload
                         ELSE InsertAt(payload, at + 1, block)
    /\ pc' = "count"
    /\ UNCHANGED <<recorded, stored, limit, line, guard>>

----------------------------------------------------------------------------
(* The guard. *)

Room == limit - line

\* Mutant: everything after the first system message is the guard's.
ProtectedOne == 1

\* protect_system: those the client sent, and one in any case.
Protected == IF Callers = 0 THEN 1 ELSE Callers

\* _droppable_system_indices.
Droppable ==
    {i \in Systems : Cardinality({j \in Systems : j < i}) >= Protected}

First == Min(TurnIndices)
IsStandin(i) == payload[i].who = "standin"
Memory == {i \in Droppable : ~IsStandin(i)}

\* What a message counts for in the arithmetic between two measurements.
Estimate(m) == (m.local * scale.cost) \div scale.local

Goes(step) == pc' = step
Ours == <<recorded, stored, limit, line>>

Drops(i) ==
    /\ payload' = RemoveAt(payload, i)
    /\ running' = running - Min({Estimate(payload[i]), running})
    /\ spent' = [turns |-> spent.turns \union payload[i].says,
                 blocks |-> spent.blocks + (IF IsTurn(payload[i]) THEN 0 ELSE 1)]

Trimmable(among) == {i \in among : payload[i].local > 1}

\* The largest is cut in half.
Trims(among) ==
    LET i == CHOOSE k \in Trimmable(among) : \A j \in Trimmable(among) :
                payload[j].local <= payload[k].local
        half == [payload[i] EXCEPT !.local = @ \div 2, !.cost = (@ + 1) \div 2]
    IN  /\ payload' = [payload EXCEPT ![i] = half]
        /\ running' = running - Min({running,
                                     Estimate(payload[i]) - Estimate(half)})
        /\ trims' = trims + 1

\* What a measurement gives: the model's count, or the local one, corrected.
Measures(p) ==
    \/ running' = Costs(p) /\ counted' = "exact"
    \/ running' = (Locals(p) * scale.cost) \div scale.local /\ counted' = "local"

\* Mutant: the estimate of the characters is compared with half the limit.
SmallEnoughHalf == Costs(payload) <= 2 * Room

\* Characters over four are within an eighth of the limit: a token is at
\* least one character.
SmallEnough == 2 * Costs(payload) <= Room

\* Nothing is measured where little can be there.
Prescreen ==
    /\ pc = "count" /\ SmallEnough
    /\ counted' = "prescreen" /\ running' = 0
    /\ Goes("line")
    /\ UNCHANGED <<Ours, payload, round, trims, scale, standin, spent>>

\* The one full count; it fixes the scale.
Count ==
    /\ pc = "count"
    /\ \/ /\ running' = Costs(payload) /\ counted' = "exact"
          /\ scale' = [cost |-> Costs(payload), local |-> Locals(payload)]
       \/ /\ running' = Locals(payload) /\ counted' = "local"
          /\ scale' = [cost |-> 1, local |-> 1]
    /\ Goes(IF running' <= Room THEN "line" ELSE "round")
    /\ UNCHANGED <<Ours, payload, round, trims, standin, spent>>

Over == running > Room

NextRound ==
    /\ pc = "round"
    /\ round' = round + 1
    /\ standin' = (\E i \in Droppable : IsStandin(i))
    /\ Goes(IF standin' THEN "owed" ELSE "turns")
    /\ UNCHANGED <<Ours, payload, trims, scale, running, counted, spent>>

\* The oldest exchange, whole where the user's turn has its reply.
Exchange ==
    LET i == First IN
    IF /\ payload[i].who = "user" /\ i + 1 \in TurnIndices
       /\ payload[i + 1].who = "assistant"
    THEN 2 ELSE 1

\* Mutant: memory goes first, although older turns are left.
OwedNot ==
    /\ pc = "owed"
    /\ Goes("trimMemory")
    /\ UNCHANGED <<Ours, payload, guard>>

\* Where older turns are said by nothing else, what the recent ones leave goes
\* first, an exchange at a time, ...
Owed ==
    /\ pc = "owed"
    /\ IF Over /\ Cardinality(TurnIndices) - Exchange >= Recent
       THEN LET gone == First .. First + Exchange - 1
                sum == Estimate(payload[First])
                       + (IF Exchange = 2 THEN Estimate(payload[First + 1]) ELSE 0) IN
            /\ payload' = [k \in 1 .. Len(payload) - Exchange |->
                            IF k < First THEN payload[k] ELSE payload[k + Exchange]]
            /\ running' = running - Min({sum, running})
            /\ spent' = [spent EXCEPT !.turns =
                            @ \union UNION {payload[i].says : i \in gone}]
            /\ UNCHANGED pc
       ELSE Goes("trimMemory") /\ UNCHANGED <<payload, running, spent>>
    /\ UNCHANGED <<Ours, round, trims, scale, counted, standin>>

\* ... then memory is trimmed, ...
TrimMemory ==
    /\ pc = "trimMemory"
    /\ IF Over /\ trims < MaxTrims /\ Trimmable(Memory) # {}
       THEN Trims(Memory) /\ UNCHANGED pc
       ELSE Goes("dropMemory") /\ UNCHANGED <<payload, running, trims>>
    /\ UNCHANGED <<Ours, round, scale, counted, standin, spent>>

\* ... then dropped, the last first.
DropMemory ==
    /\ pc = "dropMemory"
    /\ IF Over /\ Memory # {}
       THEN Drops(Max(Memory)) /\ UNCHANGED pc
       ELSE Goes("turns") /\ UNCHANGED <<payload, running, spent>>
    /\ UNCHANGED <<Ours, round, trims, scale, counted, standin>>

\* The oldest turns go; the newest never.
DropTurns ==
    /\ pc = "turns"
    /\ IF Over /\ Cardinality(TurnIndices) > 1
       THEN Drops(First) /\ UNCHANGED pc
       ELSE Goes("repair") /\ UNCHANGED <<payload, running, spent>>
    /\ UNCHANGED <<Ours, round, trims, scale, counted, standin>>

\* The first turn must be the user's.
Repair ==
    /\ pc = "repair"
    /\ IF Cardinality(TurnIndices) > 1 /\ payload[First].who # "user"
       THEN Drops(First) /\ UNCHANGED pc
       ELSE Goes("trim") /\ UNCHANGED <<payload, running, spent>>
    /\ UNCHANGED <<Ours, round, trims, scale, counted, standin>>

\* What was added is trimmed, ...
Trim ==
    /\ pc = "trim"
    /\ IF Over /\ trims < MaxTrims /\ Trimmable(Droppable) # {}
       THEN Trims(Droppable) /\ UNCHANGED pc
       ELSE Goes("drop") /\ UNCHANGED <<payload, running, trims>>
    /\ UNCHANGED <<Ours, round, scale, counted, standin, spent>>

\* ... then dropped.
Drop ==
    /\ pc = "drop"
    /\ IF Over /\ Droppable # {}
       THEN Drops(Max(Droppable)) /\ UNCHANGED pc
       ELSE Goes("verify") /\ UNCHANGED <<payload, running, spent>>
    /\ UNCHANGED <<Ours, round, trims, scale, counted, standin>>

Sheddable == Cardinality(TurnIndices) > 1 \/ Droppable # {}

AfterVerify(size) ==
    IF size <= Room THEN "line"
    ELSE IF Sheddable /\ round < Rounds THEN "round" ELSE "forced"

\* Mutant: the arithmetic is believed.
VerifyNot ==
    /\ pc = "verify"
    /\ Goes(AfterVerify(running))
    /\ UNCHANGED <<Ours, payload, round, trims, scale, running, counted,
                   standin, spent>>

\* The payload is measured again; it takes another round, or not.
Verify ==
    /\ pc = "verify"
    /\ Measures(payload)
    /\ Goes(AfterVerify(running'))
    /\ UNCHANGED <<Ours, payload, round, trims, scale, standin, spent>>

\* Mutant: the last resort is left out.
ForcedNot ==
    /\ pc = "forced"
    /\ Goes("line")
    /\ UNCHANGED <<Ours, payload, guard>>

\* The last resort: of what was added the last goes first, by the arithmetic,
\* ...
Forced ==
    /\ pc = "forced"
    /\ IF Over /\ Droppable # {}
       THEN Drops(Max(Droppable)) /\ UNCHANGED pc
       ELSE Goes("settle") /\ UNCHANGED <<payload, running, spent>>
    /\ UNCHANGED <<Ours, round, trims, scale, counted, standin>>

\* ... which is then measured, where a block was dropped at all, ...
Settle ==
    /\ pc = "settle"
    /\ IF spent.blocks > 0 THEN Measures(payload) ELSE UNCHANGED <<running, counted>>
    /\ Goes("escalate")
    /\ UNCHANGED <<Ours, payload, round, trims, scale, standin, spent>>

\* ... and then one block at a time, measured each time.
Escalate ==
    /\ pc = "escalate"
    /\ IF Over /\ Droppable # {}
       THEN LET left == RemoveAt(payload, Max(Droppable)) IN
            /\ payload' = left
            /\ spent' = [turns |-> spent.turns \union payload[Max(Droppable)].says,
                         blocks |-> spent.blocks + 1]
            /\ Measures(left)
            /\ UNCHANGED pc
       ELSE Goes("line") /\ UNCHANGED <<payload, running, counted, spent>>
    /\ UNCHANGED <<Ours, round, trims, scale, standin>>

\* The line with the time is added where the payload left it room.
AddLine ==
    /\ pc = "line"
    /\ line' = IF Over THEN 0 ELSE line
    /\ Goes("sent")
    /\ UNCHANGED <<recorded, payload, stored, limit, guard>>

Next ==
    \/ Compact \/ CompactNot \/ Inject
    \/ Prescreen \/ Count \/ NextRound
    \/ Owed \/ TrimMemory \/ DropMemory
    \/ DropTurns \/ Repair \/ Trim \/ Drop
    \/ Verify \/ Forced \/ Settle \/ Escalate \/ AddLine

Spec == Init /\ [][Next]_vars

----------------------------------------------------------------------------
(* Properties. *)

TypeOK ==
    /\ recorded \subseteq Turns /\ spent.turns \subseteq Turns
    /\ \A i \in DOMAIN payload :
        payload[i].who \in Owners \union {"user", "assistant"}
    /\ counted \in {"none", "prescreen", "exact", "local"}

\* Every turn of the request reaches the model, as it is or said by the
\* stand-in, but for those that the guard shed to fit the window
\* (main.py:1973, summarizer.py:1513).
NothingUnsaid == Turns \ spent.turns \subseteq Said(payload)

\* What the guard reports as fitting, on the word of the model's tokenizer or
\* of the prescreen, fits, with the line that is added after it
\* (main.py:4646, :4987).
CertifiedFits ==
    (pc = "sent" /\ ~Over /\ counted # "local") => Costs(payload) + line <= limit

\* A request that does not fit is sent with nothing in it that was the
\* guard's to spend: no block it had added, nor, while it has rounds left, a
\* turn but the newest (main.py:5011, :5115).
FailsEmptyHanded ==
    (pc = "sent" /\ Over) =>
        Droppable = {} /\ (Cardinality(TurnIndices) = 1 \/ round = Rounds)

\* The client's system messages and the newest turn are never shed, nor cut
\* (main.py:4476, :4549).
UsersOwnStays ==
    /\ Cardinality({i \in Systems : payload[i].who = "caller"
                                    /\ Size(payload[i]) = CallerSize}) = Callers
    /\ \E i \in TurnIndices : payload[i].says = {N}

\* What is shed has least value: in a payload that compaction has reduced, the
\* stand-in is touched only when one turn and no memory is left, and memory
\* only when no exchange before the recent turns is; in another, memory only
\* when one turn is left (main.py:4549, :4744), until the last resort.
Whole(who) == {Size(payload[i]) : i \in {j \in DOMAIN payload : payload[j].who = who}}
Talks == Cardinality(TurnIndices)
ShedsByValue ==
    [][(pc' # "inject" /\ pc \notin {"compact", "inject", "forced", "escalate"}) =>
        /\ Whole("standin") # Whole("standin")' =>
                Talks = 1 /\ Memory = {}
        /\ Whole("memory") # Whole("memory")' =>
                IF standin THEN Talks - Exchange < Recent ELSE Talks = 1]_vars

\* How far the guard has to go before it measures, or sends.
Stage ==
    CASE pc = "count" -> 6 [] pc = "round" -> 5
      [] pc = "owed" -> 13 [] pc = "trimMemory" -> 12 [] pc = "dropMemory" -> 11
      [] pc = "turns" -> 10 [] pc = "repair" -> 9 [] pc = "trim" -> 8 [] pc = "drop" -> 7
      [] pc = "verify" -> 6
      [] pc = "forced" -> 4 [] pc = "settle" -> 3 [] pc = "escalate" -> 2
      [] pc = "line" -> 1 [] OTHER -> 0

\* What it can still do: its rounds, its trims, the messages there are, and
\* what is left of a round.
StepsLeft == 9 * (Rounds - round) + (MaxTrims - trims) + Len(payload) + Stage

\* The guard ends, whatever the counts of the model are and however far from
\* them its arithmetic is: every step of it takes a round, a trim, a message
\* or a stage, and none gives one back (main.py:4744, :4855).
GuardEnds ==
    [][pc \notin {"compact", "inject"} => StepsLeft' \in 0 .. StepsLeft - 1]_vars
=============================================================================
