----------------------------- MODULE FactMemory -----------------------------
(***************************************************************************)
(* What the facts layer (compactor/facts.py) promises of the two files it  *)
(* keeps for a conversation, whatever lies between them: they are one      *)
(* memory, in which every operation is one step.  A step either states     *)
(* something and loses nothing, or forgets something and nothing else.  A  *)
(* request that is interrupted, a write that fails and a process that dies *)
(* are no step at all.                                                     *)
(***************************************************************************)
EXTENDS Integers

CONSTANT Claims

VARIABLES
    here,       \* the facts that go into the prompt: [text, last, pin]
    away,       \* the facts that were put away
    forgotten   \* the claims forgotten and not stated again since

vars == <<here, away, forgotten>>

\* What a set of facts says.
Said(F) == UNION {f.text : f \in F}

\* G says all that each fact of F says in one fact, used as recently at least.
RecalledIn(F, G) == \A f \in F : \E g \in G : f.text \subseteq g.text /\ g.last >= f.last

Init ==
    /\ here = {} /\ away = {}
    /\ forgotten = {}

\* S is stated, or brought back; with S empty the facts are only rearranged:
\* merged, pinned, touched, put away.  Nothing is lost, and nothing else
\* appears in the prompt, least of all what was forgotten.
States(S) ==
    /\ RecalledIn(here, here' \union away')
    /\ Said(away) \subseteq Said(here' \union away')
    /\ S \subseteq Said(here' \union away')
    /\ Said(here') \subseteq Said(here) \union S
    /\ forgotten' = forgotten \ S

\* S is forgotten: every fact that goes says some of it, and what is not of
\* it remains.
Forgets(S) ==
    /\ here' \subseteq here /\ away' \subseteq away
    /\ \A f \in here \ here' : f.text \intersect S # {}
    /\ S \subseteq Said(here \union away)
    /\ Said(here \union away) \ S \subseteq Said(here' \union away')
    /\ Said(here') \intersect S = {}
    /\ forgotten' = forgotten \union S

Next == \E S \in SUBSET Claims : States(S) \/ Forgets(S)

Spec == Init /\ [][Next]_vars
=============================================================================
