---------------------------- MODULE DurableCopy ----------------------------
(***************************************************************************)
(* What compactor/webuidb.py promises about the copy of the chat database  *)
(* on the volume, whatever happens on the pod: the copy is always one      *)
(* whole image that the live database has held, it changes in one step,    *)
(* and not while an empty start has sealed it.                             *)
(***************************************************************************)
CONSTANTS
    Images,   \* the contents a chat database can have
    Nothing   \* there is no copy

VARIABLES
    held,     \* the images the live database has held
    durable,  \* the image in the copy, or Nothing
    legible,  \* whether the copy can be read
    sealed    \* the pod runs on an empty start

vars == <<held, durable, legible, sealed>>

Init ==
    /\ held \in SUBSET Images
    /\ durable \in held \union {Nothing}
    /\ legible = TRUE
    /\ sealed = FALSE

\* The program on the pod has written.
Write ==
    /\ \E i \in held' : held' = held \union {i}
    /\ UNCHANGED <<durable, legible, sealed>>

\* The copy becomes another image the live database has held.
Publish ==
    /\ ~sealed \/ durable = Nothing
    /\ durable' \in held
    /\ legible' = TRUE
    /\ UNCHANGED <<held, sealed>>

\* The volume damages the copy, or an operator repairs it.
Damage ==
    /\ durable # Nothing
    /\ legible' = ~legible
    /\ UNCHANGED <<held, durable, sealed>>

\* A boot without history seals the copy, a restore or a new pod unseals it.
Seal ==
    /\ sealed' = ~sealed
    /\ UNCHANGED <<held, durable, legible>>

Next == Write \/ Publish \/ Damage \/ Seal

Spec == Init /\ [][Next]_vars
=============================================================================
