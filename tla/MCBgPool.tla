------------------------------- MODULE MCBgPool -------------------------------
(* BgPool on small instances. *)
EXTENDS BgPool, TLC

Symmetry == Permutations(Tasks) \union Permutations(Drains)
============================================================================
