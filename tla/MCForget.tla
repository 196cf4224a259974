------------------------------- MODULE MCForget -------------------------------
(* Forget on small instances. *)
EXTENDS Forget, TLC

Symmetry == Permutations(Tasks)
============================================================================
