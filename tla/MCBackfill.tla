------------------------------ MODULE MCBackfill ------------------------------
(* Backfill on small instances. *)
EXTENDS Backfill, TLC

Symmetry == Permutations(Requests)
============================================================================
