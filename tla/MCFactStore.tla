----------------------------- MODULE MCFactStore -----------------------------
(* FactStore on small instances. *)
EXTENDS FactStore, TLC

\* Claims and tails are interchangeable.
Symmetry == Permutations(Claims) \union Permutations(Tails)
============================================================================
