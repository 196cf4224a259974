---------------------------- MODULE MCHierarchy ----------------------------
(* Hierarchy on small instances. *)
EXTENDS Hierarchy

============================================================================
