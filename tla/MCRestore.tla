----------------------------- MODULE MCRestore -----------------------------
EXTENDS Restore, TLC

RestoreSymmetry == Permutations(Restores)
=============================================================================
