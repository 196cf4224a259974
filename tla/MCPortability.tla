--------------------------- MODULE MCPortability ---------------------------
EXTENDS Portability, TLC

TailSymmetry == Permutations(Tails) \union Permutations(Facts)
=============================================================================
