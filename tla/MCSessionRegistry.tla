------------------------- MODULE MCSessionRegistry --------------------------
EXTENDS SessionRegistry, TLC

Symmetry == Permutations(Callers)
=============================================================================
