------------------------- MODULE MC_ParameterQueue -------------------------
EXTENDS ParameterQueue, TLC
ChangeSymmetry == Permutations(Change)
=============================================================================
