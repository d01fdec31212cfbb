----------------------------- MODULE MCSessions -----------------------------
EXTENDS Sessions, TLC

RequestSymmetry == Permutations(Requests)
=============================================================================
