----------------------------- MODULE MCRecovery -----------------------------
EXTENDS Recovery, TLC

RequestSymmetry == Permutations(Requests)
=============================================================================
