----------------------------- MODULE MCCatalog -----------------------------
EXTENDS Catalog, TLC

RequestSymmetry == Permutations(Requests)
=============================================================================
