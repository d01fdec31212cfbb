-------------------------- MODULE MCCustomerCredit --------------------------
EXTENDS CustomerCredit, TLC

RequestSymmetry == Permutations(Requests)
=============================================================================
