---------------------------- MODULE MCUserAdmin ----------------------------
EXTENDS UserAdmin, TLC

UserAdminSymmetry == Permutations(Requests) \cup Permutations(Accounts)
=============================================================================
