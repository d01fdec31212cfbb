----------------------------- MODULE MCStartup -----------------------------
EXTENDS Startup, TLC

StartupSymmetry ==
    Permutations(Instances) \cup Permutations(Versions) \cup Permutations(Requests)
=============================================================================
