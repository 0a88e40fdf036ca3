---------------------------- MODULE MCAuthCache ----------------------------
EXTENDS AuthCache, TLC

Symmetry == Permutations(Requests) \cup Permutations(Processes)
=============================================================================
