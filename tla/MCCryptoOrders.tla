---------------------------- MODULE MCCryptoOrders ----------------------------
EXTENDS CryptoOrders, TLC

Symmetry == Permutations(Payments) \cup Permutations(Checkouts) \cup Permutations(Workers)
=============================================================================
