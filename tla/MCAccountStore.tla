--------------------------- MODULE MCAccountStore ---------------------------
EXTENDS AccountStore, TLC
Symmetry == Permutations(Content) \cup Permutations(Account \ Sandbox)
=============================================================================
