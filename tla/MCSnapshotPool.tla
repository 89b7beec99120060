--------------------------- MODULE MCSnapshotPool ---------------------------
EXTENDS SnapshotPool, TLC
Symmetry == Permutations(Worker)
=============================================================================
