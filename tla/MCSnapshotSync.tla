--------------------------- MODULE MCSnapshotSync ---------------------------
EXTENDS SnapshotSync, TLC
Symmetry == Permutations(Value) \cup Permutations(Place) \cup Permutations(Entity)
=============================================================================
