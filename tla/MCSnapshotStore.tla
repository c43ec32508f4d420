--------------------------- MODULE MCSnapshotStore ---------------------------
EXTENDS SnapshotStore, TLC

CONSTANTS s1, s2, r1, r2

AnySource == Permutations(Source)
AnyRun == Permutations(Run)
=============================================================================
