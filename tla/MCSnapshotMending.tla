-------------------------- MODULE MCSnapshotMending --------------------------
EXTENDS SnapshotMending, TLC

CONSTANTS s1, s2, r1, r2, r3
=============================================================================
