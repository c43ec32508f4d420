--------------------------- MODULE MCLoginSession ---------------------------
EXTENDS LoginSession, TLC
=============================================================================
