--------------------------- MODULE MCRestoreSession ---------------------------
EXTENDS RestoreSession, TLC
CONSTANTS h1, h2, a, b
Symmetric == Permutations(Sites) \cup Permutations(Services)
=============================================================================
