--------------------------- MODULE MCOpenFileMap ---------------------------
EXTENDS OpenFileMap, TLC

CONSTANTS t1, t2, e1, e2, f1, f2, v1

Symmetry == Permutations(Tasks) \cup Permutations(Entries) \cup Permutations(Files)
=============================================================================
