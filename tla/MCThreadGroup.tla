--------------------------- MODULE MCThreadGroup ---------------------------
EXTENDS ThreadGroup, TLC

CONSTANTS p1, p2, p3

Symmetry == Permutations(Procs \ {initproc})
=============================================================================
