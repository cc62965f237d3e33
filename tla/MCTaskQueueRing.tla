-------------------------- MODULE MCTaskQueueRing --------------------------
EXTENDS TaskQueueRing, TLC

CONSTANTS w1, w2

Input == <<1, 2, 3, 4>>

Symmetry == Permutations(Workers)
=============================================================================
