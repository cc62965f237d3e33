---------------------------- MODULE MCTaskQueue ----------------------------
EXTENDS TaskQueue, TLC

CONSTANTS w1, w2, w3

Input == <<1, 2, 3>>
OneTask == <<1>>

Symmetry == Permutations(Workers)
=============================================================================
