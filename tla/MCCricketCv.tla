---------------------------- MODULE MCCricketCv ----------------------------
EXTENDS CricketCv, TLC

Symmetry == Permutations(Players)
=============================================================================
