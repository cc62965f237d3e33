------------------------------ MODULE MCEmufs ------------------------------
EXTENDS Emufs, TLC

Relative == {[abs |-> FALSE, parts |-> p] : p \in {<<"..">>} \cup {<<n>> : n \in Names}}
Absolute == {[abs |-> TRUE, parts |-> <<m, n>>] : m, n \in Names}
Symmetry == Permutations(Names)
SomePaths == Relative \cup Absolute
=============================================================================
