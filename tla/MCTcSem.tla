------------------------------ MODULE MCTcSem ------------------------------
EXTENDS TcSem, TLC

CONSTANTS w1, w2, w3, g1, addr, proc1

OneGroup == [t \in Threads |-> g1]
Leaders == [g \in Groups |-> proc1]
SemGroup == [s \in Sems |-> g1]
SemAddr == [s \in Sems |-> addr]
One == [s \in Sems |-> 1]

Symmetry == Permutations(Workers) \cup Permutations(CPUs)
=============================================================================
