------------------------------ MODULE MCUlock ------------------------------
(* Small instances of Ulock: one process, or two processes whose semaphores *)
(* have the same virtual address.                                           *)
EXTENDS Ulock, TLC

CONSTANTS t1, t2, t3, g1, g2, s1, s2, addr, proc1, proc2

OneGroup == [t \in Threads |-> g1]
TwoGroups == [t \in Threads |-> IF t = t1 THEN g2 ELSE g1]
Leaders == [g \in Groups |-> IF g = g1 THEN proc1 ELSE proc2]
SemGroup == [s \in Sems |-> IF s = s1 THEN g1 ELSE g2]
SameAddr == [s \in Sems |-> addr]
Zero == [s \in Sems |-> 0]
One == [s \in Sems |-> 1]

Symmetry == Permutations(Threads) \cup Permutations(CPUs)
PairSymmetry == Permutations({t2, t3}) \cup Permutations(CPUs)
=============================================================================
