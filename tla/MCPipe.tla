------------------------------- MODULE MCPipe -------------------------------
(* A small instance of Pipe: messages longer than the pipe, counters that    *)
(* wrap around after two rounds of the ring.                                 *)
EXTENDS Pipe, TLC
CONSTANTS p1, p2, p3, f1, f2, a, b
Messages == {<<a, b, a>>}
Symmetry == Permutations(Files) \cup Permutations(Procs \ {First})
=============================================================================
