------------------------------- MODULE MCLog -------------------------------
(* Small instances of Log: the parameters have the proportions of param.h   *)
(* and mkfs.c, where a log of LOGSIZE = 3 * MAXOPBLOCKS blocks is made.     *)
EXTENDS Log, TLC
CONSTANTS p1, p2, p3, b1, b2

\* Two processes write and one only reads.
TwoWriters == [p \in Procs |-> IF p = p3 THEN 0 ELSE 2]
=============================================================================
