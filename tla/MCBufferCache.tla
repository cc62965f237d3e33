--------------------------- MODULE MCBufferCache ---------------------------
(* A small instance of BufferCache: fewer buffers than blocks, so that       *)
(* buffers are recycled, and no more than the log may pin.                   *)
EXTENDS BufferCache, TLC
CONSTANTS u1, u2, u3, n1, n2, n3, v1, v2
Symmetry == Permutations(Blocks) \cup Permutations(Users) \cup Permutations(Vals)
=============================================================================
