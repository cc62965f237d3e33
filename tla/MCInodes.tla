------------------------------ MODULE MCInodes ------------------------------
(* A small instance of Inodes: paths of one and two elements, relative and   *)
(* absolute, and "..".                                                       *)
EXTENDS Inodes, TLC
CONSTANTS p1, p2, a, b
Path(from, names) == [from |-> from, names |-> names]
OldPaths == {Path("cwd", <<a>>), Path("cwd", <<"..">>)}
NewPaths == {Path("/", <<>>), Path("cwd", <<a>>), Path("cwd", <<b>>), Path("/", <<a, b>>), Path("cwd", <<"..">>)}
ShortPaths == {Path("cwd", <<a>>)}
Dirs == <<a, b>>
NoDirs == <<>>
AllKinds == {"open", "create", "mkdir", "unlink", "link", "chdir"}
AtRoot == {[p \in Procs |-> 1]}
OneInside == {h \in [Procs -> {1, 3}] : \E p, q \in Procs : h[p] # h[q]}
Symmetry == Permutations(Procs)
=============================================================================
