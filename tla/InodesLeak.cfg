SPECIFICATION Spec
CONSTANTS
  p1 = p1
  p2 = p2
  a = a
  b = b
  NoProc = NoProc
  Procs = {p1, p2}
  NINODES = 2
  Names = {a, b}
  NamePaths = {}
  ParentPaths <- ShortPaths
  Kinds = {"create", "unlink"}
  FirstDirs <- NoDirs
  Homes <- AtRoot
  MaxCalls = 3
  MaxCrash = 0
SYMMETRY Symmetry
INVARIANTS Reclaimed
CHECK_DEADLOCK FALSE
