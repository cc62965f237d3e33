SPECIFICATION Spec
CONSTANTS
  p1 = p1
  p2 = p2
  a = a
  b = b
  NoProc = NoProc
  Procs = {p1, p2}
  NINODES = 4
  Names = {a, b}
  NamePaths <- OldPaths
  ParentPaths <- NewPaths
  Kinds <- AllKinds
  FirstDirs <- Dirs
  Homes <- OneInside
  MaxCalls = 3
  MaxCrash = 1
SYMMETRY Symmetry
INVARIANTS Counted FreeAlone TypedUnlessStray Tree CyclesThroughIput
CHECK_DEADLOCK FALSE
