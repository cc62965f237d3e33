SPECIFICATION Spec
CONSTANTS
  w1 = w1
  w2 = w2
  w3 = w3
  Main = Main
  NoThread = NoThread
  NoCond = NoCond
  Threads = {Main, w1, w2, w3}
  Mutexes = {"read_lock", "data"}
  Conds = {"work_present"}
  Tasks <- Input
SYMMETRY Symmetry
INVARIANTS PerformedOnce PrintsTotal
\* the program ends
CHECK_DEADLOCK FALSE
