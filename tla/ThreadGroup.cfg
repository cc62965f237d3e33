SPECIFICATION TgSpec
CONSTANTS
  initproc = initproc
  p1 = p1
  p2 = p2
  p3 = p3
  Procs = {initproc, p1, p2, p3}
  NoProc = NoProc
  MaxPid = 4
SYMMETRY Symmetry
INVARIANTS NoMissedExit LeaderOutlives ParentAlive 
\* a kernel that has panicked stops
CHECK_DEADLOCK FALSE
