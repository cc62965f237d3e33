SPECIFICATION Spec
CONSTANTS
  p1 = p1
  p2 = p2
  p3 = p3
  f1 = f1
  f2 = f2
  a = a
  b = b
  NoFile = NoFile
  Procs = {p1, p2, p3}
  First = p1
  Talkers = {p2, p3}
  Files = {f1, f2}
  NOFILE = 2
  Bytes = {a, b}
  Fill = a
  Msgs <- Messages
  ReadSizes = {2}
  PIPESIZE = 2
  Width = 4
SYMMETRY Symmetry
INVARIANTS EndsOpen NoUseAfterFree SleepersWait
PROPERTIES ImplementsBytePipe
CHECK_DEADLOCK FALSE
