SPECIFICATION Spec
CONSTANTS
  u1 = u1
  u2 = u2
  u3 = u3
  n1 = n1
  n2 = n2
  n3 = n3
  v1 = v1
  v2 = v2
  NoUser = NoUser
  NoBlock = NoBlock
  Users = {u1, u2, u3}
  NBUF = 2
  Blocks = {n1, n2, n3}
  Vals = {v1, v2}
  LOGSIZE = 2
SYMMETRY Symmetry
INVARIANTS SleepersWait PanicMeansFull
PROPERTIES ImplementsBlockStore
CHECK_DEADLOCK FALSE
