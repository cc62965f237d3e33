SPECIFICATION Spec
CONSTANTS
  t1 = t1
  t2 = t2
  t3 = t3
  g1 = g1
  g2 = g2
  s1 = s1
  s2 = s2
  addr = addr
  proc1 = proc1
  proc2 = proc2
  NoThread = NoThread
  NoCpu = NoCpu
  NoChan = NoChan
  NoSem = NoSem
  Threads = {t1, t2, t3}
  CPUs = {c1, c2}
  Groups = {g1, g2}
  Sems = {s1, s2}
  Chans = {addr, proc1, proc2}
  tgid <- TwoGroups
  leaderChan <- Leaders
  group <- SemGroup
  Chan <- SameAddr
  InitVal <- Zero
  MaxVal = 2
SYMMETRY PairSymmetry
INVARIANTS LockOrder NoLostWakeup
PROPERTY ImplementsSemaphore
