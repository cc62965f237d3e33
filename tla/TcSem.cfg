SPECIFICATION TcFairSpec
CONSTANTS
  w1 = w1
  w2 = w2
  w3 = w3
  Main = Main
  g1 = g1
  mutex = mutex
  addr = addr
  proc1 = proc1
  NoThread = NoThread
  NoCpu = NoCpu
  NoChan = NoChan
  NoSem = NoSem
  Threads = {Main, w1, w2}
  CPUs = {c1, c2}
  Groups = {g1}
  Sems = {mutex}
  Chans = {addr, proc1}
  tgid <- OneGroup
  leaderChan <- Leaders
  group <- SemGroup
  Chan <- SemAddr
  InitVal <- One
  MaxVal = 1
  Iters = 1
INVARIANTS OneToken FinalValue
PROPERTIES Terminates SemaphoreProgress
