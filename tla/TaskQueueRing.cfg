SPECIFICATION FairSpec
CONSTANTS
  w1 = w1
  w2 = w2
  Main = Main
  NoThread = NoThread
  NoCond = NoCond
  Threads = {Main, w1, w2}
  Mutexes = {"queueMutex", "taskMutex"}
  Conds = {}
  Tasks <- Input
  QUEUE_SIZE = 3
INVARIANTS CountMatchesRing PrintsTotal
PROPERTY Terminates
CHECK_DEADLOCK FALSE
