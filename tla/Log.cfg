SPECIFICATION FairSpec
CONSTANTS
  p1 = p1
  p2 = p2
  p3 = p3
  b1 = b1
  b2 = b2
  NoBlock = NoBlock
  Procs = {p1, p2, p3}
  Blocks = {b1, b2}
  Vals = {0, 1}
  Zero = 0
  MAXOPBLOCKS = 3
  LOGSIZE = 6
  LogArea = 6
  OpBlocks <- TwoWriters
  MaxCrash = 2
INVARIANTS ReservedFits
PROPERTIES ImplementsAtomicDisk DurableReturn Terminates
CHECK_DEADLOCK FALSE
