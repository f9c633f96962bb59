SPECIFICATION FairSpec
CONSTANTS
  p1 = p1 p2 = p2 b1 = b1 b2 = b2 b3 = b3
  Procs <- TwoProcs
  Blocks <- ThreeBlocks
  Values = {0, 1}
  Zero = 0
  NoBlock = NoBlock
  MAXOPBLOCKS = 2
  LOGSIZE = 4
  SIZE = 4
  OpBlocks = 1
INVARIANT NeverTooBig
PROPERTIES ImplementsAtomicDisk SleepersWake
