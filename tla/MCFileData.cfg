SPECIFICATION MCSpec
CONSTANTS
  p1 = p1 p2 = p2 f1 = f1 f2 = f2
  None = None
  Procs <- TwoProcs
  Files <- TwoFiles
  Images <- MCImages
  Writes <- MCWrites
  Counts <- MCCounts
  BSIZE = 2
  NDIRECT = 1
  NINDIRECT = 3
  IPB = 2
  BPB = 16
  NINODES = 4
  FSSIZE = 16
  LOGSIZE = 1
  MAXOPBLOCKS = 6
  MaxCalls = 4
SYMMETRY Symmetric
INVARIANTS BlocksExact NoHoles 
PROPERTY ImplementsFileStore
CHECK_DEADLOCK FALSE
