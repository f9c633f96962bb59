SPECIFICATION MCSpec
CONSTANTS
  b1 = b1 b2 = b2 p1 = p1 p2 = p2
  k1 = k1 k2 = k2 k3 = k3 v1 = v1 v2 = v2
  NoBlock = NoBlock None = None
  Procs <- TwoProcs
  Bufs <- TwoBufs
  Blocks <- ThreeBlocks
  Values <- TwoValues
  Faults = {"read", "write"}
  Failing <- OneBlock
  Pins = 1
INVARIANTS RefsExact QueueIsWaiters
PROPERTIES ImplementsBlockStore RequestsEnd
CHECK_DEADLOCK FALSE
