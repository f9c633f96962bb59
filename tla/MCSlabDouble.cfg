SPECIFICATION Spec
CONSTANTS
  NSLAB = 2
  PGSIZE = 16
  MAX_PAGES_PER_SLAB = 3
  FIRST_PAGES = 1
  SPILL = 1
  Null = Null
  f1 = f1 f2 = f2 f3 = f3 f4 = f4 f5 = f5
  t1 = t1 t2 = t2
  Frames <- FiveFrames
  Threads <- TwoThreads
  Demand <- DemandOver
SYMMETRY Symmetric
INVARIANTS NoOverlap
