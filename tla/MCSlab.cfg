SPECIFICATION MCSpec
CONSTANTS
  NSLAB = 3
  PGSIZE = 32
  MAX_PAGES_PER_SLAB = 3
  FIRST_PAGES = 1
  SPILL = 0
  Null = Null
  f1 = f1 f2 = f2 f3 = f3 f4 = f4 f5 = f5
  t1 = t1 t2 = t2
  Frames <- FiveFrames
  Threads <- TwoThreads
  Demand <- DemandLimit
SYMMETRY Symmetric
INVARIANTS NoOverlap BitsAreObjects FramesApart CountersExact SearchFinds HelpersFaithful
CHECK_DEADLOCK FALSE
