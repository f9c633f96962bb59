SPECIFICATION Spec
CONSTANTS
  NPROC = 2
  NFRAMES = 14
  PGSIZE = 2
  KERNBASE = 8
  TabSize = 2
  Deltas <- SmallDeltas
  SegEnds = {0, 1, 3, 9}
  MaxSegs = 2
INVARIANTS FramesExact SizeMapped LoadedLive
