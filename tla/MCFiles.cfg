SPECIFICATION MCSpec
CONSTANTS
  p1 = p1 p2 = p2 x1 = x1 x2 = x2 a = a nl = nl eof = eof bs = bs blank = blank
  None = None
  Procs <- TwoProcs
  Pipes <- TwoPipes
  NOFILE = 2
  NFILE = 3
SYMMETRY Symmetric
INVARIANTS RefsExact HoldingsExact ScreenFaithful
PROPERTY ImplementsLineInput
