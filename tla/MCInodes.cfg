SPECIFICATION Spec
CONSTANTS
  p1 = p1 p2 = p2 a = a
  None = None DotDot = DotDot
  Procs <- TwoProcs
  Names <- OneName
  NINODES = 3
  Calls = {"open", "create", "link", "unlink", "mkdir", "chdir"}
  Bases = {"."}
  MaxOpen = 1
  StaleParent = FALSE
SYMMETRY Symmetric
INVARIANTS  NoDangling WriteThrough
CHECK_DEADLOCK FALSE
