SPECIFICATION Spec
CONSTANTS
  c1 = c1 c2 = c2
  None = None
  NPROC = 3
  CPUs <- TwoCPUs
  MaxPid = 4
  KillPids = {1, 2}
  Calls <- AllCalls
CHECK_DEADLOCK FALSE
INVARIANTS OneCpu StackLive SchedNeverPanics Interruptible WaitersWait SlotsAccounted
SYMMETRY Symmetric
