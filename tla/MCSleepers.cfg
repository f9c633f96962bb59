SPECIFICATION MCSpec
CONSTANTS
  p1 = p1 p2 = p2 p3 = p3 p4 = p4
  None = None
  Procs <- Four
INVARIANT NoLostWakeup
PROPERTIES ImplementsMutex ImplementsStream SleepersWake
