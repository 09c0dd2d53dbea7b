SPECIFICATION LimiterSpec
CONSTANTS
  Threads = {t1, t2}
  Nobody = Nobody
  WindowTicks = 2
  Requests = {2}
  Limits = {2}
  InitialLimit = 2
  MaxNow = 4
  MaxBytes = 16
INVARIANTS
  InstantBound
CHECK_DEADLOCK FALSE
