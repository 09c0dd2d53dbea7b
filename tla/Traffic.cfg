\* Two threads and two seconds of a limiter; one thread, four places and two budgets of a cache.
CONSTANTS
  Threads = {t1, t2}
  Nobody = Nobody
  WindowTicks = 2
  Requests = {1, 2}
  Limits = {0, 1}
  InitialLimit = 1
  MaxNow = 4
  MaxBytes = 7
  Users = {u1}
  Idle = Idle
  Addrs = {1, 2}
  Sizes = {1, 2}
  Shift = 2
  KeyBits = 4
  MaxSizes = {1, 3}
  TTLs = {0, 1}
  Second = 2
  HitCap = 1
SPECIFICATION TrafficSpec
INVARIANTS LimiterBounds WaiterOverrun WithinBudget
PROPERTIES HitIsOwn
\* The limiter stops at the bound on time or bytes.
CHECK_DEADLOCK FALSE
