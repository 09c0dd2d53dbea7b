SPECIFICATION FairSpec
CONSTANTS
  Addresses = {1, 2}
  Values = {v1}
  Other = Other
  Intervals = {1}
  CountCap = 1
INVARIANTS
  LateWriteOnce
  StatsAgree
PROPERTIES
  Progress
\* Users and the target may stop; the destroyed freezer does nothing.
CHECK_DEADLOCK FALSE
