\* What the documents say and the code does not do; TLC refutes each, so name one at a time:
\*   PROPERTY  PausedMeansNoWrite UnfreezeAllStops
\*   INVARIANT PausedStat
SPECIFICATION Spec
CONSTANTS
  Addresses = {1, 2}
  Values = {v1}
  Other = Other
  Intervals = {0}
  CountCap = 1
PROPERTIES
  UnfreezeAllStops
CHECK_DEADLOCK FALSE
