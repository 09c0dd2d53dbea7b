SPECIFICATION Spec
CONSTANTS
  c1 = c1
  c2 = c2
  s1 = s1
  Clients = {c1, c2}
  Sinks = {s1}
  Flaky = {s1}
  Levels = {0, 1}
  INFO = 1
  SinkLevel <- MCOneSinkLevel
  MAX_QUEUE_SIZE = 2
  MaxLogs = 3
  AsyncToggles = TRUE
SYMMETRY Symmetry
INVARIANTS
  Accounting
  SinkOrder
  FlushGap
  ShutdownDrains
CHECK_DEADLOCK FALSE
