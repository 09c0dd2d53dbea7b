SPECIFICATION FairSpec
CONSTANTS
  c1 = c1
  c2 = c2
  s1 = s1
  Clients = {c1, c2}
  Sinks = {s1}
  Flaky = {}
  Levels = {1}
  INFO = 1
  SinkLevel <- MCOneSinkLevel
  MAX_QUEUE_SIZE = 1
  MaxLogs = 2
  AsyncToggles = TRUE
PROPERTIES
  Progress
CHECK_DEADLOCK FALSE
