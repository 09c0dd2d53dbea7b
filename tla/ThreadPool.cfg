SPECIFICATION FairSpec
CONSTANTS
  Workers = {w1, w2}
  Clients = {c1, c2}
  Tasks = {t1, t2, t3}
  Spawning = {t1}
INVARIANTS
  OnePlace
  ShutdownCompletes
PROPERTIES
  WaitGap
  ImplementsBag
  Progress
CHECK_DEADLOCK FALSE
