SPECIFICATION Spec
CONSTANTS
  Workers = {w1, w2}
  Clients = {c1}
  Tasks = {t1, t2}
  Spawning = {}
INVARIANTS
  ActiveCount
CHECK_DEADLOCK FALSE
