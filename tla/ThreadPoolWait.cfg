SPECIFICATION Spec
CONSTANTS
  Workers = {w1}
  Clients = {c1}
  Tasks = {t1}
  Spawning = {}
PROPERTIES
  WaitWaits
CHECK_DEADLOCK FALSE
