SPECIFICATION Spec
CONSTANTS
  Threads = {t1, t2}
  Nobody = Nobody
  Configs <- Reached
  MaxCalls = 4
  MaxChanges = 1
INVARIANTS
  CallAccounting
  OnlyRelockBlocks
PROPERTIES
  NoEarlyOpen
SYMMETRY Symmetry
CHECK_DEADLOCK FALSE
