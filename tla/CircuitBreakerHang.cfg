SPECIFICATION FairSpec
CONSTANTS
  Threads = {t1, t2}
  Nobody = Nobody
  Configs <- Two
  MaxCalls = 2
  MaxChanges = 1
PROPERTIES
  CallsReturn
CHECK_DEADLOCK FALSE
