\* What the documents say and the code does not do; TLC refutes each, so name one at a time:
\*   PROPERTY  StaysOpen ClosesAfterTrial TestFailureReopens ResetOnChange WithinWindow
\*   INVARIANT StatsState
SPECIFICATION Spec
CONSTANTS
  Threads = {t1, t2}
  Nobody = Nobody
  Configs <- Two
  MaxCalls = 3
  MaxChanges = 1
PROPERTIES
  StaysOpen
CHECK_DEADLOCK FALSE
