CONSTANTS
  Callers = {c1}
  Waiters = {w1}
  NPaths = 1
  MaxRuns = 1
  NULL = NULL
SPECIFICATION FairSpec
PROPERTY ExitEndsRun
CHECK_DEADLOCK FALSE
