CONSTANTS
  Callers = {c1}
  Waiters = {w1}
  NPaths = 1
  MaxRuns = 1
  NULL = NULL
SPECIFICATION Spec
INVARIANT UnblockIsValid
CHECK_DEADLOCK FALSE
