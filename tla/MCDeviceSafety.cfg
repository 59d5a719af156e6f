CONSTANTS
  Callers = {c1, c2, c3}
  Waiters = {w1}
  NPaths = 2
  MaxRuns = 2
  NULL = NULL
SPECIFICATION FairSpec
INVARIANTS
  ResourcesReleased
  ExitsOnce
PROPERTIES
  WaitersReleased
  ExitEndsRunUnlessMissed
CHECK_DEADLOCK FALSE
