SPECIFICATION Spec
CONSTANTS
  SLOTS = 2
  WIDTH = 4
  PACKETS = 4
  DURATION = 10
  Word = 32
  HalfWord = 16
  MaxTime = 14
  MaxGroups = 2
INVARIANT RateKept
