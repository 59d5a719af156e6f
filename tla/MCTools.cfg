SPECIFICATION PSpec
CONSTANTS
  ITERATIONS = 4
  SAMPLES = 3
  RUNS = 3
  Word = 64
  SLOTS = 2
  WIDTH = 2
  PACKETS = 4
  DURATION = 8
  HalfWord = 256
  MaxTime = 12
  MaxGroups = 2
  TalkerWord = 65536
  Descriptors = {1, 2}
  NoFd = NoFd
  MaxThreads = 2
  MaxPackets = 4
  Batch = 2
  MaxDelays = 1
  MaxCalls = 2
  MaxGroup = 2
  Hosts <- MCHosts
  LoadWord = 7
INVARIANTS StartsAtPing SlotsKept RateKept StartsTogether ReportIsComplete
PROPERTIES TakesTurns SwapsTakeTurns EveryProgramEnds
