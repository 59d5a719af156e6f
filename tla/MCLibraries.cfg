SPECIFICATION LSpec
CONSTANTS
  Strings = {x1, x2, x3}
  Hashes = {0, 3, 7}
  BitAnd <- MCBitAnd
  PowersOf2 = {1, 2, 4, 8, 16, 32}
  Args = {1, 2, 8}
  LoadUnit = 4
  LoadFactors = {0, 2, 6, 128}
  SizeWord = 64
  MaxCopies = 5
  Writers = {x1, x2, x3}
  NONE = NONE
  JsonWord = 65536
  MaxText = 8
  Descriptors = {d1, d2}
  NoFd = NoFd
  Recorded = {"reuse_addr", "reuse_port", "bound", "connected", "to_multicast", "registered"}
  Files = {f}
  Udps = {u, v}
  Pids = {d1, d2}
  Objects = {u, v}
  PageAddresses = {0, 1, 2, 3}
  Unmapped = 9
  Lengths = {1, 2}
  MaxLines = 4
  read = FALSE
  MaxVlan = 5
  IntWord = 100
  HexWord = 64
  NetByte = 8
  SplitCalls <- MCSplitCalls
  HexCalls <- MCHexCalls
  CopyCalls <- MCCopyCalls
  SockaddrCalls <- MCSockaddrCalls
  HostCalls <- MCHostCalls
  ColumnCalls <- MCColumnCalls
  AsinfoCalls <- MCAsinfoCalls
  PacketCalls <- MCPacketCalls
  InterfaceCalls <- MCInterfaceCalls
SYMMETRY Symmetry
INVARIANTS BlocksInPlace InStep ClosesSafely OneOwner OpenIsComplete RegionsExact OverlapExact
  TextRight CommandLinesRight AsinfoRight PacketsRight InterfacesRight
PROPERTIES ImplementsPool GrowsInTime
CHECK_DEADLOCK FALSE
