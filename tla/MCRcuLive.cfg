CONSTANTS
  N = 3
  RefMod = 8
  Threads = {t1, t2}
  Ptrs = {p1}
  Objects = {o1, o2, o3}
  NULL = NULL
SPECIFICATION FairSpec
PROPERTIES
  UpdateFindsSlot
  ReadLockFree
