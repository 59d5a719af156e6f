CONSTANTS
  N = 2
  RefMod = 8
  Threads = {t1, t2, t3}
  Ptrs = {p1, p2}
  Objects = {o1, o2, o3}
  NULL = NULL
SPECIFICATION Spec
SYMMETRY MCSymmetry
INVARIANTS
  RefcountAccounts
  NoUseAfterFree
  NoDoubleFree
  NoLeak
  DestructorVerdict
PROPERTY ImplementsCell
