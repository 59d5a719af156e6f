CONSTANTS
  N = 2
  RefMod = 8
  Threads = {t1, t2}
  Ptrs = {p1}
  Objects = {o1, o2, o3}
  NULL = NULL
SPECIFICATION Spec
SYMMETRY MCSymmetry
INVARIANT NeverReturnsFreed
