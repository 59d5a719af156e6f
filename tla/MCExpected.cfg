SPECIFICATION Spec
CONSTANTS
  Objects = {x, y}
  Contents = {c1, c2}
  Moved = Moved
INVARIANTS Tracked LifetimesPaired
PROPERTIES StrongGuarantee Transfers
