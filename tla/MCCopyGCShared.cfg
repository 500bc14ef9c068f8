CONSTANTS
  e1 = e1
  e2 = e2
  e3 = e3
  p = p
  q = q
  w = w
  Obj = {e1, e2, e3, p, q, w}
  Kind <- MCKind
  Buckets <- OneBucket
  Heaps <- AllHeaps
  RootLists <- MCRoots
SPECIFICATION Spec
INVARIANTS
  DataKept
CHECK_DEADLOCK FALSE
