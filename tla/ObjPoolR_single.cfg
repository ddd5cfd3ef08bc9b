CONSTANTS
  NULL = NULL
  Obj = {a, b, c}
  Threads = {t1, t2}
  Poppers = {t1}
SPECIFICATION FairSpec
INVARIANTS ExclusiveOwnership ListsIntact FreeListIntact IInv
PROPERTIES PoolRefinement LockFree
