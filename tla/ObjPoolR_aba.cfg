CONSTANTS
  NULL = NULL
  Obj = {a, b}
  Threads = {t1, t2}
  Poppers = {t1, t2}
SPECIFICATION Spec
INVARIANTS ExclusiveOwnership
