SPECIFICATION FairSpec
CONSTANTS
  Obj = {1, 2, 3, 4}
  NULL = NULL
INVARIANTS OnePlace LinksIntact
PROPERTIES PoolRefinement ReleaseReturns
