CONSTANTS
  nr_magics = 2
  Size <- TwoSizes
  MaxSizes = {2, 6}
  Requests = {0, 2, 5}
  QuotaBound = 5
  DirectBound = 1
SPECIFICATION FairSpec
INVARIANTS CountersSound Accounting HeldBounded QuotaNeverLost IInv
PROPERTIES AllocReturns
