SPECIFICATION FairSpec
CONSTANTS
  Nodes = {n1, n2, n3, n4}
  Parents = {p, q}
  NULL = NULL
  Tags = {11, 12}
  Keys = {1}
  Levels <- MCLevels
  Docs <- MCDocs
  Start <- MCStart
  MaxEdits = 3
INVARIANTS IndexExact LookupsRight
PROPERTIES LookupReturns
CHECK_DEADLOCK FALSE
