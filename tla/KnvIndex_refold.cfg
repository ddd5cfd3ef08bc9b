SPECIFICATION RefoldSpec
CONSTANTS
  Nodes = {n1, n2, n3}
  Parents = {p}
  NULL = NULL
  Tags = {11, 12}
  Keys = {1}
  Levels <- MCLevels
  Docs <- MCShortDocs
  Start <- MCShortStart
  MaxEdits = 2
PROPERTIES LookupReturns
CHECK_DEADLOCK FALSE
