SPECIFICATION Spec
CONSTANTS
  Docs <- MCDocs
  Reqs <- MCReqs
  Upds <- MCUpds
  Levels <- MCLevels
  MaxCalls = 3
INVARIANTS GetSubTreeRight DeleteSubTreeRight UpdateRight MakeRight
CHECK_DEADLOCK FALSE
