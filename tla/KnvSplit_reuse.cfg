CONSTANTS
  HeaderFields = 124
  HeaderKeyed = FALSE
  Bodies <- FewReplies
  ErrLens = {}
  PkgSizes = {1000}
  Reuse = "cleared"
  MayFail = FALSE
  MaxCalls = 4
SPECIFICATION Spec
INVARIANTS SentAsAsked
CHECK_DEADLOCK FALSE
