CONSTANTS
  HeaderFields = 124
  HeaderKeyed = FALSE
  Bodies <- Replies
  ErrLens = {5}
  PkgSizes = {0, 128, 1000}
  Reuse = "cleared"
  MayFail = TRUE
  MaxCalls = 3
SPECIFICATION Spec
INVARIANTS ReceivedWhole WaitsForMissing PacketsFit SlicesAsAsked
PROPERTIES PartsKept
CHECK_DEADLOCK FALSE
