SPECIFICATION Spec
CONSTANTS
  Payload = 3
  Int64 = 16
  Int32 = 8
  Fix64 = 4
  Fix32 = 2
  Tags <- MCTags
  Ints <- MCInts
  Strs <- MCStrs
  Size = 269
  MaxFields = 3
  Forged <- MCForged
INVARIANTS Bounded RoundTrip Truncation Rewrite
CHECK_DEADLOCK FALSE
