SPECIFICATION TreeSpec
CONSTANTS
  Nodes <- SixNodes
  Docs <- Messages
  Ints <- TheInts
  Strs <- TheStrs
  Keys <- TheKeys
  Known <- TheValues
  ChildTags = {11}
  MetaTags = {2}
  Retags = {16}
  MaxEdits = 2
  Careless = {"retag"}
INVARIANT DuplicateIdentical
CHECK_DEADLOCK FALSE
