SPECIFICATION TreeSpec
CONSTANTS
  Nodes <- SixNodes
  Docs <- Messages
  Ints <- TheInts
  Strs <- TheStrs
  Keys <- TheKeys
  Known <- TheValues
  ChildTags = {11}
  MetaTags = {2}
  Retags = {16}
  MaxEdits = 2
  Careless = {"repeat"}
INVARIANTS TreeOK DirtyToRoot   
 
CHECK_DEADLOCK FALSE
