SPECIFICATION Spec
CONSTANTS
  KeyOrder <- MCKeyOrder
  Values <- MCValues
  Depth <- MCDepth
  Tokens = {"/", "shards", "*", "apis", "status", "x", "y"}
INVARIANTS LabelsSeen
CHECK_DEADLOCK FALSE
