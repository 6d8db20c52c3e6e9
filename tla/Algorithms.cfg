SPECIFICATION Spec
CONSTANTS
  KeyOrder <- MCKeyOrder
  Values <- MCValues
  Depth <- MCDepth
  Tokens = {"/", "shards", "*", "apis", "status", "x", "y"}
INVARIANTS RoutedToShard ChangesSeen CopiesRest
CHECK_DEADLOCK FALSE
