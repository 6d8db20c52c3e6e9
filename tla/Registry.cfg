SPECIFICATION FairSpec
CONSTANTS
  system = system  root = root  sa = sa  sb = sb  A = A  B = B
  Clusters = {system, root}
  systemShardCluster = system
  Names = {sa, sb}
  Ids <- MCIds
  Caches = {A, B}
  ownName = A
  Absent = Absent
  MaxChanges = 3
  MaxFaults = 2
  None = None
INVARIANTS TypeOK SetIsRight
PROPERTIES SetConverges AuthorityHeld
CHECK_DEADLOCK FALSE
