SPECIFICATION Spec
CONSTANTS
  A = A  B = B  sa = sa  sb = sb  oa = oa  ob = ob  na = na  nb = nb
  Servers = {A, B}
  Agents = {A}
  Shards = {sa, sb}
  Home <- MCHomeA
  Objs = {oa, ob}
  ShardOf <- MCShardOf
  Names = {na}
  NameOf <- MCOneName
  MaxVer = 1
  Visible <- MCThirdHidden
  MaxFaults = 0
  ReadsCache = TRUE
  Mapped = TRUE
  None = None
INVARIANTS AbsentIsCreated
CHECK_DEADLOCK FALSE
