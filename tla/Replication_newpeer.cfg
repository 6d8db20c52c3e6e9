SPECIFICATION Spec
CONSTANTS
  A = A  B = B  sa = sa  sb = sb  oa = oa  ob = ob  na = na  nb = nb
  Servers = {A, B}
  Agents = {A}
  Shards = {sa}
  Home <- MCHome
  Objs = {oa}
  ShardOf <- MCShardOf
  Names = {na}
  NameOf <- MCOwnName
  MaxVer = 1
  Visible <- MCThirdHidden
  MaxFaults = 0
  ReadsCache = TRUE
  Mapped = TRUE
  None = None
INVARIANTS InitialReconciliation
CHECK_DEADLOCK FALSE
