SPECIFICATION FairSpec
CONSTANTS
  A = A  B = B  sa = sa  sb = sb  oa = oa  ob = ob  na = na  nb = nb
  Servers = {A, B}
  Agents = {A, B}
  Shards = {sa}
  Home <- MCHome
  Objs = {oa}
  ShardOf <- MCShardOf
  Names = {na}
  NameOf <- MCOwnName
  MaxVer = 1
  Visible <- MCThirdHidden
  MaxFaults = 1
  ReadsCache = TRUE
  Mapped = TRUE
  None = None
INVARIANTS NoLostWork CopiesOwnOnly
PROPERTIES Converges ImplementsMirror
CHECK_DEADLOCK FALSE
