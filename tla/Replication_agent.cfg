SPECIFICATION FairSpec
CONSTANTS
  A = A  B = B  sa = sa  sb = sb  oa = oa  ob = ob  na = na  nb = nb
  Servers = {A, B}
  Agents = {A}
  Shards = {sa}
  Home <- MCHome
  Objs = {oa}
  ShardOf <- MCShardOf
  Names = {na}
  NameOf <- MCOwnName
  MaxVer = 3
  Visible <- MCThirdHidden
  MaxFaults = 2
  ReadsCache = FALSE
  Mapped = TRUE
  None = None
INVARIANTS TypeOK NoLostWork
PROPERTIES Converges NoRollback NoSpuriousDelete ImplementsMirror
CHECK_DEADLOCK FALSE
