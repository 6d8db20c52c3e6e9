SPECIFICATION FairSpec
CONSTANTS
  A = A  B = B  C = C  sa = sa  sb = sb  sc = sc  sx = sx
  Servers = {A, B}
  Shards = {sa, sb, sx}
  Home <- MCHome
  InitialPeers <- MCSeedA
  JoinsApart = TRUE
  MaxFaults = 3
INVARIANTS TypeOK KnownIsEngaged RestIsFullMesh
PROPERTY SourceGetsEngaged
CHECK_DEADLOCK FALSE
