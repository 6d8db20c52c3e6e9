SPECIFICATION Spec
CONSTANTS
  A = A  B = B  C = C  sa = sa  sb = sb  sc = sc  sx = sx
  Servers = {A, B, C}
  Shards = {sa, sb, sc}
  Home <- MCHome
  InitialPeers <- MCSeedA
  JoinsApart = TRUE
  MaxFaults = 0
INVARIANT RestIsFullMesh
CHECK_DEADLOCK FALSE
