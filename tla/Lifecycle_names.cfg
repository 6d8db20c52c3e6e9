SPECIFICATION Spec
CONSTANTS
  Peers = {p1}
  CRDs = {k1}
  MaxPeer = 2
  MaxCtrl = 1
  MaxCRD = 1
  MaxFaults = 0
  Mapped <- MCAllMapped
  None = None
INVARIANTS EngagedNamesComplete
CHECK_DEADLOCK FALSE
