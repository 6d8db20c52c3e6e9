SPECIFICATION Spec
CONSTANTS
  Peers = {p1}
  CRDs = {k1}
  MaxPeer = 1
  MaxCtrl = 2
  MaxCRD = 2
  MaxFaults = 0
  Mapped <- MCAllMapped
  None = None
INVARIANTS StoppedWhenRemoved
CHECK_DEADLOCK FALSE
