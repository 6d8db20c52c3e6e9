SPECIFICATION FairSpec
CONSTANTS
  Peers = {p1}
  CRDs = {k1}
  MaxPeer = 1
  MaxCtrl = 2
  MaxCRD = 2
  MaxFaults = 1
  Mapped <- MCMapped
  None = None
INVARIANTS
  TypeOK NoPeerMissed NoOrphanController NoLeakedPeer NoCircularWait
  RemovedIsStopped
PROPERTIES CallsReturn ControllersFollowCRDs ImplementsMembership
CHECK_DEADLOCK FALSE
