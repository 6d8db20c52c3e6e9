--------------------- MODULE ControllerLifecycleProofs ---------------------
(***************************************************************************)
(* No peer context leaks, no controller is orphaned and no controller      *)
(* misses a peer: for any number of peers, CRDs, engagements, controllers  *)
(* and failures, and every interleaving of the goroutines.                 *)
(***************************************************************************)
EXTENDS ControllerLifecycle, TLAPS

-----------------------------------------------------------------------------
(* The inductive invariant. *)

\* While a peer is being engaged it is the one in Provider.peers.
HandlerShape ==
  handler.pc # "idle" => /\ handler.e \in PeerIds
                         /\ peers[handler.e[1]] = handler.e

\* An entry is filed under its own name, and no entry is numbered beyond those
\* made so far: a new one differs from whatever is still around.
Counted(e) == e[2] <= peerCount[e[1]]

PeersNumbered ==
  /\ \A p \in Peers : peers[p] # None => peers[p][1] = p /\ Counted(peers[p])
  /\ \A p \in Peers : clusters[p] # None => clusters[p][1] = p /\ Counted(clusters[p])
  /\ \A e \in live : Counted(e)

PeerInv == HandlerShape /\ PeersNumbered /\ NoLeakedPeer

\* The worker that has created a controller holds syncLock, and its CRD has no
\* entry.
WorkerShape ==
  /\ worker.pc # "idle" => worker.k \in CRDs
  /\ worker.pc \in {"created", "seeded"} =>
       /\ syncLock = "ensure"
       /\ worker.i \in CtrlIds /\ worker.i[1] = worker.k
       /\ ctrl[worker.i] = "new" /\ syncEntries[worker.k] = None

\* An entry is filed under its own CRD and has been started.
EntriesStarted ==
  \A k \in CRDs : syncEntries[k] # None =>
    syncEntries[k][1] = k /\ ctrl[syncEntries[k]] \in {"running", "returned"}

CtrlInv == WorkerShape /\ EntriesStarted /\ NoOrphanController

\* Controller i knows of the peer entry e, or will be told.
Told(i, e) ==
  \/ e \in joined[i] \/ <<i, e>> \in failed
  \/ handler.e = e /\ handler.pc \in {"locked", "registered"}

\* A controller that is seeded and not yet in the map misses no peer either.
NewMissesNone ==
  worker.pc = "seeded" => \A e \in Engaged \cap live : Told(worker.i, e)

-----------------------------------------------------------------------------
(* Type correctness. *)

\* Failures are counted.
LEMMA FaultType ==
  ASSUME TypeOK, Fault
  PROVE  faults' \in 0..MaxFaults
BY ConstantsAssumption DEF TypeOK, Fault

\* What syncEntries and clusters hold has a type of its own.
LEMMA HeldTypes ==
  ASSUME TypeOK
  PROVE  Entries \subseteq CtrlIds /\ Engaged \subseteq PeerIds
BY DEF TypeOK, Entries, Engaged

\* The steps of the provider's handler keep the types.
LEMMA HandlerTypeStep ==
  ASSUME TypeOK, HandlerShape, HandlerNext
  PROVE  TypeOK'
<1>1. ASSUME NEW p \in Peers, AddPeer(p)
      PROVE  TypeOK'
  <2> DEFINE e == <<p, peerCount[p] + 1>>
  <2>1. e \in PeerIds /\ peerCount[p] + 1 \in 0..MaxPeer
    BY <1>1, ConstantsAssumption DEF TypeOK, AddPeer, PeerIds
  <2>2. peers' \in [Peers -> PeerIds \cup {None}] /\ live' \subseteq PeerIds
    BY <1>1, <2>1 DEF TypeOK, AddPeer
  <2>3. peerCount' \in [Peers -> 0..MaxPeer]
    BY <1>1, <2>1 DEF TypeOK, AddPeer
  <2>4. handler' \in [pc : {"idle", "added", "locked", "registered", "forwarded"},
                      e  : PeerIds \cup {None}]
    BY <1>1, <2>1 DEF AddPeer
  <2> HIDE DEF e
  <2> QED
    BY <1>1, <2>2, <2>3, <2>4 DEF TypeOK, AddPeer, crdVars, ctrlVars
<1>2. ASSUME NEW p \in Peers, RemovePeer(p)
      PROVE  TypeOK'
  BY <1>2 DEF TypeOK, RemovePeer, crdVars, ctrlVars
<1>3. CASE RegisterPeer
  <2>1. handler.e \in PeerIds /\ handler.e[1] \in Peers
    BY <1>3 DEF RegisterPeer, HandlerShape, PeerIds
  <2> QED
    BY <1>3, <2>1 DEF TypeOK, RegisterPeer, crdVars, ctrlVars
<1>4. CASE UnlockClusters
  <2>1. handler.e \in PeerIds
    BY <1>4 DEF UnlockClusters, HandlerShape
  <2> QED
    BY <1>4, <2>1 DEF TypeOK, UnlockClusters, crdVars, ctrlVars
<1>5. ASSUME NEW bad \in SUBSET CtrlIds, Forward(bad), faults' \in 0..MaxFaults
      PROVE  TypeOK'
  <2>1. handler.e \in PeerIds
    BY <1>5 DEF Forward, HandlerShape
  <2>2. joined' \in [CtrlIds -> SUBSET PeerIds]
    BY <1>5, <2>1 DEF TypeOK, Forward
  <2>3. failed' \subseteq CtrlIds \X PeerIds
    BY <1>5, <2>1 DEF TypeOK, Forward
  <2> QED
    BY <1>5, <2>2, <2>3 DEF TypeOK, Forward, crdVars, ctrlVars
<1>6. CASE ForwardPeer
  <2>1. {} \in SUBSET CtrlIds
    OBVIOUS
  <2>2. faults' \in 0..MaxFaults
    BY <1>6 DEF ForwardPeer, TypeOK
  <2> QED
    BY <1>5, <1>6, <2>1, <2>2 DEF ForwardPeer
<1>7. ASSUME NEW i \in CtrlIds, ForwardFails(i)
      PROVE  TypeOK'
  <2>1. {i} \in SUBSET CtrlIds
    OBVIOUS
  <2> QED
    BY <1>5, <1>7, <2>1, FaultType DEF ForwardFails
<1>8. CASE EngageReturns
  BY <1>8 DEF TypeOK, EngageReturns, HandlerIdle, crdVars, ctrlVars
<1>9. CASE EngageFails
  <2>1. handler.e[1] \in Peers
    BY <1>9 DEF EngageFails, HandlerShape, PeerIds
  <2> QED
    BY <1>9, <2>1, FaultType DEF TypeOK, EngageFails, HandlerIdle, crdVars, ctrlVars
<1> QED
  BY <1>1, <1>2, <1>3, <1>4, <1>6, <1>7, <1>8, <1>9 DEF HandlerNext

\* The steps of the crd-manager's worker keep the types.
LEMMA WorkerTypeStep ==
  ASSUME TypeOK, WorkerShape, WorkerNext
  PROVE  TypeOK'
<1>1. ASSUME NEW k \in CRDs, TakeCRD(k)
      PROVE  TypeOK'
  BY <1>1 DEF TypeOK, TakeCRD, peerVars, ctrlVars
<1>2. ASSUME NEW k \in CRDs, ReadCRDFails(k)
      PROVE  TypeOK'
  BY <1>2, FaultType DEF TypeOK, ReadCRDFails, peerVars, crdVars, ctrlVars
<1>3. CASE EnsureExists
  BY <1>3, ConstantsAssumption DEF TypeOK, EnsureExists, WorkerIdle, peerVars, crdVars, ctrlVars
<1>4. ASSUME NEW i \in CtrlIds, EnsureCreate(i)
      PROVE  TypeOK'
  <2>1. /\ ctrl' \in [CtrlIds -> {"unused", "new", "running", "returned", "gone"}]
        /\ madeFor' \in [CtrlIds -> 0..MaxCRD]
    BY <1>4 DEF TypeOK, EnsureCreate
  <2> QED
    BY <1>4, <2>1 DEF TypeOK, EnsureCreate, peerVars, crdVars
<1>5. CASE EnsureFails
  <2>1. worker.k \in CRDs
    BY <1>5 DEF EnsureFails, WorkerShape
  <2> QED
    BY <1>5, <2>1, FaultType, ConstantsAssumption
    DEF TypeOK, EnsureFails, WorkerIdle, peerVars, ctrlVars
<1>6. ASSUME NEW bad \in SUBSET PeerIds, Seed(bad), faults' \in 0..MaxFaults
      PROVE  TypeOK'
  <2>1. worker.i \in CtrlIds
    BY <1>6 DEF Seed, WorkerShape
  <2>2. joined' \in [CtrlIds -> SUBSET PeerIds]
    BY <1>6, <2>1, HeldTypes DEF TypeOK, Seed
  <2>3. failed' \subseteq CtrlIds \X PeerIds
    BY <1>6, <2>1 DEF TypeOK, Seed
  <2> QED
    BY <1>6, <2>2, <2>3 DEF TypeOK, Seed, peerVars, crdVars, ctrlVars
<1>7. CASE SeedPeers
  <2>1. {} \in SUBSET PeerIds
    OBVIOUS
  <2>2. faults' \in 0..MaxFaults
    BY <1>7 DEF SeedPeers, TypeOK
  <2> QED
    BY <1>6, <1>7, <2>1, <2>2 DEF SeedPeers
<1>8. ASSUME NEW e \in PeerIds, SeedFails(e)
      PROVE  TypeOK'
  <2>1. {e} \in SUBSET PeerIds
    OBVIOUS
  <2> QED
    BY <1>6, <1>8, <2>1, FaultType DEF SeedFails
<1>9. CASE EnsureCommit
  <2>1. worker.i \in CtrlIds /\ worker.k \in CRDs
    BY <1>9 DEF EnsureCommit, WorkerShape
  <2> QED
    BY <1>9, <2>1, ConstantsAssumption
    DEF TypeOK, EnsureCommit, WorkerIdle, peerVars, crdVars
<1>10. CASE Cleanup
  <2>1. worker.k \in CRDs
    BY <1>10 DEF Cleanup, WorkerShape
  <2> QED
    BY <1>10, <2>1, ConstantsAssumption
    DEF TypeOK, Cleanup, WorkerIdle, peerVars, crdVars
<1> QED
  BY <1>1, <1>2, <1>3, <1>4, <1>5, <1>7, <1>8, <1>9, <1>10 DEF WorkerNext

\* So do the goroutines that wait, and what happens to CRDs.
LEMMA OtherTypeStep ==
  ASSUME TypeOK,
         \/ \E e \in PeerIds : ForgetPeer(e)
         \/ \E k \in CRDs : CreateCRD(k) \/ DeleteCRD(k) \/ ResyncCRD(k)
         \/ \E i \in CtrlIds : StartReturns(i) \/ ForgetController(i)
  PROVE  TypeOK'
<1>1. ASSUME NEW e \in PeerIds, ForgetPeer(e)
      PROVE  TypeOK'
  BY <1>1 DEF TypeOK, ForgetPeer, peerVars, crdVars, ctrlVars
<1>2. ASSUME NEW k \in CRDs, CreateCRD(k)
      PROVE  TypeOK'
  BY <1>2, ConstantsAssumption DEF TypeOK, CreateCRD, peerVars, ctrlVars
<1>3. ASSUME NEW k \in CRDs, DeleteCRD(k) \/ ResyncCRD(k)
      PROVE  TypeOK'
  BY <1>3 DEF TypeOK, DeleteCRD, ResyncCRD, peerVars, ctrlVars
<1>4. ASSUME NEW i \in CtrlIds, StartReturns(i)
      PROVE  TypeOK'
  <2>1. faults' \in 0..MaxFaults
    BY <1>4, FaultType DEF StartReturns, TypeOK
  <2> QED
    BY <1>4, <2>1 DEF TypeOK, StartReturns, peerVars, crdVars
<1>5. ASSUME NEW i \in CtrlIds, ForgetController(i)
      PROVE  TypeOK'
  BY <1>5 DEF TypeOK, ForgetController, peerVars, crdVars
<1> QED
  BY <1>1, <1>2, <1>3, <1>4, <1>5

-----------------------------------------------------------------------------
(* No peer context leaks. *)

\* The peer invariant is kept while a peer is added or removed.
LEMMA PeersChange ==
  ASSUME TypeOK, PeerInv, NEW p \in Peers, AddPeer(p) \/ RemovePeer(p)
  PROVE  PeerInv'
<1>1. CASE AddPeer(p)
  <2> DEFINE e == <<p, peerCount[p] + 1>>
  <2>1. /\ e \in PeerIds /\ e # None
        /\ peerCount[p] \in Nat
    BY <1>1, ConstantsAssumption DEF TypeOK, AddPeer, PeerIds
  <2>2. /\ peers' = [peers EXCEPT ![p] = e]
        /\ live' = live \cup {e}
        /\ peerCount' = [peerCount EXCEPT ![p] = @ + 1]
        /\ handler' = [pc |-> "added", e |-> e]
        /\ clusters' = clusters /\ peers[p] = None
    BY <1>1 DEF AddPeer
  <2>3. peers' \in [Peers -> PeerIds \cup {None}] /\ peers'[p] = e
    BY <2>1, <2>2 DEF TypeOK
  <2>4. HandlerShape'
    BY <2>1, <2>2, <2>3 DEF HandlerShape
  <2>5. \A f \in PeerIds : f[2] <= peerCount[f[1]] => f[2] <= peerCount'[f[1]]
    BY <2>1, <2>2 DEF PeerIds, TypeOK
  <2>6. e[1] = p /\ e[2] <= peerCount'[e[1]]
    BY <2>1, <2>2 DEF TypeOK
  <2> HIDE DEF e
  <2>7. PeersNumbered'
    <3>1. ASSUME NEW q \in Peers, peers'[q] # None
          PROVE  peers'[q][1] = q /\ peers'[q][2] <= peerCount'[peers'[q][1]]
      <4>1. CASE q = p
        BY <2>3, <2>6, <4>1
      <4>2. CASE q # p
        <5>1. peers'[q] = peers[q] /\ peers[q] \in PeerIds
          BY <2>2, <3>1, <4>2 DEF TypeOK
        <5>2. peers[q][1] = q /\ peers[q][2] <= peerCount[peers[q][1]]
          BY <3>1, <5>1 DEF PeerInv, PeersNumbered, Counted
        <5> QED
          BY <2>5, <5>1, <5>2
      <4> QED
        BY <4>1, <4>2
    <3>2. ASSUME NEW q \in Peers, clusters'[q] # None
          PROVE  clusters'[q][1] = q /\ clusters'[q][2] <= peerCount'[clusters'[q][1]]
      <4>1. /\ clusters[q] \in PeerIds /\ clusters[q][1] = q
            /\ clusters[q][2] <= peerCount[clusters[q][1]]
        BY <2>2, <3>2 DEF PeerInv, PeersNumbered, Counted, TypeOK
      <4> QED
        BY <2>2, <2>5, <4>1
    <3>3. ASSUME NEW f \in live'
          PROVE  f[2] <= peerCount'[f[1]]
      <4>1. CASE f = e
        BY <2>6, <4>1
      <4>2. CASE f \in live
        <5>1. f \in PeerIds /\ f[2] <= peerCount[f[1]]
          BY <4>2 DEF PeerInv, PeersNumbered, Counted, TypeOK
        <5> QED
          BY <2>5, <5>1
      <4> QED
        BY <2>2, <3>3, <4>1, <4>2
    <3> QED
      BY <3>1, <3>2, <3>3 DEF PeersNumbered, Counted
  <2>8. NoLeakedPeer'
    <3>1. \A f \in live : f[1] # p
      BY <2>2, ConstantsAssumption DEF PeerInv, NoLeakedPeer, TypeOK, PeerIds
    <3> QED
      BY <2>2, <2>3, <2>6, <3>1 DEF PeerInv, NoLeakedPeer, TypeOK, PeerIds
  <2> QED
    BY <2>4, <2>7, <2>8 DEF PeerInv
<1>2. CASE RemovePeer(p)
  <2>1. /\ handler' = handler /\ handler.pc = "idle"
        /\ peers' = [peers EXCEPT ![p] = None]
        /\ live' = live \ {peers[p]}
        /\ peerCount' = peerCount /\ clusters' = clusters
        /\ peers[p] # None
    BY <1>2 DEF RemovePeer
  <2>2. HandlerShape' /\ PeersNumbered'
    BY <2>1 DEF PeerInv, HandlerShape, PeersNumbered, Counted, TypeOK
  <2>3. NoLeakedPeer'
    <3>1. \A f \in live' : f[1] # p
      BY <2>1 DEF PeerInv, NoLeakedPeer, TypeOK, PeerIds
    <3> QED
      BY <2>1, <3>1 DEF PeerInv, NoLeakedPeer, TypeOK, PeerIds
  <2> QED
    BY <2>2, <2>3 DEF PeerInv
<1> QED
  BY <1>1, <1>2

\* A step that only moves the handler on keeps it.
LEMMA HandlerMoves ==
  ASSUME TypeOK, PeerInv, handler.pc # "idle",
         handler'.e = handler.e \/ handler'.pc = "idle",
         UNCHANGED <<peers, live, peerCount, clusters>>
  PROVE  PeerInv'
BY DEF PeerInv, HandlerShape, PeersNumbered, Counted, NoLeakedPeer

\* Every step keeps the peer invariant.
LEMMA PeerStep ==
  ASSUME TypeOK, PeerInv, [Next]_vars
  PROVE  PeerInv'
<1>1. ASSUME NEW p \in Peers, AddPeer(p) \/ RemovePeer(p)
      PROVE  PeerInv'
  BY <1>1, PeersChange
<1>2. CASE RegisterPeer
  <2>1. handler.e \in PeerIds /\ handler.e[1] \in Peers /\ Counted(handler.e)
    BY <1>2, ConstantsAssumption
    DEF RegisterPeer, PeerInv, HandlerShape, PeersNumbered, PeerIds
  <2>2. HandlerShape' /\ NoLeakedPeer'
    BY <1>2 DEF RegisterPeer, PeerInv, HandlerShape, NoLeakedPeer, TypeOK
  <2>3. PeersNumbered'
    BY <1>2, <2>1 DEF RegisterPeer, PeerInv, PeersNumbered, Counted, TypeOK
  <2> QED
    BY <2>2, <2>3 DEF PeerInv
<1>3. CASE UnlockClusters
  BY <1>3, HandlerMoves DEF UnlockClusters, TypeOK
<1>4. CASE ForwardPeer \/ \E i \in CtrlIds : ForwardFails(i)
  BY <1>4, HandlerMoves DEF ForwardPeer, ForwardFails, Forward, TypeOK
<1>5. CASE EngageReturns
  BY <1>5, HandlerMoves DEF EngageReturns, HandlerIdle
<1>6. CASE EngageFails
  <2>1. handler.e \in PeerIds /\ handler.e[1] \in Peers /\ peers[handler.e[1]] = handler.e
    BY <1>6 DEF EngageFails, PeerInv, HandlerShape, PeerIds
  <2>2. \A f \in live' : f[1] # handler.e[1]
    BY <1>6, <2>1 DEF EngageFails, PeerInv, NoLeakedPeer
  <2>3. HandlerShape' /\ PeersNumbered'
    BY <1>6 DEF EngageFails, HandlerIdle, PeerInv, HandlerShape, PeersNumbered, Counted, TypeOK
  <2>4. NoLeakedPeer'
    BY <1>6, <2>1, <2>2 DEF EngageFails, PeerInv, NoLeakedPeer, TypeOK
  <2> QED
    BY <2>3, <2>4 DEF PeerInv
<1>7. ASSUME NEW e \in PeerIds, ForgetPeer(e)
      PROVE  PeerInv'
  BY <1>7 DEF ForgetPeer, peerVars, PeerInv, HandlerShape, PeersNumbered, Counted,
              NoLeakedPeer, TypeOK
<1>8. CASE UNCHANGED <<peers, live, peerCount, handler, clusters>>
  BY <1>8 DEF PeerInv, HandlerShape, PeersNumbered, Counted, NoLeakedPeer
<1>9. CASE WorkerNext
  BY <1>8, <1>9
  DEF WorkerNext, TakeCRD, ReadCRDFails, EnsureExists, EnsureCreate, EnsureFails,
      SeedPeers, SeedFails, Seed, EnsureCommit, Cleanup, peerVars
<1>10. CASE \/ \E k \in CRDs : CreateCRD(k) \/ DeleteCRD(k) \/ ResyncCRD(k)
            \/ \E i \in CtrlIds : StartReturns(i) \/ ForgetController(i)
  BY <1>8, <1>10 DEF CreateCRD, DeleteCRD, ResyncCRD, StartReturns, ForgetController, peerVars
<1>11. CASE UNCHANGED vars
  BY <1>8, <1>11 DEF vars, peerVars
<1> QED
  BY <1>1, <1>2, <1>3, <1>4, <1>5, <1>6, <1>7, <1>9, <1>10, <1>11 DEF Next, HandlerNext

-----------------------------------------------------------------------------
(* No controller is orphaned. *)

\* The steps of the worker that concern a controller.
LEMMA WorkerCtrlStep ==
  ASSUME TypeOK, CtrlInv, WorkerNext
  PROVE  CtrlInv'
<1>1. ASSUME NEW k \in CRDs, TakeCRD(k) \/ ReadCRDFails(k)
      PROVE  CtrlInv'
  <2>1. UNCHANGED <<syncEntries, ctrl, cancelled>>
    BY <1>1 DEF TakeCRD, ReadCRDFails, ctrlVars
  <2>2. WorkerShape'
    BY <1>1 DEF TakeCRD, ReadCRDFails, CtrlInv, WorkerShape, ctrlVars
  <2> QED
    BY <2>1, <2>2 DEF CtrlInv, EntriesStarted, NoOrphanController, Active
<1>2. CASE EnsureExists \/ EnsureFails
  <2>1. UNCHANGED <<syncEntries, ctrl, cancelled>> /\ worker' = WorkerIdle
    BY <1>2 DEF EnsureExists, EnsureFails, ctrlVars
  <2> QED
    BY <2>1 DEF CtrlInv, WorkerShape, WorkerIdle, EntriesStarted, NoOrphanController, Active
<1>3. ASSUME NEW i \in CtrlIds, EnsureCreate(i)
      PROVE  CtrlInv'
  <2>1. i = <<i[1], i[2]>> /\ ctrl[i] = "unused"
    BY <1>3 DEF EnsureCreate, Fresh, Unused, CtrlIds
  <2>2. /\ worker.k \in CRDs /\ worker'.k = worker.k /\ worker'.i = i
        /\ ctrl' = [ctrl EXCEPT ![i] = "new"]
        /\ UNCHANGED <<syncEntries, cancelled>>
    BY <1>3 DEF EnsureCreate, CtrlInv, WorkerShape, TypeOK
  <2>3. WorkerShape'
    BY <1>3, <2>2 DEF EnsureCreate, WorkerShape, TypeOK
  <2>4. EntriesStarted' /\ NoOrphanController'
    BY <2>1, <2>2 DEF CtrlInv, EntriesStarted, NoOrphanController, Active, TypeOK
  <2> QED
    BY <2>3, <2>4 DEF CtrlInv
<1>4. CASE SeedPeers \/ \E e \in PeerIds : SeedFails(e)
  <2>1. /\ worker.pc = "created" /\ worker' = [worker EXCEPT !.pc = "seeded"]
        /\ UNCHANGED <<syncEntries, ctrl, cancelled, syncLock>>
    BY <1>4 DEF SeedPeers, SeedFails, Seed, ctrlVars
  <2>2. WorkerShape'
    BY <2>1 DEF CtrlInv, WorkerShape, TypeOK
  <2> QED
    BY <2>1, <2>2 DEF CtrlInv, EntriesStarted, NoOrphanController, Active
<1>5. CASE EnsureCommit
  <2>1. /\ worker.i \in CtrlIds /\ worker.k \in CRDs /\ worker.i[1] = worker.k
        /\ syncEntries[worker.k] = None /\ worker.i # None
    BY <1>5, ConstantsAssumption DEF EnsureCommit, CtrlInv, WorkerShape, CtrlIds
  <2>2. /\ syncEntries' = [syncEntries EXCEPT ![worker.k] = worker.i]
        /\ ctrl' = [ctrl EXCEPT ![worker.i] = "running"]
        /\ worker' = WorkerIdle /\ cancelled' = cancelled
    BY <1>5 DEF EnsureCommit
  <2>3. WorkerShape' /\ EntriesStarted'
    BY <2>1, <2>2 DEF CtrlInv, WorkerShape, WorkerIdle, EntriesStarted, TypeOK
  <2>4. NoOrphanController'
    <3>1. \A j \in CtrlIds : j # None /\ j[1] \in CRDs
      BY ConstantsAssumption DEF CtrlIds
    <3> QED
      BY <2>1, <2>2, <3>1 DEF CtrlInv, NoOrphanController, Active, TypeOK
  <2> QED
    BY <2>3, <2>4 DEF CtrlInv
<1>6. CASE Cleanup
  <2>1. /\ worker.k \in CRDs /\ worker' = WorkerIdle /\ ctrl' = ctrl
        /\ syncEntries' = [syncEntries EXCEPT ![worker.k] = None]
        /\ cancelled' = cancelled \cup ({syncEntries[worker.k]} \ {None})
    BY <1>6 DEF Cleanup, CtrlInv, WorkerShape
  <2>2. WorkerShape' /\ EntriesStarted'
    BY <2>1 DEF CtrlInv, WorkerShape, WorkerIdle, EntriesStarted, TypeOK
  <2>3. NoOrphanController'
    <3>1. \A j \in CtrlIds : j # None /\ j[1] \in CRDs
      BY ConstantsAssumption DEF CtrlIds
    <3> QED
      BY <2>1, <3>1 DEF CtrlInv, NoOrphanController, Active, TypeOK
  <2> QED
    BY <2>2, <2>3 DEF CtrlInv
<1> QED
  BY <1>1, <1>2, <1>3, <1>4, <1>5, <1>6 DEF WorkerNext

\* Every step keeps the controller invariant.
LEMMA CtrlStep ==
  ASSUME TypeOK, CtrlInv, [Next]_vars
  PROVE  CtrlInv'
<1>1. CASE WorkerNext
  BY <1>1, WorkerCtrlStep
<1>2. ASSUME NEW i \in CtrlIds, StartReturns(i)
      PROVE  CtrlInv'
  <2>1. /\ ctrl[i] = "running" /\ ctrl' = [ctrl EXCEPT ![i] = "returned"]
        /\ UNCHANGED <<worker, syncEntries, cancelled, syncLock>>
    BY <1>2 DEF StartReturns
  <2> QED
    BY <2>1 DEF CtrlInv, WorkerShape, EntriesStarted, NoOrphanController, Active, TypeOK
<1>3. ASSUME NEW i \in CtrlIds, ForgetController(i)
      PROVE  CtrlInv'
  <2>1. /\ ctrl[i] = "returned" /\ ctrl' = [ctrl EXCEPT ![i] = "gone"]
        /\ syncEntries' = IF syncEntries[i[1]] = i
                            THEN [syncEntries EXCEPT ![i[1]] = None] ELSE syncEntries
        /\ UNCHANGED <<worker, cancelled, syncLock>>
    BY <1>3 DEF ForgetController
  <2>2. i[1] \in CRDs /\ i # None
    BY ConstantsAssumption DEF CtrlIds
  <2>3. WorkerShape'
    BY <2>1, <2>2 DEF CtrlInv, WorkerShape, TypeOK
  <2>4. EntriesStarted'
    BY <2>1, <2>2 DEF CtrlInv, EntriesStarted, TypeOK
  <2>5. NoOrphanController'
    BY <2>1, <2>2 DEF CtrlInv, NoOrphanController, Active, TypeOK, CtrlIds
  <2> QED
    BY <2>3, <2>4, <2>5 DEF CtrlInv
<1>4. CASE UNCHANGED <<worker, syncEntries, ctrl, cancelled, syncLock>>
  BY <1>4 DEF CtrlInv, WorkerShape, EntriesStarted, NoOrphanController, Active
<1>5. CASE HandlerNext
  BY <1>4, <1>5
  DEF HandlerNext, AddPeer, RemovePeer, RegisterPeer, UnlockClusters, ForwardPeer,
      ForwardFails, Forward, EngageReturns, EngageFails, ctrlVars
<1>6. CASE \/ \E e \in PeerIds : ForgetPeer(e)
           \/ \E k \in CRDs : CreateCRD(k) \/ DeleteCRD(k) \/ ResyncCRD(k)
  BY <1>4, <1>6 DEF ForgetPeer, CreateCRD, DeleteCRD, ResyncCRD, ctrlVars
<1>7. CASE UNCHANGED vars
  BY <1>4, <1>7 DEF vars, ctrlVars
<1> QED
  BY <1>1, <1>2, <1>3, <1>5, <1>6, <1>7 DEF Next

-----------------------------------------------------------------------------
(* No controller misses a peer. *)

MissInv == NoPeerMissed /\ NewMissesNone

\* It is kept by a step that adds neither a controller nor a live peer and takes
\* back nothing a controller was told.
LEMMA StillTold ==
  ASSUME MissInv,
         Entries' \subseteq Entries,
         (Engaged \cap live)' \subseteq Engaged \cap live,
         worker'.pc = "seeded" => worker.pc = "seeded" /\ worker'.i = worker.i,
         UNCHANGED <<joined, failed>>,
         handler.pc \in {"locked", "registered"} =>
           handler'.e = handler.e /\ handler'.pc \in {"locked", "registered"}
  PROVE  MissInv'
<1>1. ASSUME NEW i, NEW e, Told(i, e)
      PROVE  Told(i, e)'
  BY <1>1 DEF Told
<1>2. NoPeerMissed'
  BY <1>1 DEF MissInv, NoPeerMissed, Told
<1>3. NewMissesNone'
  BY <1>1 DEF MissInv, NewMissesNone
<1> QED
  BY <1>2, <1>3 DEF MissInv

\* The steps of the provider's handler.
LEMMA HandlerMissStep ==
  ASSUME TypeOK, PeerInv, CtrlInv, MissInv, HandlerNext
  PROVE  MissInv'
<1>1. ASSUME NEW p \in Peers, AddPeer(p)
      PROVE  MissInv'
  <2> DEFINE e == <<p, peerCount[p] + 1>>
  <2>1. /\ live' = live \cup {e} /\ handler.pc = "idle"
        /\ UNCHANGED <<clusters, syncEntries, worker, joined, failed>>
    BY <1>1 DEF AddPeer, ctrlVars
  <2>2. e \notin Engaged
    <3>1. e[1] = p /\ ~(e[2] <= peerCount[e[1]])
      BY ConstantsAssumption DEF TypeOK
    <3>2. \A f \in Engaged : f[2] <= peerCount[f[1]]
      BY DEF Engaged, PeerInv, PeersNumbered, Counted
    <3> QED
      BY <3>1, <3>2
  <2> HIDE DEF e
  <2>3. /\ Entries' = Entries
        /\ (Engaged \cap live)' \subseteq Engaged \cap live
    BY <2>1, <2>2 DEF Entries, Engaged
  <2> QED
    BY <2>1, <2>3, StillTold
<1>2. ASSUME NEW p \in Peers, RemovePeer(p)
      PROVE  MissInv'
  <2>1. /\ live' \subseteq live
        /\ UNCHANGED <<handler, clusters, syncEntries, worker, joined, failed>>
    BY <1>2 DEF RemovePeer, ctrlVars
  <2>2. /\ Entries' = Entries
        /\ (Engaged \cap live)' \subseteq Engaged \cap live
    BY <2>1 DEF Entries, Engaged
  <2> QED
    BY <2>1, <2>2, StillTold
<1>3. CASE RegisterPeer
  <2>1. /\ handler.pc = "added" /\ handler'.pc = "locked" /\ handler'.e = handler.e
        /\ clusters' = [clusters EXCEPT ![handler.e[1]] = handler.e]
        /\ UNCHANGED <<live, syncEntries, worker, joined, failed>>
    BY <1>3 DEF RegisterPeer, TypeOK, ctrlVars
  <2>2. Engaged' \subseteq Engaged \cup {handler.e} /\ Entries' = Entries
    BY <2>1 DEF Engaged, Entries, TypeOK
  <2>3. ASSUME NEW i, NEW e, Told(i, e) \/ e = handler.e
        PROVE  Told(i, e)'
    BY <2>1, <2>3 DEF Told
  <2>4. NoPeerMissed'
    BY <2>1, <2>2, <2>3 DEF MissInv, NoPeerMissed, Told
  <2>5. NewMissesNone'
    BY <2>1, <2>2, <2>3 DEF MissInv, NewMissesNone
  <2> QED
    BY <2>4, <2>5 DEF MissInv
<1>4. CASE UnlockClusters
  <2>1. /\ handler'.pc = "registered" /\ handler'.e = handler.e
        /\ UNCHANGED <<live, clusters, syncEntries, worker, joined, failed>>
    BY <1>4 DEF UnlockClusters, TypeOK, ctrlVars
  <2> QED
    BY <2>1, StillTold DEF Entries, Engaged
<1>5. ASSUME NEW bad \in SUBSET CtrlIds, Forward(bad)
      PROVE  MissInv'
  <2>1. /\ joined' = [i \in CtrlIds |->
             IF i \in Entries \ bad THEN joined[i] \cup {handler.e} ELSE joined[i]]
        /\ failed' = failed \cup (bad \X {handler.e})
        /\ UNCHANGED <<live, clusters, syncEntries, worker>>
        /\ syncLock = "free"
    BY <1>5 DEF Forward, ctrlVars, Free, HandlerAsks
  <2>2. Entries' = Entries /\ Engaged' = Engaged
    BY <2>1 DEF Entries, Engaged
  <2>3. ASSUME NEW i \in Entries, NEW e, Told(i, e)
        PROVE  Told(i, e)'
    <3>1. i \in CtrlIds
      BY HeldTypes
    <3>2. CASE e \in joined[i]
      BY <2>1, <3>1, <3>2 DEF Told
    <3>3. CASE <<i, e>> \in failed
      BY <2>1, <3>3 DEF Told
    <3>4. CASE handler.e = e
      BY <2>1, <3>1, <3>4 DEF Told
    <3> QED
      BY <2>3, <3>2, <3>3, <3>4 DEF Told
  <2>4. NoPeerMissed'
    BY <2>1, <2>2, <2>3 DEF MissInv, NoPeerMissed, Told
  <2>5. NewMissesNone'
    BY <2>1 DEF CtrlInv, WorkerShape, NewMissesNone
  <2> QED
    BY <2>4, <2>5 DEF MissInv
<1>6. CASE ForwardPeer
  <2>1. {} \in SUBSET CtrlIds
    OBVIOUS
  <2> QED
    BY <1>5, <1>6, <2>1 DEF ForwardPeer
<1>7. ASSUME NEW i \in CtrlIds, ForwardFails(i)
      PROVE  MissInv'
  <2>1. {i} \in SUBSET CtrlIds
    OBVIOUS
  <2> QED
    BY <1>5, <1>7, <2>1 DEF ForwardFails
<1>8. CASE EngageReturns \/ EngageFails
  <2>1. /\ handler.pc = "forwarded" /\ live' \subseteq live
        /\ UNCHANGED <<clusters, syncEntries, worker, joined, failed>>
    BY <1>8 DEF EngageReturns, EngageFails, ctrlVars
  <2>2. /\ Entries' = Entries
        /\ (Engaged \cap live)' \subseteq Engaged \cap live
    BY <2>1 DEF Entries, Engaged
  <2> QED
    BY <2>1, <2>2, StillTold
<1> QED
  BY <1>1, <1>2, <1>3, <1>4, <1>6, <1>7, <1>8 DEF HandlerNext

\* The steps of the worker.
LEMMA WorkerMissStep ==
  ASSUME TypeOK, CtrlInv, MissInv, WorkerNext
  PROVE  MissInv'
<1>1. CASE \/ \E k \in CRDs : TakeCRD(k) \/ ReadCRDFails(k)
           \/ EnsureExists \/ (\E i \in CtrlIds : EnsureCreate(i)) \/ EnsureFails
  <2>1. /\ UNCHANGED <<live, handler, clusters, syncEntries, joined, failed>>
        /\ worker'.pc # "seeded"
    <3>1. ASSUME NEW k \in CRDs, TakeCRD(k)
          PROVE  worker'.pc # "seeded"
      BY <3>1 DEF TakeCRD
    <3>2. EnsureExists \/ EnsureFails => worker'.pc # "seeded"
      BY DEF EnsureExists, EnsureFails, WorkerIdle
    <3>3. ASSUME NEW i \in CtrlIds, EnsureCreate(i)
          PROVE  worker'.pc # "seeded"
      BY <3>3 DEF EnsureCreate, TypeOK
    <3>4. UNCHANGED <<live, handler, clusters, syncEntries, joined, failed>>
      BY <1>1 DEF TakeCRD, ReadCRDFails, EnsureExists, EnsureCreate, EnsureFails,
                  peerVars, ctrlVars
    <3>5. ASSUME NEW k \in CRDs, ReadCRDFails(k)
          PROVE  worker'.pc # "seeded"
      BY <3>5 DEF ReadCRDFails
    <3> QED
      BY <1>1, <3>1, <3>2, <3>3, <3>4, <3>5
  <2> QED
    BY <2>1, StillTold DEF Entries, Engaged
<1>2. ASSUME NEW bad \in SUBSET PeerIds, Seed(bad)
      PROVE  MissInv'
  <2>1. /\ worker.pc = "created" /\ worker'.i = worker.i
        /\ joined' = [joined EXCEPT ![worker.i] = Engaged \ bad]
        /\ failed' = failed \cup ({worker.i} \X bad)
        /\ UNCHANGED <<live, handler, clusters, syncEntries>>
    BY <1>2 DEF Seed, TypeOK, peerVars, ctrlVars
  <2>2. Entries' = Entries /\ Engaged' = Engaged
    BY <2>1 DEF Entries, Engaged
  <2>3. worker.i \in CtrlIds /\ worker.i \notin Entries
    BY <2>1 DEF CtrlInv, WorkerShape, EntriesStarted, Entries
  <2>4. NoPeerMissed'
    <3>1. ASSUME NEW i \in Entries, NEW e, Told(i, e)
          PROVE  Told(i, e)'
      <4>1. i \in CtrlIds /\ i # worker.i
        BY <2>3, HeldTypes
      <4>2. joined'[i] = joined[i]
        BY <2>1, <4>1 DEF TypeOK
      <4> QED
        BY <2>1, <3>1, <4>2 DEF Told
    <3> QED
      BY <2>1, <2>2, <3>1 DEF MissInv, NoPeerMissed, Told
  <2>5. NewMissesNone'
    <3>1. joined'[worker.i] = Engaged \ bad
      BY <2>1, <2>3 DEF TypeOK
    <3> QED
      BY <2>1, <2>2, <3>1 DEF NewMissesNone, Told
  <2> QED
    BY <2>4, <2>5 DEF MissInv
<1>3. CASE SeedPeers
  <2>1. {} \in SUBSET PeerIds
    OBVIOUS
  <2> QED
    BY <1>2, <1>3, <2>1 DEF SeedPeers
<1>4. ASSUME NEW e \in PeerIds, SeedFails(e)
      PROVE  MissInv'
  <2>1. {e} \in SUBSET PeerIds
    OBVIOUS
  <2> QED
    BY <1>2, <1>4, <2>1 DEF SeedFails
<1>5. CASE EnsureCommit
  <2>1. /\ worker.pc = "seeded" /\ worker'.pc = "idle"
        /\ syncEntries' = [syncEntries EXCEPT ![worker.k] = worker.i]
        /\ UNCHANGED <<live, handler, clusters, joined, failed>>
    BY <1>5 DEF EnsureCommit, WorkerIdle, peerVars
  <2>2. Entries' \subseteq Entries \cup {worker.i} /\ Engaged' = Engaged
    BY <2>1 DEF Entries, Engaged, TypeOK
  <2>3. \A i, e : Told(i, e)' <=> Told(i, e)
    BY <2>1 DEF Told
  <2>4. NoPeerMissed'
    BY <2>1, <2>2, <2>3 DEF MissInv, NoPeerMissed, NewMissesNone, Told
  <2> QED
    BY <2>1, <2>4 DEF MissInv, NewMissesNone
<1>6. CASE Cleanup
  <2>1. /\ worker'.pc = "idle"
        /\ syncEntries' = [syncEntries EXCEPT ![worker.k] = None]
        /\ UNCHANGED <<live, handler, clusters, joined, failed>>
    BY <1>6 DEF Cleanup, WorkerIdle, peerVars
  <2>2. Entries' \subseteq Entries /\ Engaged' = Engaged
    BY <2>1 DEF Entries, Engaged, TypeOK
  <2> QED
    BY <2>1, <2>2, StillTold
<1> QED
  BY <1>1, <1>3, <1>4, <1>5, <1>6 DEF WorkerNext

\* Every step.
LEMMA MissStep ==
  ASSUME TypeOK, PeerInv, CtrlInv, MissInv, [Next]_vars
  PROVE  MissInv'
<1>1. CASE HandlerNext
  BY <1>1, HandlerMissStep
<1>2. CASE WorkerNext
  BY <1>2, WorkerMissStep
<1>3. ASSUME NEW e \in PeerIds, ForgetPeer(e)
      PROVE  MissInv'
  <2>1. /\ clusters' = [clusters EXCEPT ![e[1]] = None]
        /\ UNCHANGED <<live, handler, syncEntries, worker, joined, failed>>
    BY <1>3 DEF ForgetPeer, peerVars, ctrlVars
  <2>2. Engaged' \subseteq Engaged /\ Entries' = Entries
    BY <2>1 DEF Engaged, Entries, TypeOK
  <2> QED
    BY <2>1, <2>2, StillTold
<1>4. ASSUME NEW i \in CtrlIds, ForgetController(i)
      PROVE  MissInv'
  <2>1. /\ \/ syncEntries' = [syncEntries EXCEPT ![i[1]] = None]
           \/ syncEntries' = syncEntries
        /\ UNCHANGED <<live, handler, clusters, worker, joined, failed>>
    BY <1>4 DEF ForgetController, peerVars
  <2>2. Entries' \subseteq Entries /\ Engaged' = Engaged
    BY <2>1 DEF Engaged, Entries, TypeOK
  <2> QED
    BY <2>1, <2>2, StillTold
<1>5. CASE UNCHANGED <<live, handler, clusters, syncEntries, worker, joined, failed>>
  BY <1>5, StillTold DEF Entries, Engaged
<1>6. CASE \/ \E k \in CRDs : CreateCRD(k) \/ DeleteCRD(k) \/ ResyncCRD(k)
           \/ \E i \in CtrlIds : StartReturns(i)
           \/ UNCHANGED vars
  BY <1>5, <1>6 DEF CreateCRD, DeleteCRD, ResyncCRD, StartReturns, vars, peerVars, ctrlVars
<1> QED
  BY <1>1, <1>2, <1>3, <1>4, <1>6 DEF Next

-----------------------------------------------------------------------------
(* No controller outlives its CRD. *)

\* Reconcile has something left to do for a CRD, or it exists.
Pending(k) == k \in exists \cup crdQueue

\* A controller is only made for a CRD that exists or whose removal is queued, and
\* an active one that is left has a Reconcile coming that will stop it.
StopInv ==
  /\ worker.pc \in {"ensure", "created", "seeded"} => Pending(worker.k)
  /\ \A i \in CtrlIds : Active(i) =>
       (Pending(i[1]) \/ (worker.pc = "cleanup" /\ worker.k = i[1]))

\* It is kept by a step that starts no controller, loses no queued CRD and leaves
\* the worker where it is, or idle after something else than a cleanup.
LEMMA StillPending ==
  ASSUME StopInv,
         \A i \in CtrlIds : Active(i)' => Active(i),
         \A k : Pending(k) => Pending(k)',
         \/ worker' = worker
         \/ worker'.pc = "idle" /\ worker.pc # "cleanup"
         \/ /\ worker'.k = worker.k /\ worker.pc \in {"ensure", "created"}
            /\ worker'.pc \in {"created", "seeded"}
  PROVE  StopInv'
BY DEF StopInv

\* The steps of the crd-manager's worker.
LEMMA WorkerStopStep ==
  ASSUME TypeOK, CtrlInv, StopInv, WorkerNext
  PROVE  StopInv'
<1>1. ASSUME NEW k \in CRDs, TakeCRD(k)
      PROVE  StopInv'
  <2>1. /\ worker.pc = "idle" /\ worker'.k = k
        /\ worker'.pc = IF k \in exists THEN "ensure" ELSE "cleanup"
        /\ exists' = exists /\ crdQueue' = crdQueue \ {k}
        /\ \A i \in CtrlIds : Active(i)' <=> Active(i)
    BY <1>1 DEF TakeCRD, ctrlVars, Active
  <2>2. k \in exists => Pending(k)'
    BY <2>1 DEF Pending
  <2>3. \A j : Pending(j) /\ j # k => Pending(j)'
    BY <2>1 DEF Pending
  <2> QED
    BY <2>1, <2>2, <2>3 DEF StopInv
<1>2. ASSUME NEW k \in CRDs, ReadCRDFails(k)
      PROVE  StopInv'
  BY <1>2, StillPending DEF ReadCRDFails, ctrlVars, crdVars, Active, Pending
<1>3. CASE EnsureExists \/ EnsureFails
  <2>1. /\ worker'.pc = "idle" /\ worker.pc = "ensure"
        /\ exists' = exists /\ crdQueue \subseteq crdQueue'
        /\ UNCHANGED <<ctrl, cancelled>>
    BY <1>3 DEF EnsureExists, EnsureFails, WorkerIdle, crdVars, ctrlVars
  <2> QED
    BY <2>1, StillPending DEF Active, Pending
<1>4. ASSUME NEW i \in CtrlIds, EnsureCreate(i)
      PROVE  StopInv'
  <2>1. /\ worker'.k = worker.k /\ worker.pc = "ensure" /\ worker'.pc = "created"
        /\ ctrl' = [ctrl EXCEPT ![i] = "new"]
        /\ UNCHANGED <<exists, crdQueue, cancelled>>
    BY <1>4 DEF EnsureCreate, TypeOK, crdVars
  <2>2. \A j \in CtrlIds : Active(j)' => Active(j)
    BY <2>1 DEF Active, TypeOK
  <2> QED
    BY <2>1, <2>2, StillPending DEF Pending
<1>5. CASE SeedPeers \/ \E e \in PeerIds : SeedFails(e)
  <2>1. /\ worker'.k = worker.k /\ worker.pc = "created" /\ worker'.pc = "seeded"
        /\ UNCHANGED <<exists, crdQueue, ctrl, cancelled>>
    BY <1>5 DEF SeedPeers, SeedFails, Seed, TypeOK, crdVars, ctrlVars
  <2> QED
    BY <2>1, StillPending DEF Active, Pending
<1>6. CASE EnsureCommit
  <2>1. /\ worker.pc = "seeded" /\ worker'.pc = "idle"
        /\ ctrl' = [ctrl EXCEPT ![worker.i] = "running"]
        /\ UNCHANGED <<exists, crdQueue, cancelled>>
    BY <1>6 DEF EnsureCommit, WorkerIdle, crdVars
  <2>2. Pending(worker.k) /\ worker.i \in CtrlIds /\ worker.i[1] = worker.k
    BY <2>1 DEF StopInv, CtrlInv, WorkerShape
  <2>3. \A j \in CtrlIds : Active(j)' => Active(j) \/ j = worker.i
    BY <2>1, <2>2 DEF Active, TypeOK
  <2>4. \A j \in CtrlIds : Active(j)' => Pending(j[1])
    BY <2>1, <2>2, <2>3 DEF StopInv
  <2> QED
    BY <2>1, <2>4 DEF StopInv, Pending
<1>7. CASE Cleanup
  <2>1. /\ worker'.pc = "idle" /\ ctrl' = ctrl
        /\ cancelled' = cancelled \cup ({syncEntries[worker.k]} \ {None})
        /\ UNCHANGED <<exists, crdQueue>>
    BY <1>7 DEF Cleanup, WorkerIdle, crdVars
  <2>2. ASSUME NEW i \in CtrlIds, Active(i)'
        PROVE  Active(i) /\ i[1] # worker.k
    <3>1. Active(i) /\ i # None
      BY <2>1, <2>2, ConstantsAssumption DEF Active, CtrlIds
    <3>2. syncEntries[i[1]] = i
      BY <3>1 DEF CtrlInv, NoOrphanController
    <3>3. i \notin {syncEntries[worker.k]}
      BY <2>1, <2>2, <3>1 DEF Active
    <3> QED
      BY <3>1, <3>2, <3>3
  <2> QED
    BY <2>1, <2>2 DEF StopInv, Pending
<1> QED
  BY <1>1, <1>2, <1>3, <1>4, <1>5, <1>6, <1>7 DEF WorkerNext

\* Every step.
LEMMA StopStep ==
  ASSUME TypeOK, CtrlInv, StopInv, [Next]_vars
  PROVE  StopInv'
<1>1. CASE WorkerNext
  BY <1>1, WorkerStopStep
<1>2. ASSUME NEW k \in CRDs, CreateCRD(k) \/ DeleteCRD(k) \/ ResyncCRD(k)
      PROVE  StopInv'
  <2>1. UNCHANGED <<worker, ctrl, cancelled>>
    BY <1>2 DEF CreateCRD, DeleteCRD, ResyncCRD, ctrlVars
  <2>2. \A j : Pending(j) => Pending(j)'
    BY <1>2 DEF CreateCRD, DeleteCRD, ResyncCRD, Pending
  <2> QED
    BY <2>1, <2>2, StillPending DEF Active
<1>3. ASSUME NEW i \in CtrlIds, StartReturns(i) \/ ForgetController(i)
      PROVE  StopInv'
  <2>1. /\ UNCHANGED <<worker, exists, crdQueue, cancelled>>
        /\ \E s \in {"returned", "gone"} : ctrl' = [ctrl EXCEPT ![i] = s]
    BY <1>3 DEF StartReturns, ForgetController, crdVars
  <2>2. \A j \in CtrlIds : Active(j)' => Active(j)
    BY <2>1 DEF Active, TypeOK
  <2> QED
    BY <2>1, <2>2, StillPending DEF Pending
<1>4. CASE UNCHANGED <<worker, exists, crdQueue, ctrl, cancelled>>
  BY <1>4, StillPending DEF Active, Pending
<1>5. CASE HandlerNext
  BY <1>4, <1>5
  DEF HandlerNext, AddPeer, RemovePeer, RegisterPeer, UnlockClusters, ForwardPeer,
      ForwardFails, Forward, EngageReturns, EngageFails, ctrlVars, crdVars
<1>6. CASE (\E e \in PeerIds : ForgetPeer(e)) \/ UNCHANGED vars
  BY <1>4, <1>6 DEF ForgetPeer, vars, ctrlVars, crdVars
<1> QED
  BY <1>1, <1>2, <1>3, <1>5, <1>6 DEF Next

-----------------------------------------------------------------------------
(* Whom engagedClusterNames misses. *)

\* A live peer is missing from clusters only while its Engage is coming to it, or
\* if its name was engaged before: then the goroutine of that earlier entry may
\* have deleted the name.
NamesKept ==
  \A e \in live :
    \/ handler.e = e /\ handler.pc = "added"
    \/ clusters[e[1]] = e
    \/ clusters[e[1]] = None /\ e[2] > 1

\* The entry in Provider.peers is the last one made for its name, and a goroutine
\* waits for none that is yet to be made.
Latest ==
  /\ \A p \in Peers : peers[p] # None => peers[p][2] = peerCount[p]
  /\ \A e \in waiters : Counted(e)

NamesInv == NamesKept /\ Latest

\* The steps that concern one peer name.
LEMMA PeerNamesStep ==
  ASSUME TypeOK, PeerInv, NamesInv, NEW p \in Peers, AddPeer(p) \/ RemovePeer(p)
  PROVE  NamesInv'
<1>1. CASE AddPeer(p)
  <2> DEFINE e == <<p, peerCount[p] + 1>>
  <2>1. /\ handler.pc = "idle" /\ peers[p] = None
        /\ peers' = [peers EXCEPT ![p] = e] /\ live' = live \cup {e}
        /\ peerCount' = [peerCount EXCEPT ![p] = @ + 1]
        /\ handler'.pc = "added" /\ handler'.e = e
        /\ UNCHANGED <<clusters, waiters>>
    BY <1>1 DEF AddPeer
  <2>2. NamesKept'
    BY <2>1 DEF NamesInv, NamesKept
  <2>3. ASSUME NEW q \in Peers, peers'[q] # None
        PROVE  peers'[q][2] = peerCount'[q]
    BY <2>1, <2>3 DEF NamesInv, Latest, TypeOK
  <2>4. ASSUME NEW w \in waiters
        PROVE  w[2] <= peerCount'[w[1]]
    <3>1. w[1] \in Peers /\ w[2] \in Nat /\ w[2] <= peerCount[w[1]]
      BY ConstantsAssumption DEF NamesInv, Latest, Counted, TypeOK, PeerIds
    <3>2. peerCount[w[1]] \in Nat /\ peerCount'[w[1]] \in {peerCount[w[1]], peerCount[w[1]] + 1}
      BY <2>1, <3>1, ConstantsAssumption DEF TypeOK
    <3> QED
      BY <3>1, <3>2
  <2> QED
    BY <2>1, <2>2, <2>3, <2>4 DEF NamesInv, Latest, Counted
<1>2. CASE RemovePeer(p)
  BY <1>2 DEF RemovePeer, NamesInv, NamesKept, Latest, Counted, TypeOK
<1> QED
  BY <1>1, <1>2

\* Every step.
LEMMA NamesStep ==
  ASSUME TypeOK, PeerInv, NamesInv, [Next]_vars
  PROVE  NamesInv'
<1>1. ASSUME NEW p \in Peers, AddPeer(p) \/ RemovePeer(p)
      PROVE  NamesInv'
  BY <1>1, PeerNamesStep
<1>2. CASE RegisterPeer
  <2>1. /\ handler.e[1] \in Peers /\ peers[handler.e[1]] = handler.e
        /\ clusters' = [clusters EXCEPT ![handler.e[1]] = handler.e]
        /\ UNCHANGED <<peers, live, peerCount, waiters>>
    BY <1>2 DEF RegisterPeer, PeerInv, HandlerShape, PeerIds
  <2>2. ASSUME NEW f \in live
        PROVE  \/ clusters'[f[1]] = f
               \/ clusters'[f[1]] = None /\ f[2] > 1
    <3>1. f[1] \in Peers /\ peers[f[1]] = f
      BY DEF PeerInv, NoLeakedPeer, TypeOK, PeerIds
    <3>2. CASE f[1] = handler.e[1]
      BY <2>1, <3>1, <3>2 DEF TypeOK
    <3>3. CASE f[1] # handler.e[1]
      BY <2>1, <3>1, <3>3 DEF NamesInv, NamesKept, TypeOK
    <3> QED
      BY <3>2, <3>3
  <2> QED
    BY <2>1, <2>2 DEF NamesInv, NamesKept, Latest, Counted
<1>3. CASE UnlockClusters
  <2>1. /\ handler.pc = "locked" /\ waiters' = waiters \cup {handler.e}
        /\ UNCHANGED <<peers, live, peerCount, clusters>>
    BY <1>3 DEF UnlockClusters
  <2>2. handler.e[1] \in Peers /\ peers[handler.e[1]] = handler.e /\ handler.e # None
    BY <2>1, ConstantsAssumption DEF PeerInv, HandlerShape, PeerIds
  <2>3. Counted(handler.e)
    BY <2>2 DEF PeerInv, PeersNumbered
  <2> QED
    BY <2>1, <2>3 DEF NamesInv, NamesKept, Latest, Counted
<1>4. CASE ForwardPeer \/ (\E i \in CtrlIds : ForwardFails(i)) \/ EngageReturns
  <2>1. handler.pc # "added" /\ UNCHANGED <<peers, live, peerCount, clusters, waiters>>
    BY <1>4 DEF ForwardPeer, ForwardFails, Forward, EngageReturns
  <2> QED
    BY <2>1 DEF NamesInv, NamesKept, Latest, Counted
<1>5. CASE EngageFails
  <2>1. /\ handler.pc # "added" /\ live' \subseteq live
        /\ peers' = [peers EXCEPT ![handler.e[1]] = None]
        /\ UNCHANGED <<peerCount, clusters, waiters>>
    BY <1>5 DEF EngageFails
  <2> QED
    BY <2>1 DEF NamesInv, NamesKept, Latest, Counted, TypeOK
<1>6. ASSUME NEW w \in PeerIds, ForgetPeer(w)
      PROVE  NamesInv'
  <2>1. /\ w \in waiters /\ w \notin live
        /\ clusters' = [clusters EXCEPT ![w[1]] = None]
        /\ waiters' \subseteq waiters
        /\ UNCHANGED <<peers, live, peerCount, handler>>
    BY <1>6 DEF ForgetPeer, peerVars
  <2>2. ASSUME NEW f \in live, f[1] = w[1]
        PROVE  f[2] > 1
    <3>1. /\ f = <<f[1], f[2]>> /\ w = <<w[1], w[2]>>
          /\ f[2] \in Nat /\ w[2] \in Nat /\ w[2] >= 1
          /\ f[1] \in Peers /\ f # None
      BY ConstantsAssumption DEF TypeOK, PeerIds
    <3>2. f[2] = peerCount[f[1]]
      BY <3>1 DEF NamesInv, Latest, PeerInv, NoLeakedPeer
    <3>3. w[2] <= f[2]
      BY <2>1, <2>2, <3>2 DEF NamesInv, Latest, Counted
    <3>4. w[2] # f[2]
      BY <2>1, <2>2, <3>1
    <3> QED
      BY <3>1, <3>3, <3>4
  <2>3. ASSUME NEW f \in live
        PROVE  \/ handler.e = f /\ handler.pc = "added"
               \/ clusters'[f[1]] = f
               \/ clusters'[f[1]] = None /\ f[2] > 1
    <3>1. f[1] \in Peers
      BY DEF TypeOK, PeerIds
    <3>2. CASE f[1] = w[1]
      BY <2>1, <2>2, <3>1, <3>2 DEF TypeOK
    <3>3. CASE f[1] # w[1]
      BY <2>1, <3>1, <3>3 DEF NamesInv, NamesKept, TypeOK
    <3> QED
      BY <3>2, <3>3
  <2> QED
    BY <2>1, <2>3 DEF NamesInv, NamesKept, Latest, Counted
<1>7. CASE UNCHANGED <<peers, live, peerCount, handler, clusters, waiters>>
  BY <1>7 DEF NamesInv, NamesKept, Latest, Counted
<1>8. CASE WorkerNext
  BY <1>7, <1>8
  DEF WorkerNext, TakeCRD, ReadCRDFails, EnsureExists, EnsureCreate, EnsureFails,
      SeedPeers, SeedFails, Seed, EnsureCommit, Cleanup, peerVars
<1>9. CASE \/ \E k \in CRDs : CreateCRD(k) \/ DeleteCRD(k) \/ ResyncCRD(k)
           \/ \E i \in CtrlIds : StartReturns(i) \/ ForgetController(i)
  BY <1>7, <1>9 DEF CreateCRD, DeleteCRD, ResyncCRD, StartReturns, ForgetController, peerVars
<1>10. CASE UNCHANGED vars
  BY <1>7, <1>10 DEF vars, peerVars
<1> QED
  BY <1>1, <1>2, <1>3, <1>4, <1>5, <1>6, <1>8, <1>9, <1>10 DEF Next, HandlerNext

-----------------------------------------------------------------------------
(* The theorems. *)

\* The whole inductive invariant: each part is needed for the next.
IInv == TypeOK /\ PeerInv /\ CtrlInv /\ MissInv

\* It holds when the process starts.
LEMMA InitIInv == Init => IInv
<1> SUFFICES ASSUME Init
             PROVE  IInv
  OBVIOUS
<1>1. TypeOK
  BY ConstantsAssumption DEF Init, TypeOK, HandlerIdle, WorkerIdle
<1>2. PeerInv
  BY DEF Init, PeerInv, HandlerShape, PeersNumbered, NoLeakedPeer, HandlerIdle
<1>3. CtrlInv
  BY DEF Init, CtrlInv, WorkerShape, EntriesStarted, NoOrphanController, Active, WorkerIdle
<1>4. MissInv
  BY DEF Init, MissInv, NoPeerMissed, NewMissesNone, Entries, WorkerIdle
<1> QED
  BY <1>1, <1>2, <1>3, <1>4 DEF IInv

\* Every step keeps it.
LEMMA StepIInv == IInv /\ [Next]_vars => IInv'
<1> SUFFICES ASSUME IInv, [Next]_vars
             PROVE  IInv'
  OBVIOUS
<1>1. CASE UNCHANGED vars
  <2>1. TypeOK'
    BY <1>1 DEF IInv, TypeOK, vars, peerVars, crdVars, ctrlVars
  <2> QED
    BY <2>1, PeerStep, CtrlStep, MissStep DEF IInv
<1>2. CASE Next
  <2>1. TypeOK'
    BY <1>2, HandlerTypeStep, WorkerTypeStep, OtherTypeStep DEF IInv, PeerInv, CtrlInv, Next
  <2> QED
    BY <2>1, PeerStep, CtrlStep, MissStep DEF IInv
<1> QED
  BY <1>1, <1>2

\* The inductive invariant holds throughout.
LEMMA Invariance == Spec => []IInv
BY InitIInv, StepIInv, PTL DEF Spec

\* All state keeps its type, over every interleaving of the goroutines.
THEOREM TypeCorrect == Spec => []TypeOK
<1>1. IInv => TypeOK
  BY DEF IInv
<1> QED
  BY <1>1, Invariance, PTL

\* A peer context that was not cancelled is that of the peer in Provider.peers:
\* no way through engageCacheObject and disengageCacheObject leaks one.
THEOREM NoPeerLeaks == Spec => []NoLeakedPeer
<1>1. IInv => NoLeakedPeer
  BY DEF IInv, PeerInv
<1> QED
  BY <1>1, Invariance, PTL

\* A controller that runs and was not cancelled is the one in syncEntries: the
\* goroutine that sees Start return deletes no entry but its own.
THEOREM NoControllerOrphaned == Spec => []NoOrphanController
<1>1. IInv => NoOrphanController
  BY DEF IInv, CtrlInv
<1> QED
  BY <1>1, Invariance, PTL

\* However Engage and ensureReplicationController interleave, no controller in
\* syncEntries misses a live peer.
THEOREM NoPeerIsMissed == Spec => []NoPeerMissed
<1>1. IInv => NoPeerMissed
  BY DEF IInv, MissInv
<1> QED
  BY <1>1, Invariance, PTL

\* A controller never outlives its CRD: whatever the order of the CRD's creation
\* and removal, the queue and Reconcile's steps, an active controller of a CRD
\* that is gone has a queued or a running Reconcile that will stop it.
THEOREM RemovedControllersStop == Spec => []RemovedIsStopped
<1>1. Init => StopInv
  BY DEF Init, StopInv, Active, WorkerIdle
<1>2. IInv /\ StopInv /\ [Next]_vars => StopInv'
  BY StopStep DEF IInv
<1>3. StopInv => RemovedIsStopped
  BY DEF StopInv, RemovedIsStopped, Pending
<1> QED
  BY <1>1, <1>2, <1>3, Invariance, PTL DEF Spec

\* A live peer is in clusters once its Engage has registered it, unless its name
\* had been engaged before; from then on clusters holds no other entry for it.
THEOREM NamesAreKept == Spec => []NamesKept
<1>1. Init => NamesInv
  BY DEF Init, NamesInv, NamesKept, Latest
<1>2. IInv /\ NamesInv /\ [Next]_vars => NamesInv'
  BY NamesStep DEF IInv
<1>3. NamesInv => NamesKept
  BY DEF NamesInv
<1> QED
  BY <1>1, <1>2, <1>3, Invariance, PTL DEF Spec

\* Who holds a lock across steps, and where it then is.
LockHolders ==
  /\ clustersLock # "free" => handler.pc = "locked"
  /\ syncLock # "free" => worker.pc \in {"created", "seeded"}

\* Whoever holds clustersLock asks for no lock, and whoever holds syncLock for
\* clustersLock at most: so two that wait for each other would both be without it.
LEMMA HoldersDoNotWait ==
  ASSUME LockHolders
  PROVE  NoCircularWait
<1>1. ~Holds("handler", HandlerAsks)
  BY DEF LockHolders, Holds, HandlerAsks
<1>2. ~Holds("worker", WorkerAsks)
  BY DEF LockHolders, Holds, WorkerAsks
<1>3. Holds("handler", WorkerAsks) => HandlerAsks = "none"
  BY DEF LockHolders, Holds, HandlerAsks
<1>4. ~Holds("worker", "none")
  BY DEF Holds
<1> QED  BY <1>1, <1>2, <1>3, <1>4 DEF NoCircularWait, WaitsFor, Asks, Callers

\* Nobody waits for a lock in a circle: Engage asks for none while it holds one,
\* ensureReplicationController asks for clustersLock only, whose holder does not
\* wait.
THEOREM NoLocksInACircle == Spec => []NoCircularWait
<1>1. Init => LockHolders
  BY DEF Init, LockHolders
<1>2. IInv /\ LockHolders /\ [Next]_vars => LockHolders'
  <2> SUFFICES ASSUME TypeOK, LockHolders, [Next]_vars
               PROVE  LockHolders'
    BY DEF IInv
  <2>1. ASSUME UNCHANGED <<worker, syncLock>>,
               handler.pc # "locked" \/ clustersLock' = "free" \/ handler'.pc = "locked",
               clustersLock' \in {clustersLock, "free"}
        PROVE  LockHolders'
    BY <2>1 DEF LockHolders
  <2>2. CASE HandlerNext
    <3>1. CASE RegisterPeer
      BY <3>1 DEF RegisterPeer, LockHolders, TypeOK
    <3>2. ASSUME HandlerNext, ~RegisterPeer
          PROVE  /\ UNCHANGED <<worker, syncLock>>
                 /\ handler.pc # "locked" \/ clustersLock' = "free"
                 /\ clustersLock' \in {clustersLock, "free"}
      BY <3>2 DEF HandlerNext, AddPeer, RemovePeer, UnlockClusters, ForwardPeer,
                  ForwardFails, Forward, EngageReturns, EngageFails
    <3> QED
      BY <2>1, <2>2, <3>1, <3>2
  <2>3. CASE WorkerNext
    <3>1. UNCHANGED <<handler, clustersLock>>
      BY <2>3 DEF WorkerNext, TakeCRD, ReadCRDFails, EnsureExists, EnsureCreate,
                  EnsureFails, SeedPeers, SeedFails, Seed, EnsureCommit, Cleanup,
                  peerVars
    <3>2. ASSUME NEW i \in CtrlIds, EnsureCreate(i)
          PROVE  worker'.pc \in {"created", "seeded"}
      BY <3>2 DEF EnsureCreate, TypeOK
    <3>3. ASSUME SeedPeers \/ \E e \in PeerIds : SeedFails(e)
          PROVE  worker'.pc \in {"created", "seeded"}
      BY <3>3 DEF SeedPeers, SeedFails, Seed, TypeOK
    <3>4. CASE \/ \E k \in CRDs : TakeCRD(k) \/ ReadCRDFails(k)
               \/ EnsureExists \/ EnsureFails \/ EnsureCommit \/ Cleanup
      <4>1. \/ syncLock' = "free"
            \/ syncLock' = syncLock /\ (worker.pc = "idle" \/ worker' = worker)
        <5>1. worker.pc \in {"ensure", "cleanup"} /\ Free(WorkerAsks) => syncLock = "free"
          BY DEF Free, WorkerAsks
        <5> QED
          BY <3>4, <5>1 DEF TakeCRD, ReadCRDFails, EnsureExists, EnsureFails,
                            EnsureCommit, Cleanup
      <4> QED
        BY <3>1, <4>1 DEF LockHolders
    <3> QED
      BY <2>3, <3>1, <3>2, <3>3, <3>4 DEF WorkerNext, LockHolders
  <2>4. CASE \/ \E e \in PeerIds : ForgetPeer(e)
             \/ \E k \in CRDs : CreateCRD(k) \/ DeleteCRD(k) \/ ResyncCRD(k)
             \/ \E i \in CtrlIds : StartReturns(i) \/ ForgetController(i)
             \/ UNCHANGED vars
    <3>1. UNCHANGED <<handler, clustersLock, worker, syncLock>>
      BY <2>4 DEF ForgetPeer, CreateCRD, DeleteCRD, ResyncCRD, StartReturns,
                  ForgetController, vars, peerVars
    <3> QED
      BY <3>1 DEF LockHolders
  <2> QED
    BY <2>2, <2>3, <2>4 DEF Next
<1>3. LockHolders => NoCircularWait
  BY HoldersDoNotWait
<1> QED
  BY <1>1, <1>2, <1>3, Invariance, PTL DEF Spec
=============================================================================
