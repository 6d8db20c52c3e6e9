------------------------ MODULE ControllerLifecycle ------------------------
(***************************************************************************)
(* Which peers are engaged and which replication controllers run.          *)
(*                                                                         *)
(* The goroutines of one syncagent that share peers, clusters and          *)
(* syncEntries: the Cache event handler of the peer provider               *)
(* (internal/peerprovider/provider.go), which calls Reconciler.Engage; the *)
(* crd-manager's worker; one goroutine for each Engage call that waits for *)
(* its context to end; one for each controller that waits for its Start to *)
(* return (internal/controller/resourcereplication/                        *)
(* crd_watching_controller.go).                                            *)
(***************************************************************************)
EXTENDS Naturals

CONSTANTS
  Peers,     \* names of Cache objects
  CRDs,      \* names of CRDs
  MaxPeer,   \* bound: times one peer is engaged
  MaxCtrl,   \* bound: controllers created for one CRD
  MaxCRD,    \* bound: times one CRD is created
  MaxFaults, \* bound: failed calls in a behaviour
  Mapped,    \* <<k, n>>: the static REST mapper knows the kind that the n-th
             \* creation of CRD k declares
  None

ASSUME ConstantsAssumption ==
  /\ MaxPeer \in Nat /\ MaxCtrl \in Nat /\ MaxCRD \in Nat /\ MaxFaults \in Nat
  /\ Mapped \subseteq CRDs \X (1..MaxCRD)
  /\ None \notin Peers \X Nat /\ None \notin CRDs \X Nat

\* A peerEntry with its context, and a syncEntry with its controller, are known
\* by name and number, so that a later one for the same name is told apart.
PeerIds == Peers \X (1..MaxPeer)
CtrlIds == CRDs \X (1..MaxCtrl)

VARIABLES
  peers,        \* Provider.peers
  live,         \* peer contexts not cancelled
  peerCount,    \* peer entries made for each name
  handler,      \* the provider's event handler: [pc, e]
  clusters,     \* Reconciler.clusters
  clustersLock, \* holder of clustersLock across steps: "free" or "engage"
  waiters,      \* Engage's goroutines still waiting for their context
  exists,       \* CRDs on the source
  crdCount,     \* times each CRD was created
  crdQueue,     \* the crd-manager's workqueue
  worker,       \* the crd-manager's worker: [pc, k, n, i], n being the creation
                \* of CRD k that Reconcile has read
  syncEntries,  \* Reconciler.syncEntries
  syncLock,     \* holder of syncLock across steps: "free" or "ensure"
  ctrl,         \* ctrl[i]: "unused", "new", "running", "returned", "gone"
  cancelled,    \* controllers whose context was cancelled
  madeFor,      \* madeFor[i]: the creation of its CRD controller i was made for
  joined,       \* joined[i]: peer entries controller i was engaged with
  failed,       \* ghost: <<i, e>> whose ctrl.Engage failed and was logged
  faults        \* failed calls so far

peerVars == <<peers, live, peerCount, handler>>
crdVars  == <<exists, crdCount, crdQueue>>
ctrlVars == <<syncEntries, ctrl, cancelled, madeFor>>
vars == <<peerVars, clusters, clustersLock, waiters, crdVars, worker,
          ctrlVars, syncLock, joined, failed, faults>>

TypeOK ==
  /\ peers \in [Peers -> PeerIds \cup {None}]
  /\ live \subseteq PeerIds
  /\ peerCount \in [Peers -> 0..MaxPeer]
  /\ handler \in [pc : {"idle", "added", "locked", "registered", "forwarded"},
                  e  : PeerIds \cup {None}]
  /\ clusters \in [Peers -> PeerIds \cup {None}]
  /\ clustersLock \in {"free", "engage"}
  /\ waiters \subseteq PeerIds
  /\ exists \subseteq CRDs
  /\ crdCount \in [CRDs -> 0..MaxCRD]
  /\ crdQueue \subseteq CRDs
  /\ worker \in [pc : {"idle", "ensure", "cleanup", "created", "seeded"},
                 k  : CRDs \cup {None},
                 n  : 0..MaxCRD,
                 i  : CtrlIds \cup {None}]
  /\ syncEntries \in [CRDs -> CtrlIds \cup {None}]
  /\ syncLock \in {"free", "ensure"}
  /\ ctrl \in [CtrlIds -> {"unused", "new", "running", "returned", "gone"}]
  /\ cancelled \subseteq CtrlIds
  /\ madeFor \in [CtrlIds -> 0..MaxCRD]
  /\ joined \in [CtrlIds -> SUBSET PeerIds]
  /\ failed \subseteq CtrlIds \X PeerIds
  /\ faults \in 0..MaxFaults

HandlerIdle == [pc |-> "idle", e |-> None]
WorkerIdle  == [pc |-> "idle", k |-> None, n |-> 0, i |-> None]

Init ==
  /\ peers = [p \in Peers |-> None]
  /\ live = {}
  /\ peerCount = [p \in Peers |-> 0]
  /\ handler = HandlerIdle
  /\ clusters = [p \in Peers |-> None]
  /\ clustersLock = "free"
  /\ waiters = {}
  /\ exists = {}
  /\ crdCount = [k \in CRDs |-> 0]
  /\ crdQueue = {}
  /\ worker = WorkerIdle
  /\ syncEntries = [k \in CRDs |-> None]
  /\ syncLock = "free"
  /\ ctrl = [i \in CtrlIds |-> "unused"]
  /\ cancelled = {}
  /\ madeFor = [i \in CtrlIds |-> 0]
  /\ joined = [i \in CtrlIds |-> {}]
  /\ failed = {}
  /\ faults = 0

Fault == faults < MaxFaults /\ faults' = faults + 1

Free(l) == /\ l = "clusters" => clustersLock = "free"
           /\ l = "sync" => syncLock = "free"

\* Mutant: Engage takes syncLock before it gives clustersLock back.
HandlerAsksHandOverHand ==
  CASE handler.pc = "added" -> "clusters"
    [] handler.pc = "locked" -> "sync"
    [] OTHER -> "none"

\* The lock that a call's next step takes: Engage's, on the event handler, and
\* those of ensureReplicationController and cleanupController on the worker.
HandlerAsks ==
  CASE handler.pc = "added" -> "clusters"
    [] handler.pc = "registered" -> "sync"
    [] OTHER -> "none"

WorkerAsks ==
  CASE worker.pc \in {"ensure", "cleanup"} -> "sync"
    [] worker.pc = "created" -> "clusters"
    [] OTHER -> "none"

-----------------------------------------------------------------------------
(* The provider's event handler, and the seeding before it: one goroutine. *)

\* engageCacheObject up to the insertion into peers.  Several Cache objects, one
\* for each shard, carry a peer's name: events for it come in any order.
AddPeer(p) ==
  LET e == <<p, peerCount[p] + 1>> IN
  /\ handler.pc = "idle"
  /\ peers[p] = None /\ peerCount[p] < MaxPeer
  /\ peers' = [peers EXCEPT ![p] = e]
  /\ live' = live \cup {e}
  /\ peerCount' = [peerCount EXCEPT ![p] = @ + 1]
  /\ handler' = [pc |-> "added", e |-> e]
  /\ UNCHANGED <<clusters, clustersLock, waiters, crdVars, worker, ctrlVars,
                 syncLock, joined, failed, faults>>

\* disengageCacheObject.
RemovePeer(p) ==
  /\ handler.pc = "idle"
  /\ peers[p] # None
  /\ live' = live \ {peers[p]}
  /\ peers' = [peers EXCEPT ![p] = None]
  /\ UNCHANGED <<peerCount, handler, clusters, clustersLock, waiters, crdVars,
                 worker, ctrlVars, syncLock, joined, failed, faults>>

\* Reconciler.Engage: under clustersLock the peer goes into clusters,
RegisterPeer ==
  /\ handler.pc = "added" /\ Free(HandlerAsks)
  /\ clustersLock' = "engage"
  /\ clusters' = [clusters EXCEPT ![handler.e[1]] = handler.e]
  /\ handler' = [handler EXCEPT !.pc = "locked"]
  /\ UNCHANGED <<peers, live, peerCount, waiters, crdVars, worker, ctrlVars,
                 syncLock, joined, failed, faults>>

\* Mutant: the lock is never given back.
UnlockClustersForgotten ==
  /\ handler.pc = "locked" /\ Free(HandlerAsks)
  /\ waiters' = waiters \cup {handler.e}
  /\ handler' = [handler EXCEPT !.pc = "registered"]
  /\ UNCHANGED <<peers, live, peerCount, clusters, clustersLock, crdVars,
                 worker, ctrlVars, syncLock, joined, failed, faults>>

\* the lock is given back and a goroutine waits for the end of the context,
UnlockClusters ==
  /\ handler.pc = "locked" /\ Free(HandlerAsks)
  /\ clustersLock' = "free"
  /\ waiters' = waiters \cup {handler.e}
  /\ handler' = [handler EXCEPT !.pc = "registered"]
  /\ UNCHANGED <<peers, live, peerCount, clusters, crdVars, worker, ctrlVars,
                 syncLock, joined, failed, faults>>

Entries == {syncEntries[k] : k \in CRDs} \ {None}

\* and under syncLock every running controller is engaged with the peer.  An
\* error is logged: bad are the controllers whose Engage fails.
Forward(bad) ==
  /\ handler.pc = "registered" /\ Free(HandlerAsks)
  /\ joined' = [i \in CtrlIds |->
       IF i \in Entries \ bad THEN joined[i] \cup {handler.e} ELSE joined[i]]
  /\ failed' = failed \cup (bad \X {handler.e})
  /\ handler' = [handler EXCEPT !.pc = "forwarded"]
  /\ UNCHANGED <<peers, live, peerCount, clusters, clustersLock, waiters,
                 crdVars, worker, ctrlVars, syncLock>>

ForwardPeer == Forward({}) /\ UNCHANGED faults

ForwardFails(i) == i \in Entries /\ Forward({i}) /\ Fault

EngageReturns ==
  /\ handler.pc = "forwarded"
  /\ handler' = HandlerIdle
  /\ UNCHANGED <<peers, live, peerCount, clusters, clustersLock, waiters,
                 crdVars, worker, ctrlVars, syncLock, joined, failed, faults>>

\* Mutant: the context is not cancelled.
EngageFailsNoCancel ==
  /\ Fault
  /\ handler.pc = "forwarded"
  /\ peers' = [peers EXCEPT ![handler.e[1]] = None]
  /\ handler' = HandlerIdle
  /\ UNCHANGED <<live, peerCount, clusters, clustersLock, waiters, crdVars,
                 worker, ctrlVars, syncLock, joined, failed>>

\* The manager's Engage reports an error: the context is cancelled and the peer
\* forgotten.
EngageFails ==
  /\ Fault
  /\ handler.pc = "forwarded"
  /\ live' = live \ {handler.e}
  /\ peers' = [peers EXCEPT ![handler.e[1]] = None]
  /\ handler' = HandlerIdle
  /\ UNCHANGED <<peerCount, clusters, clustersLock, waiters, crdVars, worker,
                 ctrlVars, syncLock, joined, failed>>

\* Engage's goroutine: when the context has ended it deletes by name.
ForgetPeer(e) ==
  /\ e \in waiters \ live
  /\ Free("clusters")
  /\ clusters' = [clusters EXCEPT ![e[1]] = None]
  /\ waiters' = waiters \ {e}
  /\ UNCHANGED <<peerVars, clustersLock, crdVars, worker, ctrlVars, syncLock,
                 joined, failed, faults>>

-----------------------------------------------------------------------------
(* The crd-manager. *)

CreateCRD(k) ==
  /\ k \notin exists /\ crdCount[k] < MaxCRD
  /\ exists' = exists \cup {k}
  /\ crdCount' = [crdCount EXCEPT ![k] = @ + 1]
  /\ crdQueue' = crdQueue \cup {k}
  /\ UNCHANGED <<peerVars, clusters, clustersLock, waiters, worker, ctrlVars,
                 syncLock, joined, failed, faults>>

\* The CRD is gone, or has a deletion timestamp.
DeleteCRD(k) ==
  /\ k \in exists
  /\ exists' = exists \ {k}
  /\ crdQueue' = crdQueue \cup {k}
  /\ UNCHANGED <<crdCount, peerVars, clusters, clustersLock, waiters, worker,
                 ctrlVars, syncLock, joined, failed, faults>>

\* The CRD informer's periodic resync.
ResyncCRD(k) ==
  /\ k \in exists \ crdQueue
  /\ crdQueue' = crdQueue \cup {k}
  /\ UNCHANGED <<exists, crdCount, peerVars, clusters, clustersLock, waiters,
                 worker, ctrlVars, syncLock, joined, failed, faults>>

\* Reconcile reads the CRD and decides.
TakeCRD(k) ==
  /\ worker.pc = "idle" /\ k \in crdQueue
  /\ crdQueue' = crdQueue \ {k}
  /\ worker' = [pc |-> IF k \in exists THEN "ensure" ELSE "cleanup",
                k |-> k, n |-> crdCount[k], i |-> None]
  /\ UNCHANGED <<exists, crdCount, peerVars, clusters, clustersLock, waiters,
                 ctrlVars, syncLock, joined, failed, faults>>

\* Any error of that read but NotFound sends the CRD back to the queue.
ReadCRDFails(k) ==
  /\ Fault
  /\ worker.pc = "idle" /\ k \in crdQueue
  /\ UNCHANGED <<peerVars, clusters, clustersLock, waiters, crdVars, worker,
                 ctrlVars, syncLock, joined, failed>>

\* ensureReplicationController takes syncLock and keeps it to its end.
Unused(k) == {m \in 1..MaxCtrl : ctrl[<<k, m>>] = "unused"}
Fresh(i)  == i[2] \in Unused(i[1]) /\ \A m \in Unused(i[1]) : i[2] <= m

EnsureExists ==
  /\ worker.pc = "ensure" /\ Free(WorkerAsks)
  /\ syncEntries[worker.k] # None
  /\ worker' = WorkerIdle
  /\ UNCHANGED <<peerVars, clusters, clustersLock, waiters, crdVars, ctrlVars,
                 syncLock, joined, failed, faults>>

\* Mutant: syncLock is only taken for the commit.
EnsureCreateUnlocked(i) ==
  /\ worker.pc = "ensure" /\ Free(WorkerAsks)
  /\ i[1] = worker.k /\ syncEntries[worker.k] = None /\ Fresh(i)
  /\ ctrl' = [ctrl EXCEPT ![i] = "new"]
  /\ madeFor' = [madeFor EXCEPT ![i] = worker.n]
  /\ worker' = [worker EXCEPT !.pc = "created", !.i = i]
  /\ UNCHANGED <<peerVars, clusters, clustersLock, waiters, crdVars,
                 syncEntries, cancelled, syncLock, joined, failed, faults>>

\* Mutant: nobody looks whether the CRD has a controller.
EnsureCreateAnyway(i) ==
  /\ worker.pc = "ensure" /\ Free(WorkerAsks)
  /\ i[1] = worker.k /\ Fresh(i)
  /\ syncLock' = "ensure"
  /\ ctrl' = [ctrl EXCEPT ![i] = "new"]
  /\ madeFor' = [madeFor EXCEPT ![i] = worker.n]
  /\ worker' = [worker EXCEPT !.pc = "created", !.i = i]
  /\ UNCHANGED <<peerVars, clusters, clustersLock, waiters, crdVars,
                 syncEntries, cancelled, joined, failed, faults>>

EnsureCreate(i) ==
  /\ worker.pc = "ensure" /\ Free(WorkerAsks)
  /\ i[1] = worker.k /\ syncEntries[worker.k] = None /\ Fresh(i)
  /\ syncLock' = "ensure"
  /\ ctrl' = [ctrl EXCEPT ![i] = "new"]
  /\ madeFor' = [madeFor EXCEPT ![i] = worker.n]
  /\ worker' = [worker EXCEPT !.pc = "created", !.i = i]
  /\ UNCHANGED <<peerVars, clusters, clustersLock, waiters, crdVars,
                 syncEntries, cancelled, joined, failed, faults>>

\* replication.Create fails: the error sends the CRD back to the queue.
EnsureFails ==
  /\ Fault
  /\ worker.pc = "ensure" /\ Free(WorkerAsks)
  /\ syncEntries[worker.k] = None
  /\ crdQueue' = crdQueue \cup {worker.k}
  /\ worker' = WorkerIdle
  /\ UNCHANGED <<exists, crdCount, peerVars, clusters, clustersLock, waiters,
                 ctrlVars, syncLock, joined, failed>>

\* Mutant: removed peers are handed to the controller too.
EngagedWithRemoved == {clusters[p] : p \in Peers}

Engaged == {clusters[p] : p \in Peers} \ {None}
engagedClusterNames == {p \in Peers : clusters[p] # None}

\* Under clustersLock the new controller is engaged with every known peer; an
\* error is logged: bad are the peers it is not engaged with.
Seed(bad) ==
  /\ worker.pc = "created" /\ Free(WorkerAsks)
  /\ joined' = [joined EXCEPT ![worker.i] = Engaged \ bad]
  /\ failed' = failed \cup ({worker.i} \X bad)
  /\ worker' = [worker EXCEPT !.pc = "seeded"]
  /\ UNCHANGED <<peerVars, clusters, clustersLock, waiters, crdVars, ctrlVars,
                 syncLock>>

SeedPeers == Seed({}) /\ UNCHANGED faults

SeedFails(e) == e \in Engaged /\ Seed({e}) /\ Fault

EnsureCommit ==
  /\ worker.pc = "seeded"
  /\ syncEntries' = [syncEntries EXCEPT ![worker.k] = worker.i]
  /\ ctrl' = [ctrl EXCEPT ![worker.i] = "running"]
  /\ syncLock' = "free"
  /\ worker' = WorkerIdle
  /\ UNCHANGED <<peerVars, clusters, clustersLock, waiters, crdVars, cancelled,
                 madeFor, joined, failed, faults>>

\* Mutant: the entry is removed, but nothing cancelled.
CleanupNoCancel ==
  /\ worker.pc = "cleanup" /\ Free(WorkerAsks)
  /\ syncEntries' = [syncEntries EXCEPT ![worker.k] = None]
  /\ worker' = WorkerIdle
  /\ UNCHANGED <<peerVars, clusters, clustersLock, waiters, crdVars, ctrl,
                 cancelled, madeFor, syncLock, joined, failed, faults>>

\* cleanupController.
Cleanup ==
  /\ worker.pc = "cleanup" /\ Free(WorkerAsks)
  /\ cancelled' = cancelled \cup ({syncEntries[worker.k]} \ {None})
  /\ syncEntries' = [syncEntries EXCEPT ![worker.k] = None]
  /\ worker' = WorkerIdle
  /\ UNCHANGED <<peerVars, clusters, clustersLock, waiters, crdVars, ctrl,
                 madeFor, syncLock, joined, failed, faults>>

\* A controller of a kind the static REST mapper does not know: the watch of
\* its source never syncs.
Unmapped(i) == <<i[1], madeFor[i]>> \notin Mapped

\* ctrl.Start returns once cancelled, or when its source has not synced in time,
\* or by itself with an error.
StartReturns(i) ==
  /\ ctrl[i] = "running"
  /\ IF i \in cancelled \/ Unmapped(i) THEN UNCHANGED faults ELSE Fault
  /\ ctrl' = [ctrl EXCEPT ![i] = "returned"]
  /\ UNCHANGED <<peerVars, clusters, clustersLock, waiters, crdVars, worker,
                 syncEntries, cancelled, madeFor, syncLock, joined, failed>>

\* Mutants: the entry is removed whoever it belongs to, or never.
ForgetControllerByName(i) ==
  /\ ctrl[i] = "returned" /\ Free("sync")
  /\ ctrl' = [ctrl EXCEPT ![i] = "gone"]
  /\ syncEntries' = [syncEntries EXCEPT ![i[1]] = None]
  /\ UNCHANGED <<peerVars, clusters, clustersLock, waiters, crdVars, worker,
                 cancelled, madeFor, syncLock, joined, failed, faults>>

ForgetControllerNever(i) ==
  /\ ctrl[i] = "returned" /\ Free("sync")
  /\ ctrl' = [ctrl EXCEPT ![i] = "gone"]
  /\ UNCHANGED <<peerVars, clusters, clustersLock, waiters, crdVars, worker,
                 syncEntries, cancelled, madeFor, syncLock, joined, failed,
                 faults>>

\* The goroutine then removes its entry, if it still is the one in the map.
ForgetController(i) ==
  /\ ctrl[i] = "returned" /\ Free("sync")
  /\ ctrl' = [ctrl EXCEPT ![i] = "gone"]
  /\ syncEntries' = IF syncEntries[i[1]] = i
                      THEN [syncEntries EXCEPT ![i[1]] = None]
                      ELSE syncEntries
  /\ UNCHANGED <<peerVars, clusters, clustersLock, waiters, crdVars, worker,
                 cancelled, madeFor, syncLock, joined, failed, faults>>

-----------------------------------------------------------------------------
(* The specification. *)

HandlerNext ==
  \/ \E p \in Peers : AddPeer(p) \/ RemovePeer(p)
  \/ RegisterPeer \/ UnlockClusters \/ ForwardPeer \/ EngageReturns
  \/ (\E i \in CtrlIds : ForwardFails(i)) \/ EngageFails

WorkerNext ==
  \/ \E k \in CRDs : TakeCRD(k) \/ ReadCRDFails(k)
  \/ EnsureExists \/ (\E i \in CtrlIds : EnsureCreate(i)) \/ EnsureFails
  \/ SeedPeers \/ (\E e \in PeerIds : SeedFails(e))
  \/ EnsureCommit \/ Cleanup

Next ==
  \/ HandlerNext \/ WorkerNext
  \/ \E e \in PeerIds : ForgetPeer(e)
  \/ \E k \in CRDs : CreateCRD(k) \/ DeleteCRD(k) \/ ResyncCRD(k)
  \/ \E i \in CtrlIds : StartReturns(i) \/ ForgetController(i)

Spec == Init /\ [][Next]_vars

\* Goroutines that can run do run; the environment owes nothing but the resync.
Fairness ==
  /\ WF_vars(RegisterPeer) /\ WF_vars(UnlockClusters)
  /\ SF_vars(ForwardPeer) /\ WF_vars(EngageReturns)
  /\ \A e \in PeerIds : SF_vars(ForgetPeer(e))
  /\ \A k \in CRDs : SF_vars(TakeCRD(k)) /\ WF_vars(ResyncCRD(k))
  /\ SF_vars(EnsureExists) /\ SF_vars(\E i \in CtrlIds : EnsureCreate(i))
  /\ SF_vars(SeedPeers) /\ WF_vars(EnsureCommit) /\ SF_vars(Cleanup)
  /\ \A i \in CtrlIds :
       /\ WF_vars((i \in cancelled \/ Unmapped(i)) /\ StartReturns(i))
       /\ SF_vars(ForgetController(i))

FairSpec == Spec /\ Fairness

-----------------------------------------------------------------------------
(* Properties. *)

\* A controller that neither was cancelled nor has returned.
Active(i) == ctrl[i] = "running" /\ i \notin cancelled

\* No peer is missed: whichever way Engage and ensureReplicationController
\* interleave, every controller in syncEntries is engaged with every live peer
\* in clusters, unless that call failed and was logged, or Engage has yet to
\* come to it.
NoPeerMissed ==
  \A i \in Entries, e \in Engaged \cap live :
    \/ e \in joined[i] \/ <<i, e>> \in failed
    \/ handler.e = e /\ handler.pc \in {"locked", "registered"}

\* No orphan: a controller that runs and was not cancelled is the one in
\* syncEntries, so that removing its CRD can still stop it, and no CRD has two.
NoOrphanController ==
  \A i \in CtrlIds : Active(i) => syncEntries[i[1]] = i

\* No leaked peer: a context that was not cancelled belongs to the peer that
\* Provider.peers holds, so that removing its Cache object can still cancel it.
NoLeakedPeer == \A e \in live : peers[e[1]] = e

\* The two goroutines and their two locks amount to atomic steps: Engage makes
\* a peer a member when it has been to every controller, and
\* ensureReplicationController a controller a running one when it is in the map.
\* What Membership promises of links and of names then holds of the code.
Running == {i \in CtrlIds : Active(i)}

Entering(e, pcs) == handler.e = e /\ handler.pc \in pcs

Members ==
  {e \in live : clusters[e[1]] = e /\ ~Entering(e, {"locked", "registered"})}

Links == {l \in Running \X Members : l[2] \in joined[l[1]]}

Refused == {l \in (Running \X Members) \ Links : l \in failed}

UsedPeers ==
  {e \in PeerIds : /\ e[2] <= peerCount[e[1]]
                   /\ ~Entering(e, {"added", "locked", "registered"})}

UsedCtrls == {i \in CtrlIds : ctrl[i] \notin {"unused", "new"}}

M == INSTANCE Membership WITH
  running <- Running, members <- Members, links <- Links, refused <- Refused,
  usedPeers <- UsedPeers, usedCtrls <- UsedCtrls

ImplementsMembership == M!Spec

\* No circle of goroutines that wait for each other's locks, nor one that waits
\* for its own: Engage gives clustersLock back before it asks for syncLock, and
\* ensureReplicationController asks for clustersLock with syncLock held.  The
\* other goroutines hold no lock while they wait for one.
Callers == {"handler", "worker"}
Asks(g) == IF g = "handler" THEN HandlerAsks ELSE WorkerAsks
Holds(g, l) == \/ g = "handler" /\ l = "clusters" /\ clustersLock = "engage"
               \/ g = "worker" /\ l = "sync" /\ syncLock = "ensure"
WaitsFor(g, h) == Holds(h, Asks(g))
NoCircularWait == \A g, h \in Callers : ~(WaitsFor(g, h) /\ WaitsFor(h, g))

\* So no lock is waited for without end: Engage calls and the crd-manager always
\* come back.
CallsReturn ==
  /\ handler.pc # "idle" ~> handler.pc = "idle"
  /\ worker.pc # "idle" ~> (worker.pc = "idle" \/ Unused(worker.k) = {})

\* The controllers follow the CRDs: in the end no CRD that is gone has an active
\* controller, and each that exists has one if the static REST mapper knows its
\* kind (bar the bound on controllers), even though nobody restarts a controller
\* that fails, and whatever kind an earlier CRD of that name had.  (Controllers of
\* the other kinds fail again after every resync.)
ControllersFollowCRDs ==
  \A k \in CRDs :
    LET active == \E i \in CtrlIds : i[1] = k /\ Active(i) IN
    <>[](IF k \in exists
           THEN <<k, crdCount[k]>> \in Mapped => active \/ Unused(k) = {}
           ELSE ~active)

\* No controller outlives its CRD: once Reconcile has nothing left to do for a CRD
\* that is gone, none of its controllers is active, however the removal, the read
\* of the CRD, the creation of a controller and failures interleave.
RemovedIsStopped ==
  \A i \in CtrlIds :
    Active(i) /\ i[1] \notin crdQueue /\ worker.k # i[1] => i[1] \in exists

\* plan-implementation-notes.md:106: when a CRD is removed, its controller is
\* stopped.  So once Reconcile has nothing left to do for a CRD, an active
\* controller is one that was made for the CRD as it is now, and not for one of
\* that name that was removed.
StoppedWhenRemoved ==
  \A i \in CtrlIds :
    Active(i) /\ i[1] \notin crdQueue /\ worker.k # i[1] =>
      i[1] \in exists /\ madeFor[i] = crdCount[i[1]]

\* crd_watching_controller.go:132: engagedClusterNames returns the names of all
\* currently engaged peer clusters.  So a live peer whose Engage has returned
\* is among them.
EngagedNamesComplete ==
  \A e \in live : handler.e # e => e[1] \in engagedClusterNames
=============================================================================
