----------------- MODULE ControllerLifecycleRefinementProofs -----------------
(***************************************************************************)
(* ControllerLifecycle implements Membership, for any number of peers and  *)
(* CRDs: Engage and ensureReplicationController behave as if each were one *)
(* step.                                                                   *)
(***************************************************************************)
EXTENDS ControllerLifecycleProofs

-----------------------------------------------------------------------------
(* Two more invariants. *)

\* An entry that has just been made is not in clusters, and no controller is
\* cancelled before it has been started.
NewcomersApart ==
  /\ handler.pc = "added" => clusters[handler.e[1]] # handler.e
  /\ \A i \in cancelled : ctrl[i] \notin {"unused", "new"}

LEMMA NewcomersStep ==
  ASSUME IInv, NewcomersApart, [Next]_vars
  PROVE  NewcomersApart'
<1>t. TypeOK
  BY DEF IInv
<1>1. ASSUME UNCHANGED <<ctrl, cancelled>>, handler'.pc # "added"
      PROVE  NewcomersApart'
  BY <1>1 DEF NewcomersApart
<1>2. ASSUME UNCHANGED <<clusters, handler>>,
             \A i \in cancelled' : ctrl'[i] \notin {"unused", "new"}
      PROVE  NewcomersApart'
  BY <1>2 DEF NewcomersApart
<1>3. ASSUME NEW p \in Peers, AddPeer(p)
      PROVE  NewcomersApart'
  <2> DEFINE e == <<p, peerCount[p] + 1>>
  <2>1. /\ handler'.e = e /\ clusters' = clusters /\ peerCount[p] \in Nat
        /\ UNCHANGED <<ctrl, cancelled>>
    BY <1>3, <1>t, ConstantsAssumption DEF AddPeer, TypeOK, ctrlVars
  <2>2. e # None /\ ~(e[2] <= peerCount[e[1]]) /\ e[1] = p
    BY <1>3, <1>t, <2>1, ConstantsAssumption DEF TypeOK
  <2> HIDE DEF e
  <2>3. clusters[p] # e
    BY <2>2 DEF IInv, PeerInv, PeersNumbered, Counted
  <2> QED
    BY <2>1, <2>2, <2>3 DEF NewcomersApart
<1>4. CASE HandlerNext /\ \A p \in Peers : ~AddPeer(p)
  <2>1. UNCHANGED <<ctrl, cancelled>>
    BY <1>4 DEF HandlerNext, RemovePeer, RegisterPeer, UnlockClusters, ForwardPeer,
                ForwardFails, Forward, EngageReturns, EngageFails, ctrlVars
  <2>2. CASE RegisterPeer \/ UnlockClusters \/ EngageReturns \/ EngageFails
    BY <1>1, <1>t, <2>1, <2>2 DEF RegisterPeer, UnlockClusters, EngageReturns,
       EngageFails, HandlerIdle, TypeOK
  <2>3. CASE ForwardPeer \/ \E i \in CtrlIds : ForwardFails(i)
    BY <1>1, <1>t, <2>1, <2>3 DEF ForwardPeer, ForwardFails, Forward, TypeOK
  <2>4. CASE \E p \in Peers : RemovePeer(p)
    BY <1>1, <2>1, <2>4 DEF RemovePeer
  <2> QED
    BY <1>4, <2>2, <2>3, <2>4 DEF HandlerNext
<1>5. ASSUME NEW e \in PeerIds, ForgetPeer(e)
      PROVE  NewcomersApart'
  <2>1. /\ clusters' = [clusters EXCEPT ![e[1]] = None]
        /\ UNCHANGED <<handler, ctrl, cancelled>>
    BY <1>5 DEF ForgetPeer, peerVars, ctrlVars
  <2>2. handler.pc = "added" => handler.e \in PeerIds /\ handler.e # None
                                /\ handler.e[1] \in Peers
    BY ConstantsAssumption DEF IInv, PeerInv, HandlerShape, PeerIds
  <2> QED
    BY <1>t, <2>1, <2>2 DEF NewcomersApart, TypeOK
<1>6. CASE WorkerNext
  <2>1. UNCHANGED <<clusters, handler>>
    BY <1>6 DEF WorkerNext, TakeCRD, ReadCRDFails, EnsureExists, EnsureCreate,
                EnsureFails, SeedPeers, SeedFails, Seed, EnsureCommit, Cleanup,
                peerVars
  <2>2. ASSUME NEW i \in CtrlIds, EnsureCreate(i)
        PROVE  NewcomersApart'
    <3>1. i[1] \in CRDs /\ i[2] \in 1..MaxCtrl /\ i = <<i[1], i[2]>>
      BY DEF CtrlIds
    <3>2. /\ ctrl[i] = "unused" /\ cancelled' = cancelled
          /\ ctrl' = [ctrl EXCEPT ![i] = "new"]
      BY <2>2, <3>1 DEF EnsureCreate, Fresh, Unused
    <3>3. i \notin cancelled
      BY <3>2 DEF NewcomersApart
    <3> QED
      BY <1>2, <1>t, <2>1, <3>2, <3>3 DEF NewcomersApart, TypeOK
  <2>3. CASE EnsureCommit
    <3>1. ctrl' = [ctrl EXCEPT ![worker.i] = "running"] /\ cancelled' = cancelled
      BY <2>3 DEF EnsureCommit
    <3> QED
      BY <1>2, <1>t, <2>1, <3>1 DEF NewcomersApart, TypeOK
  <2>4. CASE Cleanup
    <3>1. /\ cancelled' = cancelled \cup ({syncEntries[worker.k]} \ {None})
          /\ ctrl' = ctrl /\ worker.k \in CRDs
      BY <2>4 DEF Cleanup, IInv, CtrlInv, WorkerShape
    <3>2. syncEntries[worker.k] # None =>
            ctrl[syncEntries[worker.k]] \notin {"unused", "new"}
      BY <3>1 DEF IInv, CtrlInv, EntriesStarted
    <3> QED
      BY <1>2, <2>1, <3>1, <3>2 DEF NewcomersApart
  <2>5. CASE \/ \E k \in CRDs : TakeCRD(k) \/ ReadCRDFails(k)
             \/ EnsureExists \/ EnsureFails
             \/ SeedPeers \/ \E e \in PeerIds : SeedFails(e)
    <3>1. UNCHANGED <<ctrl, cancelled>>
      BY <2>5 DEF TakeCRD, ReadCRDFails, EnsureExists, EnsureFails, SeedPeers,
                  SeedFails, Seed, ctrlVars
    <3> QED
      BY <1>2, <2>1, <3>1 DEF NewcomersApart
  <2> QED
    BY <1>6, <2>2, <2>3, <2>4, <2>5 DEF WorkerNext
<1>7. ASSUME NEW i \in CtrlIds, StartReturns(i) \/ ForgetController(i)
      PROVE  NewcomersApart'
  <2>1. /\ UNCHANGED <<clusters, handler, cancelled>>
        /\ \/ ctrl' = [ctrl EXCEPT ![i] = "returned"]
           \/ ctrl' = [ctrl EXCEPT ![i] = "gone"]
    BY <1>7 DEF StartReturns, ForgetController, peerVars
  <2> QED
    BY <1>2, <1>t, <2>1 DEF NewcomersApart, TypeOK
<1>8. CASE \/ \E k \in CRDs : CreateCRD(k) \/ DeleteCRD(k) \/ ResyncCRD(k)
           \/ UNCHANGED vars
  <2>1. UNCHANGED <<clusters, handler, ctrl, cancelled>>
    BY <1>8 DEF CreateCRD, DeleteCRD, ResyncCRD, vars, peerVars, ctrlVars
  <2> QED
    BY <1>2, <2>1 DEF NewcomersApart
<1> QED
  BY <1>3, <1>4, <1>5, <1>6, <1>7, <1>8 DEF Next

-----------------------------------------------------------------------------
(* What a step changes in Membership, from what it changes here. *)

\* The variables of Membership, as they are mapped.
abs == <<Running, Members, Links, Refused, UsedPeers, UsedCtrls>>

\* Links between those who stay are those they had.
SameTalk ==
  \A i \in Running, e \in Members :
    /\ e \in joined'[i] <=> e \in joined[i]
    /\ <<i, e>> \in failed' <=> <<i, e>> \in failed

\* Nobody joins, leaves, starts or stops.
LEMMA NothingHappens ==
  ASSUME Running' = Running, UsedCtrls' = UsedCtrls,
         Members' = Members, UsedPeers' = UsedPeers, SameTalk
  PROVE  UNCHANGED abs
<1>1. Links' = Links
  BY DEF Links, SameTalk
<1>2. Refused' = Refused
  BY <1>1 DEF Refused, SameTalk
<1> QED
  BY <1>1, <1>2 DEF abs

\* A peer leaves, or was no member.
LEMMA PeerLeaves ==
  ASSUME TypeOK, NEW e, Members' = Members \ {e},
         Running' = Running, UsedCtrls' = UsedCtrls, UsedPeers' = UsedPeers,
         UNCHANGED <<joined, failed>>
  PROVE  M!Next \/ UNCHANGED abs
<1>1. CASE e \in Members
  <2>1. Links' = {l \in Links : l[2] # e}
    BY DEF Links
  <2>2. Refused' = {l \in Refused : l[2] # e}
    BY <2>1 DEF Refused
  <2>3. M!Leave(e)
    BY <1>1, <2>1, <2>2 DEF M!Leave
  <2>4. e \in PeerIds
    BY <1>1 DEF Members, TypeOK
  <2> QED
    BY <2>3, <2>4 DEF M!Next
<1>2. CASE e \notin Members
  BY <1>2, NothingHappens DEF SameTalk
<1> QED
  BY <1>1, <1>2

\* A controller stops, or did not run.
LEMMA ControllerStops ==
  ASSUME NEW i, Running' = Running \ {i},
         Members' = Members, UsedCtrls' = UsedCtrls, UsedPeers' = UsedPeers,
         UNCHANGED <<joined, failed>>
  PROVE  M!Next \/ UNCHANGED abs
<1>1. CASE i \in Running
  <2>1. Links' = {l \in Links : l[1] # i}
    BY DEF Links
  <2>2. Refused' = {l \in Refused : l[1] # i}
    BY <2>1 DEF Refused
  <2>3. M!Stop(i)
    BY <1>1, <2>1, <2>2 DEF M!Stop
  <2>4. i \in CtrlIds
    BY <1>1 DEF Running
  <2> QED
    BY <2>3, <2>4 DEF M!Next
<1>2. CASE i \notin Running
  BY <1>2, NothingHappens DEF SameTalk
<1> QED
  BY <1>1, <1>2

\* The side of the controllers, and that of the peers, of a step that leaves
\* them alone.
LEMMA ControllersStay ==
  ASSUME UNCHANGED <<ctrl, cancelled>>
  PROVE  Running' = Running /\ UsedCtrls' = UsedCtrls
BY DEF Running, Active, UsedCtrls

LEMMA PeersStay ==
  ASSUME UNCHANGED <<live, clusters, peerCount>>,
         handler' = handler
           \/ /\ handler.pc \notin {"added", "locked", "registered"}
              /\ handler'.pc \notin {"added", "locked", "registered"}
  PROVE  Members' = Members /\ UsedPeers' = UsedPeers
BY DEF Members, UsedPeers, Entering

-----------------------------------------------------------------------------
(* The steps of the provider's handler. *)

\* Adding a peer entry, and locking and unlocking clusters, is nothing yet.
LEMMA EngageBegins ==
  ASSUME IInv, NewcomersApart,
         (\E p \in Peers : AddPeer(p)) \/ RegisterPeer \/ UnlockClusters
  PROVE  UNCHANGED abs
<1>t. TypeOK
  BY DEF IInv
<1>1. /\ UNCHANGED <<ctrl, cancelled, joined, failed>>
      /\ Running' = Running /\ UsedCtrls' = UsedCtrls
  <2>1. UNCHANGED <<ctrl, cancelled, joined, failed>>
    BY DEF AddPeer, RegisterPeer, UnlockClusters, ctrlVars
  <2> QED
    BY <2>1, ControllersStay
<1>2. ASSUME NEW p \in Peers, AddPeer(p)
      PROVE  Members' = Members /\ UsedPeers' = UsedPeers
  <2> DEFINE e == <<p, peerCount[p] + 1>>
  <2>1. /\ live' = live \cup {e} /\ clusters' = clusters
        /\ handler.pc = "idle" /\ handler' = [pc |-> "added", e |-> e]
        /\ peerCount' = [peerCount EXCEPT ![p] = @ + 1]
    BY <1>2 DEF AddPeer
  <2>2. /\ peerCount[p] \in Nat /\ e[1] = p /\ e # None
        /\ ~(e[2] <= peerCount[e[1]])
    BY <1>2, <1>t, ConstantsAssumption DEF TypeOK
  <2>3. clusters[e[1]] # e
    <3> HIDE DEF e
    <3> QED
      BY <2>2 DEF IInv, PeerInv, PeersNumbered, Counted
  <2>4. Members' = Members
    <3> HIDE DEF e
    <3> QED
      BY <2>1, <2>3 DEF Members, Entering
  <2>5. ASSUME NEW f \in PeerIds
        PROVE  f[2] <= peerCount'[f[1]] /\ f # e <=> f[2] <= peerCount[f[1]]
    <3>1. f[1] \in Peers /\ f[2] \in Nat /\ f = <<f[1], f[2]>>
      BY DEF PeerIds
    <3>2. CASE f[1] = p
      <4>1. peerCount'[f[1]] = peerCount[p] + 1
        BY <1>t, <2>1, <3>2 DEF TypeOK
      <4>2. f # e <=> f[2] # peerCount[p] + 1
        BY <3>1, <3>2
      <4> QED
        BY <2>2, <3>1, <3>2, <4>1, <4>2
    <3>3. CASE f[1] # p
      <4>1. peerCount'[f[1]] = peerCount[f[1]] /\ f # e
        BY <1>t, <2>1, <3>1, <3>3 DEF TypeOK
      <4> QED
        BY <4>1
    <3> QED
      BY <3>2, <3>3
  <2>6. UsedPeers' = UsedPeers
    <3> HIDE DEF e
    <3>1. handler'.pc = "added" /\ handler'.e = e
      BY <2>1
    <3> QED
      BY <2>1, <2>5, <3>1 DEF UsedPeers, Entering
  <2> QED
    BY <2>4, <2>6
<1>3. ASSUME RegisterPeer \/ UnlockClusters
      PROVE  Members' = Members /\ UsedPeers' = UsedPeers
  <2>1. /\ handler.pc \in {"added", "locked"} /\ handler'.e = handler.e
        /\ handler'.pc \in {"locked", "registered"}
        /\ handler.pc = "locked" => clusters' = clusters
        /\ handler.pc = "added" => clusters' = [clusters EXCEPT ![handler.e[1]] = handler.e]
        /\ UNCHANGED <<live, peerCount>>
    BY <1>3, <1>t DEF RegisterPeer, UnlockClusters, TypeOK
  <2>2. UsedPeers' = UsedPeers
    BY <2>1 DEF UsedPeers, Entering
  <2>3. /\ handler.e \in PeerIds /\ handler.e[1] \in Peers
        /\ \A f \in live : f[1] = handler.e[1] => f = handler.e
    BY <2>1 DEF IInv, PeerInv, HandlerShape, NoLeakedPeer, PeerIds
  <2>4. ASSUME NEW f \in live
        PROVE  f \in Members' <=> f \in Members
    <3>1. f \in PeerIds /\ f[1] \in Peers
      BY <1>t DEF TypeOK, PeerIds
    <3>2. CASE f[1] = handler.e[1]
      <4>1. f = handler.e /\ f \notin Members'
        BY <2>1, <2>3, <3>2 DEF Members, Entering
      <4>2. f \notin Members
        BY <2>1, <4>1 DEF Members, Entering, NewcomersApart
      <4> QED
        BY <4>1, <4>2
    <3>3. CASE f[1] # handler.e[1]
      <4>1. clusters'[f[1]] = clusters[f[1]] /\ f # handler.e
        BY <1>t, <2>1, <3>1, <3>3 DEF TypeOK
      <4> QED
        BY <2>1, <4>1 DEF Members, Entering
    <3> QED
      BY <3>2, <3>3
  <2>5. Members' = Members
    BY <2>1, <2>4 DEF Members
  <2> QED
    BY <2>2, <2>5
<1>4. Members' = Members /\ UsedPeers' = UsedPeers
  BY <1>2, <1>3
<1> QED
  BY <1>1, <1>4, NothingHappens DEF SameTalk

\* Coming to every controller is joining, unless the peer has been forgotten.
LEMMA EngageJoins ==
  ASSUME IInv, NEW bad \in SUBSET CtrlIds, Forward(bad)
  PROVE  M!Next
<1> DEFINE e == handler.e
<1>t. TypeOK
  BY DEF IInv
<1>1. /\ handler.pc = "registered" /\ handler'.e = e /\ handler'.pc = "forwarded"
      /\ joined' = [i \in CtrlIds |->
           IF i \in Entries \ bad THEN joined[i] \cup {e} ELSE joined[i]]
      /\ failed' = failed \cup (bad \X {e})
      /\ UNCHANGED <<peers, live, peerCount, clusters, ctrl, cancelled>>
  BY <1>t DEF Forward, TypeOK, ctrlVars
<1>2. e \in PeerIds /\ e[1] \in Peers /\ peers[e[1]] = e /\ e # None
  BY <1>1, ConstantsAssumption DEF IInv, PeerInv, HandlerShape, PeerIds
<1>3. Running' = Running /\ UsedCtrls' = UsedCtrls
  BY <1>1, ControllersStay
<1>4. Entering(e, {"locked", "registered"}) /\ Entering(e, {"added", "locked", "registered"})
  BY <1>1 DEF Entering
<1>5. e[2] <= peerCount[e[1]]
  BY <1>2 DEF IInv, PeerInv, PeersNumbered, Counted
<1> HIDE DEF e
<1>6. e \notin UsedPeers /\ UsedPeers' = UsedPeers \cup {e}
  BY <1>1, <1>2, <1>4, <1>5 DEF UsedPeers, Entering
<1>7. e \notin Members
  BY <1>4 DEF Members
<1>8. Members' = Members \cup {f \in {e} : f \in live /\ clusters[f[1]] = f}
  BY <1>1, <1>4 DEF Members, Entering
<1>9. ASSUME NEW i \in CtrlIds, NEW f, f # e
      PROVE  /\ f \in joined'[i] <=> f \in joined[i]
             /\ <<i, f>> \in failed' <=> <<i, f>> \in failed
  <2>1. f \in joined'[i] <=> f \in joined[i]
    BY <1>1, <1>9
  <2>2. <<i, f>> \in failed' <=> <<i, f>> \in failed
    BY <1>1, <1>9
  <2> QED
    BY <2>1, <2>2
<1>10. SameTalk
  BY <1>7, <1>9 DEF SameTalk, Running
<1>11. CASE e \in live /\ clusters[e[1]] = e
  <2>1. Members' = Members \cup {e}
    BY <1>8, <1>11
  <2>2. \A f \in Members : f[1] # e[1]
    BY <1>2, <1>7 DEF Members, IInv, PeerInv, NoLeakedPeer
  <2> DEFINE out == {i \in Running : e \notin joined'[i]}
  <2>3. \A i \in out : <<i, e>> \in failed'
    <3> SUFFICES ASSUME NEW i \in Running, e \notin joined'[i]
                 PROVE  <<i, e>> \in failed'
      OBVIOUS
    <3>1. i \in CtrlIds /\ i[1] \in CRDs /\ syncEntries[i[1]] = i /\ i # None
      BY ConstantsAssumption DEF IInv, CtrlInv, NoOrphanController, Running, CtrlIds
    <3>2. i \in Entries
      BY <3>1 DEF Entries
    <3>3. i \in bad
      BY <1>1, <3>1, <3>2
    <3> QED
      BY <1>1, <3>3
  <2>4. Links' = Links \cup ((Running \ out) \X {e})
    BY <1>3, <1>10, <2>1 DEF Links, SameTalk
  <2>5. Refused' = Refused \cup (out \X {e})
    <3>1. \A i \in Running, f \in Members :
            <<i, f>> \in Refused' <=> <<i, f>> \in Refused
      BY <1>3, <1>10, <2>1 DEF Refused, Links, SameTalk
    <3>2. \A i \in Running : <<i, e>> \in Refused' <=> i \in out
      BY <1>3, <2>1, <2>3 DEF Refused, Links
    <3>3. Refused' \subseteq Running \X (Members \cup {e})
          /\ Refused \subseteq Running \X Members
      BY <1>3, <2>1 DEF Refused
    <3>4. ASSUME NEW l \in Running \X (Members \cup {e})
          PROVE  l \in Refused' <=> l \in Refused \cup (out \X {e})
      <4>1. PICK i \in Running, f \in Members \cup {e} : l = <<i, f>>
        OBVIOUS
      <4>2. CASE f = e
        <5>1. l \notin Refused
          BY <1>7, <3>3, <4>1, <4>2
        <5> QED
          BY <3>2, <4>1, <4>2, <5>1
      <4>3. CASE f # e
        <5>1. l \notin out \X {e} /\ f \in Members
          BY <4>1, <4>3
        <5> QED
          BY <3>1, <4>1, <5>1
      <4> QED
        BY <4>2, <4>3
    <3>5. out \X {e} \subseteq Running \X (Members \cup {e})
      OBVIOUS
    <3> HIDE DEF out
    <3> QED
      BY <3>3, <3>4, <3>5
  <2>6. out \in SUBSET Running
    OBVIOUS
  <2> HIDE DEF out
  <2>7. M!Join(e)
    BY <1>3, <1>6, <2>1, <2>2, <2>4, <2>5, <2>6 DEF M!Join
  <2> QED
    BY <1>2, <2>7 DEF M!Next
<1>12. CASE ~(e \in live /\ clusters[e[1]] = e)
  <2>1. Members' = Members
    BY <1>8, <1>12
  <2>2. Links' = Links
    BY <1>3, <1>10, <2>1 DEF Links, SameTalk
  <2>3. Refused' = Refused
    BY <1>3, <1>10, <2>1, <2>2 DEF Refused, SameTalk
  <2>4. M!Pass(e)
    BY <1>3, <1>6, <2>1, <2>2, <2>3 DEF M!Pass
  <2> QED
    BY <1>2, <2>4 DEF M!Next
<1> QED
  BY <1>11, <1>12

\* What comes after that, and removing a peer, is leaving or nothing.
LEMMA HandlerMembership ==
  ASSUME IInv, NewcomersApart, HandlerNext
  PROVE  M!Next \/ UNCHANGED abs
<1>t. TypeOK
  BY DEF IInv
<1>1. ASSUME NEW p \in Peers, RemovePeer(p)
      PROVE  M!Next \/ UNCHANGED abs
  <2>1. /\ live' = live \ {peers[p]}
        /\ UNCHANGED <<peerCount, handler, clusters, ctrl, cancelled, joined, failed>>
    BY <1>1 DEF RemovePeer, ctrlVars
  <2>2. Members' = Members \ {peers[p]} /\ UsedPeers' = UsedPeers
    BY <2>1 DEF Members, UsedPeers, Entering
  <2> QED
    BY <1>t, <2>1, <2>2, ControllersStay, PeerLeaves
<1>2. CASE ForwardPeer
  <2>1. {} \in SUBSET CtrlIds
    OBVIOUS
  <2> QED
    BY <1>2, <2>1, EngageJoins DEF ForwardPeer
<1>3. ASSUME NEW i \in CtrlIds, ForwardFails(i)
      PROVE  M!Next
  <2>1. {i} \in SUBSET CtrlIds
    OBVIOUS
  <2> QED
    BY <1>3, <2>1, EngageJoins DEF ForwardFails
<1>4. CASE EngageReturns
  <2>1. /\ handler.pc = "forwarded" /\ handler'.pc = "idle"
        /\ UNCHANGED <<live, clusters, peerCount, ctrl, cancelled, joined, failed>>
    BY <1>4 DEF EngageReturns, HandlerIdle, ctrlVars
  <2> QED
    BY <2>1, ControllersStay, PeersStay, NothingHappens DEF SameTalk
<1>5. CASE EngageFails
  <2>1. /\ handler.pc = "forwarded" /\ handler'.pc = "idle"
        /\ live' = live \ {handler.e}
        /\ UNCHANGED <<clusters, peerCount, ctrl, cancelled, joined, failed>>
    BY <1>5 DEF EngageFails, HandlerIdle, ctrlVars
  <2>2. Members' = Members \ {handler.e} /\ UsedPeers' = UsedPeers
    BY <2>1 DEF Members, UsedPeers, Entering
  <2> QED
    BY <1>t, <2>1, <2>2, ControllersStay, PeerLeaves
<1> QED
  BY <1>1, <1>2, <1>3, <1>4, <1>5, EngageBegins DEF HandlerNext

-----------------------------------------------------------------------------
(* The steps of the worker. *)

\* Committing a seeded controller is starting it.
LEMMA EnsureStarts ==
  ASSUME IInv, NewcomersApart, EnsureCommit
  PROVE  M!Next
<1> DEFINE i == worker.i
<1>t. TypeOK
  BY DEF IInv
<1>1. /\ i \in CtrlIds /\ i[1] = worker.k /\ ctrl[i] = "new"
      /\ i[1] \in CRDs /\ syncEntries[i[1]] = None
      /\ ctrl' = [ctrl EXCEPT ![i] = "running"]
      /\ UNCHANGED <<peers, live, peerCount, handler, clusters, cancelled, joined, failed>>
  BY DEF EnsureCommit, IInv, CtrlInv, WorkerShape, peerVars
<1>2. Members' = Members /\ UsedPeers' = UsedPeers
  BY <1>1, PeersStay
<1>3. \A e \in Members : e \in joined[i] \/ <<i, e>> \in failed
  <2>1. worker.pc = "seeded"
    BY DEF EnsureCommit
  <2>2. ASSUME NEW e \in Members
        PROVE  e \in Engaged \cap live /\ ~Entering(e, {"locked", "registered"})
    <3>1. e \in PeerIds /\ e[1] \in Peers /\ e # None
      BY <1>t, ConstantsAssumption DEF Members, TypeOK, PeerIds
    <3> QED
      BY <3>1 DEF Members, Engaged
  <2> QED
    BY <2>1, <2>2 DEF IInv, MissInv, NewMissesNone, Told, Entering
<1> HIDE DEF i
<1>4. i \notin cancelled /\ i \notin UsedCtrls /\ i \notin Running
  BY <1>1 DEF NewcomersApart, UsedCtrls, Running, Active
<1>5. Running' = Running \cup {i}
  BY <1>1, <1>4, <1>t DEF Running, Active, TypeOK
<1>6. UsedCtrls' = UsedCtrls \cup {i}
  BY <1>1, <1>t DEF UsedCtrls, TypeOK
<1>7. \A j \in Running : j[1] # i[1]
  <2>1. \A j \in Running : syncEntries[j[1]] = j /\ j # None
    BY ConstantsAssumption DEF Running, IInv, CtrlInv, NoOrphanController, CtrlIds
  <2> QED
    BY <1>1, <2>1
<1> DEFINE out == {e \in Members : e \notin joined[i]}
<1>8. Links' = Links \cup ({i} \X (Members \ out))
  BY <1>1, <1>2, <1>5 DEF Links
<1>9. Refused' = Refused \cup ({i} \X out)
  <2>1. ASSUME NEW j \in Running \cup {i}, NEW e \in Members
        PROVE  <<j, e>> \in Refused' <=> <<j, e>> \in Refused \cup ({i} \X out)
    <3>1. <<j, e>> \in Refused' <=> e \notin joined[j] /\ <<j, e>> \in failed
      BY <1>1, <1>2, <1>5 DEF Refused, Links
    <3>2. CASE j = i
      <4>1. <<j, e>> \notin Refused
        BY <1>4, <3>2 DEF Refused
      <4>2. e \in out <=> e \notin joined[i] /\ <<i, e>> \in failed
        BY <1>3
      <4> QED
        BY <3>1, <3>2, <4>1, <4>2
    <3>3. CASE j # i
      <4>1. <<j, e>> \in Refused <=> e \notin joined[j] /\ <<j, e>> \in failed
        BY <3>3 DEF Refused, Links
      <4> QED
        BY <3>1, <3>3, <4>1
    <3> QED
      BY <3>2, <3>3
  <2>2. /\ Refused' \subseteq (Running \cup {i}) \X Members
        /\ Refused \subseteq Running \X Members
    BY <1>2, <1>5 DEF Refused
  <2>3. {i} \X out \subseteq {i} \X Members
    OBVIOUS
  <2> HIDE DEF out
  <2> QED
    BY <2>1, <2>2, <2>3
<1>10. out \in SUBSET Members
  OBVIOUS
<1> HIDE DEF out
<1>11. M!Start(i)
  BY <1>2, <1>4, <1>5, <1>6, <1>7, <1>8, <1>9, <1>10 DEF M!Start
<1> QED
  BY <1>1, <1>11 DEF M!Next

\* Creating and seeding a controller is nothing yet, cleaning up is stopping one.
LEMMA WorkerMembership ==
  ASSUME IInv, NewcomersApart, WorkerNext
  PROVE  M!Next \/ UNCHANGED abs
<1>t. TypeOK
  BY DEF IInv
<1>1. ASSUME ~EnsureCommit
      PROVE  Members' = Members /\ UsedPeers' = UsedPeers
  <2>1. UNCHANGED <<live, clusters, peerCount, handler>>
    BY <1>1 DEF WorkerNext, TakeCRD, ReadCRDFails, EnsureExists, EnsureCreate,
       EnsureFails, SeedPeers, SeedFails, Seed, Cleanup, peerVars
  <2> QED
    BY <2>1, PeersStay
<1>2. CASE \/ \E k \in CRDs : TakeCRD(k) \/ ReadCRDFails(k)
           \/ EnsureExists \/ EnsureFails
  <2>1. UNCHANGED <<ctrl, cancelled, joined, failed, live, clusters, peerCount, handler>>
    BY <1>2 DEF TakeCRD, ReadCRDFails, EnsureExists, EnsureFails, peerVars, ctrlVars
  <2> QED
    BY <2>1, ControllersStay, PeersStay, NothingHappens DEF SameTalk
<1>3. ASSUME NEW i \in CtrlIds, EnsureCreate(i)
      PROVE  UNCHANGED abs
  <2>1. i[1] \in CRDs /\ i[2] \in 1..MaxCtrl /\ i = <<i[1], i[2]>>
    BY DEF CtrlIds
  <2>2. /\ ctrl[i] = "unused" /\ ctrl' = [ctrl EXCEPT ![i] = "new"]
        /\ UNCHANGED <<cancelled, joined, failed, live, clusters, peerCount, handler>>
    BY <1>3, <2>1 DEF EnsureCreate, Fresh, Unused, peerVars
  <2>3. Running' = Running /\ UsedCtrls' = UsedCtrls
    BY <1>t, <2>2 DEF Running, Active, UsedCtrls, TypeOK
  <2> QED
    BY <2>2, <2>3, PeersStay, NothingHappens DEF SameTalk
<1>4. ASSUME NEW bad \in SUBSET PeerIds, Seed(bad)
      PROVE  UNCHANGED abs
  <2>1. /\ worker.i \in CtrlIds /\ ctrl[worker.i] = "new"
        /\ joined' = [joined EXCEPT ![worker.i] = Engaged \ bad]
        /\ failed' = failed \cup ({worker.i} \X bad)
        /\ UNCHANGED <<ctrl, cancelled, live, clusters, peerCount, handler>>
    BY <1>4 DEF Seed, IInv, CtrlInv, WorkerShape, peerVars, ctrlVars
  <2>2. worker.i \notin Running
    BY <2>1 DEF Running, Active
  <2>3. ASSUME NEW i \in Running, NEW e \in Members
        PROVE  /\ e \in joined'[i] <=> e \in joined[i]
               /\ <<i, e>> \in failed' <=> <<i, e>> \in failed
    <3>1. i # worker.i /\ i \in CtrlIds
      BY <2>2 DEF Running
    <3>2. joined'[i] = joined[i]
      BY <1>t, <2>1, <3>1 DEF TypeOK
    <3> QED
      BY <2>1, <3>1, <3>2
  <2> QED
    BY <2>1, <2>3, ControllersStay, PeersStay, NothingHappens DEF SameTalk
<1>5. CASE SeedPeers
  <2>1. {} \in SUBSET PeerIds
    OBVIOUS
  <2> QED
    BY <1>4, <1>5, <2>1 DEF SeedPeers
<1>6. ASSUME NEW e \in PeerIds, SeedFails(e)
      PROVE  UNCHANGED abs
  <2>1. {e} \in SUBSET PeerIds
    OBVIOUS
  <2> QED
    BY <1>4, <1>6, <2>1 DEF SeedFails
<1>7. CASE Cleanup
  <2>1. /\ cancelled' = cancelled \cup ({syncEntries[worker.k]} \ {None})
        /\ UNCHANGED <<ctrl, joined, failed, live, clusters, peerCount, handler>>
    BY <1>7 DEF Cleanup, peerVars
  <2>2. Running' = Running \ {syncEntries[worker.k]} /\ UsedCtrls' = UsedCtrls
    <3>1. None \notin CtrlIds
      BY ConstantsAssumption DEF CtrlIds
    <3> QED
      BY <2>1, <3>1 DEF Running, Active, UsedCtrls
  <2> QED
    BY <2>1, <2>2, PeersStay, ControllerStops
<1> QED
  BY <1>2, <1>3, <1>5, <1>6, <1>7, EnsureStarts DEF WorkerNext

-----------------------------------------------------------------------------
(* The theorem. *)

\* Every step is a step of Membership or changes nothing there.
LEMMA MembershipStep ==
  ASSUME IInv, NewcomersApart, [Next]_vars
  PROVE  M!Next \/ UNCHANGED abs
<1>t. TypeOK
  BY DEF IInv
<1>1. ASSUME NEW e \in PeerIds, ForgetPeer(e)
      PROVE  M!Next \/ UNCHANGED abs
  <2>1. /\ clusters' = [clusters EXCEPT ![e[1]] = None]
        /\ UNCHANGED <<live, peerCount, handler, ctrl, cancelled, joined, failed>>
    BY <1>1 DEF ForgetPeer, peerVars, ctrlVars
  <2>2. ASSUME NEW f \in live
        PROVE  f \in Members' <=> f \in Members /\ f # clusters[e[1]]
    <3>1. f \in PeerIds /\ f[1] \in Peers /\ f # None
      BY <1>t, ConstantsAssumption DEF TypeOK, PeerIds
    <3>2. CASE f[1] = e[1]
      <4>1. clusters'[f[1]] = None
        BY <1>t, <2>1, <3>1, <3>2 DEF TypeOK
      <4> QED
        BY <3>1, <3>2, <4>1 DEF Members
    <3>3. CASE f[1] # e[1]
      <4>1. clusters'[f[1]] = clusters[f[1]]
        BY <1>t, <2>1, <3>1, <3>3 DEF TypeOK
      <4>2. e[1] \in Peers
        BY DEF PeerIds
      <4>3. clusters[e[1]] # f
        BY <3>1, <3>3, <4>2 DEF IInv, PeerInv, PeersNumbered
      <4> QED
        BY <2>1, <4>1, <4>3 DEF Members, Entering
    <3> QED
      BY <3>2, <3>3
  <2>3. Members' = Members \ {clusters[e[1]]} /\ UsedPeers' = UsedPeers
    BY <2>1, <2>2 DEF Members, UsedPeers, Entering
  <2> QED
    BY <1>t, <2>1, <2>3, ControllersStay, PeerLeaves
<1>2. ASSUME NEW i \in CtrlIds, StartReturns(i) \/ ForgetController(i)
      PROVE  M!Next \/ UNCHANGED abs
  <2>1. /\ \/ ctrl[i] = "running" /\ ctrl' = [ctrl EXCEPT ![i] = "returned"]
           \/ ctrl[i] = "returned" /\ ctrl' = [ctrl EXCEPT ![i] = "gone"]
        /\ UNCHANGED <<cancelled, joined, failed, live, clusters, peerCount, handler>>
    BY <1>2 DEF StartReturns, ForgetController, peerVars
  <2>2. Running' = Running \ {i} /\ UsedCtrls' = UsedCtrls
    BY <1>t, <2>1 DEF Running, Active, UsedCtrls, TypeOK
  <2> QED
    BY <2>1, <2>2, PeersStay, ControllerStops
<1>3. CASE \/ \E k \in CRDs : CreateCRD(k) \/ DeleteCRD(k) \/ ResyncCRD(k)
           \/ UNCHANGED vars
  <2>1. UNCHANGED <<ctrl, cancelled, joined, failed, live, clusters, peerCount, handler>>
    BY <1>3 DEF CreateCRD, DeleteCRD, ResyncCRD, vars, peerVars, ctrlVars
  <2> QED
    BY <2>1, ControllersStay, PeersStay, NothingHappens DEF SameTalk
<1> QED
  BY <1>1, <1>2, <1>3, HandlerMembership, WorkerMembership DEF Next

\* The goroutines implement Membership: under every interleaving, with stale
\* and failed calls, peers and controllers come and go as if Engage and
\* ensureReplicationController were each one step, no link is lost while both of
\* its ends stay, and no CRD has two controllers running.
THEOREM LifecycleIsMembership == Spec => ImplementsMembership
<1>1. Init => M!Init /\ NewcomersApart
  <2> SUFFICES ASSUME Init
               PROVE  M!Init /\ NewcomersApart
    OBVIOUS
  <2>1. Running = {} /\ Members = {} /\ UsedCtrls = {}
    BY DEF Init, Running, Active, Members, UsedCtrls
  <2>2. UsedPeers = {}
    <3>1. \A e \in PeerIds : e[1] \in Peers /\ ~(e[2] <= 0)
      BY ConstantsAssumption DEF PeerIds
    <3> QED
      BY <3>1 DEF Init, UsedPeers
  <2>3. Links = {} /\ Refused = {}
    BY <2>1 DEF Links, Refused
  <2>4. NewcomersApart
    BY DEF Init, NewcomersApart, HandlerIdle
  <2> QED
    BY <2>1, <2>2, <2>3, <2>4 DEF M!Init
<1>2. IInv /\ NewcomersApart /\ [Next]_vars => [M!Next]_(M!vars)
  <2>1. abs = M!vars
    BY DEF abs, M!vars
  <2> QED
    BY <2>1, MembershipStep DEF abs, M!vars
<1>3. IInv /\ NewcomersApart /\ [Next]_vars => NewcomersApart'
  BY NewcomersStep
<1> QED
  BY <1>1, <1>2, <1>3, Invariance, PTL DEF Spec, ImplementsMembership, M!Spec
=============================================================================
