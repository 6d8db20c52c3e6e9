----------------------------- MODULE Membership -----------------------------
(***************************************************************************)
(* What the crd-manager and the peer provider promise between them:        *)
(* membership without locks.  Peers join and leave, controllers start and  *)
(* stop, each in one step; in that step the newcomer is linked with        *)
(* everyone who is there, or the failure to do so is on record.  A link    *)
(* lasts as long as both of its ends, a name has one member and one        *)
(* running controller at a time, and who is gone does not come back.       *)
(***************************************************************************)
CONSTANTS
  PeerIds, \* <<name, number>>: a peer entry
  CtrlIds  \* <<name, number>>: a controller of the CRD of that name

VARIABLES
  running,   \* the controllers that run
  members,   \* the peers that are engaged
  links,     \* <<controller, peer>>: the controller has the peer
  refused,   \* <<controller, peer>>: it has not, and that was logged
  usedPeers, \* peer entries that have been through Engage
  usedCtrls  \* controllers that have been started

Init ==
  /\ running = {} /\ members = {}
  /\ links = {} /\ refused = {}
  /\ usedPeers = {} /\ usedCtrls = {}

\* A peer becomes a member: every running controller gets it, but for bad.
Join(e) ==
  /\ e \notin usedPeers
  /\ \A f \in members : f[1] # e[1]
  /\ members' = members \cup {e}
  /\ usedPeers' = usedPeers \cup {e}
  /\ \E bad \in SUBSET running :
       /\ links' = links \cup ((running \ bad) \X {e})
       /\ refused' = refused \cup (bad \X {e})
  /\ UNCHANGED <<running, usedCtrls>>

\* It was forgotten before it became one.
Pass(e) ==
  /\ e \notin usedPeers
  /\ usedPeers' = usedPeers \cup {e}
  /\ UNCHANGED <<running, members, links, refused, usedCtrls>>

Leave(e) ==
  /\ e \in members
  /\ members' = members \ {e}
  /\ links' = {l \in links : l[2] # e}
  /\ refused' = {l \in refused : l[2] # e}
  /\ UNCHANGED <<running, usedPeers, usedCtrls>>

\* A controller starts: it gets every member, but for bad.
Start(i) ==
  /\ i \notin usedCtrls
  /\ \A j \in running : j[1] # i[1]
  /\ running' = running \cup {i}
  /\ usedCtrls' = usedCtrls \cup {i}
  /\ \E bad \in SUBSET members :
       /\ links' = links \cup ({i} \X (members \ bad))
       /\ refused' = refused \cup ({i} \X bad)
  /\ UNCHANGED <<members, usedPeers>>

Stop(i) ==
  /\ i \in running
  /\ running' = running \ {i}
  /\ links' = {l \in links : l[1] # i}
  /\ refused' = {l \in refused : l[1] # i}
  /\ UNCHANGED <<members, usedPeers, usedCtrls>>

Next ==
  \/ \E e \in PeerIds : Join(e) \/ Pass(e) \/ Leave(e)
  \/ \E i \in CtrlIds : Start(i) \/ Stop(i)

vars == <<running, members, links, refused, usedPeers, usedCtrls>>

Spec == Init /\ [][Next]_vars
=============================================================================
