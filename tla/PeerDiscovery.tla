--------------------------- MODULE PeerDiscovery ---------------------------
(***************************************************************************)
(* How the agents of a mesh of cache-servers find each other: the start of *)
(* an agent (cmd/kcp-cache-syncagent/main.go), the provider's seeding and  *)
(* its Cache handlers (internal/peerprovider/provider.go), and the         *)
(* replication that carries Cache objects from server to server            *)
(* (internal/controller/resourcereplication/replication/controller.go),    *)
(* here in steps of a whole Reconcile; Replication has its parts.          *)
(*                                                                         *)
(* Each shard pulls the Cache object of the server it is connected to, and *)
(* pushes it back to that server as its own data: so a Cache object is     *)
(* here the shard it belongs to, and its name is that shard's server.  The *)
(* provider, the work queues and the informers know it by that name.       *)
(***************************************************************************)
EXTENDS Naturals

CONSTANTS
  Servers,      \* cache-servers, each with its agent
  Shards,       \* kcp shards
  Home,         \* Home[s]: the server shard s is directly connected to
  InitialPeers, \* InitialPeers[a]: --initial-peer-urls of agent a, as given
  JoinsApart,   \* whether an agent is started only when the others are at rest
  MaxFaults     \* bound: failed calls, restarts, decommissioned shards

ASSUME ConstantsAssumption ==
  /\ Home \in [Shards -> Servers]
  /\ InitialPeers \in [Servers -> SUBSET Servers]
  /\ JoinsApart \in BOOLEAN
  /\ MaxFaults \in Nat

VARIABLES
  db,      \* db[c]: the Cache objects on server c
  retired, \* shards that were decommissioned
  ready,   \* servers that have their one self-identifying Cache object
  phase,   \* phase[a]: "down", "resolving", "seeding" or "watching"
  toSeed,  \* toSeed[a]: initial peers still to be listed
  peers,   \* peers[a]: names in Provider.peers
  known,   \* known[a]: names in the informer's store of Cache objects
  events,  \* events[a]: objects whose change a's handlers have not seen
  failed,  \* ghost: <<a, n>> after Engage of n failed, <<a, a>> after a LIST did
  dropped, \* ghost: <<a, n>> after a disengaged n while it held another copy of n
  faults   \* failures so far

agentVars == <<phase, toSeed, peers, known>>
vars == <<db, retired, ready, agentVars, events, failed, dropped, faults>>

-----------------------------------------------------------------------------
(* Types and helpers. *)

Named(c, n) == {o \in db[c] : Home[o] = n}
Up          == {a \in Servers : phase[a] # "down"}

TypeOK ==
  /\ db \in [Servers -> SUBSET Shards]
  /\ retired \subseteq Shards
  /\ ready \subseteq Servers
  /\ phase \in [Servers -> {"down", "resolving", "seeding", "watching"}]
  /\ toSeed \in [Servers -> SUBSET Servers]
  /\ peers \in [Servers -> SUBSET Servers]
  /\ \A a \in Servers : a \notin peers[a]
  /\ known \in [Servers -> SUBSET Servers]
  /\ events \in [Servers -> SUBSET Shards]
  /\ failed \subseteq Servers \X Servers
  /\ dropped \subseteq Servers \X Servers
  /\ faults \in 0..MaxFaults

Init ==
  /\ db = [c \in Servers |-> {}]
  /\ retired = {}
  /\ ready = {}
  /\ phase = [a \in Servers |-> "down"]
  /\ toSeed = [a \in Servers |-> {}]
  /\ peers = [a \in Servers |-> {}]
  /\ known = [a \in Servers |-> {}]
  /\ events = [a \in Servers |-> {}]
  /\ failed = {}
  /\ dropped = {}
  /\ faults = 0

Fault == faults < MaxFaults /\ faults' = faults + 1

-----------------------------------------------------------------------------
(* The servers and the shards. *)

\* The content of server c becomes objs; c's agent has events of what changed.
Store(c, o, objs) ==
  /\ db' = [db EXCEPT ![c] = objs]
  /\ events' = IF phase[c] = "watching"
                 THEN [events EXCEPT ![c] = @ \cup {o}] ELSE events

\* A shard pulls its server's Cache object and pushes its copy, again if it was
\* lost.
Push(s) ==
  /\ Home[s] \in ready
  /\ s \notin retired /\ s \notin db[Home[s]]
  /\ Store(Home[s], s, db[Home[s]] \cup {s})
  /\ UNCHANGED <<retired, ready, agentVars, failed, dropped, faults>>

\* A shard is decommissioned, and its data removed from its server.
Retire(s) ==
  /\ Fault
  /\ s \notin retired /\ s \in db[Home[s]]
  /\ retired' = retired \cup {s}
  /\ Store(Home[s], s, db[Home[s]] \ {s})
  /\ UNCHANGED <<ready, agentVars, failed, dropped>>

\* A cache-server that comes up makes the Cache object that says its name, in a
\* shard of its own.
ServerReady(c) ==
  /\ c \notin ready
  /\ ready' = ready \cup {c}
  /\ UNCHANGED <<db, retired, agentVars, events, failed, dropped, faults>>

-----------------------------------------------------------------------------
(* Replication of Cache objects by agent a to its peer p. *)

Authoritative(a, o) == Home[o] = a

\* Reconcile with an object of its own shards: the peer lacks it.
CopyTo(a, p, o) ==
  /\ phase[a] \in {"seeding", "watching"} /\ p \in peers[a]
  /\ o \in db[a] /\ Authoritative(a, o)
  /\ o \notin db[p]
  /\ Store(p, o, db[p] \cup {o})
  /\ UNCHANGED <<retired, ready, agentVars, failed, dropped, faults>>

\* Reconcile with a name its source has no object of: the peer's object goes,
\* whatever its shard.
DeleteFrom(a, p, o) ==
  /\ phase[a] \in {"seeding", "watching"} /\ p \in peers[a]
  /\ o \in db[p] /\ Named(a, Home[o]) = {}
  /\ Store(p, o, db[p] \ {o})
  /\ UNCHANGED <<retired, ready, agentVars, failed, dropped, faults>>

-----------------------------------------------------------------------------
(* The agent. *)

\* Nothing is left to be done by the shards of server c.
Pushed(c) == \A s \in Shards : Home[s] = c => s \in retired \cup db[c]

\* Nothing is left to be done by or for the agents that are up.
AgentsAtRest ==
  \A a \in Up :
    /\ phase[a] = "watching" /\ events[a] = {}
    /\ \A p \in peers[a] :
         /\ \A o \in db[a] : Authoritative(a, o) => o \in db[p]
         /\ \A o \in db[p] : Named(a, Home[o]) # {}

\* Complete: the source is not an initial peer.
Complete(a) == InitialPeers[a] \ {a}

\* run, up to the poll for the own name.  An error before it ends the process: the
\* agent is still down.
Launch(a) ==
  /\ phase[a] = "down"
  /\ JoinsApart => AgentsAtRest /\ \A c \in Servers \ {a} : Pushed(c)
  /\ phase' = [phase EXCEPT ![a] = "resolving"]
  /\ UNCHANGED <<db, retired, ready, toSeed, peers, known, events, failed, dropped, faults>>

\* resolveOwnName finds exactly one object: everything is started.  Until then it
\* is asked again, every second.
Resolve(a) ==
  /\ phase[a] = "resolving" /\ a \in ready
  /\ phase' = [phase EXCEPT ![a] = "seeding"]
  /\ toSeed' = [toSeed EXCEPT ![a] = Complete(a)]
  /\ UNCHANGED <<db, retired, ready, peers, known, events, failed, dropped, faults>>

\* Mutant: the initial peer itself is not taken for a peer.
SeedOthers(a, q, lost) ==
  LET found == {Home[o] : o \in db[q]} \ {a, q} IN
  /\ phase[a] = "seeding" /\ q \in toSeed[a]
  /\ toSeed' = [toSeed EXCEPT ![a] = @ \ {q}]
  /\ lost \subseteq found \ peers[a]
  /\ peers' = [peers EXCEPT ![a] = @ \cup (found \ lost)]
  /\ failed' = failed \cup {<<a, n>> : n \in lost}
  /\ UNCHANGED <<db, retired, ready, phase, known, events, dropped>>

\* seedFromPeer: every Cache object on the initial peer but the own is engaged;
\* the calls for the names in lost fail.
Seed(a, q, lost) ==
  LET found == {Home[o] : o \in db[q]} \ {a} IN
  /\ phase[a] = "seeding" /\ q \in toSeed[a]
  /\ toSeed' = [toSeed EXCEPT ![a] = @ \ {q}]
  /\ lost \subseteq found \ peers[a]
  /\ peers' = [peers EXCEPT ![a] = @ \cup (found \ lost)]
  /\ failed' = failed \cup {<<a, n>> : n \in lost}
  /\ UNCHANGED <<db, retired, ready, phase, known, events, dropped>>

SeedFrom(a, q) == Seed(a, q, {}) /\ UNCHANGED faults

SeedLoses(a, q, n) == Seed(a, q, {n}) /\ Fault

\* The LIST on the initial peer fails: nothing of it is tried again.
SeedFails(a, q) ==
  /\ Fault
  /\ phase[a] = "seeding" /\ q \in toSeed[a]
  /\ toSeed' = [toSeed EXCEPT ![a] = @ \ {q}]
  /\ failed' = failed \cup {<<a, a>>}
  /\ UNCHANGED <<db, retired, ready, phase, peers, known, events, dropped>>

\* Mutant: the handlers are told of changes only.
WatchNews(a) ==
  /\ phase[a] = "seeding" /\ toSeed[a] = {}
  /\ phase' = [phase EXCEPT ![a] = "watching"]
  /\ known' = [known EXCEPT ![a] = {Home[o] : o \in db[a]}]
  /\ UNCHANGED <<db, retired, ready, toSeed, peers, events, failed, dropped, faults>>

\* Mutant: a failure to list an initial peer ends Start.
WatchSeeded(a) ==
  /\ phase[a] = "seeding" /\ toSeed[a] = {}
  /\ <<a, a>> \notin failed
  /\ phase' = [phase EXCEPT ![a] = "watching"]
  /\ events' = [events EXCEPT ![a] = db[a]]
  /\ UNCHANGED <<db, retired, ready, toSeed, peers, known, failed, dropped, faults>>

\* The handlers are added to the informer, which reports all it holds.
Watch(a) ==
  /\ phase[a] = "seeding" /\ toSeed[a] = {}
  /\ phase' = [phase EXCEPT ![a] = "watching"]
  /\ events' = [events EXCEPT ![a] = db[a]]
  /\ UNCHANGED <<db, retired, ready, toSeed, peers, known, failed, dropped, faults>>

\* Mutant: the copy of the own Cache object is engaged too.
AppearedAny(a, o) ==
  /\ o \in events[a] /\ o \in db[a]
  /\ events' = [events EXCEPT ![a] = @ \ {o}]
  /\ known' = [known EXCEPT ![a] = @ \cup {Home[o]}]
  /\ peers' = [peers EXCEPT ![a] = @ \cup {Home[o]}]
  /\ dropped' = dropped \ {<<a, Home[o]>>}
  /\ UNCHANGED <<db, retired, ready, phase, toSeed, failed, faults>>

\* AddFunc and UpdateFunc: engageCacheObject, for any but the own name.
Appeared(a, o) ==
  /\ o \in events[a] /\ o \in db[a]
  /\ events' = [events EXCEPT ![a] = @ \ {o}]
  /\ known' = [known EXCEPT ![a] = @ \cup {Home[o]}]
  /\ peers' = [peers EXCEPT ![a] = @ \cup ({Home[o]} \ {a})]
  /\ dropped' = dropped \ {<<a, Home[o]>>}
  /\ UNCHANGED <<db, retired, ready, phase, toSeed, failed, faults>>

\* Engage fails: the entry is taken out of peers again, and the error logged.
AppearedFails(a, o) ==
  /\ Fault
  /\ o \in events[a] /\ o \in db[a] /\ Home[o] \notin peers[a] \cup {a}
  /\ events' = [events EXCEPT ![a] = @ \ {o}]
  /\ known' = [known EXCEPT ![a] = @ \cup {Home[o]}]
  /\ failed' = failed \cup {<<a, Home[o]>>}
  /\ UNCHANGED <<db, retired, ready, phase, toSeed, peers, dropped>>

\* DeleteFunc: disengageCacheObject.  The informer reports the deletion of what
\* it holds, and it holds one object for each name: the server is disengaged,
\* also if the source has another copy of that name.
Disappeared(a, o) ==
  LET n == Home[o] IN
  /\ o \in events[a] /\ o \notin db[a]
  /\ events' = [events EXCEPT ![a] = @ \ {o}]
  /\ known' = [known EXCEPT ![a] = @ \ {n}]
  /\ peers' = IF n \in known[a] THEN [peers EXCEPT ![a] = @ \ {n}] ELSE peers
  /\ dropped' = IF n \in known[a] /\ Named(a, n) # {}
                  THEN dropped \cup {<<a, n>>} ELSE dropped
  /\ UNCHANGED <<db, retired, ready, phase, toSeed, failed, faults>>

\* The agent restarts.
Crash(a) ==
  /\ Fault
  /\ a \in Up
  /\ phase' = [phase EXCEPT ![a] = "down"]
  /\ toSeed' = [toSeed EXCEPT ![a] = {}]
  /\ peers' = [peers EXCEPT ![a] = {}]
  /\ known' = [known EXCEPT ![a] = {}]
  /\ events' = [events EXCEPT ![a] = {}]
  /\ dropped' = {d \in dropped : d[1] # a}
  /\ UNCHANGED <<db, retired, ready, failed>>

-----------------------------------------------------------------------------
(* The specification. *)

AgentNext(a) ==
  \/ \E p \in Servers, o \in Shards : CopyTo(a, p, o) \/ DeleteFrom(a, p, o)
  \/ Launch(a) \/ Resolve(a) \/ Watch(a) \/ Crash(a)
  \/ \E q \in Servers : SeedFrom(a, q) \/ SeedFails(a, q)
  \/ \E q, n \in Servers : SeedLoses(a, q, n)
  \/ \E o \in Shards : Appeared(a, o) \/ AppearedFails(a, o) \/ Disappeared(a, o)

Next ==
  \/ \E s \in Shards : Push(s) \/ Retire(s)
  \/ \E c \in Servers : ServerReady(c)
  \/ \E a \in Servers : AgentNext(a)

Spec == Init /\ [][Next]_vars

\* A server comes up and its agent then too, whose calls return; the informer
\* calls the handlers.  Nothing is assumed of replication, restarts or failures.
Fairness ==
  \A a \in Servers :
    /\ WF_vars(ServerReady(a)) /\ WF_vars(Resolve(a)) /\ WF_vars(Watch(a))
    /\ \A q \in Servers : WF_vars(SeedFrom(a, q))
    /\ \A o \in Shards : WF_vars(Appeared(a, o))

FairSpec == Spec /\ Fairness

-----------------------------------------------------------------------------
(* Properties. *)

\* A peer that the source knows of is a peer: when the handlers have seen all
\* there is of a name, an object of that name on the source means that it is
\* engaged (provider.go:50: peers are discovered by watching Cache objects on the
\* source).  Two exceptions: Engage of it failed, or one of several copies of the
\* name was deleted, which disengages it (provider.go:264), and none came since.
KnownIsEngaged ==
  \A a \in Servers : \A o \in db[a] :
    phase[a] = "watching" /\ Home[o] # a /\ (\A e \in events[a] : Home[e] # Home[o]) =>
      Home[o] \in peers[a] \/ <<a, Home[o]>> \in failed \cup dropped

\* Whatever fails in seeding, an agent that has been started comes to act on what
\* its source holds (main.go:174 and provider.go:103 log and go on): an object on
\* the source gets its server engaged, or Engage has failed, or it is gone, or it
\* is what is left of several copies of which one was deleted.
SourceGetsEngaged ==
  \A a \in Servers, o \in Shards :
    phase[a] # "down" /\ o \in db[a] /\ Home[o] # a ~>
      \/ Home[o] \in peers[a] \/ <<a, Home[o]>> \in failed \cup dropped
      \/ o \notin db[a] \/ phase[a] = "down"

\* plan-data-sync-mechanism.md:51: one initial peer is enough to discover the
\* mesh.  So when every agent is up, nothing has failed and nothing is left to be
\* done, each has engaged each.
RestIsFullMesh ==
  /\ AgentsAtRest /\ \A c \in Servers : Pushed(c)
  /\ Up = Servers /\ failed = {} /\ retired = {}
  => \A a \in Servers : peers[a] = Servers \ {a}
=============================================================================
