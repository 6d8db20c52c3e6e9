---------------------------- MODULE Replication ----------------------------
(***************************************************************************)
(* The replication controller of one resource type, run by the syncagent   *)
(* of every cache-server in Agents against the peers it has engaged        *)
(* (internal/controller/resourcereplication/replication/controller.go).    *)
(*                                                                         *)
(* A cache-server stores objects under their shard, cluster, namespace and *)
(* name: Objs are those full identities.  The informer store, the work     *)
(* queue and Reconcile see only namespace and name: NameOf.  The content   *)
(* of an object is its version, 0 standing for "not there"; Visible says   *)
(* which part of a version objectsMatch looks at.                          *)
(***************************************************************************)
EXTENDS Naturals, FiniteSets

CONSTANTS
  Servers,    \* cache-servers
  Agents,     \* those whose syncagent runs; agent a has a as its source
  Shards,     \* kcp shards
  Home,       \* Home[s]: the server shard s is directly connected to
  Objs,       \* object identities
  ShardOf,    \* ShardOf[o]: the kcp.io/shard annotation of o
  Names,      \* namespace/name pairs
  NameOf,     \* NameOf[o]: the namespace/name of o
  MaxVer,     \* bound: versions a shard gives one object
  Visible,    \* Visible[v]: generation, labels and spec of version v
  MaxFaults,  \* bound: failures, disconnections and restarts in a behaviour
  ReadsCache, \* whether the source client answers a Get from the informer
  Mapped,     \* whether the static REST mapper knows the resource type
  None

ASSUME ConstantsAssumption ==
  /\ Agents \subseteq Servers
  /\ Home \in [Shards -> Servers]
  /\ ShardOf \in [Objs -> Shards]
  /\ NameOf \in [Objs -> Names]
  /\ MaxVer \in Nat \ {0}
  /\ MaxFaults \in Nat
  /\ ReadsCache \in BOOLEAN
  /\ Mapped \in BOOLEAN
  /\ DOMAIN Visible = 1..MaxVer
  /\ None \notin [obj : Objs, ver : 1..MaxVer]
  /\ None \notin Servers \X Names
  /\ None \notin [to : Servers, obj : Objs, ver : 0..MaxVer, base : 0..MaxVer]

VARIABLES
  db,          \* db[c][o]: version of o stored on server c
  last,        \* last[o]: newest version o's shard has given it
  running,     \* running[a]: a's controller has synced its source informer
  auth,        \* auth[a]: Registry.shardSet
  engaged,     \* engaged[a]: peers a has a client, a watch and a map entry for
  srcEvents,   \* srcEvents[a]: objects whose change has not reached a's informer
  store,       \* store[a][n]: what a's informer holds under n
  notif,       \* notif[a]: objects in the informer whose handler has not run
  peerEvents,  \* peerEvents[a][p]: objects of p whose event a has not handled
  queue,       \* queue[a]: <<peer, name>> requests waiting in the workqueue
  work,        \* work[a]: the Reconcile call in progress
  late,        \* writes given up by their sender that may still reach a server
  asked,       \* ghost. asked[a]: requests enqueued since an event for that
               \* peer and name was last dropped
  faults       \* failures so far

agentVars == <<running, auth, engaged, store, notif, queue, work, asked>>
vars == <<db, last, running, auth, engaged, srcEvents, store, notif,
          peerEvents, queue, work, late, asked, faults>>

-----------------------------------------------------------------------------
(* Types and helpers. *)

Versions == 1..MaxVer
Copies   == [obj : Objs, ver : Versions]
Requests == Servers \X Names

\* ver = 0 is a delete; otherwise base = 0 is a create and base # 0 an update
\* of the version read before.
Writes == [to : Servers, obj : Objs, ver : 0..MaxVer, base : 0..MaxVer]
Steps  == {"idle", "get", "auth", "peer", "write"}
Works  == [pc  : Steps,
           req : Requests \cup {None},
           src : Copies \cup {None},
           wr  : Writes \cup {None}]
Idle   == [pc |-> "idle", req |-> None, src |-> None, wr |-> None]

HomeOf(o)   == Home[ShardOf[o]]
Own(a)      == {o \in Objs : HomeOf(o) = a}
Peers(a)    == Servers \ {a}
Present(c)  == {o \in Objs : db[c][o] # 0}
\* Mutant: the informer keeps a deleted object.
EntryKeepsDeleted(o, v) == [obj |-> o, ver |-> v]

Entry(o, v) == IF v = 0 THEN None ELSE [obj |-> o, ver |-> v]

\* What the informer of a may hold right after a LIST: one entry for each name.
Listed(a, n) ==
  LET held == {o \in Present(a) : NameOf[o] = n}
  IN  IF held = {} THEN {None} ELSE {Entry(o, db[a][o]) : o \in held}

objectsMatch(v, w) == Visible[v] = Visible[w]

TypeOK ==
  /\ db \in [Servers -> [Objs -> 0..MaxVer]]
  /\ last \in [Objs -> 0..MaxVer]
  /\ running \in [Agents -> BOOLEAN]
  /\ auth \in [Agents -> SUBSET Shards]
  /\ engaged \in [Agents -> SUBSET Servers]
  /\ srcEvents \in [Agents -> SUBSET Objs]
  /\ store \in [Agents -> [Names -> Copies \cup {None}]]
  /\ notif \in [Agents -> SUBSET Objs]
  /\ peerEvents \in [Agents -> [Servers -> SUBSET Objs]]
  /\ queue \in [Agents -> SUBSET Requests]
  /\ work \in [Agents -> Works]
  /\ late \subseteq Writes
  /\ asked \in [Agents -> SUBSET Requests]
  /\ faults \in 0..MaxFaults

Init ==
  /\ db = [c \in Servers |-> [o \in Objs |-> 0]]
  /\ last = [o \in Objs |-> 0]
  /\ running = [a \in Agents |-> FALSE]
  /\ auth = [a \in Agents |-> {}]
  /\ engaged = [a \in Agents |-> {}]
  /\ srcEvents = [a \in Agents |-> {}]
  /\ store = [a \in Agents |-> [n \in Names |-> None]]
  /\ notif = [a \in Agents |-> {}]
  /\ peerEvents = [a \in Agents |-> [p \in Servers |-> {}]]
  /\ queue = [a \in Agents |-> {}]
  /\ work = [a \in Agents |-> Idle]
  /\ late = {}
  /\ asked = [a \in Agents |-> {}]
  /\ faults = 0

-----------------------------------------------------------------------------
(* The cache-servers. *)

\* Server c stores version v of o; every informer that watches c has an event
\* to deliver.
Put(c, o, v) ==
  /\ db' = [db EXCEPT ![c][o] = v]
  /\ srcEvents' = [a \in Agents |->
       IF a = c /\ running[a] THEN srcEvents[a] \cup {o} ELSE srcEvents[a]]
  /\ peerEvents' = [a \in Agents |-> [p \in Servers |->
       IF p = c /\ p \in engaged[a]
         THEN peerEvents[a][p] \cup {o} ELSE peerEvents[a][p]]]

\* Mutant: an Update carries no resourceVersion and replaces whatever is there.
AcceptsAnyUpdate(w) == w.ver = 0 \/ w.base # 0 \/ db[w.to][w.obj] = 0

\* Create wants the name free, Update carries the resourceVersion it read,
\* Delete carries no precondition.
Accepts(w) == w.ver = 0 \/ db[w.to][w.obj] = w.base

Apply(w) ==
  IF Accepts(w) /\ db[w.to][w.obj] # w.ver
    THEN Put(w.to, w.obj, w.ver)
    ELSE UNCHANGED <<db, srcEvents, peerEvents>>

\* A shard pushes a new version of its object to its own cache-server.
ShardWrite(o) ==
  /\ last[o] < MaxVer
  /\ last' = [last EXCEPT ![o] = @ + 1]
  /\ Put(HomeOf(o), o, last[o] + 1)
  /\ UNCHANGED <<agentVars, late, faults>>

ShardDelete(o) ==
  /\ db[HomeOf(o)][o] # 0
  /\ Put(HomeOf(o), o, 0)
  /\ UNCHANGED <<last, agentVars, late, faults>>

Fault == faults < MaxFaults /\ faults' = faults + 1

\* A peer loses an object it was given (a cache-server keeps no other copy).
PeerLoses(c, o) ==
  /\ Fault
  /\ c # HomeOf(o) /\ db[c][o] # 0
  /\ Put(c, o, 0)
  /\ UNCHANGED <<last, agentVars, late>>

\* A write its sender has given up reaches its server after all, or never.
LateArrives(w) ==
  /\ w \in late
  /\ late' = late \ {w}
  /\ Apply(w)
  /\ UNCHANGED <<last, agentVars, faults>>

LateVanishes(w) ==
  /\ w \in late
  /\ late' = late \ {w}
  /\ UNCHANGED <<db, last, srcEvents, peerEvents, agentVars, faults>>

-----------------------------------------------------------------------------
(* What the controller is told: authority, peers, events. *)

\* Registry.add and Registry.remove.
RegistryAdd(a, s) ==
  /\ Home[s] = a /\ s \notin auth[a]
  /\ auth' = [auth EXCEPT ![a] = @ \cup {s}]
  /\ UNCHANGED <<db, last, running, engaged, srcEvents, store, notif,
                 peerEvents, queue, work, late, asked, faults>>

RegistryRemove(a, s) ==
  /\ Fault
  /\ s \in auth[a]
  /\ auth' = [auth EXCEPT ![a] = @ \ {s}]
  /\ UNCHANGED <<db, last, running, engaged, srcEvents, store, notif,
                 peerEvents, queue, work, late, asked>>

\* The controller starts its workers once the source informer has listed: the
\* store is complete, the handlers run later.  The source's watch needs the
\* mapper main gives the manager (Shard, Cache and CustomResourceDefinition):
\* for a type it does not know the informer never lists and ctrl.Start fails.
Start(a) ==
  /\ Mapped
  /\ ~running[a]
  /\ running' = [running EXCEPT ![a] = TRUE]
  /\ \E list \in [Names -> Copies \cup {None}] :
       /\ \A n \in Names : list[n] \in Listed(a, n)
       /\ store' = [store EXCEPT ![a] = list]
  /\ notif' = [notif EXCEPT ![a] = Present(a)]
  /\ UNCHANGED <<db, last, auth, engaged, srcEvents, peerEvents, queue, work,
                 late, asked, faults>>

\* The peer's informer lists what the peer has: that is all it reports.
Engage(a, p) ==
  /\ running[a]
  /\ p \in Peers(a) \ engaged[a]
  /\ engaged' = [engaged EXCEPT ![a] = @ \cup {p}]
  /\ peerEvents' = [peerEvents EXCEPT ![a][p] = Present(p)]
  /\ asked' = [asked EXCEPT ![a] = @ \ ({p} \X Names)]
  /\ UNCHANGED <<db, last, running, auth, srcEvents, store, notif, queue,
                 work, late, faults>>

Disengage(a, p) ==
  /\ Fault
  /\ p \in engaged[a]
  /\ engaged' = [engaged EXCEPT ![a] = @ \ {p}]
  /\ peerEvents' = [peerEvents EXCEPT ![a][p] = {}]
  /\ UNCHANGED <<db, last, running, auth, srcEvents, store, notif, queue,
                 work, late, asked>>

\* The source informer takes over the current state of o under its name.
WatchSource(a, o) ==
  /\ o \in srcEvents[a]
  /\ srcEvents' = [srcEvents EXCEPT ![a] = @ \ {o}]
  /\ store' = [store EXCEPT ![a][NameOf[o]] = Entry(o, db[a][o])]
  /\ notif' = [notif EXCEPT ![a] = @ \cup {o}]
  /\ UNCHANGED <<db, last, running, auth, engaged, peerEvents, queue, work,
                 late, asked, faults>>

\* Mutant: every shard counts as authoritative.
IsAuthoritativeAlways(a, s) == TRUE

IsAuthoritative(a, s) == s \in auth[a]

\* Mutant: a name that is being processed is not enqueued again.
HandleSourceSkipsBusy(a, o) ==
  LET told == IF IsAuthoritative(a, ShardOf[o]) THEN engaged[a] ELSE {}
      reqs == told \X {NameOf[o]}
  IN
  /\ o \in notif[a]
  /\ notif' = [notif EXCEPT ![a] = @ \ {o}]
  /\ queue' = [queue EXCEPT ![a] = @ \cup (reqs \ {work[a].req})]
  /\ asked' = [asked EXCEPT
       ![a] = (@ \ ((Servers \ told) \X {NameOf[o]})) \cup reqs]
  /\ UNCHANGED <<db, last, running, auth, engaged, srcEvents, store,
                 peerEvents, work, late, faults>>

\* The source handler: the authoritativeShard predicate, then one request for
\* each peer engaged at this moment.  No request is made for the others.
HandleSource(a, o) ==
  LET told == IF IsAuthoritative(a, ShardOf[o]) THEN engaged[a] ELSE {}
      reqs == told \X {NameOf[o]}
  IN
  /\ o \in notif[a]
  /\ notif' = [notif EXCEPT ![a] = @ \ {o}]
  /\ queue' = [queue EXCEPT ![a] = @ \cup reqs]
  /\ asked' = [asked EXCEPT
       ![a] = (@ \ ((Servers \ told) \X {NameOf[o]})) \cup reqs]
  /\ UNCHANGED <<db, last, running, auth, engaged, srcEvents, store,
                 peerEvents, work, late, faults>>

\* The peer handler enqueues the object's name, whatever its shard.
HandlePeer(a, p, o) ==
  /\ o \in peerEvents[a][p]
  /\ peerEvents' = [peerEvents EXCEPT ![a][p] = @ \ {o}]
  /\ queue' = [queue EXCEPT ![a] = @ \cup {<<p, NameOf[o]>>}]
  /\ asked' = [asked EXCEPT ![a] = @ \cup {<<p, NameOf[o]>>}]
  /\ UNCHANGED <<db, last, running, auth, engaged, srcEvents, store, notif,
                 work, late, faults>>

\* The informers' periodic resync runs the handlers again for what they hold.
ResyncSource(a, n) ==
  /\ running[a]
  /\ store[a][n] # None
  /\ store[a][n].obj \notin notif[a]
  /\ notif' = [notif EXCEPT ![a] = @ \cup {store[a][n].obj}]
  /\ UNCHANGED <<db, last, running, auth, engaged, srcEvents, store,
                 peerEvents, queue, work, late, asked, faults>>

ResyncPeer(a, p, o) ==
  /\ p \in engaged[a]
  /\ o \in Present(p) \ peerEvents[a][p]
  /\ peerEvents' = [peerEvents EXCEPT ![a][p] = @ \cup {o}]
  /\ UNCHANGED <<db, last, running, auth, engaged, srcEvents, store, notif,
                 queue, work, late, asked, faults>>

-----------------------------------------------------------------------------
(* Reconcile, one action for each read or write of shared state. *)

\* The worker takes a request and finds the peer's client.  With the peer gone
\* GetCluster fails and the request goes back to the queue unchanged.
Take(a, r) ==
  /\ work[a].pc = "idle"
  /\ running[a] /\ r \in queue[a] /\ r[1] \in engaged[a]
  /\ queue' = [queue EXCEPT ![a] = @ \ {r}]
  /\ work' = [work EXCEPT ![a] = [Idle EXCEPT !.pc = "get", !.req = r]]
  /\ UNCHANGED <<db, last, running, auth, engaged, srcEvents, store, notif,
                 peerEvents, late, asked, faults>>

\* Return nil, or return an error so that the request is retried.
Done(a)    == /\ work' = [work EXCEPT ![a] = Idle]
              /\ UNCHANGED queue

\* Mutant: an error is logged and nil returned.
RequeueNever(a) == Done(a)

Requeue(a) == /\ work' = [work EXCEPT ![a] = Idle]
              /\ queue' = [queue EXCEPT ![a] = @ \cup {work[a].req}]

\* What the source Get may find.  Reconcile's comment says the in-memory cache;
\* the client it is given reads unstructured objects from the server unless its
\* options say otherwise.
SourceCandidates(a, n) == IF ReadsCache THEN {store[a][n]} ELSE Listed(a, n)

ReadSource(a) ==
  /\ work[a].pc = "get"
  /\ \E obj \in SourceCandidates(a, work[a].req[2]) :
       work' = [work EXCEPT
         ![a].pc = IF obj = None THEN "peer" ELSE "auth", ![a].src = obj]
  /\ UNCHANGED <<db, last, running, auth, engaged, srcEvents, store, notif,
                 peerEvents, queue, late, asked, faults>>

CheckAuth(a) ==
  /\ work[a].pc = "auth"
  /\ IF IsAuthoritative(a, ShardOf[work[a].src.obj])
       THEN /\ work' = [work EXCEPT ![a].pc = "peer"]
            /\ UNCHANGED <<queue, asked>>
       ELSE /\ Done(a)
            /\ asked' = [asked EXCEPT ![a] = @ \ {work[a].req}]
  /\ UNCHANGED <<db, last, running, auth, engaged, srcEvents, store, notif,
                 peerEvents, late, faults>>

\* Mutant: the update is sent without the resourceVersion that was read.
DecideNoVersion(src, p, o, v) ==
  CASE src = None /\ v # 0 -> [to |-> p, obj |-> o, ver |-> 0, base |-> v]
    [] src # None /\ (v = 0 \/ ~objectsMatch(src.ver, v))
         -> [to |-> p, obj |-> o, ver |-> src.ver, base |-> 0]
    [] OTHER -> None

\* Mutant: an object the source does not have is ignored (IgnoreNotFound).
DecideIgnoreNotFound(src, p, o, v) ==
  IF src # None /\ (v = 0 \/ ~objectsMatch(src.ver, v))
    THEN [to |-> p, obj |-> o, ver |-> src.ver, base |-> v]
    ELSE None

\* The write Reconcile decides on, given the source object and the version v
\* of object o it read from the peer p; None when nothing is to be done.
Decide(src, p, o, v) ==
  CASE src = None /\ v # 0 -> [to |-> p, obj |-> o, ver |-> 0, base |-> v]
    [] src # None /\ v = 0 -> [to |-> p, obj |-> o, ver |-> src.ver, base |-> 0]
    [] src # None /\ v # 0 /\ ~objectsMatch(src.ver, v)
         -> [to |-> p, obj |-> o, ver |-> src.ver, base |-> v]
    [] OTHER -> None

\* What the peer Get may be about.  With a source object its shard routes the
\* read, without one it goes to every shard; it never names a cluster, so any
\* object of that name there may answer.
PeerCandidates(src, p, n) ==
  LET found == {o \in Present(p) :
                  NameOf[o] = n /\ (src = None \/ ShardOf[o] = ShardOf[src.obj])}
  IN  IF found # {} THEN found
      ELSE IF src = None THEN {o \in Objs : NameOf[o] = n} ELSE {src.obj}

\* An object of another cluster may have answered for the source's: it looks
\* the same, or the Update with its resourceVersion is refused.
ReadPeer(a) ==
  LET p   == work[a].req[1]
      src == work[a].src
  IN
  /\ work[a].pc = "peer"
  /\ \E o \in PeerCandidates(src, p, work[a].req[2]) :
       LET w == Decide(src, p, o, db[p][o]) IN
       IF src # None /\ o # src.obj
         THEN Done(a) \/ Requeue(a)
         ELSE IF w = None
           THEN Done(a)
           ELSE /\ work' = [work EXCEPT ![a].pc = "write", ![a].wr = w]
                /\ UNCHANGED queue
  /\ UNCHANGED <<db, last, running, auth, engaged, srcEvents, store, notif,
                 peerEvents, late, asked, faults>>

\* The server answers: NotFound on a delete is ignored, AlreadyExists and
\* Conflict are errors.
Write(a) ==
  /\ work[a].pc = "write"
  /\ Apply(work[a].wr)
  /\ IF Accepts(work[a].wr) THEN Done(a) ELSE Requeue(a)
  /\ UNCHANGED <<last, running, auth, engaged, store, notif, late, asked,
                 faults>>

\* Mutant: any error of the source read counts as "not found".
ReadFailsAsNotFound(a) ==
  /\ Fault
  /\ work[a].pc = "get"
  /\ work' = [work EXCEPT ![a].pc = "peer"]
  /\ UNCHANGED <<db, last, running, auth, engaged, srcEvents, store, notif,
                 peerEvents, queue, late, asked>>

\* A read fails, or a write times out and may still arrive.
ReadFails(a) ==
  /\ Fault
  /\ work[a].pc \in {"get", "peer"}
  /\ Requeue(a)
  /\ UNCHANGED <<db, last, running, auth, engaged, srcEvents, store, notif,
                 peerEvents, late, asked>>

WriteTimesOut(a) ==
  /\ Fault
  /\ work[a].pc = "write"
  /\ late' = late \cup {work[a].wr}
  /\ Requeue(a)
  /\ UNCHANGED <<db, last, running, auth, engaged, srcEvents, store, notif,
                 peerEvents, asked>>

\* The agent dies with everything it holds in memory; a write under way may
\* still arrive.
Crash(a) ==
  /\ Fault
  /\ running[a]
  /\ running' = [running EXCEPT ![a] = FALSE]
  /\ auth' = [auth EXCEPT ![a] = {}]
  /\ engaged' = [engaged EXCEPT ![a] = {}]
  /\ srcEvents' = [srcEvents EXCEPT ![a] = {}]
  /\ store' = [store EXCEPT ![a] = [n \in Names |-> None]]
  /\ notif' = [notif EXCEPT ![a] = {}]
  /\ peerEvents' = [peerEvents EXCEPT ![a] = [p \in Servers |-> {}]]
  /\ queue' = [queue EXCEPT ![a] = {}]
  /\ work' = [work EXCEPT ![a] = Idle]
  /\ late' = IF work[a].pc = "write" THEN late \cup {work[a].wr} ELSE late
  /\ asked' = [asked EXCEPT ![a] = {}]
  /\ UNCHANGED <<db, last>>

-----------------------------------------------------------------------------
(* The specification. *)

ServerNext ==
  \/ \E o \in Objs : ShardWrite(o) \/ ShardDelete(o)
  \/ \E c \in Servers, o \in Objs : PeerLoses(c, o)
  \/ \E w \in late : LateArrives(w) \/ LateVanishes(w)

InformNext(a) ==
  \/ \E s \in Shards : RegistryAdd(a, s) \/ RegistryRemove(a, s)
  \/ Start(a)
  \/ \E p \in Servers : Engage(a, p) \/ Disengage(a, p)
  \/ \E o \in Objs : WatchSource(a, o) \/ HandleSource(a, o)
  \/ \E p \in Servers, o \in Objs : HandlePeer(a, p, o) \/ ResyncPeer(a, p, o)
  \/ \E n \in Names : ResyncSource(a, n)

ReconcileNext(a) ==
  \/ \E r \in Requests : Take(a, r)
  \/ ReadSource(a) \/ CheckAuth(a) \/ ReadPeer(a) \/ Write(a)
  \/ ReadFails(a) \/ WriteTimesOut(a)
  \/ Crash(a)

Next == ServerNext \/ \E a \in Agents : InformNext(a) \/ ReconcileNext(a)

Spec == Init /\ [][Next]_vars

\* What the runtime schedules: the registry and the provider learn what the
\* source holds, informers deliver and resync, the worker runs.  The workqueue
\* is served in order, so no request waits for ever behind the others.
Fairness ==
  \A a \in Agents :
    /\ WF_vars(Start(a))
    /\ \A s \in Shards : WF_vars(RegistryAdd(a, s))
    /\ \A p \in Servers : WF_vars(Engage(a, p))
    /\ \A o \in Objs : WF_vars(WatchSource(a, o)) /\ WF_vars(HandleSource(a, o))
    /\ \A p \in Servers, o \in Objs : WF_vars(HandlePeer(a, p, o))
    /\ \A n \in Names : WF_vars(ResyncSource(a, n))
    /\ \A p \in Servers, o \in Objs : WF_vars(ResyncPeer(a, p, o))
    /\ \A r \in Requests : SF_vars(Take(a, r))
    /\ WF_vars(ReadSource(a) \/ CheckAuth(a) \/ ReadPeer(a) \/ Write(a))

FairSpec == Spec /\ Fairness

-----------------------------------------------------------------------------
(* Properties. *)

\* The peer's copy is what Reconcile wants it to be for the source's object.
Settled(a, p, o) ==
  IF db[a][o] = 0 THEN db[p][o] = 0
  ELSE db[p][o] # 0 /\ objectsMatch(db[a][o], db[p][o])

\* Something still to be delivered or processed will look at o on peer p.
Pending(a, p, o) ==
  \/ o \in srcEvents[a] \/ o \in notif[a] \/ o \in peerEvents[a][p]
  \/ <<p, NameOf[o]>> \in queue[a]
  \/ work[a].pc # "idle" /\ work[a].req = <<p, NameOf[o]>>

\* No lost work: once a request for a peer and a name has been enqueued, and
\* as long as no event for the pair has been dropped since, a copy that
\* diverges from the source always has an event, a request or a Reconcile
\* call outstanding that will see it.  (The retry paths, the dirty set of the
\* workqueue and the order "store before handler" together give this.)
NoLostWork ==
  \A a \in Agents : \A p \in engaged[a], o \in Own(a) :
    <<p, NameOf[o]>> \in asked[a] => Settled(a, p, o) \/ Pending(a, p, o)

\* An agent creates and updates copies of its own shards' objects only, so
\* that no write of a copy, in progress or delayed, can ever hit the server
\* the object comes from and no two agents write the same copy (isAuthoritative
\* in Reconcile and Registry.add).
CopiesOwnOnly ==
  /\ \A a \in Agents : LET w == work[a].wr IN
       w # None /\ w.ver # 0 => HomeOf(w.obj) = a /\ w.to # a
  /\ \A w \in late : w.ver # 0 => HomeOf(w.obj) # w.to

\* A copy is never replaced by an older version, whatever writes were given up
\* and arrive late (SetResourceVersion in Reconcile, a Create that needs the
\* name free).
NoRollback ==
  [][\A c \in Servers, o \in Objs :
       db[c][o] # 0 /\ db'[c][o] # 0 => db'[c][o] >= db[c][o]]_vars

\* Reconcile never itself deletes a peer's copy that is up to date with an
\* object its source still has (the wait for the source informer before
\* workers start, and errors of the source read returned before the
\* sourceNotFound branch).
NoSpuriousDelete ==
  [][\A a \in Agents : \A p \in Servers, o \in Own(a) :
       Write(a) /\ db[p][o] # 0 /\ db'[p][o] = 0 => db[p][o] # db[a][o]]_vars

\* All of this implements a mirror of what the shards publish: informers, queue,
\* retries, crashes and delayed writes never show a reader of a cache-server
\* anything but a version its shard published, one object at a time, and never an
\* older one in the place of a newer one (Reconcile, controller.go:134).
M == INSTANCE Mirror WITH Origin <- [o \in Objs |-> HomeOf(o)]
ImplementsMirror == M!Spec

\* Every copy of an own object ends up equal, for objectsMatch, to the source's
\* object on every peer: the eventual consistency the data sync plan gives as
\* the correctness guarantee (plan-data-sync-mechanism.md:115), for a resource
\* type the static mapper knows (main.go:144): of another nothing is copied.
Converges ==
  \A a \in Agents, p \in Servers, o \in Objs :
    HomeOf(o) = a /\ p # a => <>[]Settled(a, p, o)

\* plan-data-sync-mechanism.md:83: the initial LIST of a new peer's informer
\* is the initial reconciliation, no separate step is needed.  So with nothing
\* outstanding an engaged peer is in step with the source.
InitialReconciliation ==
  \A a \in Agents : \A p \in engaged[a], o \in Own(a) :
    ShardOf[o] \in auth[a] => Settled(a, p, o) \/ Pending(a, p, o)

\* plan-data-sync-mechanism.md:81: an object that is absent from the peer and
\* present on the source is created, so with nothing outstanding the peer has
\* a copy of it.
AbsentIsCreated ==
  \A a \in Agents : \A p \in engaged[a], o \in Own(a) :
    <<p, NameOf[o]>> \in asked[a] /\ db[a][o] # 0 =>
      db[p][o] # 0 \/ Pending(a, p, o)
=============================================================================
