--------------------------- MODULE ShardRegistry ---------------------------
(***************************************************************************)
(* Which shards an agent counts as its own: the shard-tracker controller   *)
(* (internal/controller/authoritativeshardregistry/controller.go) of one   *)
(* agent, against the Shard objects of its source cache-server.            *)
(*                                                                         *)
(* A Shard object is known by its cluster and name; the informer's store,  *)
(* the workqueue and the set know it by its name only.  The content of a   *)
(* Shard object is its kcp.io/cache annotation.                            *)
(***************************************************************************)
EXTENDS Naturals

CONSTANTS
  Clusters,           \* logical clusters on the source
  systemShardCluster, \* the one whose Shard objects count
  Names,              \* names of Shard objects
  Ids,                \* <<cluster, name>>: the Shard objects there may be
  Caches,             \* values of the annotation, and one for "not annotated"
  ownName,            \* the name of the agent's cache-server
  Absent,             \* no object
  MaxChanges,         \* bound: writes of Shard objects
  MaxFaults,          \* bound: failed reads, disconnections and restarts
  None

ASSUME ConstantsAssumption ==
  /\ Ids \subseteq Clusters \X Names
  /\ ownName \in Caches /\ Absent \notin Caches
  /\ None \notin [id : Ids, cache : Caches] /\ None \notin Names
  /\ MaxChanges \in Nat /\ MaxFaults \in Nat

VARIABLES
  shards,   \* shards[i]: the annotation of Shard object i on the source
  watching, \* the informer has listed and its watch is up
  events,   \* objects whose change has not reached the informer
  store,    \* store[n]: what the informer holds under n
  queue,    \* names with a notification under way or a request waiting
  worker,   \* the Reconcile call in progress: [pc, name, shard]
  shardSet, \* Registry.shardSet
  shadowed, \* ghost: names under which the informer has last taken over the
            \* state of an object of another cluster than systemShardCluster
  changes,  \* writes so far
  faults    \* failures so far

vars == <<shards, watching, events, store, queue, worker, shardSet, shadowed,
          changes, faults>>

Entries == [id : Ids, cache : Caches]
Workers == [pc    : {"idle", "get", "update"},
            name  : Names \cup {None},
            shard : Entries \cup {None}]
Idle    == [pc |-> "idle", name |-> None, shard |-> None]

TypeOK ==
  /\ shards \in [Ids -> Caches \cup {Absent}]
  /\ watching \in BOOLEAN
  /\ events \subseteq Ids
  /\ store \in [Names -> Entries \cup {None}]
  /\ queue \subseteq Names
  /\ worker \in Workers
  /\ shardSet \subseteq Names
  /\ shadowed \subseteq Names
  /\ changes \in 0..MaxChanges
  /\ faults \in 0..MaxFaults

Init ==
  /\ shards \in [Ids -> Caches \cup {Absent}]
  /\ watching = FALSE
  /\ events = {}
  /\ store = [n \in Names |-> None]
  /\ queue = {}
  /\ worker = Idle
  /\ shardSet = {}
  /\ shadowed = {}
  /\ changes = 0
  /\ faults = 0

Fault == faults < MaxFaults /\ faults' = faults + 1

\* Mutant: an object that is gone stays in the informer, marked deleted.
EntryTombstone(i, c) == [id |-> i, cache |-> c]

\* What the informer holds for object i when its annotation is c.
Entry(i, c) == IF c = Absent THEN None ELSE [id |-> i, cache |-> c]

-----------------------------------------------------------------------------
(* The source and the informer. *)

\* A Shard object is created, annotated otherwise, or deleted.
Change(i, c) ==
  /\ changes < MaxChanges /\ changes' = changes + 1
  /\ shards[i] # c
  /\ shards' = [shards EXCEPT ![i] = c]
  /\ events' = IF watching THEN events \cup {i} ELSE events
  /\ UNCHANGED <<watching, store, queue, worker, shardSet, shadowed, faults>>

\* Mutant: deletions of Shard objects pass no event.
NotifyNoDelete(i, c) ==
  IF i[1] = systemShardCluster /\ c # Absent THEN {i[2]} ELSE {}

\* The predicate inSystemShard, and the request made of an event that passes.
Notify(i, c) == IF i[1] = systemShardCluster THEN {i[2]} ELSE {}

\* An event reaches the informer: the store first, then the handlers.  The
\* deletion of an object under whose name nothing is held is no event.
Watch(i) ==
  LET nothing == shards[i] = Absent /\ store[i[2]] = None IN
  /\ i \in events
  /\ events' = events \ {i}
  /\ store' = [store EXCEPT ![i[2]] = Entry(i, shards[i])]
  /\ queue' = IF nothing THEN queue ELSE queue \cup Notify(i, shards[i])
  /\ shadowed' = IF nothing THEN shadowed
                 ELSE IF i[1] = systemShardCluster THEN shadowed \ {i[2]}
                 ELSE shadowed \cup {i[2]}
  /\ UNCHANGED <<shards, watching, worker, shardSet, changes, faults>>

\* The first LIST, or the one after a disconnection: what is there is reported,
\* and so is each name that is no longer there, with the object last held.
List ==
  LET present == {i \in Ids : shards[i] # Absent}
      held(n) == {i \in present : i[2] = n}
      gone(n) == held(n) = {} /\ store[n] # None
  IN
  /\ ~watching
  /\ watching' = TRUE
  /\ \E list \in [Names -> Entries \cup {None}] :
       /\ \A n \in Names :
            IF held(n) = {} THEN list[n] = None
            ELSE \E i \in held(n) : list[n] = Entry(i, shards[i])
       /\ store' = list
       /\ shadowed' = {n \in Names :
            IF list[n] = None THEN n \in shadowed
            ELSE list[n].id[1] # systemShardCluster}
  /\ queue' = queue \cup {n \in Names :
       \/ \E i \in held(n) : n \in Notify(i, shards[i])
       \/ gone(n) /\ n \in Notify(store[n].id, Absent)}
  /\ UNCHANGED <<shards, events, worker, shardSet, changes, faults>>

\* The informer's periodic resync reports what it holds.
Resync(n) ==
  /\ store[n] # None
  /\ queue' = queue \cup Notify(store[n].id, store[n].cache)
  /\ UNCHANGED <<shards, watching, events, store, worker, shardSet, shadowed,
                 changes, faults>>

\* The watch breaks: events are lost until the next LIST.
Disconnect ==
  /\ Fault
  /\ watching
  /\ watching' = FALSE
  /\ events' = {}
  /\ UNCHANGED <<shards, store, queue, worker, shardSet, shadowed, changes>>

-----------------------------------------------------------------------------
(* Reconcile: one worker. *)

Take(n) ==
  /\ worker.pc = "idle"
  /\ n \in queue
  /\ queue' = queue \ {n}
  /\ worker' = [pc |-> "get", name |-> n, shard |-> None]
  /\ UNCHANGED <<shards, watching, events, store, shardSet, shadowed, changes,
                 faults>>

\* t.client.Get, from the informer: by name, whatever the object's cluster.
Get ==
  /\ worker.pc = "get"
  /\ worker' = [worker EXCEPT !.pc = "update", !.shard = store[worker.name]]
  /\ UNCHANGED <<shards, watching, events, store, queue, shardSet, shadowed,
                 changes, faults>>

\* Mutant: an error is not returned, so that nothing is retried.
GetFailsForgets ==
  /\ Fault
  /\ worker.pc = "get"
  /\ worker' = Idle
  /\ UNCHANGED <<shards, watching, events, store, queue, shardSet, shadowed,
                 changes>>

\* Mutant: any error is taken for NotFound.
GetFailsRemoves ==
  /\ Fault
  /\ worker.pc = "get"
  /\ shardSet' = shardSet \ {worker.name}
  /\ queue' = queue \cup {worker.name}
  /\ worker' = Idle
  /\ UNCHANGED <<shards, watching, events, store, shadowed, changes>>

\* Any error but NotFound is returned, and the request retried.
GetFails ==
  /\ Fault
  /\ worker.pc = "get"
  /\ queue' = queue \cup {worker.name}
  /\ worker' = Idle
  /\ UNCHANGED <<shards, watching, events, store, shardSet, shadowed, changes>>

add(n)    == shardSet' = shardSet \cup {n}
remove(n) == shardSet' = shardSet \ {n}

NamesUs(e) == e # None /\ e.cache = ownName

\* The set follows what was read: NotFound and another server's name remove.
Update ==
  /\ worker.pc = "update"
  /\ IF NamesUs(worker.shard) THEN add(worker.name) ELSE remove(worker.name)
  /\ worker' = Idle
  /\ UNCHANGED <<shards, watching, events, store, queue, shadowed, changes,
                 faults>>

\* The agent restarts with an empty set and an empty informer.
Restart ==
  /\ Fault
  /\ watching' = FALSE
  /\ events' = {}
  /\ store' = [n \in Names |-> None]
  /\ queue' = {}
  /\ worker' = Idle
  /\ shardSet' = {}
  /\ shadowed' = {}
  /\ UNCHANGED <<shards, changes>>

IsAuthoritative(n) == n \in shardSet

-----------------------------------------------------------------------------
(* The specification. *)

Next ==
  \/ \E i \in Ids, c \in Caches \cup {Absent} : Change(i, c)
  \/ \E i \in Ids : Watch(i)
  \/ List \/ Disconnect
  \/ \E n \in Names : Resync(n) \/ Take(n)
  \/ Get \/ GetFails \/ Update \/ Restart

Spec == Init /\ [][Next]_vars

\* The informer lists, and delivers; the worker serves its queue in order.
Fairness ==
  /\ WF_vars(List)
  /\ \A i \in Ids : WF_vars(Watch(i))
  /\ \A n \in Names : SF_vars(Take(n))
  /\ WF_vars(Get) /\ WF_vars(Update)

FairSpec == Spec /\ Fairness

-----------------------------------------------------------------------------
(* Properties. *)

\* Whether the source says that shard n is connected to this cache-server.
Own(n) ==
  <<systemShardCluster, n>> \in Ids /\ shards[<<systemShardCluster, n>>] = ownName

\* Nothing under way concerns the name n.
Quiet(n) ==
  /\ watching /\ n \notin queue /\ worker.name # n
  /\ \A i \in events : i[2] # n

\* The last word of the informer on the name n is not about another cluster's
\* object of that name.
Unshadowed(n) == <<systemShardCluster, n>> \in Ids => n \notin shadowed

\* The set is never wrong for good: a shard whose name nothing is under way for
\* is in the set if and only if its object in system:shard names this server,
\* through deletions seen only by a new LIST, failed reads and restarts.  Objects
\* of other clusters are not ignored for that, as the comment on the predicate
\* has it (controller.go:73): Reconcile reads by name, and while the last word of
\* the informer on a name is about one of them, nothing is promised for the name.
\* What they never do is put a name into the set that system:shard never had, nor
\* leave anything behind once an event of the shard's own object has come in.
SetIsRight ==
  \A n \in Names :
    Quiet(n) /\ Unshadowed(n) => (IsAuthoritative(n) <=> Own(n))

\* The agent has acted on what the source has under the name n, and no Reconcile
\* call has read anything else: whether or not the watch is up.
Settled(n) ==
  /\ store[n] = Entry(<<systemShardCluster, n>>, shards[<<systemShardCluster, n>>])
  /\ worker.name = n /\ worker.pc = "update" => worker.shard = store[n]
  /\ IsAuthoritative(n) <=> Own(n)

\* Authority does not flap: once the agent has acted on a shard's object, the
\* shard stays in the set, or out of it, until the object changes or the agent
\* restarts, or the informer takes over an object of the same name from another
\* cluster.  Failed reads, broken watches, new LISTs, resyncs and requests that
\* were still waiting do not take it away for a moment: in that moment its
\* events would be dropped (replication controller.go:113) and not come back.
AuthorityHeld ==
  [][\A n \in Names :
       /\ <<systemShardCluster, n>> \in Ids
       /\ Settled(n) /\ ~Settled(n)'
       => \/ Restart \/ n \in shadowed'
          \/ shards'[<<systemShardCluster, n>>] # shards[<<systemShardCluster, n>>]]_vars

\* The set ends up right: it follows the Shard objects once they rest, without
\* any resync, unless the informer has last heard of another cluster's object.
SetConverges ==
  \A n \in Names : <>[](Unshadowed(n) => (IsAuthoritative(n) <=> Own(n)))
=============================================================================
