# Verification of kcp-cache-syncagent

TLA+ models, TLC runs and TLAPS proofs of the agent that copies what a kcp cache-server holds to
all other cache-servers. One agent runs for each cache-server, its *source*; the other
cache-servers are its *peers*. File names without a directory are those of `internal/` in the
repository:

| short name | file |
|---|---|
| replication | `internal/controller/resourcereplication/replication/controller.go` |
| crd-manager | `internal/controller/resourcereplication/crd_watching_controller.go` |
| provider | `internal/peerprovider/provider.go` |
| registry | `internal/controller/authoritativeshardregistry/controller.go` |
| client | `internal/client/*.go`, `internal/client/shard/shard.go` |
| plan | `plan-data-sync-mechanism.md` |

## 1. The system

### Components

| component | state | operations | talks to |
|---|---|---|---|
| replication controller, one for each CRD | work queue; informers of the source and of each peer | source handler (predicate, fan-out to the engaged peers), peer handler, `Reconcile` | registry (`IsAuthoritative`), crd-manager (`getPeers`), manager (`GetCluster`), source and peer servers |
| crd-manager | `clusters` under `clustersLock`; `syncEntries` under `syncLock` | `Engage` and its goroutine, `Reconcile`, `ensureReplicationController`, `cleanupController`, the goroutine around `ctrl.Start` | replication controllers (`Engage`, `Start`, cancel), called by provider through the manager |
| provider | `peers` under `mu`, a context for each entry | seeding from the initial peers, the Cache event handlers, `engageCacheObject`, `disengageCacheObject`, `Get` | manager (`Engage`), peers' clusters |
| registry | `shardSet` under `mu` | `Reconcile`, `add`, `remove`, `IsAuthoritative` | source server |
| shared informer of the source | Shard, Cache and CRD objects by name | LIST, watch, handlers | registry, provider, crd-manager |
| client | none (shard in the request's context) | round-trippers that put the shard into the path | every server |
| start-up (`cmd/`) | none | flags, own name, managers | all |

An object reaches a peer like this: the shard pushes it to the source; the source informer stores it
and calls the handler; the handler, if the registry knows the shard, puts one request for each engaged
peer into the work queue; a worker takes the request, reads source, registry and peer, and creates,
updates or deletes the copy. Events of the peer's informer enter the same queue, so that drift is
corrected.

### What is hard here

* `Reconcile` reads three things one after the other (the source, the registry, the peer) and then
  writes; all three may have changed. It relies on `resourceVersion`, on create-if-absent, and on the
  work queue handing a name out again that was enqueued during the call.
* A write can time out or be sent by an agent that dies, and arrive later.
* Deletion is inferred from absence. Absence may mean "deleted", "not listed yet" or "never copied here".
* Requests carry namespace and name, objects live under shard, cluster, namespace and name.
* Cache objects, from which an agent learns of its peers, travel as ordinary replicated data: who a server
  replicates to decides what arrives, and what arrives decides who it replicates to.
* Peers come and go while controllers come and go, under two locks taken in two orders, with goroutines
  that clean up after contexts that ended some time ago.
* Events are fanned out to the peers of the moment, filtered by the registry of the moment.
* A static REST mapper stands in for discovery and knows three kinds; the controllers of all others cannot start.

`PROJECT.json` lists each hazard at its line with the properties that would catch it.

### What makes each component correct

* replication: a copy is only written by the agent of its shard's server; never goes back in time; is not
  deleted while the source has that very version; divergence is never forgotten; in the end the copy is
  the source's object.
* crd-manager and provider: each running controller is engaged with each live peer; each running
  controller and each live context can still be stopped through the maps; no controller outlives its CRD; no two
  callers wait for each other's lock and no call waits for ever; each CRD that is gone ends up without a
  controller, and each that is there with one if the static mapper knows its kind.
* registry: whenever nothing is under way for a shard, it is in the set exactly if its Shard object in
  `system:shard` names this server; what was acted on stays until the object changes; and the set ends up
  right. All of it while the informer's last word on the name is not about another cluster's object.
* provider, as part of a mesh: what the source knows of is engaged, but for what the deletion of one of several
  copies has disengaged; nobody is their own peer; a mesh that
  has come to rest is complete; an agent that is started comes to act on its source, whatever fails in
  seeding.
* client: the path that leaves carries the shard of the context, and nothing else of it changes.
* all replication controllers together: the servers mirror what the shards publish (`Mirror`).

## 2. Modules

| module | what it is |
|---|---|
| `Replication` | the replication controllers of one resource type, of all agents, against the cache-servers |
| `Mirror` | the abstract specification: servers that mirror what shards publish |
| `ReplicationInvariants` | the inductive invariants behind its properties |
| `ReplicationProofs` | proofs of type correctness, ownership, no rollback, no lost work |
| `ReplicationStepProofs` | proofs about its steps: no spurious delete, and that `Replication` implements `Mirror` |
| `MCReplication` | values of the constants for TLC |
| `ObjectsMatch` | the comparison that decides whether a copy is updated, as recursive functions on nested values |
| `Labels` | the part of it that compares labels |
| `ControllerLifecycle` | provider and crd-manager: peers, contexts, controllers, locks |
| `Membership` | the abstract specification: peers join and leave, controllers start and stop, links between them |
| `ControllerLifecycleProofs` | proofs of type correctness, no leaked peer, no orphan controller, no peer missed, no controller that outlives its CRD, no circular wait |
| `ControllerLifecycleRefinementProofs` | proof that `ControllerLifecycle` implements `Membership` |
| `MCControllerLifecycle` | its module for TLC |
| `ShardRegistry` | the registry of one agent against the Shard objects of its source |
| `ShardRegistryProofs` | proofs that the set is right and does not flap |
| `MCShardRegistry` | values of the constants for TLC |
| `PeerDiscovery` | the agents of a mesh finding each other: start, seeding, Cache handlers, replicated Cache objects |
| `PeerDiscoveryProofs` | proofs that what the source knows of is engaged, and that two servers at rest are a full mesh |
| `MCPeerDiscovery` | values of the constants for TLC |
| `ShardPath` | the shard of a request in its URL path, as a pure function |
| `Algorithms` | what `ShardPath` and `ObjectsMatch` promise, of any request and any pair of objects |
| `Recursion` | the theorem that a recursive function satisfies its equation |
| `AlgorithmsProofs` | proofs about `Algorithms` |
| `MCAlgorithms` | inputs for TLC |

`Replication` takes the outcome of the other three for granted: its `Engage` and `Disengage` are what
`ControllerLifecycle` and `PeerDiscovery` are about, its `RegistryAdd` and `RegistryRemove` what
`ShardRegistry` is about. `PeerDiscovery` in turn has each `Reconcile` as one step.

Operators whose names say what went wrong (`RequeueNever`, `EngageFailsNoCancel`, ...) are *mutants*: a
variant of the definition right after them with a plausible mistake. Nothing uses them; putting one in
the place of its definition makes the property break that it is listed with in `PROJECT.json`, which
shows that the property depends on that code.

### Replication

| state | in the code |
|---|---|
| `db[c][o]` | what cache-server `c` stores under the identity `o` (external) |
| `last[o]` | the newest version the shard has made (external) |
| `running[a]` | the controller's source informer has synced, the workers run |
| `auth[a]` | `Registry.shardSet` |
| `engaged[a]` | peers in `Provider.peers` and `Reconciler.clusters`; `GetCluster` finds their client |
| `srcEvents[a]`, `store[a]`, `notif[a]` | the source informer: changes on their way, its store by namespace/name, handlers still to run |
| `peerEvents[a][p]` | the same for the informer of peer `p`, whose store `Reconcile` does not use |
| `queue[a]` | the work queue, a set because it drops duplicates |
| `work[a]` | locals of the `Reconcile` call in progress (one worker for each controller) |
| `late` | writes whose sender gave up and that may still reach their server |
| `asked` | ghost: pairs of peer and name that were enqueued since an event for them was last dropped |

`Take`, `ReadSource`, `CheckAuth`, `ReadPeer` and `Write` are `Reconcile`, cut where it reads or writes
something that others change. `ReadFails`, `WriteTimesOut` and `Crash` are its failures. `HandleSource` and
`HandlePeer` are the handlers of `Create`, `RegistryAdd` and `RegistryRemove` what the registry does.
`Engage` and `Disengage` are the outcome of `ControllerLifecycle` for one controller and peer.

The content of an object is a version number; `Visible[v]` is the part of it `objectsMatch` compares, so
versions with equal `Visible` are those that `objectsMatch` takes for the same: `ObjectsMatch` has the comparison
itself, on labels and nested values. 0 is "absent".

`ImplementsMirror` is `Mirror!Spec` with the servers and versions of `Replication`, and the server of an object's
shard as its origin. Informers, registry, queue, workers, retries and late writes are hidden; what remains is
that the origin gets new versions, that another server takes over a published version in the place of an
older one or of none, and that objects are dropped. Why one is dropped is not part of `Mirror`: an agent may
delete on any server, see section 5.

Assumptions about what is not in the repository, all marked external in `PROJECT.json`:

* A cache-server stores objects as they are written, refuses a create of what exists and an update with
  another `resourceVersion`; a delete without precondition always succeeds. A read that names no shard
  goes to the wildcard shard and finds some object of the name, if there is one.
* The informer updates its store before it runs handlers, may merge changes, and resyncs now and then
  (controller-runtime: ten hours). It keys its store by namespace and name.
* A controller's workers start after its source informer has listed.
* `Mapped`: `main.go:144-150` gives the manager a static REST mapper with Shard, Cache and
  CustomResourceDefinition. The source watch of a controller asks that mapper for its kind
  (controller-runtime); for any other kind the informer never lists, no worker starts and
  `ctrl.Start` ends with an error. `plan-mc-refactor.md:146-153` has this as an open question. `Start` is
  possible for a mapped type only. The runs set `Mapped = TRUE`: they are about the types that are
  replicated. The proofs hold for both values (with `FALSE` nothing is ever copied).
* The peer `Get` names the shard of the source object and no cluster, so another cluster's object of that
  shard, namespace and name may answer it. It looks the same to `objectsMatch` and the call returns, or the
  `Update` with its `resourceVersion`, which the server applies to the source object's cluster, is refused
  (`ReadPeer`). Without a source object any shard's may answer, and is deleted.
* `ReadsCache`: the comment at replication:141 says that the source is read from the in-memory cache.
  controller-runtime's default client, and `main.go` sets no cache options, reads *unstructured* objects
  from the server instead. The model has both, chosen by this constant: `Replication_agent` reads the
  server, `Replication_mesh` the informer, and everything proved is proved for both values.

### ControllerLifecycle

| state | in the code |
|---|---|
| `peers`, `live`, `peerCount` | `Provider.peers`; entries whose context is not cancelled; a number that tells entries of one name apart |
| `handler` | the goroutine that seeds and then runs the Cache event handlers, inside `engageCacheObject` and `Engage` |
| `clusters`, `clustersLock` | the same in `Reconciler` |
| `waiters` | `Engage`'s goroutines, blocked on `<-ctx.Done()` |
| `crdQueue`, `worker`, `exists` | the crd-manager's controller, and the CRDs as its informer knows them |
| `syncEntries`, `syncLock` | the same in `Reconciler` |
| `ctrl`, `cancelled` | the goroutine around `ctrl.Start`, and the controllers whose context was cancelled |
| `madeFor` | which creation of its CRD a controller was made for: the CRD that `ensureReplicationController` took GVR and GVK from |
| `Mapped` (a constant) | the creations of a CRD whose kind the static mapper of `main.go:144` knows |
| `joined`, `failed` | which `ctrl.Engage` calls were made, and which of them failed and were logged |

A lock that is held across several steps is a variable; a critical section without a point where another
goroutine could be noticed is one action guarded by the lock being free. `clustersLock` and `syncLock`
are read-write locks: two readers never meet here, so one holder is enough. `HandlerAsks` and `WorkerAsks` say
which lock the next step of `Engage`, and of the worker, takes; the guards of these steps and
`NoCircularWait` use the same two.

A controller of a kind that the mapper does not know (`Unmapped`) has a `Start` that returns every time, without
counting as a failure, and has to: its source never syncs. Its goroutine removes its entry, and the
next resync of the CRD makes another one. A controller of a known kind may fail as often as `MaxFaults` says.

`ImplementsMembership` is `Membership!Spec`, in which each of these is one step:

| `Membership` | here |
|---|---|
| `Join` | `Forward`: `Engage` has been to every controller |
| `Pass` | `Forward`, if the goroutine of an earlier engagement has meanwhile deleted the name |
| `Leave` | `RemovePeer`, `EngageFails`, and `ForgetPeer`, which may hit a later entry of the name (section 5) |
| `Start` | `EnsureCommit`: the controller is in the map |
| `Stop` | `Cleanup`, or `StartReturns` of a controller that was not cancelled |

A member is a live peer in `clusters` that `Engage` has been around with; a controller runs until it is cancelled or
returns. Every other action is a stutter. What `Membership` adds to the invariants is what happens over time: a
newcomer is linked with everybody in the step in which it appears, or the failure is on record; a link is not lost
while both of its ends stay; and an entry or a controller that is gone never comes back.

### ShardRegistry

| state | in the code |
|---|---|
| `shards[i]` | the `kcp.io/cache` annotation of Shard object `i`, a cluster and a name (external) |
| `watching`, `events`, `store` | the manager's informer: whether its watch is up, changes on their way, its store by name |
| `queue` | the controller's work queue, and notifications that are about to fill it |
| `worker` | the `Reconcile` call in progress: before and after the `Get` |
| `shardSet` | `Registry.shardSet` |
| `shadowed` | ghost: names on which the informer's last news was the state of an object of another cluster than `system:shard` |

`Take`, `Get` and `Update` are `Reconcile`, `GetFails` its error return. `Notify` is the predicate: it sees the
object of the event, with its cluster. The request it leads to has a name only, and `Get` answers with
what the informer holds under it. `Disconnect` loses events; the next `List` reports what is there, and what
was held and is gone.

### PeerDiscovery

| state | in the code |
|---|---|
| `db[c]` | the Cache objects that cache-server `c` stores, one for each shard that pulled its server's (external) |
| `ready` | cache-servers that have made the self-identifying Cache object (external) |
| `phase[a]`, `toSeed[a]` | how far `run` and `Provider.Start` are: down, waiting for the own name, seeding (and what is left of it), watching |
| `peers[a]` | `Provider.peers` |
| `known[a]`, `events[a]` | the names the Cache informer holds, and changes its handlers have not seen |
| `failed` | ghost: calls of `Engage` and LISTs of initial peers that failed and were logged |
| `dropped` | ghost: pairs of agent and name that a deletion has disengaged while the source held another copy of the name, and no copy came since |
| `retired` | shards that were decommissioned (external) |

`Launch` and `Resolve` are `run` up to and after the poll for the own name, `Complete` the removal of the source from
the initial peers. `CopyTo` and `DeleteFrom` are `Reconcile` for Cache objects, whole and whenever it would do
something. Which server a name stands for and its base URL are one thing here.

Assumptions: a shard pulls the Cache object of its server, once that has made it, and pushes its copy, again if it
is deleted (`Push`, what the plan, section "Propagation", takes from kcp). The self-identifying object in
`system:cache` itself is only there or not (`ready`): the model takes wildcard reads not to cover it.
`JoinsApart` says that an agent is started, the first time and after a restart, when the others have come to rest,
which is how the plan's example joins.

### ShardPath and ObjectsMatch

Both are stateless. A path is a sequence of tokens, and so is a shard name, since `shardInPath` compares text
and one name may be the beginning of another; `Tokens` are what they are made of, and `IsRequest` says which
paths are requests: the name of a shard has no slash, and what follows a shard's name begins with one. `Sent` is
the chain of round-trippers that `BuildKcpConfig` makes.
`shardInPath` is applied to `URL.RawPath` too: for an ordinary path that is empty, becomes `/shards/<s>`, is then no
encoding of `Path`, and is ignored by `net/url`. Names with a slash or dots, which `path.Join` would rewrite, and
`%` escapes are not modelled.

A value of a spec is a map or a leaf with a type and the text that `%v` prints. A list is a leaf: that is how
`mapsEqual` treats it. `Values` are the values that occur, and `Depth` says how deep each is nested: values are decoded
from JSON and have an end (`ValuesAssumption`). What is recursive in the code, `mapsEqual` and `%v`, is a recursive
function on them, and its body an operator (`EqualOf`, `TextOf`). Maps are functions; as many keys on both sides and all of one side's on the other is the
equality of their domains, and the loop over labels (`Labels`), which is *not* that, is kept as it is.

## 3. Runs

| run | shows | bounds, and why they are enough |
|---|---|---|
| `Replication_agent` | `TypeOK`, `NoLostWork`, `NoRollback`, `NoSpuriousDelete`, `Converges`, `ImplementsMirror` | one agent, one peer, one object, 3 versions of which `objectsMatch` cannot tell the third from the second, 2 faults, the source read from the server: old, current and next version meet a late write and a deletion, with a crash or a loss in between |
| `Replication_mesh` | `NoLostWork`, `CopiesOwnOnly`, `Converges`, `ImplementsMirror` | two agents, each the other's peer, one object, one fault, the source read from the informer: the owner and the non-owner both act on each copy |
| `Replication_newpeer`, `_collision` | the violations of section 5 | no fault is needed for any of them |
| `Lifecycle` | `TypeOK`, `NoPeerMissed`, `NoOrphanController`, `NoLeakedPeer`, `NoCircularWait`, `RemovedIsStopped`, `CallsReturn`, `ControllersFollowCRDs`, `ImplementsMembership` | a peer engaged once, a CRD created twice, the second time of a kind the mapper knows, two controllers, one failed call: two lives of a CRD overlap with a controller that exits, once or each time, and with the engagement and loss of a peer. What needs the peer twice is in `Lifecycle_names`; all but the two liveness properties are proved for any number, and were explored with two engagements, and with two peers and two CRDs, before |
| `Lifecycle_names` | the violation of section 5 | a peer engaged twice |
| `Lifecycle_removed` | the violation of section 5 | a CRD created twice |
| `Registry` | `TypeOK`, `SetIsRight`, `AuthorityHeld`, `SetConverges` | a name in `system:shard` and in another cluster, and one in the other cluster only, 3 writes from any initial content, 2 faults: changed, deleted and changed back, with an event lost and a read failed in between |
| `Discovery_pair` | `TypeOK`, `KnownIsEngaged`, `RestIsFullMesh`, `SourceGetsEngaged` | two servers, the first with two shards, both agents told of the first server, 3 faults: a failed or lost call, a restart, a decommissioned shard: one of the two copies of the first server's name goes while the other stays |
| `Discovery_join` | the violation of section 5 | three servers, no fault |
| `Algorithms` | `RoutedToShard`, `ChangesSeen`, `CopiesRest` | paths with and without a shard, a resource called `shards`, subresources, three shard names of which one begins another; all pairs of specs of two keys and one nested key over four leaves that print alike or not; all pairs of label sets of two keys |
| `Algorithms_labels` | the violation of section 5 | the same |

Bounds are `MaxVer` (versions of an object), `MaxFaults` (failed or late calls, crashes, disconnections,
losses), `MaxPeer` (engagements of one peer), `MaxCtrl` (controllers for one CRD), `MaxCRD` (creations of
one CRD) and `MaxChanges` (writes of Shard objects). Deadlock is not checked: when shards stop writing and the bounds are used up, a settled system
may rest.

**Fairness.** `Replication!Fairness` says that what the runtime schedules happens: the registry and the
provider learn of what the source holds, the informer delivers and resyncs, handlers run, and a step of a
`Reconcile` call that can be taken is. `Take` is strongly fair, because the work queue is served in order and
no request stays behind the others for ever. No fairness is assumed of shards, of failures or of late
writes. That `Start` is fair is right for mapped types only, which is why it has that guard. `Converges` needs the informers' resync (`ResyncSource`, `ResyncPeer`): without it the
system does not converge, see `InitialReconciliation` below. `ControllerLifecycle!Fairness` is that of
goroutines and of Go's locks: steps that take a lock are strongly fair, since a lock that is free again and
again is granted in the end; a controller's `Start` returns after it has been cancelled, or if the mapper does
not know its kind, when `CacheSyncTimeout` has passed; the CRD informer
resyncs. Peers, CRDs and failures owe nothing. `ShardRegistry!Fairness` is the same for its informer and its
worker, without the resync: `SetConverges` does not need it. `PeerDiscovery!Fairness` says that a server comes up,
that the poll for the own name, which is repeated every second, finds it then, that calls return and that the
informer calls handlers. It asks nothing of replication, of restarts or of failures.

**What `PeerDiscovery` cannot promise.** `SourceGetsEngaged` is what each agent does on its own. That the *mesh* is
complete in the end does not hold, not even without failures: while the first server's agent is not up, the agent of
the second takes the first one's Cache object, of which its own source has none, for deleted and removes it from the
first server, that server's shard pushes it again, and this goes on for ever (replication:176). It ends when the
first agent runs, which copies its object to the second server. So the mesh has a property of the states at rest only.

**What `RestIsFullMesh` excludes.** It speaks of states where every agent is up, nothing has failed
(failures of seeding are never repaired) and no shard was decommissioned; agents may have been restarted. It needs
`JoinsApart`: with `JoinsApart = FALSE` in `Discovery_pair.cfg` TLC finds an agent that lists its initial peer before that server's
shard has pushed its Cache object, and both stay alone.

**What `KnownIsEngaged` and `SourceGetsEngaged` except.** A name that is in `dropped`: the deletion of one of A's two
Cache objects disengages A (provider:264) although the other remains, and nothing engages A again until an event
of one of its Cache objects comes. Without the exception TLC finds `KnownIsEngaged` violated in `Discovery_pair`. It is as small as it
can be: a pair gets into `dropped` in that one step, and the next event of a copy takes it out.

**What `SetIsRight` and `SetConverges` except.** A name that is in `shadowed`: see section 5. It is shadowed by an event, or a LIST,
of another cluster's object, and no longer from the next event of its own. A name that `system:shard`
never has is not excepted: other clusters' objects alone put nothing into the set.

**What `ControllersFollowCRDs` excepts.** A CRD that exists and whose kind the mapper does not know: no controller of
it stays (section 5). One that is gone has none in any case.

**Depth of `NoLostWork`.** It says that a divergence is always *about to be seen*: there is an event under
way, a handler still to run, a request queued, or a call in progress for the pair. It excludes pairs for
which an event was dropped, because its shard was not authoritative or the peer not engaged at that time:
those are the `ordering` hazards, for which only `Converges` (by resync) speaks.

## 4. Proofs

The proofs about `Replication` are for any number of servers, agents, shards, objects, names and versions, any `Visible`, any
number of faults, and both values of `ReadsCache` and `Mapped`. The only assumption on the constants is
`ConstantsAssumption`. `NoWorkIsLost` and `UpToDateIsKept` also assume `NamesUnique`, that no two objects
share a namespace and name; section 5 shows that without it the code does lose objects.

| theorem | statement |
|---|---|
| `TypeCorrectness` | `Spec => []TypeOK` |
| `OwnershipOfCopies` | `Spec => []CopiesOwnOnly` |
| `CopiesNeverRollBack` | `Spec => NoRollback` |
| `NoWorkIsLost` | `NamesUnique => (Spec => []NoLostWork)` |
| `UpToDateIsKept` | `NamesUnique => (Spec => NoSpuriousDelete)` |
| `ReplicationIsAMirror` | `Spec => ImplementsMirror` |
| `ControllerLifecycleProofs!TypeCorrect` | `Spec => []TypeOK` |
| `NoPeerLeaks` | `Spec => []NoLeakedPeer` |
| `NoControllerOrphaned` | `Spec => []NoOrphanController` |
| `NoPeerIsMissed` | `Spec => []NoPeerMissed` |
| `RemovedControllersStop` | `Spec => []RemovedIsStopped` |
| `NamesAreKept` | `Spec => []NamesKept` |
| `NoLocksInACircle` | `Spec => []NoCircularWait` |
| `LifecycleIsMembership` | `Spec => ImplementsMembership` |
| `ShardRegistryProofs!TypeCorrect` | `Spec => []TypeOK` |
| `RegistryIsRight` | `Spec => []SetIsRight` |
| `AuthorityDoesNotFlap` | `Spec => AuthorityHeld` |
| `PeerDiscoveryProofs!TypeCorrect` | `Spec => []TypeOK` |
| `SourceKnowsPeers` | `Spec => []KnownIsEngaged` |
| `PairIsFullMesh` | `Pair(first, second) => (Spec => []RestIsFullMesh)` |
| `EveryRequestIsRouted` | `IsRequest(input) => RoutedToShard` |
| `LabelChangesAreSeen` | `labelsMatch(a, b) => a = b \/ EmptyLabelMissing(a, b)`, for finite label sets |
| `ChangesAreSeen` | `IsPair(input) => ChangesSeen` |
| `CopiesAreLeftAlone` | `IsPair(input) => CopiesRest` |
| `Recursion!Equation` | if `F = CHOOSE f : f = [v \in S |-> Def(f, v)]`, then `F = [v \in S |-> Def(F, v)]`, for ranked `S` and local `Def` |

None of the properties but ownership is inductive. The invariants are built in layers, each proved with the
ones before it (`ReplicationInvariants`):

1. `Inv`: types; what a `Reconcile` call carries at each of its steps (`WorkShape`); an agent that is down
   holds nothing (`DownIsEmpty`); requests and writes go to other servers and writes of copies concern own
   objects (`RightServers`, `CopiesOwnOnly`).
2. `VersionInv`: the source's version is the newest ever made; nothing that a worker holds of an own object,
   or an informer it reads from, is older than any copy or any late write; so a write never goes
   backwards. That the worker is never ahead of the informer (`CallBehindStore`) is what keeps a *second*
   call from writing an older version than the first; if the worker reads the server, the informer drops
   out of the argument.
3. `FreshInv`: an informer without undelivered event holds what its server has; a call that works for an
   asked pair has read the current state, or an event or a request will make another one read it.
   With these a call that ends either settles the pair or leaves something behind that will.
4. `Reborn`: when the informer or the worker takes an object for deleted that the source has (again), its
   version is one that no copy and no late write has. So what a delete removes is older.

That another cluster's object may answer the peer `Get` ends the call and writes nothing (`ReadPeerFacts`,
`AnotherAnswers`).

`Inv /\ VersionInv /\ FreshInv /\ Reborn` was explored with TLC on the instances of the safety runs, in both
modes, before it was proved.

`ReplicationIsAMirror` needs `Inv` and `VersionInv`: a write that is carried out concerns another server than the
object's own, carries a version that was published, and replaces an older one; so it is a `Copy` of `Mirror`.
A shard's write is a `Publish`, deletions and losses are `Drop`s, and every other action leaves servers and versions
as they are.

The invariant of `ControllerLifecycleProofs` holds for any peers, CRDs, engagements, controllers and failures. It
has three parts beside the types:

1. `PeerInv`: entries are told apart by their numbers, and what is live or held was counted, so an entry that is
   engaged is a new one; the handler works for the entry in `peers`; whatever is live is in `peers`.
2. `CtrlInv`: the worker holds `syncLock` from the creation of a controller to its entry in the map, and in between the
   map has none for the CRD; entries have been started; a controller that runs and was not cancelled is in the map.
3. `MissInv`: each controller in the map, *and the one that has just been seeded*, is engaged with each live peer in
   `clusters`, or failed to be, or `Engage` has the forwarding still before it. The order of the locks makes this
   inductive: `Engage` puts the peer into `clusters` before it waits for `syncLock`, and a new controller reads
   `clusters` while the worker holds `syncLock`. So one of the two sees the other.

`RemovedControllersStop` needs `CtrlInv` and one part more (`StopInv`): while the worker is making a controller, its CRD
exists or its removal is in the queue; and an active controller whose CRD is neither there nor queued has the worker at its cleanup. The
second follows from the first when the controller is started, and the cleanup ends it because an active controller
is the one in the map (`NoOrphanController`), which is the one that is cancelled.

`NamesAreKept` says how much is lost in `Lifecycle_names`, and that no more is: a live peer is missing from `clusters`
only while its own `Engage` has yet to put it there, or if its name was engaged before; and once it was put there, what is
found under its name is never another entry. Its invariant adds `Latest`: the entry in `Provider.peers` is the last one made for
the name, so the goroutine that deletes the name waits for an earlier one.

`NoCircularWait` says of any two of the calls that take both locks that they do not wait for each other, and of each that it
does not wait for itself: who asks for which lock is read off the guards' own `HandlerAsks` and `WorkerAsks`. Its invariant is
`LockHolders`: `Engage` holds `clustersLock` exactly where it asks for none, and `ensureReplicationController` holds
`syncLock` only where it asks for none or for `clustersLock`. An `Engage` that took `syncLock` before it gave
`clustersLock` back is the mutant of the property. `LifecycleIsMembership` uses all three parts, and `NewcomersApart`: an entry
that has just been made is not in `clusters`, and no controller is cancelled before it is started. `Forward` links the
peer with each running controller because a running controller is in the map (`CtrlInv`), so it is told or its failure
recorded; `EnsureCommit` links the controller with each member because a seeded one misses none (`MissInv`), and starts
the only one of its CRD because the map has no entry; the peer that joins is the only one of its name because what is
live is in `peers` (`PeerInv`). That what happens to those who come later touches no link of those who are there is
what the remaining steps show.

`RegistryIsRight` holds for any clusters, Shard objects and caches, any number of writes and faults, and names used in
several clusters. `SetIsRight` speaks of names nothing is under way for and that are not shadowed; the invariant says
what is under way for the others: an informer that watches
holds, under each name that is not shadowed, what `system:shard` has, or an event for it is coming (`Followed`); and the set agrees
with what the informer holds, or there is a request for the name, or the worker is at it, with what it
read still being what the informer holds if no request waits (`AllAgreed`). That the informer only asks about
names of `system:shard` makes those in other clusters only stay out of queue, worker and set (`InSystem`).

`AuthorityDoesNotFlap` needs the types and shapes only, and looks at each step from a settled name: what the informer
holds and what the worker has read under it are what the source has, so that whatever is delivered, listed, taken,
read or written into the set finds or leaves the same; a read that fails writes nothing.

`SourceKnowsPeers` holds for any servers, shards (any number for a server), initial peers and number of faults, and both
values of `JoinsApart`. Its invariant is `Handled`, that an agent
that watches has engaged, or failed to, each object it has no event of, unless the name was dropped. A disengagement keeps it because
either no other object there has the name of the one that is gone, or it is recorded in `dropped`.

`PairIsFullMesh` is about a mesh of two: any number of shards, at least one for each server; the second server's agent
is told of the first, whose own may be told of anybody; agents join apart. Beside
`Handled` its invariant (`PairInv`) says, as long as no shard is decommissioned, that a copy is of an object its home
has (`HomeHasIt`), that no event under way is the loss of a copy (`NoCopyLost`), so that nothing is dropped (`NothingDropped`), and, as long as nothing failed, that
the second agent has engaged the first or is still to list a server that has what it will look for (`WillFind`). The
reason is that with two servers nobody deletes a copy whose home has the object, and that an object is deleted from its
home only by the agent that has no copy; so what was copied stays, and only an object that was never copied can be
removed, to be pushed again. At rest, then, the second agent has engaged the first and copied its objects to it, so the
first has engaged the second. With three servers an agent can delete a copy that a third one made: `Discovery_join`.

`EveryRequestIsRouted` holds for any tokens, names and paths. A path that names a shard matches the pattern of
`shardInPath` at its beginning and has the name up to the next slash (`NamedMatches`, `NamedSegment`), so that
the first occurrence, which is replaced, is that one and nothing behind it (`ReplaceHead`); a path that names
none does not begin with `/shards`, and gets the shard in front. `LabelChangesAreSeen` counts: a set of keys
that has as many elements as one it contains is that one.

`ChangesAreSeen` and `CopiesAreLeftAlone` are about specs nested to any depth. That `Text`, `mapsEqual` and `Alike` satisfy the
equations they are defined by is not for free: a recursive function is some function that satisfies its equation *if*
there is one. `Recursion` shows that there is, for any function whose body looks at elements of a lower rank
only: below each rank there is one, those agree, and together they are it. It does without an induction rule, whose
parameter the provers cannot instantiate: a counterexample of least rank, which exists because `<` is well-founded
(`WFMin` of the library), contradicts itself. `TextEquation`, `EqualEquation` and `AlikeEquation` are its three
instances, with the depth of a value, or of the first of two, as the rank. In the same way a pair of maps that are equal and print
differently, nested as little as any such pair, has values in it that are equal and print the same, and so
prints the same (`EqualMapsPrintAlike`; `AlikeMapsAreEqual` likewise).

**Only model-checked:** `Converges`, `CallsReturn`, `ControllersFollowCRDs`, `SetConverges` and `SourceGetsEngaged`:
liveness is out of the prover's reach. Every invariant and every action property of a passing run is proved.

## 5. Where code and documents disagree

Each is a run that must end in a violation.

* `Replication_newpeer` – plan:83 says the LIST of a new peer's informer is the initial reconciliation. It
  reports what the peer *has*. What the peer lacks is enqueued by source events only, for the peers
  engaged then (replication:116). A peer that is engaged later stays empty until a resync.
* `Replication_collision` – plan:81 says what is absent is created; requests and the source informer know one
  object for each namespace and name.
* `Lifecycle_names` – crd-manager:132 says `engagedClusterNames` returns all engaged peers. The goroutine of
  `Engage` deletes by name (crd-manager:115), and may do so after the peer was engaged again. `NamesAreKept` shows
  that no name is lost that had not been engaged before.
* `Lifecycle_removed` – notes:106 (`plan-implementation-notes.md`) and plan:73 say that a removed CRD's controller is
  stopped. If the CRD is created again before the worker looks, it finds a CRD and an entry (crd-manager:166) and
  leaves the controller as it is, with the version and scope of the CRD that was removed. What does hold is
  `RemovedIsStopped`: a controller whose CRD stays away is stopped.
* `Algorithms_labels` – replication:202 says that `objectsMatch` returns true for equivalent labels. A key that the
  peer lacks reads as `""` (replication:212): with as many labels on both sides, an empty label of the source passes
  for any other label of the peer. As labels do not change an object's generation, the copy stays as it is.
* `Discovery_join` – plan:57-63 lets a server join a mesh of two and says that the mesh is then fully connected.
  The cause: plan:77 says that peer events are filtered to authoritative shards, and plan:95 that agents do not
  conflict, but the peer watch (replication:106) has no predicate, and an object the source does not have is deleted
  from the peer without a look at its shard (replication:173). So the joining agent deletes, on the peers it was
  told of, the Cache objects it has not been given yet. The peers disengage what disappears, are in turn without
  objects they should delete elsewhere, and it can come to rest with one server that nobody knows and that knows
  nobody. The run has no failure, and each agent starts when the others are at rest.

Seen while modelling, and not a run:

* plan:80 says what differs is updated, but `objectsMatch` (replication:203) sees generation, labels and spec only, so
  changes of annotations or status alone are never copied.
* registry:73 says that Shard objects of other clusters are ignored. Their events are; but `Get` (registry:103) asks
  for a name only, and answers with an object of another cluster if the informer holds that one. A request of the
  shard's own, left over or made by an earlier event, then takes the shard into the set, or out of it, by that other object. `SetIsRight` excepts
  these names (`shadowed`); without the exception TLC finds it violated in `Registry`.
* provider:264 disengages a peer when one of several Cache objects of its name is deleted, one for each shard
  (plan:6 has many shards). `KnownIsEngaged` excepts these names (`dropped`).
* plan:73 says that each new CRD triggers the creation of a source informer, and plan:115 gives eventual consistency as
  the guarantee. `main.go:144-150` maps Shard, Cache and CustomResourceDefinition only, and the comment above it speaks of
  start-up; `plan-mc-refactor.md:146-153` knows that the mapper does not cover the replicated kinds and leaves it open. As the
  code stands a controller of any other kind never syncs: its `Start` fails each time, is logged (crd-manager:208), and is
  tried again after a resync of the CRD, hours later. The models have this as `Mapped`; it is an open end the authors
  wrote down, so it is not a run.
* `shardInPath` leaves a path alone that has a shard whose name begins with the context's (round_tripper.go:58).
  `RoutedToShard` names the exception; no client of this program sends a path with a shard.

## 6. Not modelled, and why

* Start-up (`cmd/`) but for the initial peers, the poll for the own name and what follows it: straight-line wiring that
  shares nothing. `internal/options` and `internal/kubeconfig` are used by nobody.
  Defects seen in passing: `main.go:97` uses the result of `BuildKcpConfig` before it looks at its error;
  `main.go:57` takes a context that no signal ends, so that nothing is ever stopped in order.
* The reading of certificate files in `BuildKcpConfig`: an error is one of the failures of `Engage` and of seeding.
* Base URLs: a server and its URL are one thing. A changed URL of an engaged peer is not taken over (provider:205), and
  no document says that it should be; a source URL spelled differently makes an agent its own peer (provider:194),
  which costs requests and changes nothing.
* Generations that a server counts itself (replication:204): whether cache-servers do is not decided in this
  repository.
* Logging, metrics, version, build and test scripts: no state that replication depends on.
* Leader election: off by default, and done by the library.
* `gvrAndGVKFromCRD`: a pure choice of a version; its error is part of `EnsureFails`.
* `Provider.IndexField`: forwards to each cluster.

## 7. Plan

Done: all components that keep state, with their proofs; the two pure algorithms, with theirs; the refinements of `Mirror` and
of `Membership`. What is left, in this order:

1. The composition of `ControllerLifecycle` with two replication controllers' queues, to see what a source event is
   fanned out to while `clusters` has lost an entry (`Lifecycle_names`).
2. Base URLs in `PeerDiscovery`, if the project decides what a changed URL should do.
3. If the peer watch gets a predicate, `RestIsFullMesh` for three servers, and its proof.
