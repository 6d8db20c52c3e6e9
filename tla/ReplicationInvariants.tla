----------------------- MODULE ReplicationInvariants -----------------------
(***************************************************************************)
(* Why Replication is correct: the inductive invariants behind its         *)
(* properties, in the three layers in which ReplicationProofs proves them. *)
(***************************************************************************)
EXTENDS Replication

-----------------------------------------------------------------------------
(* First layer: what a Reconcile call carries, and who writes what. *)

\* The fields of a Reconcile call are set when its steps need them, and agree.
CallShape(w) ==
  /\ w.pc = "idle" => w = Idle
  /\ w.pc # "idle" => w.req \in Requests
  /\ w.pc = "get" => w.src = None
  /\ w.pc = "auth" => w.src # None
  /\ w.pc = "write" <=> w.wr # None
  /\ w.src # None => NameOf[w.src.obj] = w.req[2]
  /\ w.wr # None =>
       /\ w.wr.to = w.req[1] /\ NameOf[w.wr.obj] = w.req[2]
       /\ w.src = None <=> w.wr.ver = 0
       /\ w.src # None => w.wr.obj = w.src.obj /\ w.wr.ver = w.src.ver

WorkShape == \A a \in Agents : CallShape(work[a])

\* An agent that is down has no watch, no request and no Reconcile call, and
\* what it holds of a peer it holds of one it has engaged.
DownIsEmpty ==
  \A a \in Agents :
    /\ ~running[a] => /\ engaged[a] = {} /\ srcEvents[a] = {} /\ notif[a] = {}
                      /\ queue[a] = {} /\ asked[a] = {} /\ work[a] = Idle
                      /\ store[a] = [n \in Names |-> None]
    /\ \A p \in Servers \ engaged[a] : peerEvents[a][p] = {}

\* An agent is authoritative for shards of its own server only, and requests
\* go to other servers only.
RightServers ==
  \A a \in Agents :
    /\ \A s \in auth[a] : Home[s] = a
    /\ engaged[a] \subseteq Peers(a)
    /\ queue[a] \subseteq Peers(a) \X Names
    /\ work[a].pc # "idle" => work[a].req[1] # a
    /\ \A n \in Names : store[a][n] # None => NameOf[store[a][n].obj] = n
    /\ work[a].pc \in {"peer", "write"} /\ work[a].src # None =>
         HomeOf(work[a].src.obj) = a

Inv == TypeOK /\ WorkShape /\ DownIsEmpty /\ RightServers /\ CopiesOwnOnly

-----------------------------------------------------------------------------
(* Second layer: versions. *)

\* No copy of o, and no delayed write of one, is newer than version v.
NotAbove(o, v) ==
  /\ \A c \in Servers : c # HomeOf(o) => db[c][o] <= v
  /\ \A w \in late : w.obj = o => w.ver <= v

\* The source has the newest version or none.
SourceNewest ==
  \A o \in Objs : /\ db[HomeOf(o)][o] \in {0, last[o]}
                  /\ NotAbove(o, last[o])

\* What the worker holds of the source is no older than any copy, and no newer
\* than the source's newest.  The same goes for the informer if the worker reads
\* there; if not, the worker may be ahead of it.
Newest(e) == e.ver <= last[e.obj] /\ NotAbove(e.obj, e.ver)

StoreNewest ==
  ReadsCache => \A a \in Agents, n \in Names :
    store[a][n] # None /\ HomeOf(store[a][n].obj) = a => Newest(store[a][n])

CallNewest ==
  \A a \in Agents :
    work[a].src # None /\ HomeOf(work[a].src.obj) = a => Newest(work[a].src)

\* The worker is never ahead of the informer it read from.
CallBehindStore ==
  ReadsCache => \A a \in Agents, n \in Names :
    /\ store[a][n] # None /\ work[a].src # None
    /\ store[a][n].obj = work[a].src.obj /\ HomeOf(work[a].src.obj) = a
    => work[a].src.ver <= store[a][n].ver

\* An update replaces a version by one that is no older.
Forward(w) == w.ver # 0 => w.base <= w.ver
WritesForward ==
  /\ \A a \in Agents : work[a].wr # None => Forward(work[a].wr)
  /\ \A w \in late : Forward(w)

VersionInv ==
  SourceNewest /\ StoreNewest /\ CallNewest /\ CallBehindStore /\ WritesForward

-----------------------------------------------------------------------------
(* Third layer, when no two objects share a name: freshness. *)

NamesUnique == \A o1, o2 \in Objs : NameOf[o1] = NameOf[o2] => o1 = o2

\* The informer holds what its server has, once it has no event to deliver.
StoreFreshAt(a) ==
  \A o \in Objs :
    running[a] /\ o \notin srcEvents[a] =>
      store[a][NameOf[o]] = Entry(o, db[a][o])

\* A Reconcile call that works for an asked request has read the current state
\* of the source's object, or another call will.
WorkFreshAt(a) ==
  \A o \in Own(a) :
    /\ work[a].pc \in {"auth", "peer", "write"}
    /\ work[a].req[2] = NameOf[o]
    /\ work[a].req[1] \in engaged[a]
    /\ work[a].req \in asked[a]
    => \/ work[a].src = Entry(o, db[a][o])
       \/ o \in srcEvents[a] \/ o \in notif[a] \/ work[a].req \in queue[a]

NoLostWorkAt(a) ==
  \A p \in engaged[a], o \in Own(a) :
    <<p, NameOf[o]>> \in asked[a] => Settled(a, p, o) \/ Pending(a, p, o)

FreshAt(a) == StoreFreshAt(a) /\ WorkFreshAt(a) /\ NoLostWorkAt(a)

FreshInv == \A a \in Agents : FreshAt(a)

\* Every copy of o, and every delayed write of one, is older than version v.
AllBelow(o, v) ==
  /\ \A c \in Servers : c # HomeOf(o) => db[c][o] < v
  /\ \A w \in late : w.obj = o => w.ver < v

\* When the informer, or the worker, takes an object for deleted that the
\* source has, the source's version is one that no copy has yet.
Reborn ==
  \A a \in Agents, o \in Objs :
    HomeOf(o) = a /\ db[a][o] # 0 =>
      /\ ReadsCache /\ running[a] /\ store[a][NameOf[o]] = None =>
           /\ AllBelow(o, db[a][o])
           /\ work[a].src # None /\ work[a].src.obj = o =>
                work[a].src.ver < db[a][o]
      /\ work[a].pc \in {"peer", "write"} /\ work[a].src = None
           /\ work[a].req[2] = NameOf[o] => AllBelow(o, db[a][o])

=============================================================================
