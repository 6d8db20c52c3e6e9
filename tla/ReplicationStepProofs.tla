------------------------ MODULE ReplicationStepProofs ------------------------
(***************************************************************************)
(* What a step of the replication controllers may do: Reconcile never      *)
(* deletes a copy that is up to date (the invariant Reborn on top of the   *)
(* layers of ReplicationProofs), and every step is one of Mirror's.        *)
(***************************************************************************)
EXTENDS ReplicationProofs

-----------------------------------------------------------------------------
(* Deletions. *)

\* If every copy of o is older than v and so is whatever is being written of
\* it, every copy stays older than v.
LEMMA AllBelowStep ==
  ASSUME Inv, Next, NEW o \in Objs, NEW v \in Versions, AllBelow(o, v),
         \A a \in Agents :
           work[a].wr # None /\ work[a].wr.obj = o => work[a].wr.ver < v
  PROVE  /\ \A c \in Servers : c # HomeOf(o) => db'[c][o] < v
         /\ \A w \in late' : w.obj = o => w.ver < v
<1> USE DEF Inv
<1>1. ASSUME NEW c \in Servers, c # HomeOf(o)
      PROVE  db'[c][o] < v
  <2>1. \A w \in late : w.obj = o => w.ver < v
    BY DEF AllBelow
  <2>2. \A a \in Agents : Write(a) => work[a].wr # None
    BY DEF Write, WorkShape, CallShape
  <2>3. db[c][o] < v /\ 0 < v
    BY <1>1 DEF AllBelow, Versions
  <2> QED  BY <1>1, <2>1, <2>2, <2>3, DbStep
<1>2. ASSUME NEW w \in late', w.obj = o
      PROVE  w.ver < v
  BY <1>2, LateFacts DEF AllBelow, WorkShape, CallShape
<1> QED  BY <1>1, <1>2

\* The source's version of an object changes only by its shard, and what the
\* shard writes is newer than every copy (ShardWrite).
LEMMA HomeStep ==
  ASSUME Inv, VersionInv, Next, NEW o \in Objs, db'[HomeOf(o)][o] # 0
  PROVE  \/ db'[HomeOf(o)][o] = db[HomeOf(o)][o]
         \/ /\ db'[HomeOf(o)][o] = last[o] + 1
            /\ UNCHANGED <<late, agentVars>>
            /\ AllBelow(o, db[HomeOf(o)][o])'
<1> USE DEF Inv, VersionInv
<1>1. HomeOf(o) \in Servers /\ HomeOf(o)' = HomeOf(o)
  BY ConstantsAssumption DEF HomeOf
<1>t. /\ last \in [Objs -> 0..MaxVer] /\ db \in [Servers -> [Objs -> 0..MaxVer]]
      /\ late \subseteq Writes
  BY DEF TypeOK
<1>2. CASE ShardWrite(o)
  <2>1. /\ UNCHANGED <<late, agentVars>>
        /\ db' = [db EXCEPT ![HomeOf(o)][o] = last[o] + 1]
    BY <1>2 DEF ShardWrite, Put
  <2>2. db'[HomeOf(o)][o] = last[o] + 1 /\ last[o] \in 0..MaxVer
    BY <2>1, <1>1, <1>t
  <2>3. \A c \in Servers : c # HomeOf(o) =>
          db'[c][o] = db[c][o] /\ db[c][o] \in 0..MaxVer /\ db[c][o] <= last[o]
    BY <2>1, <1>t DEF SourceNewest, NotAbove
  <2>4. \A w \in late : w.obj = o => w.ver \in 0..MaxVer /\ w.ver <= last[o]
    BY <1>t DEF SourceNewest, NotAbove, Writes
  <2>5. /\ \A c \in Servers : c # HomeOf(o) => db'[c][o] < last[o] + 1
        /\ \A w \in late' : w.obj = o => w.ver < last[o] + 1
    BY <2>1, <2>2, <2>3, <2>4
  <2>6. AllBelow(o, db[HomeOf(o)][o])'
    BY <2>2, <2>5, <1>1 DEF AllBelow
  <2> QED  BY <2>1, <2>2, <2>6
<1>3. CASE ~ShardWrite(o)
  BY <1>1, <1>3, DbStep
<1> QED  BY <1>2, <1>3

\* An agent's informer never drops, and never starts without, an object that its
\* server has (Start, WatchSource).
LEMMA StoreGone ==
  ASSUME NamesUnique, Inv, Next, NEW a \in Agents, NEW o \in Objs,
         running'[a], store'[a][NameOf[o]] = None, db'[a][o] # 0
  PROVE  running[a] /\ store[a][NameOf[o]] = None
<1> USE DEF Inv
<1>t. /\ store \in [Agents -> [Names -> Copies \cup {None}]]
      /\ running \in [Agents -> BOOLEAN]
      /\ db \in [Servers -> [Objs -> 0..MaxVer]]
  BY DEF TypeOK
<1>n. NameOf[o] \in Names /\ a \in Servers
  BY ConstantsAssumption
<1>e. ASSUME NEW x \in Objs, db[a][x] # 0
      PROVE  Entry(x, db[a][x]) # None
  <2>1. db[a][x] \in 1..MaxVer
    BY <1>e, <1>t, <1>n
  <2> QED  BY <1>e, <2>1, ConstantsAssumption DEF Entry
<1>1. CASE UNCHANGED <<store, running>>
  BY <1>1
<1>2. ASSUME NEW b \in Agents, Start(b)
      PROVE  running[a] /\ store[a][NameOf[o]] = None
  <2>1. PICK list \in [Names -> Copies \cup {None}] :
          /\ \A m \in Names : list[m] \in Listed(b, m)
          /\ store' = [store EXCEPT ![b] = list]
    BY <1>2 DEF Start
  <2>2. running' = [running EXCEPT ![b] = TRUE] /\ UNCHANGED db
    BY <1>2 DEF Start
  <2>3. CASE b = a
    <3>1. list[NameOf[o]] \in Listed(a, NameOf[o])
      BY <2>1, <2>3, <1>n
    <3>2. o \in {x \in Present(a) : NameOf[x] = NameOf[o]}
      BY <2>2 DEF Present
    <3>3. list[NameOf[o]] \in
            {Entry(x, db[a][x]) :
               x \in {y \in Present(a) : NameOf[y] = NameOf[o]}}
      BY <3>1, <3>2 DEF Listed
    <3>4. PICK x \in Present(a) : list[NameOf[o]] = Entry(x, db[a][x])
      BY <3>3
    <3>5. list[NameOf[o]] # None
      BY <3>4, <1>e DEF Present
    <3>6. store'[a] = list
      BY <2>1, <2>3, <1>t
    <3> QED  BY <3>5, <3>6
  <2>4. CASE b # a
    BY <2>1, <2>2, <2>4, <1>t
  <2> QED  BY <2>3, <2>4
<1>3. ASSUME NEW b \in Agents, NEW x \in Objs, WatchSource(b, x)
      PROVE  running[a] /\ store[a][NameOf[o]] = None
  <2>1. /\ store' = [store EXCEPT ![b][NameOf[x]] = Entry(x, db[b][x])]
        /\ UNCHANGED <<running, db>>
    BY <1>3 DEF WatchSource
  <2>2. CASE b = a /\ x = o
    <3>1. store'[a][NameOf[o]] = Entry(o, db[a][o])
      BY <2>1, <2>2, <1>t, <1>n
    <3> QED  BY <3>1, <2>1, <1>e
  <2>3. CASE ~(b = a /\ x = o)
    <3>1. b = a => NameOf[x] # NameOf[o]
      BY <2>3 DEF NamesUnique
    <3> QED  BY <2>1, <3>1, <1>t, <1>n
  <2> QED  BY <2>2, <2>3
<1>4. ASSUME NEW b \in Agents, Crash(b)
      PROVE  running[a] /\ store[a][NameOf[o]] = None
  <2>1. /\ running' = [running EXCEPT ![b] = FALSE]
        /\ store' = [store EXCEPT ![b] = [n \in Names |-> None]]
    BY <1>4 DEF Crash
  <2> QED  BY <2>1, <1>t
<1>5. ServerNext => UNCHANGED <<store, running>>
  BY WorkUntouched DEF agentVars
<1>6. ASSUME NEW b \in Agents, InformNext(b)
      PROVE  \/ UNCHANGED <<store, running>>
             \/ Start(b) \/ \E x \in Objs : WatchSource(b, x)
  BY <1>6 DEF InformNext, RegistryAdd, RegistryRemove, Engage, Disengage,
              HandleSource, HandlePeer, ResyncPeer, ResyncSource
<1>7. ASSUME NEW b \in Agents, ReconcileNext(b)
      PROVE  UNCHANGED <<store, running>> \/ Crash(b)
  BY <1>7 DEF ReconcileNext, Take, ReadSource, CheckAuth, ReadPeer, Write,
              ReadFails, WriteTimesOut
<1> QED  BY <1>1, <1>2, <1>3, <1>4, <1>5, <1>6, <1>7 DEF Next

\* A Reconcile call that goes on without a source object did so before, or has
\* just found none (ReadSource).
LEMMA CallWithout ==
  ASSUME Inv, Next, NEW a \in Agents,
         work'[a].pc \in {"peer", "write"}, work'[a].src = None
  PROVE  \/ /\ work[a].pc \in {"peer", "write"} /\ work[a].src = None
            /\ work'[a].req = work[a].req
         \/ /\ UNCHANGED <<db, late>>
            /\ work[a].pc = "get" /\ work'[a].req = work[a].req
            /\ None \in SourceCandidates(a, work[a].req[2])
<1> USE DEF Inv
<1>t. work \in [Agents -> Works] /\ work[a] \in Works
  BY DEF TypeOK
<1>i. Idle.pc = "idle"
  BY DEF Idle
<1>1. CASE work'[a] = work[a]
  BY <1>1
<1>2. CASE ReadSource(a)
  <2>1. UNCHANGED <<db, late>> /\ work[a].pc = "get"
    BY <1>2 DEF ReadSource
  <2>2. PICK obj \in Copies \cup {None} :
          /\ obj \in SourceCandidates(a, work[a].req[2])
          /\ work' = [work EXCEPT
               ![a] = [@ EXCEPT !.pc = IF obj = None THEN "peer" ELSE "auth",
                                !.src = obj]]
    BY <1>2, ReadSourceFacts
  <2>3. work'[a].src = obj /\ work'[a].req = work[a].req
    BY <2>2, <1>t DEF Works
  <2> QED  BY <2>1, <2>2, <2>3
<1>3. ASSUME NEW r \in Requests, Take(a, r)
      PROVE  FALSE
  <2>1. work'[a].pc = "get"
    BY <1>3, <1>t DEF Take, Idle
  <2> QED  BY <2>1
<1>4. CASE CheckAuth(a)
  <2>1. work[a].src # None
    BY <1>4 DEF CheckAuth, WorkShape, CallShape
  <2>2. work'[a] = Idle \/ work'[a].src = work[a].src
    BY <1>4, <1>t DEF CheckAuth, Done, Works
  <2> QED  BY <2>1, <2>2, <1>i
<1>5. CASE ReadPeer(a)
  <2>1. work[a].pc = "peer"
    BY <1>5 DEF ReadPeer
  <2>2. \/ work' = [work EXCEPT ![a] = Idle]
        \/ \E w : work' = [work EXCEPT ![a].pc = "write", ![a].wr = w]
    BY <1>5, ReadPeerEnds
  <2>3. work'[a] = Idle \/ /\ work'[a].src = work[a].src
                           /\ work'[a].req = work[a].req
    BY <2>2, <1>t DEF Works
  <2> QED  BY <2>1, <2>3, <1>i
<1>6. CASE Write(a) \/ ReadFails(a) \/ WriteTimesOut(a) \/ Crash(a)
  <2>1. work' = [work EXCEPT ![a] = Idle]
    BY <1>6, WriteFacts DEF ReadFails, WriteTimesOut, Crash, Requeue
  <2> QED  BY <2>1, <1>t, <1>i
<1>7. ASSUME NEW b \in Agents, b # a, ReconcileNext(b)
      PROVE  work'[a] = work[a]
  BY <1>7, OtherAgents DEF AgentUnchanged
<1>8. ServerNext \/ (\E b \in Agents : InformNext(b)) => UNCHANGED work
  BY WorkUntouched DEF agentVars
<1>9. ReconcileNext(a) =>
        \/ \E r \in Requests : Take(a, r)
        \/ ReadSource(a) \/ CheckAuth(a) \/ ReadPeer(a)
        \/ Write(a) \/ ReadFails(a) \/ WriteTimesOut(a) \/ Crash(a)
  BY DEF ReconcileNext
<1> QED
  BY <1>1, <1>2, <1>3, <1>4, <1>5, <1>6, <1>7, <1>8, <1>9 DEF Next

\* Every step keeps it that an object taken for deleted, although its source
\* has it, is there in a version no copy has.
LEMMA RebornStep ==
  ASSUME NamesUnique, Inv, VersionInv, Reborn, Next
  PROVE  Reborn'
<1> USE DEF Inv, VersionInv
<1> SUFFICES ASSUME NEW a \in Agents, NEW o \in Objs, HomeOf(o) = a,
                    db'[a][o] # 0
             PROVE  /\ ReadsCache /\ running'[a] /\ store'[a][NameOf[o]] = None =>
                         /\ AllBelow(o, db[a][o])'
                         /\ work'[a].src # None /\ work'[a].src.obj = o =>
                              work'[a].src.ver < db'[a][o]
                    /\ work'[a].pc \in {"peer", "write"} /\ work'[a].src = None
                         /\ work'[a].req[2] = NameOf[o] =>
                              AllBelow(o, db[a][o])'
  BY DEF Reborn, HomeOf
<1>t. /\ db \in [Servers -> [Objs -> 0..MaxVer]] /\ db' \in [Servers -> [Objs -> 0..MaxVer]]
      /\ last \in [Objs -> 0..MaxVer]
      /\ work \in [Agents -> Works] /\ work[a].src \in Copies \cup {None}
  <2>1. TypeOK'
    BY ServerType, InformType, ReconcileType DEF Next
  <2> QED  BY <2>1 DEF TypeOK, Works
<1>s. a \in Servers
  BY ConstantsAssumption
<1>v. db'[a][o] \in Versions
  BY <1>t, <1>s DEF Versions
\* Either the shard has just written o, or its version is the old one.
<1>h. \/ db'[a][o] = db[a][o]
      \/ /\ db'[a][o] = last[o] + 1 /\ UNCHANGED <<late, agentVars>>
         /\ AllBelow(o, db[a][o])'
  <2>1. HomeOf(o)' = a
    BY DEF HomeOf
  <2> QED  BY HomeStep, <2>1 DEF AllBelow
\* If so, copies stay older than it as long as no call of a writes a newer one.
<1>k. ASSUME db'[a][o] = db[a][o], AllBelow(o, db[a][o]),
             work[a].src # None /\ work[a].src.obj = o =>
               work[a].src.ver < db[a][o]
      PROVE  AllBelow(o, db[a][o])'
  <2>1. ASSUME NEW b \in Agents, work[b].wr # None, work[b].wr.obj = o
        PROVE  work[b].wr.ver < db[a][o]
    <3>1. CASE work[b].wr.ver = 0
      BY <1>k, <1>v, <3>1 DEF Versions
    <3>2. CASE work[b].wr.ver # 0
      <4>1. b = a
        BY <2>1, <3>2, WritesOwnOnly
      <4> QED  BY <1>k, <2>1, <3>2, <4>1 DEF WorkShape, CallShape
    <3> QED  BY <3>1, <3>2
  <2>2. /\ \A c \in Servers : c # HomeOf(o) => db'[c][o] < db[a][o]
        /\ \A w \in late' : w.obj = o => w.ver < db[a][o]
    BY <1>k, <1>v, <2>1, AllBelowStep
  <2> QED  BY <1>k, <2>2 DEF AllBelow, HomeOf
<1>1. ASSUME ReadsCache, running'[a], store'[a][NameOf[o]] = None
      PROVE  /\ AllBelow(o, db[a][o])'
             /\ work'[a].src # None /\ work'[a].src.obj = o =>
                  work'[a].src.ver < db'[a][o]
  <2>1. running[a] /\ store[a][NameOf[o]] = None
    BY <1>1, StoreGone
  <2>2. CASE db'[a][o] = db[a][o]
    <3>1. /\ AllBelow(o, db[a][o])
          /\ work[a].src # None /\ work[a].src.obj = o =>
               work[a].src.ver < db[a][o]
      BY <1>1, <2>1, <2>2 DEF Reborn
    <3>2. ASSUME work'[a].src # None, work'[a].src.obj = o
          PROVE  work'[a].src = work[a].src
      <4>1. ASSUME work[a].req[2] \in Names, work'[a].src = store[a][work[a].req[2]]
            PROVE  FALSE
        BY <2>1, <3>2, <4>1 DEF RightServers
      <4> QED  BY <1>1, <3>2, <4>1, CallStep
    <3> QED  BY <2>2, <3>1, <3>2, <1>k
  <2>3. CASE /\ db'[a][o] = last[o] + 1 /\ UNCHANGED <<late, agentVars>>
             /\ AllBelow(o, db[a][o])'
    <3>1. UNCHANGED work
      BY <2>3 DEF agentVars
    <3>2. ASSUME work[a].src # None, work[a].src.obj = o
          PROVE  work[a].src.ver < last[o] + 1
      <4>1. work[a].src.ver <= last[o]
        BY <3>2 DEF CallNewest, Newest
      <4> QED  BY <3>2, <4>1, <1>t DEF Copies, Versions
    <3> QED  BY <2>3, <3>1, <3>2
  <2> QED  BY <1>h, <2>2, <2>3
<1>2. ASSUME work'[a].pc \in {"peer", "write"}, work'[a].src = None,
             work'[a].req[2] = NameOf[o]
      PROVE  AllBelow(o, db[a][o])'
  <2>1. CASE /\ work[a].pc \in {"peer", "write"} /\ work[a].src = None
             /\ work'[a].req = work[a].req /\ db'[a][o] = db[a][o]
    <3>1. AllBelow(o, db[a][o])
      BY <1>2, <2>1 DEF Reborn
    <3> QED  BY <2>1, <3>1, <1>k
  <2>2. CASE /\ UNCHANGED <<db, late>>
             /\ work[a].pc = "get" /\ work'[a].req = work[a].req
             /\ None \in SourceCandidates(a, work[a].req[2])
    <3>1. CASE ReadsCache
      <4>1. store[a][NameOf[o]] = None
        BY <1>2, <2>2, <3>1 DEF SourceCandidates
      <4>2. running[a]
        BY <2>2 DEF DownIsEmpty, Idle
      <4>3. AllBelow(o, db[a][o])
        BY <2>2, <3>1, <4>1, <4>2 DEF Reborn
      <4> QED  BY <2>2, <4>3 DEF AllBelow, HomeOf
    <3>2. CASE ~ReadsCache
      <4>1. None \in Listed(a, NameOf[o])
        BY <1>2, <2>2, <3>2 DEF SourceCandidates
      <4>2. o \in {x \in Present(a) : NameOf[x] = NameOf[o]}
        BY <2>2 DEF Present
      <4>3. PICK x \in Present(a) : None = Entry(x, db[a][x])
        BY <4>1, <4>2 DEF Listed
      <4>4. x \in Objs /\ db[a][x] \in 1..MaxVer
        BY <1>t, <1>s DEF Present
      <4> QED  BY <4>3, <4>4, ConstantsAssumption DEF Entry
    <3> QED  BY <3>1, <3>2
  <2> QED  BY <1>2, <1>h, <2>1, <2>2, CallWithout
<1> QED  BY <1>1, <1>2

\* When every object has a name of its own, Reconcile never deletes a copy that
\* is the version its source has, however late it acts on what it has read.
THEOREM UpToDateIsKept ==
  ASSUME NamesUnique
  PROVE  Spec => NoSpuriousDelete
<1>1. Init => Inv /\ VersionInv /\ Reborn
  <2>1. Init => Reborn
    <3> SUFFICES ASSUME Init, NEW a \in Agents, NEW o \in Objs
                 PROVE  db[a][o] = 0
      BY DEF Reborn
    <3>1. a \in Servers
      BY ConstantsAssumption
    <3> QED  BY <3>1 DEF Init
  <2> QED  BY <2>1, InvInit, VersionInit
<1>2. Inv /\ VersionInv /\ Reborn /\ [Next]_vars => (Inv /\ VersionInv /\ Reborn)'
  <2>1. CASE UNCHANGED vars
    <3>1. Inv /\ VersionInv => (Inv /\ VersionInv)'
      BY <2>1, InvStep
      DEF vars, VersionInv, SourceNewest, StoreNewest, CallNewest, Newest,
          CallBehindStore, WritesForward, NotAbove
    <3> QED  BY <2>1, <3>1 DEF vars, Reborn, AllBelow
  <2> QED  BY <2>1, InvStep, VersionStep, RebornStep
<1>3. ASSUME Inv, Reborn, [Next]_vars
      PROVE  [\A a \in Agents : \A p \in Servers, o \in Own(a) :
                Write(a) /\ db[p][o] # 0 /\ db'[p][o] = 0 =>
                  db[p][o] # db[a][o]]_vars
  <2>1. ASSUME NEW a \in Agents, NEW p \in Servers, NEW o \in Own(a),
               Write(a), db[p][o] # 0, db'[p][o] = 0
        PROVE  db[p][o] # db[a][o]
    <3> DEFINE w == work[a].wr
    <3>1. TypeOK /\ WorkShape
      BY <1>3 DEF Inv
    <3>2. w \in Writes /\ Apply(w)
      BY <2>1, <3>1, WriteFacts
    <3>3. db \in [Servers -> [Objs -> 0..MaxVer]] /\ o \in Objs /\ HomeOf(o) = a
      BY <3>1 DEF TypeOK, Own
    <3>4. db' = [db EXCEPT ![w.to][w.obj] = w.ver]
      BY <2>1, <3>1, <3>2, ApplyFacts DEF Put
    <3>5. w.to = p /\ w.obj = o /\ w.ver = 0
      BY <2>1, <3>2, <3>3, <3>4 DEF Writes
    <3>6. /\ work[a].pc = "write" /\ work[a].src = None
          /\ work[a].req[1] = p /\ work[a].req[2] = NameOf[o]
      BY <2>1, <3>1, <3>5 DEF Write, WorkShape, CallShape
    <3>7. p # a
      BY <1>3, <3>6 DEF Inv, RightServers
    <3>8. CASE db[a][o] # 0
      <4>1. AllBelow(o, db[a][o])
        BY <1>3, <3>3, <3>6, <3>8 DEF Reborn
      <4>2. db[p][o] < db[a][o]
        BY <3>3, <3>7, <4>1 DEF AllBelow
      <4>3. db[p][o] \in Nat
        BY <3>3
      <4> QED  BY <4>2, <4>3
    <3> QED  BY <2>1, <3>8
  <2> QED  BY <2>1
<1> QED  BY <1>1, <1>2, <1>3, PTL DEF Spec, NoSpuriousDelete

-----------------------------------------------------------------------------
(* Replication implements Mirror, for every set of servers, shards and       *)
(* objects and every bound.                                                  *)

\* A step changes one server's version of at most one object.
LEMMA OneAtATime ==
  ASSUME TypeOK, WorkShape, Next
  PROVE  \/ UNCHANGED db
         \/ \E c \in Servers, o \in Objs, v \in 0..MaxVer :
              db[c][o] # v /\ db' = [db EXCEPT ![c][o] = v]
<1> DEFINE Goal == \/ UNCHANGED db
                   \/ \E c \in Servers, o \in Objs, v \in 0..MaxVer :
                        db[c][o] # v /\ db' = [db EXCEPT ![c][o] = v]
<1> HIDE DEF Goal
<1>0. UNCHANGED db => Goal
  BY DEF Goal
<1>1. ASSUME NEW c \in Servers, NEW o \in Objs, NEW v \in 0..MaxVer, Put(c, o, v)
      PROVE  Goal
  <2>1. db' = [db EXCEPT ![c][o] = v]
    BY <1>1 DEF Put
  <2>2. CASE db[c][o] = v
    BY <2>1, <2>2 DEF Goal, TypeOK
  <2>3. CASE db[c][o] # v
    BY <2>1, <2>3 DEF Goal
  <2> QED
    BY <2>2, <2>3
<1>2. ASSUME NEW w \in Writes, Apply(w)
      PROVE  Goal
  <2>1. w.ver \in 0..MaxVer
    BY DEF Writes
  <2> QED
    BY <1>0, <1>1, <1>2, <2>1, ApplyFacts
<1>3. ASSUME ServerNext
      PROVE  Goal
  <2>1. ASSUME NEW o \in Objs, ShardWrite(o)
        PROVE  Goal
    <3>1. HomeOf(o) \in Servers
      BY ConstantsAssumption DEF HomeOf
    <3>2. last[o] \in 0..MaxVer /\ last[o] < MaxVer /\ MaxVer \in Nat
      BY <2>1, ConstantsAssumption DEF ShardWrite, TypeOK
    <3>3. Put(HomeOf(o), o, last[o] + 1)
      BY <2>1 DEF ShardWrite
    <3> QED
      BY <1>1, <3>1, <3>2, <3>3
  <2>2. ASSUME NEW o \in Objs, ShardDelete(o)
        PROVE  Goal
    <3>1. HomeOf(o) \in Servers /\ 0 \in 0..MaxVer
      BY ConstantsAssumption DEF HomeOf
    <3>2. Put(HomeOf(o), o, 0)
      BY <2>2 DEF ShardDelete
    <3> QED
      BY <1>1, <3>1, <3>2
  <2>3. ASSUME NEW c \in Servers, NEW o \in Objs, PeerLoses(c, o)
        PROVE  Goal
    <3>1. Put(c, o, 0) /\ 0 \in 0..MaxVer
      BY <2>3, ConstantsAssumption DEF PeerLoses
    <3> QED
      BY <1>1, <3>1
  <2>4. ASSUME NEW w \in late, LateArrives(w) \/ LateVanishes(w)
        PROVE  Goal
    <3>1. w \in Writes
      BY DEF TypeOK
    <3>2. Apply(w) \/ UNCHANGED db
      BY <2>4 DEF LateArrives, LateVanishes
    <3> QED
      BY <1>0, <1>2, <3>1, <3>2
  <2> QED
    BY <1>3, <2>1, <2>2, <2>3, <2>4 DEF ServerNext
<1>4. ASSUME NEW a \in Agents, InformNext(a)
      PROVE  UNCHANGED db
  BY <1>4 DEF InformNext, RegistryAdd, RegistryRemove, Start, Engage,
              Disengage, WatchSource, HandleSource, HandlePeer, ResyncPeer,
              ResyncSource
<1>5. ASSUME NEW a \in Agents, ReconcileNext(a)
      PROVE  Goal
  <2>1. CASE Write(a)
    BY <1>2, <2>1, WriteFacts
  <2>2. CASE ~Write(a)
    BY <1>0, <1>5, <2>2 DEF ReconcileNext, Take, ReadSource, CheckAuth, ReadPeer,
                            ReadFails, WriteTimesOut, Crash
  <2> QED
    BY <2>1, <2>2
<1> QED
  BY <1>0, <1>3, <1>4, <1>5 DEF Next, Goal

\* A version that a copy gets was published, and is newer than the one it
\* replaces.
LEMMA CopiesPublished ==
  ASSUME Inv, VersionInv, Next, NEW c \in Servers, NEW o \in Objs,
         c # HomeOf(o), db'[c][o] # db[c][o], db'[c][o] # 0
  PROVE  db'[c][o] \in 1..last[o] /\ db[c][o] < db'[c][o]
<1>1. PICK w \in Writes :
        /\ w \in late \/ \E a \in Agents : Write(a) /\ w = work[a].wr
        /\ w.to = c /\ w.obj = o /\ w.ver # 0
        /\ db'[c][o] = w.ver /\ db[c][o] = w.base
  BY DbStep
<1>2. /\ w.ver \in Nat /\ w.base \in Nat /\ last[o] \in Nat
      /\ w.ver # w.base
  BY <1>1 DEF Writes, Inv, TypeOK
<1>3. w.base <= w.ver /\ w.ver <= last[o]
  <2>1. CASE w \in late
    BY <1>1, <2>1 DEF VersionInv, WritesForward, Forward, SourceNewest, NotAbove
  <2>2. ASSUME NEW a \in Agents, Write(a), w = work[a].wr
        PROVE  w.base <= w.ver /\ w.ver <= last[o]
    <3>1. work[a].wr # None /\ work[a].src # None
          /\ work[a].src.obj = o /\ work[a].src.ver = w.ver
      BY <1>1, <2>2 DEF Write, Inv, WorkShape, CallShape
    <3>2. HomeOf(o) = a
      BY <1>1, <2>2, <3>1, WritesOwnOnly DEF Inv
    <3> QED
      BY <1>1, <2>2, <3>1, <3>2
      DEF VersionInv, WritesForward, Forward, CallNewest, Newest
  <2> QED
    BY <1>1, <2>1, <2>2
<1> QED
  BY <1>1, <1>2, <1>3

\* Every step is a step of the mirror or changes nothing there.
LEMMA MirrorStep ==
  ASSUME Inv, VersionInv, Next
  PROVE  M!Next \/ UNCHANGED <<db, last>>
<1>t. /\ db \in [Servers -> [Objs -> 0..MaxVer]]
      /\ last \in [Objs -> 0..MaxVer]
  BY DEF Inv, TypeOK
<1>1. CASE \E o \in Objs : ShardWrite(o)
  <2>1. PICK o \in Objs : ShardWrite(o)
    BY <1>1
  <2>2. M!Publish(o)
    BY <2>1 DEF ShardWrite, Put, M!Publish
  <2> QED
    BY <2>2 DEF M!Next
<1>2. CASE \A o \in Objs : ~ShardWrite(o)
  <2>1. last' = last
    <3>1. \A o \in Objs : last'[o] = last[o]
      BY <1>2, LastStep
    <3>2. last' \in [Objs -> 0..MaxVer]
      BY InvStep DEF Inv, TypeOK
    <3> QED
      BY <1>t, <3>1, <3>2
  <2>2. ASSUME NEW c \in Servers, NEW o \in Objs, NEW v \in 0..MaxVer,
               db[c][o] # v, db' = [db EXCEPT ![c][o] = v]
        PROVE  M!Next
    <3>1. db'[c][o] = v
      BY <1>t, <2>2
    <3>2. CASE v = 0
      <4>1. M!Drop(c, o)
        BY <2>1, <2>2, <3>2 DEF M!Drop
      <4> QED
        BY <4>1 DEF M!Next
    <3>3. CASE v # 0
      <4>1. c # HomeOf(o)
        BY <1>2, <2>2, <3>1, <3>3, DbStep
      <4>2. v \in 1..last[o] /\ db[c][o] < v
        BY <2>2, <3>1, <3>3, <4>1, CopiesPublished
      <4>3. M!Copy(c, o)
        BY <2>1, <2>2, <4>1, <4>2 DEF M!Copy
      <4> QED
        BY <4>3 DEF M!Next
    <3> QED
      BY <3>2, <3>3
  <2> QED
    BY <2>1, <2>2, OneAtATime DEF Inv
<1> QED
  BY <1>1, <1>2

\* Replication implements the mirror: whatever informers, queues, retries,
\* crashes, lost and delayed writes do, a cache-server only ever shows what the
\* object's shard published, and nothing older than it showed before.
THEOREM ReplicationIsAMirror == Spec => ImplementsMirror
<1>1. Init => M!Init
  BY DEF Init, M!Init
<1>2. Inv /\ VersionInv /\ [Next]_vars => [M!Next]_<<db, last>>
  BY MirrorStep DEF vars
<1> QED
  BY <1>1, <1>2, VersionInvariance, PTL DEF Spec, ImplementsMirror, M!Spec
=============================================================================
