------------------------- MODULE ReplicationProofs -------------------------
(***************************************************************************)
(* What Replication promises for every set of servers, shards and objects, *)
(* every bound on versions and failures.                                   *)
(***************************************************************************)
EXTENDS ReplicationInvariants, TLAPS

-----------------------------------------------------------------------------
(* Type correctness. *)

\* A write of a server keeps the types of all that it changes (Put).
LEMMA PutType ==
  ASSUME TypeOK, NEW c \in Servers, NEW o \in Objs, NEW v \in 0..MaxVer,
         Put(c, o, v)
  PROVE  /\ db' \in [Servers -> [Objs -> 0..MaxVer]]
         /\ srcEvents' \in [Agents -> SUBSET Objs]
         /\ peerEvents' \in [Agents -> [Servers -> SUBSET Objs]]
BY DEF TypeOK, Put

\* So does a write that the server may refuse (Apply).
LEMMA ApplyType ==
  ASSUME TypeOK, NEW w \in Writes, Apply(w)
  PROVE  /\ db' \in [Servers -> [Objs -> 0..MaxVer]]
         /\ srcEvents' \in [Agents -> SUBSET Objs]
         /\ peerEvents' \in [Agents -> [Servers -> SUBSET Objs]]
<1>1. CASE Put(w.to, w.obj, w.ver)
  <2>1. w.to \in Servers /\ w.obj \in Objs /\ w.ver \in 0..MaxVer
    BY DEF Writes
  <2> QED  BY <1>1, <2>1, PutType
<1>2. CASE UNCHANGED <<db, srcEvents, peerEvents>>
  BY <1>2 DEF TypeOK
<1> QED  BY <1>1, <1>2 DEF Apply

\* Counting a failure stays within the bound.
LEMMA FaultType ==
  ASSUME TypeOK, Fault
  PROVE  faults' \in 0..MaxFaults
BY ConstantsAssumption DEF TypeOK, Fault

\* Steps of the cache-servers keep every variable in its type (ServerNext).
LEMMA ServerType ==
  ASSUME TypeOK, ServerNext
  PROVE  TypeOK'
<1> USE ConstantsAssumption
<1>1. ASSUME NEW o \in Objs, ShardWrite(o)
      PROVE  TypeOK'
  <2>1. HomeOf(o) \in Servers /\ last[o] + 1 \in 0..MaxVer
    BY <1>1 DEF HomeOf, ShardWrite, TypeOK
  <2>2. Put(HomeOf(o), o, last[o] + 1)
    BY <1>1 DEF ShardWrite
  <2>3. last' \in [Objs -> 0..MaxVer]
    BY <1>1, <2>1 DEF ShardWrite, TypeOK
  <2> QED  BY <1>1, <2>1, <2>2, <2>3, PutType DEF ShardWrite, TypeOK, agentVars
<1>2. ASSUME NEW o \in Objs, ShardDelete(o)
      PROVE  TypeOK'
  <2>1. HomeOf(o) \in Servers /\ 0 \in 0..MaxVer
    BY DEF HomeOf
  <2>2. Put(HomeOf(o), o, 0)
    BY <1>2 DEF ShardDelete
  <2> QED  BY <1>2, <2>1, <2>2, PutType DEF ShardDelete, TypeOK, agentVars
<1>3. ASSUME NEW c \in Servers, NEW o \in Objs, PeerLoses(c, o)
      PROVE  TypeOK'
  <2>1. Put(c, o, 0) /\ 0 \in 0..MaxVer
    BY <1>3 DEF PeerLoses
  <2> QED  BY <1>3, <2>1, PutType, FaultType DEF PeerLoses, TypeOK, agentVars
<1>4. ASSUME NEW w \in late, LateArrives(w)
      PROVE  TypeOK'
  <2>1. w \in Writes /\ Apply(w)
    BY <1>4 DEF LateArrives, TypeOK
  <2> QED  BY <1>4, <2>1, ApplyType DEF LateArrives, TypeOK, agentVars
<1>5. ASSUME NEW w \in late, LateVanishes(w)
      PROVE  TypeOK'
  BY <1>5 DEF LateVanishes, TypeOK, agentVars
<1> QED  BY <1>1, <1>2, <1>3, <1>4, <1>5 DEF ServerNext

\* So do the steps of the registry, the informers and the handlers (InformNext).
LEMMA InformType ==
  ASSUME TypeOK, NEW a \in Agents, InformNext(a)
  PROVE  TypeOK'
<1> USE ConstantsAssumption
<1>1. ASSUME NEW s \in Shards, RegistryAdd(a, s)
      PROVE  TypeOK'
  BY <1>1 DEF RegistryAdd, TypeOK
<1>10. ASSUME NEW s \in Shards, RegistryRemove(a, s)
      PROVE  TypeOK'
  BY <1>10, FaultType DEF RegistryRemove, TypeOK
<1>2. CASE Start(a)
  <2>1. store' \in [Agents -> [Names -> Copies \cup {None}]]
    BY <1>2 DEF Start, TypeOK
  <2>2. notif' \in [Agents -> SUBSET Objs]
    BY <1>2 DEF Start, Present, TypeOK
  <2>3. running' \in [Agents -> BOOLEAN]
    BY <1>2 DEF Start, TypeOK
  <2> QED  BY <1>2, <2>1, <2>2, <2>3 DEF Start, TypeOK
<1>3. ASSUME NEW p \in Servers, Engage(a, p)
      PROVE  TypeOK'
  BY <1>3 DEF Engage, Present, Requests, TypeOK
<1>4. ASSUME NEW p \in Servers, Disengage(a, p)
      PROVE  TypeOK'
  BY <1>4, FaultType DEF Disengage, TypeOK
<1>5. ASSUME NEW o \in Objs, WatchSource(a, o)
      PROVE  TypeOK'
  <2>1. Entry(o, db[a][o]) \in Copies \cup {None}
    BY DEF Entry, Copies, Versions, TypeOK
  <2>2. store' \in [Agents -> [Names -> Copies \cup {None}]]
    BY <1>5, <2>1 DEF WatchSource, TypeOK
  <2> QED  BY <1>5, <2>2 DEF WatchSource, TypeOK
<1>6. ASSUME NEW o \in Objs, HandleSource(a, o)
      PROVE  TypeOK'
  BY <1>6 DEF HandleSource, Requests, TypeOK
<1>7. ASSUME NEW p \in Servers, NEW o \in Objs, HandlePeer(a, p, o)
      PROVE  TypeOK'
  <2>1. <<p, NameOf[o]>> \in Requests
    BY DEF Requests
  <2>2. /\ queue' \in [Agents -> SUBSET Requests]
        /\ asked' \in [Agents -> SUBSET Requests]
    BY <1>7, <2>1 DEF HandlePeer, TypeOK
  <2>3. peerEvents' \in [Agents -> [Servers -> SUBSET Objs]]
    BY <1>7 DEF HandlePeer, TypeOK
  <2> QED  BY <1>7, <2>2, <2>3 DEF HandlePeer, TypeOK
<1>8. ASSUME NEW p \in Servers, NEW o \in Objs, ResyncPeer(a, p, o)
      PROVE  TypeOK'
  BY <1>8 DEF ResyncPeer, TypeOK
<1>9. ASSUME NEW n \in Names, ResyncSource(a, n)
      PROVE  TypeOK'
  BY <1>9 DEF ResyncSource, Copies, TypeOK
<1> QED
  BY <1>1, <1>2, <1>3, <1>4, <1>5, <1>6, <1>7, <1>8, <1>9, <1>10 DEF InformNext

\* A write that Reconcile decides on carries the source's version, or deletes
\* when there is none, and names the version it read (Decide).
LEMMA DecideFacts ==
  ASSUME NEW src \in Copies \cup {None}, NEW p \in Servers, NEW o \in Objs,
         NEW v \in 0..MaxVer, Decide(src, p, o, v) # None
  PROVE  LET w == Decide(src, p, o, v) IN
         /\ w \in Writes
         /\ w.to = p /\ w.obj = o /\ w.base = v
         /\ src = None <=> w.ver = 0
         /\ src # None => w.ver = src.ver
BY ConstantsAssumption DEF Decide, Writes, Copies, Versions

\* Reconcile decides on no write only when the peer is as the source wants it.
LEMMA DecideNothing ==
  ASSUME NEW src \in Copies \cup {None}, NEW p \in Servers, NEW o \in Objs,
         NEW v \in 0..MaxVer, Decide(src, p, o, v) = None
  PROVE  /\ src = None => v = 0
         /\ src # None => v # 0 /\ objectsMatch(src.ver, v)
<1>1. ASSUME NEW n \in 0..MaxVer, NEW m \in 0..MaxVer
      PROVE  [to |-> p, obj |-> o, ver |-> n, base |-> m] # None
  <2>1. [to |-> p, obj |-> o, ver |-> n, base |-> m] \in
          [to : Servers, obj : Objs, ver : 0..MaxVer, base : 0..MaxVer]
    OBVIOUS
  <2> QED  BY <2>1, ConstantsAssumption
<1>2. 0 \in 0..MaxVer
  BY ConstantsAssumption
<1>3. CASE src = None
  BY <1>1, <1>2, <1>3 DEF Decide
<1>4. CASE src # None
  <2>1. src.ver \in 0..MaxVer
    BY <1>4 DEF Copies, Versions
  <2>2. CASE v = 0
    BY <1>1, <1>2, <1>4, <2>1, <2>2 DEF Decide
  <2>3. CASE v # 0 /\ ~objectsMatch(src.ver, v)
    BY <1>1, <1>4, <2>1, <2>3 DEF Decide
  <2> QED  BY <1>4, <2>2, <2>3
<1> QED  BY <1>3, <1>4

\* The peer Get was answered with an object of the source object's name that is
\* not the source's: the call returns, or its Update is refused and it retries.
AnotherAnswers(a) ==
  /\ \E x \in Objs : /\ x # work[a].src.obj /\ work[a].src.obj \in Objs
                     /\ NameOf[x] = NameOf[work[a].src.obj]
  /\ Done(a) \/ Requeue(a)

\* ReadPeer looks at an object of the requested name.  If that is not another
\* than the source's own, it returns or goes on to the write it decided on.
LEMMA ReadPeerFacts ==
  ASSUME TypeOK, WorkShape, NEW a \in Agents, ReadPeer(a)
  PROVE  \/ AnotherAnswers(a)
         \/ \E o \in Objs :
              LET p == work[a].req[1]
                  w == Decide(work[a].src, p, o, db[p][o])
              IN  /\ p \in Servers /\ db[p][o] \in 0..MaxVer
                  /\ NameOf[o] = work[a].req[2]
                  /\ work[a].src # None => o = work[a].src.obj
                  /\ \/ w = None /\ Done(a)
                     \/ /\ w # None
                        /\ work' = [work EXCEPT ![a].pc = "write", ![a].wr = w]
                        /\ UNCHANGED queue
<1> DEFINE p == work[a].req[1]
           W(o) == Decide(work[a].src, p, o, db[p][o])
<1>1. PICK o \in PeerCandidates(work[a].src, p, work[a].req[2]) :
        IF work[a].src # None /\ o # work[a].src.obj
          THEN Done(a) \/ Requeue(a)
          ELSE IF W(o) = None
            THEN Done(a)
            ELSE /\ work' = [work EXCEPT ![a].pc = "write", ![a].wr = W(o)]
                 /\ UNCHANGED queue
  BY DEF ReadPeer
<1>2. work[a].req \in Requests /\ work[a].src \in Copies \cup {None}
  BY DEF ReadPeer, WorkShape, CallShape, TypeOK, Works
<1>3. /\ o \in Objs /\ NameOf[o] = work[a].req[2]
      /\ work[a].src # None => /\ work[a].src.obj \in Objs
                               /\ NameOf[work[a].src.obj] = work[a].req[2]
  BY <1>2 DEF PeerCandidates, Copies, Present, WorkShape, CallShape
<1>4. p \in Servers
  BY <1>2 DEF Requests
<1>5. db[p][o] \in 0..MaxVer
  BY <1>3, <1>4 DEF TypeOK
<1>6. CASE work[a].src # None /\ o # work[a].src.obj
  BY <1>1, <1>3, <1>6 DEF AnotherAnswers
<1>7. CASE ~(work[a].src # None /\ o # work[a].src.obj)
  BY <1>1, <1>3, <1>4, <1>5, <1>7
<1> QED  BY <1>6, <1>7

\* After ReadPeer the call is over or has its write; its request is back in the
\* queue, or nothing is.
LEMMA ReadPeerEnds ==
  ASSUME TypeOK, WorkShape, NEW a \in Agents, ReadPeer(a)
  PROVE  \/ /\ work' = [work EXCEPT ![a] = Idle]
            /\ \/ queue' = queue
               \/ queue' = [queue EXCEPT ![a] = @ \cup {work[a].req}]
         \/ /\ \E w : work' = [work EXCEPT ![a].pc = "write", ![a].wr = w]
            /\ queue' = queue
BY ReadPeerFacts DEF AnotherAnswers, Done, Requeue

\* The server stores the write or nothing changes (Apply).
LEMMA ApplyFacts ==
  ASSUME TypeOK, NEW w \in Writes, Apply(w)
  PROVE  /\ w.to \in Servers /\ w.obj \in Objs
         /\ \/ /\ Put(w.to, w.obj, w.ver)
               /\ db[w.to][w.obj] # w.ver
               /\ w.ver = 0 \/ db[w.to][w.obj] = w.base
            \/ /\ UNCHANGED <<db, srcEvents, peerEvents>>
               /\ Accepts(w) => db[w.to][w.obj] = w.ver
BY DEF Apply, Accepts, Writes

\* Write applies the write of the Reconcile call and ends the call.
LEMMA WriteFacts ==
  ASSUME TypeOK, WorkShape, NEW a \in Agents, Write(a)
  PROVE  /\ work[a].wr \in Writes /\ Apply(work[a].wr)
         /\ work[a].req \in Requests
         /\ work' = [work EXCEPT ![a] = Idle]
         /\ \/ Accepts(work[a].wr) /\ queue' = queue
            \/ queue' = [queue EXCEPT ![a] = @ \cup {work[a].req}]
         /\ UNCHANGED <<last, running, auth, engaged, store, notif, late,
                        asked, faults>>
<1>1. work[a].wr \in Writes /\ work[a].req \in Requests
  BY DEF Write, WorkShape, CallShape, TypeOK, Works
<1>2. IF Accepts(work[a].wr) THEN Done(a) ELSE Requeue(a)
  BY DEF Write
<1> QED  BY <1>1, <1>2 DEF Write, Done, Requeue

\* The source Get finds what the informer holds, or some object of that name
\* that the server has, or none.
LEMMA ReadSourceFacts ==
  ASSUME TypeOK, WorkShape, NEW a \in Agents, ReadSource(a)
  PROVE  \E obj \in Copies \cup {None} :
           LET n == work[a].req[2] IN
           /\ work[a].pc = "get" /\ n \in Names
           /\ obj \in SourceCandidates(a, n)
           /\ \/ ReadsCache /\ obj = store[a][n]
              \/ ~ReadsCache /\ obj = None
              \/ /\ ~ReadsCache
                 /\ \E o \in Objs : /\ NameOf[o] = n /\ db[a][o] # 0
                                    /\ obj = [obj |-> o, ver |-> db[a][o]]
           /\ work' = [work EXCEPT
                ![a] = [@ EXCEPT !.pc = IF obj = None THEN "peer" ELSE "auth",
                                 !.src = obj]]
<1> DEFINE n == work[a].req[2]
           After(obj) == [work EXCEPT
             ![a].pc = IF obj = None THEN "peer" ELSE "auth", ![a].src = obj]
<1>1. work \in [Agents -> Works] /\ work[a] \in Works
  BY DEF TypeOK
<1>2. n \in Names
  BY DEF ReadSource, WorkShape, CallShape, Requests
<1>3. PICK obj \in SourceCandidates(a, n) : work' = After(obj)
  BY DEF ReadSource
<1>4. work' = [work EXCEPT
        ![a] = [@ EXCEPT !.pc = IF obj = None THEN "peer" ELSE "auth",
                         !.src = obj]]
  BY <1>1, <1>3
<1>5. CASE ReadsCache
  <2>1. obj = store[a][n]
    BY <1>3, <1>5 DEF SourceCandidates
  <2>2. obj \in Copies \cup {None}
    BY <1>2, <2>1 DEF TypeOK
  <2> QED  BY <1>2, <1>3, <1>4, <1>5, <2>1, <2>2 DEF ReadSource
<1>6. CASE ~ReadsCache
  <2>1. obj \in Listed(a, n)
    BY <1>3, <1>6 DEF SourceCandidates
  <2>2. CASE obj = None
    BY <1>2, <1>3, <1>4, <1>6, <2>2 DEF ReadSource
  <2>3. CASE obj # None
    <3>1. PICK o \in Present(a) : NameOf[o] = n /\ obj = Entry(o, db[a][o])
      BY <2>1, <2>3 DEF Listed
    <3>2. /\ o \in Objs /\ db[a][o] # 0
          /\ obj = [obj |-> o, ver |-> db[a][o]]
      BY <3>1 DEF Present, Entry
    <3>3. a \in Servers
      BY ConstantsAssumption
    <3>4. db[a][o] \in Versions
      BY <3>2, <3>3 DEF TypeOK, Versions
    <3>5. obj \in Copies \cup {None}
      BY <3>2, <3>4 DEF Copies
    <3> QED  BY <1>2, <1>3, <1>4, <1>6, <3>1, <3>2, <3>5 DEF ReadSource
  <2> QED  BY <2>2, <2>3
<1> QED  BY <1>5, <1>6

\* Steps of a Reconcile call, failures and crashes keep every variable in its
\* type (ReconcileNext).
LEMMA ReconcileType ==
  ASSUME TypeOK, WorkShape, NEW a \in Agents, ReconcileNext(a)
  PROVE  TypeOK'
<1> USE ConstantsAssumption
<1>a. work \in [Agents -> Works] /\ work[a] \in Works
  BY DEF TypeOK
<1>b. Idle \in Works
  BY DEF Idle, Works, Steps
<1>c. work[a].pc # "idle" => work[a].req \in Requests
  BY DEF WorkShape, CallShape
<1>1. ASSUME NEW r \in Requests, Take(a, r)
      PROVE  TypeOK'
  <2>1. [Idle EXCEPT !.pc = "get", !.req = r] \in Works
    BY <1>b DEF Idle, Works, Steps
  <2>2. work' \in [Agents -> Works]
    BY <1>1, <2>1, <1>a DEF Take
  <2> QED  BY <1>1, <2>2 DEF Take, TypeOK
<1>2. CASE ReadSource(a)
  <2>1. PICK obj \in Copies \cup {None} :
          work' = [work EXCEPT
            ![a] = [@ EXCEPT !.pc = IF obj = None THEN "peer" ELSE "auth",
                             !.src = obj]]
    BY <1>2, ReadSourceFacts
  <2>2. [work[a] EXCEPT !.pc = IF obj = None THEN "peer" ELSE "auth",
                        !.src = obj] \in Works
    BY <1>a DEF Works, Steps
  <2>3. work' \in [Agents -> Works]
    BY <1>a, <2>1, <2>2
  <2> QED  BY <1>2, <2>3 DEF ReadSource, TypeOK
<1>3. CASE CheckAuth(a)
  <2>1. work' \in [Agents -> Works]
    BY <1>3, <1>a, <1>b DEF CheckAuth, Done, Works, Steps
  <2>2. asked \in [Agents -> SUBSET Requests]
    BY DEF TypeOK
  <2>3. asked' \in [Agents -> SUBSET Requests] /\ queue' = queue
    BY <1>3, <2>2 DEF CheckAuth, Done
  <2> QED  BY <1>3, <2>1, <2>3 DEF CheckAuth, TypeOK
<1>4. CASE ReadPeer(a)
  <2>0. work[a].req \in Requests
    BY <1>4 DEF ReadPeer, TypeOK, Works, WorkShape, CallShape
  <2>1. CASE AnotherAnswers(a)
    <3>1. Done(a) \/ Requeue(a)
      BY <2>1 DEF AnotherAnswers
    <3>2. queue \in [Agents -> SUBSET Requests]
      BY DEF TypeOK
    <3>3. work' \in [Agents -> Works]
      BY <3>1, <1>a, <1>b DEF Done, Requeue
    <3>4. queue' \in [Agents -> SUBSET Requests]
      BY <3>1, <3>2, <2>0 DEF Done, Requeue
    <3> QED  BY <1>4, <3>3, <3>4 DEF ReadPeer, TypeOK
  <2>2. CASE ~AnotherAnswers(a)
    <3> DEFINE p == work[a].req[1]
               W(o) == Decide(work[a].src, p, o, db[p][o])
    <3>1. PICK o \in Objs :
            /\ p \in Servers /\ db[p][o] \in 0..MaxVer
            /\ \/ W(o) = None /\ Done(a)
               \/ /\ W(o) # None
                  /\ work' = [work EXCEPT ![a].pc = "write", ![a].wr = W(o)]
                  /\ UNCHANGED queue
      BY <1>4, <2>2, ReadPeerFacts
    <3>2. W(o) # None => W(o) \in Writes
      BY <3>1, <1>a, DecideFacts DEF Works
    <3>3. work' \in [Agents -> Works] /\ queue' = queue
      <4>1. CASE W(o) = None
        BY <3>1, <4>1, <1>a, <1>b DEF Done
      <4>2. CASE W(o) # None
        BY <3>1, <3>2, <4>2, <1>a DEF Works, Steps
      <4> QED  BY <4>1, <4>2
    <3> QED  BY <1>4, <3>3 DEF ReadPeer, TypeOK
  <2> QED  BY <2>1, <2>2
<1>5. CASE Write(a)
  <2>1. /\ db' \in [Servers -> [Objs -> 0..MaxVer]]
        /\ srcEvents' \in [Agents -> SUBSET Objs]
        /\ peerEvents' \in [Agents -> [Servers -> SUBSET Objs]]
    BY <1>5, WriteFacts, ApplyType
  <2>2. work' \in [Agents -> Works] /\ queue' \in [Agents -> SUBSET Requests]
    <3>1. work' \in [Agents -> Works]
      BY <1>5, <1>a, <1>b, WriteFacts
    <3>2. work[a].req \in Requests /\ queue \in [Agents -> SUBSET Requests]
      BY <1>5, WriteFacts DEF TypeOK
    <3> QED  BY <1>5, <3>1, <3>2, WriteFacts
  <2>3. UNCHANGED <<last, running, auth, engaged, store, notif, late, asked,
                    faults>>
    BY <1>5, WriteFacts
  <2> QED  BY <2>1, <2>2, <2>3 DEF TypeOK
<1>6. CASE ReadFails(a)
  <2>1. work' \in [Agents -> Works] /\ queue' \in [Agents -> SUBSET Requests]
    BY <1>6, <1>a, <1>b, <1>c DEF ReadFails, Requeue, TypeOK
  <2>2. faults' \in 0..MaxFaults
    BY <1>6, FaultType DEF ReadFails
  <2> QED  BY <1>6, <2>1, <2>2 DEF ReadFails, TypeOK
<1>7. CASE WriteTimesOut(a)
  <2>1. work' \in [Agents -> Works] /\ queue' \in [Agents -> SUBSET Requests]
    BY <1>7, <1>a, <1>b, <1>c DEF WriteTimesOut, Requeue, TypeOK
  <2>2. late' \subseteq Writes
    BY <1>7, <1>a DEF WriteTimesOut, WorkShape, CallShape, Works, TypeOK
  <2>3. faults' \in 0..MaxFaults
    BY <1>7, FaultType DEF WriteTimesOut
  <2> QED  BY <1>7, <2>1, <2>2, <2>3 DEF WriteTimesOut, TypeOK
<1>8. CASE Crash(a)
  <2>1. work' \in [Agents -> Works]
    BY <1>8, <1>a, <1>b DEF Crash
  <2>2. late' \subseteq Writes
    BY <1>8, <1>a DEF Crash, WorkShape, CallShape, Works, TypeOK
  <2>3. faults' \in 0..MaxFaults
    BY <1>8, FaultType DEF Crash
  <2> QED  BY <1>8, <2>1, <2>2, <2>3 DEF Crash, TypeOK
<1> QED
  BY <1>1, <1>2, <1>3, <1>4, <1>5, <1>6, <1>7, <1>8 DEF ReconcileNext

-----------------------------------------------------------------------------
(* The first layer of the invariant. *)

\* Only the worker's own steps touch its Reconcile call.
LEMMA WorkUntouched ==
  /\ ServerNext => UNCHANGED agentVars
  /\ \A a \in Agents : InformNext(a) => UNCHANGED work
<1>1. ServerNext => UNCHANGED agentVars
  BY DEF ServerNext, ShardWrite, ShardDelete, PeerLoses, LateArrives,
         LateVanishes
<1>2. ASSUME NEW a \in Agents, InformNext(a)
      PROVE  UNCHANGED work
  BY <1>2 DEF InformNext, RegistryAdd, RegistryRemove, Start, Engage,
         Disengage, WatchSource, HandleSource, HandlePeer, ResyncPeer,
         ResyncSource
<1> QED  BY <1>1, <1>2

\* A step of a Reconcile call leaves the call with the fields its next step
\* needs (Reconcile).
LEMMA ShapeStep ==
  ASSUME Inv, NEW a \in Agents, ReconcileNext(a)
  PROVE  WorkShape'
<1> USE ConstantsAssumption DEF Inv
<1>a. work \in [Agents -> Works] /\ work[a] \in Works /\ CallShape(work[a])
  BY DEF TypeOK, WorkShape
<1>b. CallShape(Idle)
  BY DEF Idle, CallShape
<1>c. SUFFICES \E w : work' = [work EXCEPT ![a] = w] /\ CallShape(w)
  BY <1>a DEF WorkShape
<1>1. ASSUME NEW r \in Requests, Take(a, r)
      PROVE  \E w : work' = [work EXCEPT ![a] = w] /\ CallShape(w)
  <2>1. CallShape([Idle EXCEPT !.pc = "get", !.req = r])
    BY DEF Idle, CallShape
  <2> QED  BY <1>1, <2>1 DEF Take
<1>2. CASE ReadSource(a)
  <2> DEFINE n == work[a].req[2]
             W(obj) == [work[a] EXCEPT
               !.pc = IF obj = None THEN "peer" ELSE "auth", !.src = obj]
  <2>1. PICK obj \in Copies \cup {None} :
          /\ work[a].pc = "get" /\ n \in Names
          /\ \/ ReadsCache /\ obj = store[a][n]
             \/ ~ReadsCache /\ obj = None
             \/ /\ ~ReadsCache
                /\ \E o \in Objs : /\ NameOf[o] = n /\ db[a][o] # 0
                                   /\ obj = [obj |-> o, ver |-> db[a][o]]
          /\ work' = [work EXCEPT ![a] = W(obj)]
    BY <1>2, ReadSourceFacts
  <2>3. obj # None => NameOf[obj.obj] = n
    BY <2>1 DEF RightServers
  <2> DEFINE w == W(obj)
  <2>4. CallShape(w)
    BY <2>1, <1>a, <2>3 DEF CallShape, Works
  <2> QED  BY <2>1, <2>4
<1>3. CASE CheckAuth(a)
  BY <1>3, <1>a, <1>b DEF CheckAuth, Done, CallShape, Works
<1>9. CASE ReadPeer(a) /\ AnotherAnswers(a)
  BY <1>9, <1>b DEF AnotherAnswers, Done, Requeue
<1>4. CASE ReadPeer(a) /\ ~AnotherAnswers(a)
  <2> DEFINE p == work[a].req[1]
             W(o) == Decide(work[a].src, p, o, db[p][o])
  <2>0. ~AnotherAnswers(a)
    BY <1>4
  <2>1. PICK o \in Objs :
          /\ p \in Servers /\ db[p][o] \in 0..MaxVer
          /\ NameOf[o] = work[a].req[2]
          /\ work[a].src # None => o = work[a].src.obj
          /\ \/ W(o) = None /\ Done(a)
             \/ /\ W(o) # None
                /\ work' = [work EXCEPT ![a].pc = "write", ![a].wr = W(o)]
                /\ UNCHANGED queue
    BY <1>4, <2>0, ReadPeerFacts
  <2>2. CASE W(o) = None
    BY <2>1, <2>2, <1>b DEF Done
  <2>3. CASE W(o) # None
    <3> DEFINE w == [work[a] EXCEPT !.pc = "write", !.wr = W(o)]
    <3>1. work' = [work EXCEPT ![a] = w]
      BY <2>1, <2>3, <1>a
    <3>2. /\ W(o).to = p /\ W(o).obj = o
          /\ work[a].src = None <=> W(o).ver = 0
          /\ work[a].src # None => W(o).ver = work[a].src.ver
      BY <2>1, <2>3, <1>a, DecideFacts DEF Works
    <3>3. work[a].pc = "peer"
      BY <1>4 DEF ReadPeer
    <3>4. CallShape(w)
      <4> HIDE DEF W, p
      <4> QED  BY <2>1, <2>3, <3>2, <3>3, <1>a DEF CallShape, Works, p
    <3> QED  BY <3>1, <3>4
  <2> QED  BY <2>2, <2>3
<1>5. CASE Write(a)
  BY <1>5, <1>b DEF Write, Done, Requeue
<1>6. CASE ReadFails(a)
  BY <1>6, <1>b DEF ReadFails, Requeue
<1>7. CASE WriteTimesOut(a)
  BY <1>7, <1>b DEF WriteTimesOut, Requeue
<1>8. CASE Crash(a)
  BY <1>8, <1>b DEF Crash
<1> QED
  BY <1>1, <1>2, <1>3, <1>4, <1>5, <1>6, <1>7, <1>8, <1>9 DEF ReconcileNext

\* An agent that is down stays empty until it starts, and loses with a peer all
\* it held of the peer (Crash, Disengage).
LEMMA DownIsEmptyStep ==
  ASSUME Inv, Next
  PROVE  DownIsEmpty'
<1> USE ConstantsAssumption DEF Inv
<1>1. ASSUME NEW c \in Servers, NEW o \in Objs, NEW v, Put(c, o, v),
             UNCHANGED agentVars
      PROVE  DownIsEmpty'
  BY <1>1 DEF Put, agentVars, DownIsEmpty, TypeOK
<1>2. ASSUME UNCHANGED <<agentVars, srcEvents, peerEvents>>
      PROVE  DownIsEmpty'
  BY <1>2 DEF agentVars, DownIsEmpty
<1>3. CASE ServerNext
  <2>1. UNCHANGED agentVars
    BY <1>3, WorkUntouched
  <2>2. ASSUME NEW o \in Objs, ShardWrite(o) \/ ShardDelete(o)
        PROVE  DownIsEmpty'
    BY <2>1, <2>2, <1>1 DEF ShardWrite, ShardDelete, HomeOf
  <2>3. ASSUME NEW c \in Servers, NEW o \in Objs, PeerLoses(c, o)
        PROVE  DownIsEmpty'
    BY <2>1, <2>3, <1>1 DEF PeerLoses
  <2>4. ASSUME NEW w \in late, LateArrives(w)
        PROVE  DownIsEmpty'
    <3>1. w.to \in Servers /\ w.obj \in Objs
      BY DEF TypeOK, Writes
    <3> QED  BY <2>1, <2>4, <3>1, <1>1, <1>2 DEF LateArrives, Apply
  <2>5. ASSUME NEW w \in late, LateVanishes(w)
        PROVE  DownIsEmpty'
    BY <2>5, <1>2 DEF LateVanishes
  <2> QED  BY <1>3, <2>2, <2>3, <2>4, <2>5 DEF ServerNext
<1>4. ASSUME NEW a \in Agents, InformNext(a)
      PROVE  DownIsEmpty'
  <2>1. ASSUME NEW s \in Shards, RegistryAdd(a, s) \/ RegistryRemove(a, s)
        PROVE  DownIsEmpty'
    BY <2>1 DEF RegistryAdd, RegistryRemove, DownIsEmpty
  <2>2. CASE Start(a)
    BY <2>2 DEF Start, DownIsEmpty, TypeOK
  <2>3. ASSUME NEW p \in Servers, Engage(a, p)
        PROVE  DownIsEmpty'
    BY <2>3 DEF Engage, DownIsEmpty, TypeOK
  <2>4. ASSUME NEW p \in Servers, Disengage(a, p)
        PROVE  DownIsEmpty'
    BY <2>4 DEF Disengage, DownIsEmpty, TypeOK
  <2>5. ASSUME NEW o \in Objs, WatchSource(a, o)
        PROVE  DownIsEmpty'
    BY <2>5 DEF WatchSource, DownIsEmpty, TypeOK
  <2>6. ASSUME NEW o \in Objs, HandleSource(a, o)
        PROVE  DownIsEmpty'
    BY <2>6 DEF HandleSource, DownIsEmpty, TypeOK
  <2>7. ASSUME NEW p \in Servers, NEW o \in Objs, HandlePeer(a, p, o)
        PROVE  DownIsEmpty'
    BY <2>7 DEF HandlePeer, DownIsEmpty, TypeOK
  <2>8. ASSUME NEW p \in Servers, NEW o \in Objs, ResyncPeer(a, p, o)
        PROVE  DownIsEmpty'
    BY <2>8 DEF ResyncPeer, DownIsEmpty, TypeOK
  <2>9. ASSUME NEW n \in Names, ResyncSource(a, n)
        PROVE  DownIsEmpty'
    BY <2>9 DEF ResyncSource, DownIsEmpty, TypeOK
  <2> QED
    BY <1>4, <2>1, <2>2, <2>3, <2>4, <2>5, <2>6, <2>7, <2>8, <2>9
    DEF InformNext
<1>5. ASSUME NEW a \in Agents, ReconcileNext(a)
      PROVE  DownIsEmpty'
  <2>t. /\ work \in [Agents -> Works] /\ queue \in [Agents -> SUBSET Requests]
        /\ asked \in [Agents -> SUBSET Requests]
    BY DEF TypeOK
  <2>1. ASSUME NEW r \in Requests, Take(a, r)
        PROVE  DownIsEmpty'
    BY <2>1 DEF Take, DownIsEmpty, TypeOK
  <2>2. CASE ReadSource(a) \/ CheckAuth(a) \/ ReadFails(a) \/ WriteTimesOut(a)
    <3>1. CASE ReadSource(a)
      <4>1. work[a].pc = "get" /\ work' = [work EXCEPT ![a] = work'[a]]
        BY <3>1, <2>t, ReadSourceFacts DEF ReadSource
      <4> QED  BY <3>1, <4>1, <2>t DEF ReadSource, DownIsEmpty, Idle
    <3>2. CASE CheckAuth(a)
      BY <3>2, <2>t DEF CheckAuth, Done, DownIsEmpty, Idle
    <3>3. CASE ReadFails(a) \/ WriteTimesOut(a)
      BY <3>3, <2>t DEF ReadFails, WriteTimesOut, Requeue, DownIsEmpty, Idle
    <3> QED  BY <2>2, <3>1, <3>2, <3>3
  <2>3. CASE ReadPeer(a)
    <3>1. running[a]
      BY <2>3 DEF ReadPeer, DownIsEmpty, Idle
    <3>2. /\ \/ work' = [work EXCEPT ![a] = Idle]
             \/ \E w : work' = [work EXCEPT ![a].pc = "write", ![a].wr = w]
          /\ \/ queue' = queue
             \/ queue' = [queue EXCEPT ![a] = @ \cup {work[a].req}]
      BY <2>3, ReadPeerEnds
    <3>3. \A b \in Agents \ {a} : work'[b] = work[b] /\ queue'[b] = queue[b]
      BY <3>2, <2>t
    <3>4. UNCHANGED <<running, auth, engaged, srcEvents, store, notif,
                      peerEvents, asked>>
      BY <2>3 DEF ReadPeer
    <3> QED  BY <3>1, <3>3, <3>4 DEF DownIsEmpty
  <2>4. CASE Write(a)
    <3>1. running[a]
      <4>1. work[a].pc = "write"
        BY <2>4 DEF Write
      <4>2. Idle.pc = "idle"
        BY DEF Idle
      <4> QED  BY <4>1, <4>2 DEF DownIsEmpty
    <3>2. UNCHANGED <<running, engaged, store, notif, asked>>
      BY <2>4, WriteFacts
    <3>3. \A b \in Agents : b # a => queue'[b] = queue[b] /\ work'[b] = work[b]
      <4>1. /\ work \in [Agents -> Works]
            /\ queue \in [Agents -> SUBSET Requests]
        BY DEF TypeOK
      <4> QED  BY <2>4, <4>1, WriteFacts
    <3>4. /\ \A b \in Agents : ~running[b] => srcEvents'[b] = {}
          /\ \A b \in Agents : \A p \in Servers \ engaged[b] :
               peerEvents'[b][p] = {}
      <4>1. work[a].wr \in Writes /\ Apply(work[a].wr)
        BY <2>4, WriteFacts
      <4>2. CASE UNCHANGED <<db, srcEvents, peerEvents>>
        BY <4>2 DEF DownIsEmpty
      <4>3. CASE Put(work[a].wr.to, work[a].wr.obj, work[a].wr.ver)
        BY <4>3 DEF Put, DownIsEmpty
      <4> QED  BY <4>1, <4>2, <4>3, ApplyFacts
    <3> QED  BY <3>1, <3>2, <3>3, <3>4 DEF DownIsEmpty
  <2>5. CASE Crash(a)
    BY <2>5 DEF Crash, DownIsEmpty, TypeOK
  <2> QED
    BY <1>5, <2>1, <2>2, <2>3, <2>4, <2>5 DEF ReconcileNext
<1> QED  BY <1>3, <1>4, <1>5 DEF Next

\* Requests keep going to other servers only, and what is created or updated
\* keeps being the agent's own (enqueueAllPeers, isAuthoritative).
LEMMA RightServersStep ==
  ASSUME Inv, Next
  PROVE  RightServers'
<1> USE ConstantsAssumption DEF Inv
<1>1. CASE ServerNext
  <2>1. UNCHANGED agentVars
    BY <1>1, WorkUntouched
  <2> QED  BY <2>1 DEF agentVars, RightServers
<1>2. ASSUME NEW a \in Agents, InformNext(a)
      PROVE  RightServers'
  <2>1. ASSUME NEW s \in Shards, RegistryAdd(a, s) \/ RegistryRemove(a, s)
        PROVE  RightServers'
    <3>1. /\ auth \in [Agents -> SUBSET Shards]
          /\ UNCHANGED <<engaged, store, queue, work>>
      BY <2>1 DEF RegistryAdd, RegistryRemove, TypeOK
    <3>2. \/ Home[s] = a /\ auth' = [auth EXCEPT ![a] = @ \cup {s}]
          \/ auth' = [auth EXCEPT ![a] = @ \ {s}]
      BY <2>1 DEF RegistryAdd, RegistryRemove
    <3>3. \A b \in Agents : \A t \in auth'[b] : Home[t] = b
      <4>1. \A b \in Agents : \A t \in auth[b] : Home[t] = b
        BY DEF RightServers
      <4> QED  BY <3>1, <3>2, <4>1
    <3> QED  BY <3>1, <3>3 DEF RightServers
  <2>2. CASE Start(a)
    <3>1. PICK list \in [Names -> Copies \cup {None}] :
            /\ \A n \in Names : list[n] \in Listed(a, n)
            /\ store' = [store EXCEPT ![a] = list]
      BY <2>2 DEF Start
    <3>2. \A n \in Names : list[n] # None => NameOf[list[n].obj] = n
      BY <3>1 DEF Listed, Entry
    <3>3. /\ store \in [Agents -> [Names -> Copies \cup {None}]]
          /\ UNCHANGED <<auth, engaged, queue, work>>
      BY <2>2 DEF Start, TypeOK
    <3> QED  BY <3>1, <3>2, <3>3 DEF RightServers
  <2>3. ASSUME NEW p \in Servers, Engage(a, p) \/ Disengage(a, p)
        PROVE  RightServers'
    <3>1. /\ engaged \in [Agents -> SUBSET Servers]
          /\ UNCHANGED <<auth, store, queue, work>>
      BY <2>3 DEF Engage, Disengage, TypeOK
    <3>2. \/ p \in Peers(a) /\ engaged' = [engaged EXCEPT ![a] = @ \cup {p}]
          \/ engaged' = [engaged EXCEPT ![a] = @ \ {p}]
      BY <2>3 DEF Engage, Disengage
    <3> QED  BY <3>1, <3>2 DEF RightServers
  <2>4. ASSUME NEW o \in Objs, WatchSource(a, o)
        PROVE  RightServers'
    <3>1. /\ store \in [Agents -> [Names -> Copies \cup {None}]]
          /\ UNCHANGED <<auth, engaged, queue, work>>
          /\ store' = [store EXCEPT ![a][NameOf[o]] = Entry(o, db[a][o])]
      BY <2>4 DEF WatchSource, TypeOK
    <3>2. Entry(o, db[a][o]) # None => Entry(o, db[a][o]).obj = o
      BY DEF Entry
    <3> QED  BY <3>1, <3>2 DEF RightServers
  <2>5. ASSUME NEW o \in Objs, HandleSource(a, o)
        PROVE  RightServers'
    BY <2>5 DEF HandleSource, RightServers, TypeOK
  <2>6. ASSUME NEW p \in Servers, NEW o \in Objs, HandlePeer(a, p, o)
        PROVE  RightServers'
    <3>1. p \in Peers(a)
      BY <2>6 DEF HandlePeer, DownIsEmpty, RightServers
    <3>2. /\ queue' = [queue EXCEPT ![a] = @ \cup {<<p, NameOf[o]>>}]
          /\ queue \in [Agents -> SUBSET Requests]
          /\ UNCHANGED <<auth, engaged, store, work>>
      BY <2>6 DEF HandlePeer, TypeOK
    <3> QED  BY <3>1, <3>2 DEF RightServers
  <2>7. ASSUME NEW p \in Servers, NEW o \in Objs, ResyncPeer(a, p, o)
        PROVE  RightServers'
    BY <2>7 DEF ResyncPeer, RightServers
  <2>8. ASSUME NEW n \in Names, ResyncSource(a, n)
        PROVE  RightServers'
    BY <2>8 DEF ResyncSource, RightServers
  <2> QED
    BY <1>2, <2>1, <2>2, <2>3, <2>4, <2>5, <2>6, <2>7, <2>8 DEF InformNext
<1>3. ASSUME NEW a \in Agents, ReconcileNext(a)
      PROVE  RightServers'
  <2>a. /\ work \in [Agents -> Works]
        /\ queue \in [Agents -> SUBSET Requests]
        /\ engaged \in [Agents -> SUBSET Servers]
    BY DEF TypeOK
  <2>b. Idle.pc = "idle" /\ Idle.src = None
    BY DEF Idle
  <2>c. work[a].pc # "idle" => work[a].req \in Peers(a) \X Names
    BY DEF RightServers, WorkShape, CallShape, Requests, Peers
  <2>1. ASSUME NEW r \in Requests, Take(a, r)
        PROVE  RightServers'
    BY <2>1, <2>a DEF Take, Idle, RightServers, Peers, Requests
  <2>2. CASE ReadSource(a)
    <3>1. PICK obj \in Copies \cup {None} :
            work' = [work EXCEPT
              ![a] = [@ EXCEPT !.pc = IF obj = None THEN "peer" ELSE "auth",
                               !.src = obj]]
      BY <2>2, ReadSourceFacts
    <3>2. /\ work'[a].req = work[a].req /\ work'[a].src = obj
          /\ work'[a].pc = IF obj = None THEN "peer" ELSE "auth"
          /\ \A b \in Agents \ {a} : work'[b] = work[b]
      BY <2>a, <3>1 DEF Works
    <3>3. work[a].pc = "get" /\ UNCHANGED <<auth, engaged, store, queue>>
      BY <2>2 DEF ReadSource
    <3> QED  BY <3>2, <3>3 DEF RightServers
  <2>3. CASE CheckAuth(a)
    <3>1. work[a].pc = "auth" /\ UNCHANGED <<auth, engaged, store, queue>>
      BY <2>3 DEF CheckAuth, Done
    <3>2. CASE work' = [work EXCEPT ![a] = Idle]
      BY <3>1, <3>2, <2>a, <2>b DEF RightServers
    <3>3. CASE /\ work' = [work EXCEPT ![a].pc = "peer"]
               /\ ShardOf[work[a].src.obj] \in auth[a]
      <4>1. /\ work'[a].req = work[a].req /\ work'[a].src = work[a].src
            /\ \A b \in Agents \ {a} : work'[b] = work[b]
        BY <3>3, <2>a DEF Works
      <4>2. HomeOf(work[a].src.obj) = a
        BY <3>3 DEF HomeOf, RightServers
      <4> QED  BY <3>1, <4>1, <4>2 DEF RightServers, HomeOf
    <3> QED  BY <2>3, <3>2, <3>3 DEF CheckAuth, Done, IsAuthoritative
  <2>4. CASE ReadPeer(a)
    <3>1. work[a].pc = "peer" /\ UNCHANGED <<auth, engaged, store>>
      BY <2>4 DEF ReadPeer
    <3>2. \/ work' = [work EXCEPT ![a] = Idle]
          \/ /\ \E w : work' = [work EXCEPT ![a].pc = "write", ![a].wr = w]
             /\ queue' = queue
      BY <2>4, ReadPeerEnds
    <3>3. CASE work' = [work EXCEPT ![a] = Idle]
      <4>1. work[a].req \in Peers(a) \X Names
        BY <3>1, <2>c
      <4>2. \/ queue' = queue
            \/ queue' = [queue EXCEPT ![a] = @ \cup {work[a].req}]
        BY <2>4, ReadPeerEnds
      <4>3. \A b \in Agents : queue'[b] \subseteq Peers(b) \X Names
        BY <4>1, <4>2, <2>a DEF RightServers
      <4> QED  BY <3>1, <3>3, <4>3, <2>a, <2>b DEF RightServers
    <3>4. ASSUME NEW w, work' = [work EXCEPT ![a].pc = "write", ![a].wr = w],
                 queue' = queue
          PROVE  RightServers'
      <4>1. /\ work'[a].req = work[a].req /\ work'[a].src = work[a].src
            /\ \A b \in Agents : b # a => work'[b] = work[b]
        BY <3>4, <2>a DEF Works
      <4>2. UNCHANGED <<auth, engaged, store, queue>>
        BY <3>1, <3>4
      <4> QED  BY <3>1, <4>1, <4>2 DEF RightServers
    <3> QED  BY <3>2, <3>3, <3>4
  <2>5. CASE Write(a)
    <3>1. /\ work' = [work EXCEPT ![a] = Idle]
          /\ \/ queue' = queue
             \/ queue' = [queue EXCEPT ![a] = @ \cup {work[a].req}]
          /\ UNCHANGED <<auth, engaged, store>>
          /\ work[a].req \in Peers(a) \X Names
      BY <2>5, <2>c, WriteFacts DEF Write
    <3> QED  BY <3>1, <2>a, <2>b DEF RightServers
  <2>6. CASE ReadFails(a) \/ WriteTimesOut(a)
    BY <2>6, <2>a, <2>b, <2>c DEF ReadFails, WriteTimesOut, Requeue, RightServers
  <2>7. CASE Crash(a)
    BY <2>7, <2>a, <2>b DEF Crash, RightServers, TypeOK
  <2> QED
    BY <1>3, <2>1, <2>2, <2>3, <2>4, <2>5, <2>6, <2>7 DEF ReconcileNext
<1> QED  BY <1>1, <1>2, <1>3 DEF Next

\* A delayed write was the write of a Reconcile call.
LEMMA LateFacts ==
  ASSUME Next, NEW w \in late'
  PROVE  w \in late \/ \E a \in Agents : work[a].pc = "write" /\ w = work[a].wr
<1>1. CASE ServerNext
  BY <1>1 DEF ServerNext, ShardWrite, ShardDelete, PeerLoses, LateArrives,
              LateVanishes
<1>2. ASSUME NEW a \in Agents, InformNext(a)
      PROVE  w \in late
  BY <1>2 DEF InformNext, RegistryAdd, RegistryRemove, Start, Engage,
              Disengage, WatchSource, HandleSource, HandlePeer, ResyncPeer,
              ResyncSource
<1>3. ASSUME NEW a \in Agents, ReconcileNext(a)
      PROVE  w \in late \/ (work[a].pc = "write" /\ w = work[a].wr)
  BY <1>3 DEF ReconcileNext, Take, ReadSource, CheckAuth, ReadPeer, Write,
              ReadFails, WriteTimesOut, Crash
<1> QED  BY <1>1, <1>2, <1>3 DEF Next

\* What a call writes, it writes for its own agent's object to another server.
LEMMA WritesOwnOnly ==
  ASSUME TypeOK, WorkShape, RightServers, NEW a \in Agents,
         work[a].wr # None, work[a].wr.ver # 0
  PROVE  HomeOf(work[a].wr.obj) = a /\ work[a].wr.to # a
BY DEF WorkShape, CallShape, RightServers

\* The first layer holds when the agents have not started.
LEMMA InvInit == Init => Inv
<1> SUFFICES ASSUME Init
             PROVE  Inv
  OBVIOUS
<1> USE ConstantsAssumption
<1>1. TypeOK
  <2>1. Idle \in Works
    BY DEF Idle, Works, Steps
  <2>2. 0 \in 0..MaxVer /\ 0 \in 0..MaxFaults
    OBVIOUS
  <2> QED  BY <2>1, <2>2 DEF Init, TypeOK
<1>2. WorkShape
  BY DEF Init, WorkShape, CallShape, Idle
<1>3. DownIsEmpty
  BY DEF Init, DownIsEmpty
<1>4. RightServers
  BY DEF Init, RightServers, Idle
<1>5. CopiesOwnOnly
  BY DEF Init, CopiesOwnOnly, Idle
<1> QED  BY <1>1, <1>2, <1>3, <1>4, <1>5 DEF Inv

\* Every step keeps the first layer.
LEMMA InvStep == Inv /\ [Next]_vars => Inv'
<1> SUFFICES ASSUME Inv, [Next]_vars
             PROVE  Inv'
  OBVIOUS
<1>1. CASE Next
  <2>1. TypeOK'
    BY <1>1, ServerType, InformType, ReconcileType DEF Inv, Next
  <2>2. WorkShape'
    <3>1. CASE UNCHANGED work
      BY <3>1 DEF Inv, WorkShape
    <3>2. CASE \E a \in Agents : ReconcileNext(a)
      BY <3>2, ShapeStep
    <3>3. UNCHANGED agentVars => UNCHANGED work
      BY DEF agentVars
    <3> QED  BY <1>1, <3>1, <3>2, <3>3, WorkUntouched DEF Next
  <2>3. DownIsEmpty' /\ RightServers'
    BY <1>1, DownIsEmptyStep, RightServersStep
  <2>4. CopiesOwnOnly'
    <3>1. ASSUME NEW a \in Agents, work'[a].wr # None, work'[a].wr.ver # 0
          PROVE  HomeOf(work'[a].wr.obj) = a /\ work'[a].wr.to # a
      <4>1. /\ CallShape(work[a])'
            /\ work'[a].pc # "idle" => work'[a].req[1] # a
            /\ work'[a].pc \in {"peer", "write"} /\ work'[a].src # None =>
                 HomeOf(work'[a].src.obj) = a
        BY <2>2, <2>3 DEF WorkShape, RightServers
      <4> QED  BY <3>1, <4>1 DEF CallShape
    <3>2. ASSUME NEW w \in late', w.ver # 0
          PROVE  HomeOf(w.obj) # w.to
      <4>1. CASE w \in late
        BY <3>2, <4>1 DEF Inv, CopiesOwnOnly
      <4>2. ASSUME NEW a \in Agents, work[a].pc = "write", w = work[a].wr
            PROVE  HomeOf(w.obj) # w.to
        BY <3>2, <4>2, WritesOwnOnly DEF Inv, WorkShape, CallShape
      <4> QED  BY <1>1, <4>1, <4>2, LateFacts
    <3> QED  BY <3>1, <3>2 DEF CopiesOwnOnly
  <2> QED  BY <2>1, <2>2, <2>3, <2>4 DEF Inv
<1>2. CASE UNCHANGED vars
  <2>1. TypeOK'
    BY <1>2 DEF vars, Inv, TypeOK
  <2>2. WorkShape' /\ DownIsEmpty' /\ RightServers' /\ CopiesOwnOnly'
    BY <1>2 DEF vars, Inv, WorkShape, DownIsEmpty, RightServers, CopiesOwnOnly
  <2> QED  BY <2>1, <2>2 DEF Inv
<1> QED  BY <1>1, <1>2

\* The first layer holds in every reachable state.
THEOREM Invariance == Spec => []Inv
BY InvInit, InvStep, PTL DEF Spec

\* Every variable keeps to its type, whatever the order of events, retries,
\* delayed writes and crashes.
THEOREM TypeCorrectness == Spec => []TypeOK
<1>1. Inv => TypeOK
  BY DEF Inv
<1> QED  BY <1>1, Invariance, PTL

\* No agent ever creates or updates an object of another server's shard, and
\* none of its writes, delayed ones included, ever hits the object's own server.
THEOREM OwnershipOfCopies == Spec => []CopiesOwnOnly
<1>1. Inv => CopiesOwnOnly
  BY DEF Inv
<1> QED  BY <1>1, Invariance, PTL

-----------------------------------------------------------------------------
(* The second layer: versions. *)

\* How one server's version of one object may change in a step.
LEMMA DbStep ==
  ASSUME Inv, Next, NEW c \in Servers, NEW o \in Objs
  PROVE  \/ db'[c][o] = db[c][o]
         \/ db'[c][o] = 0
         \/ c = HomeOf(o) /\ ShardWrite(o)
         \/ \E w \in Writes :
              /\ w \in late \/ \E a \in Agents : Write(a) /\ w = work[a].wr
              /\ c # HomeOf(o)
              /\ w.to = c /\ w.obj = o /\ w.ver # 0
              /\ db'[c][o] = w.ver /\ db[c][o] = w.base
<1> USE DEF Inv
<1> DEFINE Goal == \/ db'[c][o] = db[c][o]
                   \/ db'[c][o] = 0
                   \/ c = HomeOf(o) /\ ShardWrite(o)
                   \/ \E w \in Writes :
                        /\ w \in late \/ \E a \in Agents : Write(a) /\ w = work[a].wr
                        /\ c # HomeOf(o)
                        /\ w.to = c /\ w.obj = o /\ w.ver # 0
                        /\ db'[c][o] = w.ver /\ db[c][o] = w.base
<1>a. db \in [Servers -> [Objs -> 0..MaxVer]]
  BY DEF TypeOK
<1>b. ASSUME NEW w \in Writes, Apply(w),
             w \in late \/ \E a \in Agents : Write(a) /\ w = work[a].wr
      PROVE  Goal
  <2>1. w.ver # 0 => HomeOf(w.obj) # w.to
    <3>1. CASE w \in late
      BY <3>1 DEF CopiesOwnOnly
    <3>2. ASSUME NEW a \in Agents, Write(a), w = work[a].wr
          PROVE  w.ver # 0 => HomeOf(w.obj) # w.to
      BY <3>2, WritesOwnOnly DEF Write, WorkShape, CallShape
    <3> QED  BY <1>b, <3>1, <3>2
  <2>2. CASE UNCHANGED <<db, srcEvents, peerEvents>>
    BY <2>2
  <2>3. CASE /\ Put(w.to, w.obj, w.ver)
             /\ w.ver = 0 \/ db[w.to][w.obj] = w.base
    <3>1. db' = [db EXCEPT ![w.to][w.obj] = w.ver]
      BY <2>3 DEF Put
    <3>2. CASE w.to = c /\ w.obj = o
      <4>1. db'[c][o] = w.ver
        BY <3>1, <3>2, <1>a
      <4> QED  BY <4>1, <3>2, <2>1, <2>3, <1>b
    <3>3. CASE ~(w.to = c /\ w.obj = o)
      BY <3>1, <3>3, <1>a
    <3> QED  BY <3>2, <3>3
  <2> QED  BY <1>b, <2>2, <2>3, ApplyFacts
<1>1. CASE ServerNext
  <2>1. ASSUME NEW x \in Objs, ShardWrite(x)
        PROVE  Goal
    BY <2>1, <1>a DEF ShardWrite, Put
  <2>2. ASSUME NEW x \in Objs, ShardDelete(x)
        PROVE  Goal
    BY <2>2, <1>a DEF ShardDelete, Put
  <2>3. ASSUME NEW d \in Servers, NEW x \in Objs, PeerLoses(d, x)
        PROVE  Goal
    BY <2>3, <1>a DEF PeerLoses, Put
  <2>4. ASSUME NEW w \in late, LateArrives(w)
        PROVE  Goal
    BY <2>4, <1>b DEF LateArrives, TypeOK
  <2>5. ASSUME NEW w \in late, LateVanishes(w)
        PROVE  Goal
    BY <2>5 DEF LateVanishes
  <2> QED  BY <1>1, <2>1, <2>2, <2>3, <2>4, <2>5 DEF ServerNext
<1>2. ASSUME NEW a \in Agents, InformNext(a)
      PROVE  UNCHANGED db
  BY <1>2 DEF InformNext, RegistryAdd, RegistryRemove, Start, Engage,
              Disengage, WatchSource, HandleSource, HandlePeer, ResyncPeer,
              ResyncSource
<1>3. ASSUME NEW a \in Agents, ReconcileNext(a)
      PROVE  Goal
  <2>1. CASE Write(a)
    BY <2>1, <1>b, WriteFacts
  <2>2. CASE ~Write(a)
    BY <1>3, <2>2 DEF ReconcileNext, Take, ReadSource, CheckAuth, ReadPeer,
                      ReadFails, WriteTimesOut, Crash
  <2> QED  BY <2>1, <2>2
<1> QED  BY <1>1, <1>2, <1>3 DEF Next

\* Only a shard's own write gives an object a version it never had.
LEMMA LastStep ==
  ASSUME Inv, Next, NEW o \in Objs
  PROVE  \/ ~ShardWrite(o) /\ last'[o] = last[o]
         \/ /\ ShardWrite(o) /\ last'[o] = last[o] + 1
            /\ db'[HomeOf(o)][o] = last[o] + 1
<1> USE DEF Inv
<1>1. CASE ShardWrite(o)
  <2>1. HomeOf(o) \in Servers
    BY ConstantsAssumption DEF HomeOf
  <2> QED  BY <1>1, <2>1 DEF ShardWrite, Put, TypeOK
<1>2. CASE \E x \in Objs : x # o /\ ShardWrite(x)
  <2>1. PICK x \in Objs : x # o /\ ShardWrite(x)
    BY <1>2
  <2>2. last'[o] = last[o] /\ last'[x] # last[x]
    BY <2>1 DEF ShardWrite, TypeOK
  <2> QED  BY <1>1, <2>2
<1>3. CASE \A x \in Objs : ~ShardWrite(x)
  <2>1. ServerNext => UNCHANGED last
    BY <1>3 DEF ServerNext, ShardDelete, PeerLoses, LateArrives, LateVanishes
  <2>2. ASSUME NEW a \in Agents, InformNext(a)
        PROVE  UNCHANGED last
    BY <2>2 DEF InformNext, RegistryAdd, RegistryRemove, Start, Engage,
                Disengage, WatchSource, HandleSource, HandlePeer, ResyncPeer,
                ResyncSource
  <2>3. ASSUME NEW a \in Agents, ReconcileNext(a)
        PROVE  UNCHANGED last
    BY <2>3 DEF ReconcileNext, Take, ReadSource, CheckAuth, ReadPeer, Write,
                ReadFails, WriteTimesOut, Crash
  <2> QED  BY <1>3, <2>1, <2>2, <2>3 DEF Next
<1> QED  BY <1>1, <1>2, <1>3

\* An informer's entry stays, goes, or becomes what its server has; only the
\* informer moves then.
LEMMA StoreStep ==
  ASSUME Inv, Next, NEW a \in Agents, NEW n \in Names
  PROVE  \/ store'[a][n] = store[a][n]
         \/ store'[a][n] = None
         \/ /\ UNCHANGED <<db, last, late, work>>
            /\ \E o \in Objs : /\ NameOf[o] = n /\ db[a][o] # 0
                               /\ store'[a][n] = [obj |-> o, ver |-> db[a][o]]
<1> USE DEF Inv
<1>a. store \in [Agents -> [Names -> Copies \cup {None}]]
  BY DEF TypeOK
<1> DEFINE Goal == \/ store'[a][n] = store[a][n]
                   \/ store'[a][n] = None
                   \/ /\ UNCHANGED <<db, last, late, work>>
                      /\ \E o \in Objs :
                           /\ NameOf[o] = n /\ db[a][o] # 0
                           /\ store'[a][n] = [obj |-> o, ver |-> db[a][o]]
<1>1. CASE ServerNext
  BY <1>1, WorkUntouched DEF agentVars
<1>2. ASSUME NEW b \in Agents, InformNext(b)
      PROVE  Goal
  <2>1. CASE Start(b)
    <3>1. PICK list \in [Names -> Copies \cup {None}] :
            /\ \A m \in Names : list[m] \in Listed(b, m)
            /\ store' = [store EXCEPT ![b] = list]
      BY <2>1 DEF Start
    <3>2. list[n] # None =>
            \E o \in Objs : /\ NameOf[o] = n /\ db[b][o] # 0
                            /\ list[n] = [obj |-> o, ver |-> db[b][o]]
      BY <3>1 DEF Listed, Entry, Present
    <3>3. UNCHANGED <<db, last, late, work>>
      BY <2>1 DEF Start
    <3> QED  BY <3>1, <3>2, <3>3, <1>a
  <2>2. ASSUME NEW o \in Objs, WatchSource(b, o)
        PROVE  Goal
    <3>1. /\ store' = [store EXCEPT ![b][NameOf[o]] = Entry(o, db[b][o])]
          /\ UNCHANGED <<db, last, late, work>>
      BY <2>2 DEF WatchSource
    <3>2. NameOf[o] \in Names
      BY ConstantsAssumption
    <3> QED  BY <3>1, <3>2, <1>a DEF Entry
  <2>3. CASE UNCHANGED store
    BY <2>3
  <2> QED
    BY <1>2, <2>1, <2>2, <2>3 DEF InformNext, RegistryAdd, RegistryRemove,
         Engage, Disengage, HandleSource, HandlePeer, ResyncPeer, ResyncSource
<1>3. ASSUME NEW b \in Agents, ReconcileNext(b)
      PROVE  Goal
  <2>1. CASE Crash(b)
    BY <2>1, <1>a DEF Crash
  <2>2. CASE ~Crash(b)
    BY <1>3, <2>2 DEF ReconcileNext, Take, ReadSource, CheckAuth, ReadPeer,
         Write, ReadFails, WriteTimesOut
  <2> QED  BY <2>1, <2>2
<1> QED  BY <1>1, <1>2, <1>3 DEF Next

\* A Reconcile call keeps the source object it has read, drops it, or takes it
\* from the informer or the server; the write it decides on replaces what it
\* read of the peer.
LEMMA CallStep ==
  ASSUME Inv, Next, NEW a \in Agents
  PROVE  /\ \/ work'[a].src = work[a].src
            \/ work'[a].src = None
            \/ /\ UNCHANGED <<db, last, late, store>>
               /\ ReadsCache /\ work[a].req[2] \in Names
               /\ work'[a].src = store[a][work[a].req[2]]
            \/ /\ UNCHANGED <<db, last, late, store>> /\ ~ReadsCache
               /\ \E o \in Objs : /\ db[a][o] # 0
                                  /\ work'[a].src = [obj |-> o, ver |-> db[a][o]]
         /\ \/ work'[a].wr = work[a].wr
            \/ work'[a].wr = None
            \/ /\ work[a].pc = "peer" /\ work[a].req[1] \in Servers
               /\ \E o \in Objs :
                    LET p == work[a].req[1]
                        w == Decide(work[a].src, p, o, db[p][o])
                    IN  /\ db[p][o] \in 0..MaxVer
                        /\ work[a].src # None => o = work[a].src.obj
                        /\ w # None /\ work'[a].wr = w
<1> USE DEF Inv
<1>a. work \in [Agents -> Works] /\ work[a] \in Works
  BY DEF TypeOK
<1>b. Idle.src = None /\ Idle.wr = None
  BY DEF Idle
<1>1. CASE ServerNext
  BY <1>1, WorkUntouched DEF agentVars
<1>2. CASE \E b \in Agents : InformNext(b)
  BY <1>2, WorkUntouched
<1>3. CASE \E b \in Agents : b # a /\ ReconcileNext(b)
  <2>1. PICK b \in Agents : b # a /\ ReconcileNext(b)
    BY <1>3
  <2>2. \E w : work' = [work EXCEPT ![b] = w]
    <3>1. work[b] \in Works
      BY DEF TypeOK
    <3>2. CASE ReadPeer(b)
      <4>1. \/ work' = [work EXCEPT ![b] = Idle]
            \/ \E w : work' = [work EXCEPT ![b].pc = "write", ![b].wr = w]
        BY <3>2, ReadPeerEnds
      <4>2. ASSUME NEW w, work' = [work EXCEPT ![b].pc = "write", ![b].wr = w]
            PROVE  work' = [work EXCEPT ![b] = [@ EXCEPT !.pc = "write", !.wr = w]]
        BY <4>2, <1>a, <3>1
      <4> QED  BY <4>1, <4>2
    <3>3. ASSUME NEW r \in Requests, Take(b, r)
          PROVE  \E w : work' = [work EXCEPT ![b] = w]
      BY <3>3 DEF Take
    <3>4. CASE ReadSource(b)
      BY <3>4, ReadSourceFacts
    <3>5. CASE CheckAuth(b)
      BY <3>5, <1>a, <3>1 DEF CheckAuth, Done
    <3>6. CASE Write(b) \/ ReadFails(b) \/ WriteTimesOut(b) \/ Crash(b)
      BY <3>6, WriteFacts DEF ReadFails, WriteTimesOut, Crash, Requeue
    <3> QED  BY <2>1, <3>2, <3>3, <3>4, <3>5, <3>6 DEF ReconcileNext
  <2> QED  BY <2>1, <2>2, <1>a
<1>4. CASE ReconcileNext(a)
  <2>1. CASE ReadPeer(a)
    <3> DEFINE p == work[a].req[1]
               W(o) == Decide(work[a].src, p, o, db[p][o])
    <3>1. work[a].pc = "peer"
      BY <2>1 DEF ReadPeer
    <3>2. CASE Done(a) \/ Requeue(a)
      BY <3>2, <1>a, <1>b DEF Done, Requeue
    <3>3. CASE ~AnotherAnswers(a)
      <4>1. PICK o \in Objs :
              /\ p \in Servers /\ db[p][o] \in 0..MaxVer
              /\ work[a].src # None => o = work[a].src.obj
              /\ \/ W(o) = None /\ Done(a)
                 \/ /\ W(o) # None
                    /\ work' = [work EXCEPT ![a].pc = "write", ![a].wr = W(o)]
        BY <2>1, <3>3, ReadPeerFacts
      <4>2. CASE /\ W(o) # None
                 /\ work' = [work EXCEPT ![a].pc = "write", ![a].wr = W(o)]
        <5>1. work'[a].src = work[a].src /\ work'[a].wr = W(o)
          BY <4>2, <1>a DEF Works
        <5> QED  BY <3>1, <4>1, <4>2, <5>1
      <4> QED  BY <3>2, <4>1, <4>2
    <3> QED  BY <3>2, <3>3 DEF AnotherAnswers
  <2>2. CASE ReadSource(a)
    <3> DEFINE n == work[a].req[2]
    <3>1. PICK obj \in Copies \cup {None} :
            /\ n \in Names
            /\ \/ ReadsCache /\ obj = store[a][n]
               \/ ~ReadsCache /\ obj = None
               \/ /\ ~ReadsCache
                  /\ \E o \in Objs : /\ NameOf[o] = n /\ db[a][o] # 0
                                     /\ obj = [obj |-> o, ver |-> db[a][o]]
            /\ work' = [work EXCEPT
                 ![a] = [@ EXCEPT !.pc = IF obj = None THEN "peer" ELSE "auth",
                                  !.src = obj]]
      BY <2>2, ReadSourceFacts
    <3>2. work'[a].src = obj /\ work'[a].wr = work[a].wr
      BY <3>1, <1>a DEF Works
    <3>3. UNCHANGED <<db, last, late, store>>
      BY <2>2 DEF ReadSource
    <3> QED  BY <3>1, <3>2, <3>3
  <2>3. ASSUME NEW r \in Requests, Take(a, r)
        PROVE  work'[a].src = None /\ work'[a].wr = None
    BY <2>3, <1>a DEF Take, Idle
  <2>4. CASE CheckAuth(a)
    BY <2>4, <1>a, <1>b DEF CheckAuth, Done, Works
  <2>5. CASE Write(a)
    BY <2>5, <1>a, <1>b, WriteFacts
  <2>6. CASE ReadFails(a) \/ WriteTimesOut(a) \/ Crash(a)
    BY <2>6, <1>a, <1>b DEF ReadFails, WriteTimesOut, Crash, Requeue
  <2> QED
    BY <1>4, <2>1, <2>2, <2>3, <2>4, <2>5, <2>6 DEF ReconcileNext
<1> QED  BY <1>1, <1>2, <1>3, <1>4 DEF Next

\* If no copy is newer than v and nothing being written is, no copy becomes so.
LEMMA NotAboveStep ==
  ASSUME Inv, Next, NEW o \in Objs, NEW v \in 0..MaxVer, NotAbove(o, v),
         \A a \in Agents :
           work[a].wr # None /\ work[a].wr.obj = o => work[a].wr.ver <= v
  PROVE  /\ \A c \in Servers : c # HomeOf(o) => db'[c][o] <= v
         /\ \A w \in late' : w.obj = o => w.ver <= v
<1> USE DEF Inv
<1>1. ASSUME NEW c \in Servers, c # HomeOf(o)
      PROVE  db'[c][o] <= v
  <2>1. \A w \in late : w.obj = o => w.ver <= v
    BY DEF NotAbove
  <2>2. \A a \in Agents : Write(a) => work[a].wr # None
    BY DEF Write, WorkShape, CallShape
  <2>3. db[c][o] <= v /\ 0 <= v
    BY <1>1 DEF NotAbove
  <2> QED  BY <1>1, <2>1, <2>2, <2>3, DbStep
<1>2. ASSUME NEW w \in late', w.obj = o
      PROVE  w.ver <= v
  BY <1>2, LateFacts DEF NotAbove, WorkShape, CallShape
<1> QED  BY <1>1, <1>2

\* The second layer holds when the servers are empty.
LEMMA VersionInit == Init => VersionInv
<1> SUFFICES ASSUME Init
             PROVE  VersionInv
  OBVIOUS
<1>1. SourceNewest
  <2>1. \A o \in Objs : HomeOf(o) \in Servers
    BY ConstantsAssumption DEF HomeOf
  <2> QED  BY <2>1 DEF Init, SourceNewest, NotAbove
<1>2. StoreNewest /\ CallBehindStore
  BY DEF Init, StoreNewest, CallBehindStore
<1>3. CallNewest /\ WritesForward
  BY DEF Init, CallNewest, WritesForward, Idle
<1> QED  BY <1>1, <1>2, <1>3 DEF VersionInv

\* Every step keeps the versions in order (Decide, Accepts, WatchSource).
LEMMA VersionStep ==
  ASSUME Inv, VersionInv, Next
  PROVE  VersionInv'
<1> USE DEF Inv, VersionInv
<1>a. /\ last \in [Objs -> 0..MaxVer]
      /\ store \in [Agents -> [Names -> Copies \cup {None}]]
      /\ work \in [Agents -> Works]
  BY DEF TypeOK
<1>t. TypeOK'
  BY ServerType, InformType, ReconcileType DEF Next
<1>b. \A o \in Objs : last[o] <= last'[o] /\ last'[o] \in 0..MaxVer
  <2>1. last' \in [Objs -> 0..MaxVer]
    BY <1>t DEF TypeOK
  <2> QED  BY <1>a, <2>1, LastStep
\* What a call writes is what it has read of the source.
<1>c. ASSUME NEW a \in Agents, work[a].wr # None
      PROVE  /\ work[a].wr.obj \in Objs /\ work[a].wr.ver \in 0..MaxVer
             /\ work[a].wr.ver # 0 =>
                  /\ HomeOf(work[a].wr.obj) = a /\ work[a].src # None
                  /\ work[a].wr.obj = work[a].src.obj
                  /\ work[a].wr.ver = work[a].src.ver
  BY <1>c, <1>a, WritesOwnOnly DEF WorkShape, CallShape, Works, Writes
<1>d. \A a \in Agents : work[a].src \in Copies \cup {None}
  BY <1>a DEF Works
\* No copy overtakes the source, the informer or the worker.
<1> DEFINE Ahead(o, v) ==
             /\ \A c \in Servers : c # HomeOf(o) => db'[c][o] <= v
             /\ \A w \in late' : w.obj = o => w.ver <= v
<1>e. ASSUME NEW o \in Objs
      PROVE  Ahead(o, last[o]) /\ Ahead(o, last'[o])
  <2>1. last[o] \in 0..MaxVer /\ NotAbove(o, last[o])
    BY <1>a DEF SourceNewest
  <2>2. ASSUME NEW a \in Agents, work[a].wr # None, work[a].wr.obj = o
        PROVE  work[a].wr.ver <= last[o]
    <3>1. CASE work[a].wr.ver = 0
      BY <3>1, <2>1
    <3>2. CASE work[a].wr.ver # 0
      BY <2>2, <3>2, <1>c DEF CallNewest, Newest
    <3> QED  BY <3>1, <3>2
  <2>3. Ahead(o, last[o])
    BY <2>1, <2>2, NotAboveStep
  <2>4. last[o] <= last'[o] /\ last'[o] \in 0..MaxVer
    BY <1>b
  <2>5. /\ \A c \in Servers : db'[c][o] \in 0..MaxVer
        /\ \A w \in late' : w.ver \in 0..MaxVer
    BY <1>t DEF TypeOK, Writes
  <2> QED  BY <2>1, <2>3, <2>4, <2>5
<1>f. ASSUME ReadsCache, NEW a \in Agents, NEW n \in Names,
             store[a][n] # None, HomeOf(store[a][n].obj) = a
      PROVE  Ahead(store[a][n].obj, store[a][n].ver)
  <2>1. /\ store[a][n].obj \in Objs /\ store[a][n].ver \in 0..MaxVer
        /\ NotAbove(store[a][n].obj, store[a][n].ver)
    BY <1>f, <1>a DEF StoreNewest, Newest, Copies, Versions
  <2>2. ASSUME NEW b \in Agents, work[b].wr # None,
               work[b].wr.obj = store[a][n].obj
        PROVE  work[b].wr.ver <= store[a][n].ver
    <3>1. CASE work[b].wr.ver = 0
      BY <3>1, <2>1
    <3>2. CASE work[b].wr.ver # 0
      BY <2>2, <3>2, <1>c, <1>f DEF CallBehindStore
    <3> QED  BY <3>1, <3>2
  <2> QED  BY <2>1, <2>2, NotAboveStep
<1>g. ASSUME NEW a \in Agents, work[a].src # None, HomeOf(work[a].src.obj) = a
      PROVE  Ahead(work[a].src.obj, work[a].src.ver)
  <2>1. /\ work[a].src.obj \in Objs /\ work[a].src.ver \in 0..MaxVer
        /\ NotAbove(work[a].src.obj, work[a].src.ver)
    BY <1>g, <1>d DEF CallNewest, Newest, Copies, Versions
  <2>2. ASSUME NEW b \in Agents, work[b].wr # None,
               work[b].wr.obj = work[a].src.obj
        PROVE  work[b].wr.ver <= work[a].src.ver
    <3>1. CASE work[b].wr.ver = 0
      BY <3>1, <2>1
    <3>2. CASE work[b].wr.ver # 0
      BY <2>2, <3>2, <2>1, <1>c, <1>g
    <3> QED  BY <3>1, <3>2
  <2> QED  BY <2>1, <2>2, NotAboveStep
<1>1. SourceNewest'
  <2>1. ASSUME NEW o \in Objs
        PROVE  db'[HomeOf(o)][o] \in {0, last'[o]}
    <3>1. HomeOf(o) \in Servers
      BY ConstantsAssumption DEF HomeOf
    <3> QED  BY <3>1, LastStep, DbStep DEF SourceNewest
  <2> QED  BY <1>e, <2>1 DEF SourceNewest, NotAbove, HomeOf
<1>2. StoreNewest'
  <2>1. SUFFICES ASSUME ReadsCache, NEW a \in Agents, NEW n \in Names,
                        store'[a][n] # None, HomeOf(store'[a][n].obj) = a
                 PROVE  /\ store'[a][n].ver <= last'[store'[a][n].obj]
                        /\ Ahead(store'[a][n].obj, store'[a][n].ver)
    BY DEF StoreNewest, Newest, NotAbove, HomeOf
  <2>2. CASE store'[a][n] = store[a][n]
    <3>1. store[a][n] \in Copies
      BY <2>1, <2>2, <1>a
    <3>2. store[a][n].ver <= last[store[a][n].obj]
      BY <2>1, <2>2 DEF StoreNewest, Newest
    <3>3. store[a][n].ver <= last'[store[a][n].obj]
      BY <3>1, <3>2, <1>a, <1>b DEF Copies, Versions
    <3> QED  BY <2>1, <2>2, <3>3, <1>f
  <2>3. CASE \E o \in Objs : /\ db[a][o] # 0 /\ UNCHANGED last
                             /\ store'[a][n] = [obj |-> o, ver |-> db[a][o]]
    <3>1. PICK o \in Objs : /\ db[a][o] # 0 /\ UNCHANGED last
                            /\ store'[a][n] = [obj |-> o, ver |-> db[a][o]]
      BY <2>3
    <3>2. db[a][o] = last[o]
      BY <2>1, <3>1 DEF SourceNewest
    <3> QED  BY <3>1, <3>2, <1>a, <1>e
  <2> QED  BY <2>1, <2>2, <2>3, StoreStep
<1>3. CallNewest'
  <2>1. SUFFICES ASSUME NEW a \in Agents, work'[a].src # None,
                        HomeOf(work'[a].src.obj) = a
                 PROVE  /\ work'[a].src.ver <= last'[work'[a].src.obj]
                        /\ Ahead(work'[a].src.obj, work'[a].src.ver)
    BY DEF CallNewest, Newest, NotAbove, HomeOf
  <2>2. CASE work'[a].src = work[a].src
    <3>1. work[a].src \in Copies
      BY <2>1, <2>2, <1>d
    <3>2. work[a].src.ver <= last[work[a].src.obj]
      BY <2>1, <2>2 DEF CallNewest, Newest
    <3>3. work[a].src.ver <= last'[work[a].src.obj]
      BY <3>1, <3>2, <1>a, <1>b DEF Copies, Versions
    <3> QED  BY <2>1, <2>2, <3>3, <1>g
  <2>3. CASE ReadsCache /\ \E n \in Names :
               UNCHANGED last /\ work'[a].src = store[a][n]
    BY <2>1, <2>3, <1>f DEF StoreNewest, Newest
  <2>4. CASE \E o \in Objs : /\ db[a][o] # 0 /\ UNCHANGED last
                             /\ work'[a].src = [obj |-> o, ver |-> db[a][o]]
    <3>1. PICK o \in Objs : /\ db[a][o] # 0 /\ UNCHANGED last
                            /\ work'[a].src = [obj |-> o, ver |-> db[a][o]]
      BY <2>4
    <3>2. db[a][o] = last[o]
      BY <2>1, <3>1 DEF SourceNewest
    <3> QED  BY <3>1, <3>2, <1>a, <1>e
  <2> QED  BY <2>1, <2>2, <2>3, <2>4, CallStep
<1>4. CallBehindStore'
  <2>1. SUFFICES ASSUME ReadsCache, NEW a \in Agents, NEW n \in Names,
                        store'[a][n] # None, work'[a].src # None,
                        store'[a][n].obj = work'[a].src.obj,
                        HomeOf(work'[a].src.obj) = a
                 PROVE  work'[a].src.ver <= store'[a][n].ver
    BY DEF CallBehindStore, HomeOf
  <2>2. CASE work'[a].src = work[a].src /\ store'[a][n] = store[a][n]
    BY <2>1, <2>2 DEF CallBehindStore
  <2>3. CASE /\ work'[a].src = work[a].src
             /\ \E o \in Objs : /\ db[a][o] # 0
                                /\ store'[a][n] = [obj |-> o, ver |-> db[a][o]]
    <3>1. PICK o \in Objs : /\ db[a][o] # 0
                            /\ store'[a][n] = [obj |-> o, ver |-> db[a][o]]
      BY <2>3
    <3>2. db[a][o] = last[o] /\ o = work[a].src.obj
      BY <2>1, <2>3, <3>1 DEF SourceNewest
    <3> QED  BY <2>1, <2>3, <3>1, <3>2 DEF CallNewest, Newest
  <2>4. CASE /\ UNCHANGED store /\ work[a].req[2] \in Names
             /\ work'[a].src = store[a][work[a].req[2]]
    <3>1. work[a].req[2] = n
      BY <2>1, <2>4 DEF RightServers
    <3>2. store[a][n].ver \in Nat
      BY <2>1, <2>4, <1>a DEF Copies, Versions
    <3> QED  BY <2>1, <2>4, <3>1, <3>2
  <2> QED  BY <2>1, <2>2, <2>3, <2>4, StoreStep, CallStep
<1>5. WritesForward'
  <2>1. ASSUME NEW a \in Agents, work'[a].wr # None, work'[a].wr.ver # 0
        PROVE  work'[a].wr.base <= work'[a].wr.ver
    <3>1. CASE work'[a].wr = work[a].wr
      BY <2>1, <3>1 DEF WritesForward, Forward
    <3> DEFINE p == work[a].req[1]
               W(o) == Decide(work[a].src, p, o, db[p][o])
    <3>2. ASSUME NEW o \in Objs, work[a].pc = "peer", p \in Servers,
                 db[p][o] \in 0..MaxVer,
                 work[a].src # None => o = work[a].src.obj,
                 W(o) # None, work'[a].wr = W(o)
          PROVE  work'[a].wr.base <= work'[a].wr.ver
      <4>1. /\ W(o).base = db[p][o]
            /\ work[a].src = None <=> W(o).ver = 0
            /\ work[a].src # None => W(o).ver = work[a].src.ver
        BY <3>2, <1>d, DecideFacts
      <4>2. /\ work[a].src # None /\ o = work[a].src.obj
            /\ HomeOf(o) = a /\ p # a
        BY <2>1, <3>2, <4>1 DEF RightServers
      <4>3. db[p][o] <= work[a].src.ver
        BY <3>2, <4>2 DEF CallNewest, Newest, NotAbove
      <4> HIDE DEF W
      <4> QED  BY <3>2, <4>1, <4>2, <4>3
    <3> QED  BY <2>1, <3>1, <3>2, CallStep
  <2>2. ASSUME NEW w \in late', w.ver # 0
        PROVE  w.base <= w.ver
    BY <2>2, LateFacts DEF WritesForward, Forward, WorkShape, CallShape
  <2> QED  BY <2>1, <2>2 DEF WritesForward, Forward
<1> QED  BY <1>1, <1>2, <1>3, <1>4, <1>5

\* The second layer holds in every reachable state.
LEMMA VersionInvariance == Spec => [](Inv /\ VersionInv)
<1>1. Init => Inv /\ VersionInv
  BY InvInit, VersionInit
<1>2. Inv /\ VersionInv /\ [Next]_vars => (Inv /\ VersionInv)'
  <2>1. CASE UNCHANGED vars
    BY <2>1, InvStep
    DEF vars, VersionInv, SourceNewest, StoreNewest, CallNewest, Newest,
        CallBehindStore, WritesForward, NotAbove
  <2> QED  BY <2>1, InvStep, VersionStep
<1> QED  BY <1>1, <1>2, PTL DEF Spec

\* A copy never goes back to an older version, on any server, whatever writes
\* were given up by their sender and arrive late, whatever agents crash.
THEOREM CopiesNeverRollBack == Spec => NoRollback
<1>1. ASSUME Inv, VersionInv, [Next]_vars
      PROVE  [\A c \in Servers, o \in Objs :
                db[c][o] # 0 /\ db'[c][o] # 0 => db'[c][o] >= db[c][o]]_vars
  <2>1. CASE UNCHANGED vars
    BY <2>1
  <2>2. ASSUME Next, NEW c \in Servers, NEW o \in Objs,
               db[c][o] # 0, db'[c][o] # 0
        PROVE  db'[c][o] >= db[c][o]
    <3>1. db[c][o] \in Nat /\ last[o] \in Nat
      BY <1>1 DEF Inv, TypeOK
    <3>2. CASE db'[c][o] = db[c][o]
      BY <3>1, <3>2
    <3>3. CASE c = HomeOf(o) /\ ShardWrite(o)
      BY <1>1, <2>2, <3>1, <3>3, LastStep DEF VersionInv, SourceNewest
    <3>4. ASSUME NEW w \in Writes,
                 w \in late \/ \E a \in Agents : Write(a) /\ w = work[a].wr,
                 w.ver # 0, db'[c][o] = w.ver, db[c][o] = w.base
          PROVE  db'[c][o] >= db[c][o]
      <4>1. \A a \in Agents : Write(a) => work[a].wr # None
        BY <1>1 DEF Write, Inv, WorkShape, CallShape
      <4>2. w.base <= w.ver
        BY <1>1, <3>4, <4>1 DEF VersionInv, WritesForward, Forward
      <4> QED  BY <3>4, <4>2 DEF Writes
    <3> QED  BY <1>1, <2>2, <3>2, <3>3, <3>4, DbStep
  <2> QED  BY <1>1, <2>1, <2>2
<1> QED  BY <1>1, VersionInvariance, PTL DEF Spec, NoRollback

-----------------------------------------------------------------------------
(* The third layer: no work is lost, when no two objects share a name. *)

\* What a server's change of state owes agent a: the events it had, and one for
\* every object that changed where a watches.
EventsKept(a) ==
  /\ srcEvents[a] \subseteq srcEvents'[a]
  /\ \A p \in Servers : peerEvents[a][p] \subseteq peerEvents'[a][p]
  /\ \A o \in Objs :
       /\ running[a] /\ db'[a][o] # db[a][o] => o \in srcEvents'[a]
       /\ \A p \in engaged[a] : db'[p][o] # db[p][o] => o \in peerEvents'[a][p]

\* The part of an agent's state that only its own steps change.
AgentUnchanged(a) ==
  /\ running'[a] = running[a] /\ engaged'[a] = engaged[a]
  /\ store'[a] = store[a] /\ notif'[a] = notif[a] /\ queue'[a] = queue[a]
  /\ work'[a] = work[a] /\ asked'[a] = asked[a]

\* A write of a server only adds events for those who watch it (Put).
LEMMA PutKeepsEvents ==
  ASSUME TypeOK, NEW c \in Servers, NEW o \in Objs, NEW v,
         Put(c, o, v) \/ UNCHANGED <<db, srcEvents, peerEvents>>,
         NEW a \in Agents
  PROVE  EventsKept(a)
<1>1. /\ db \in [Servers -> [Objs -> 0..MaxVer]]
      /\ engaged[a] \subseteq Servers
  BY DEF TypeOK
<1>2. CASE Put(c, o, v)
  <2>1. ASSUME NEW d \in Servers, NEW x \in Objs, db'[d][x] # db[d][x]
        PROVE  d = c /\ x = o
    BY <2>1, <1>1, <1>2 DEF Put
  <2> QED  BY <1>1, <1>2, <2>1, ConstantsAssumption DEF Put, EventsKept
<1>3. CASE UNCHANGED <<db, srcEvents, peerEvents>>
  BY <1>3 DEF EventsKept
<1> QED  BY <1>2, <1>3

\* So does every step of the cache-servers, and it touches nothing an agent
\* holds in memory.
LEMMA ServerKeepsEvents ==
  ASSUME Inv, ServerNext, NEW a \in Agents
  PROVE  EventsKept(a) /\ AgentUnchanged(a)
<1> USE DEF Inv
<1>1. AgentUnchanged(a)
  BY WorkUntouched DEF agentVars, AgentUnchanged
<1>2. ASSUME NEW o \in Objs, ShardWrite(o) \/ ShardDelete(o)
      PROVE  EventsKept(a)
  <2>1. HomeOf(o) \in Servers
    BY ConstantsAssumption DEF HomeOf
  <2> QED  BY <1>2, <2>1, PutKeepsEvents DEF ShardWrite, ShardDelete
<1>3. ASSUME NEW c \in Servers, NEW o \in Objs, PeerLoses(c, o)
      PROVE  EventsKept(a)
  BY <1>3, PutKeepsEvents DEF PeerLoses
<1>4. ASSUME NEW w \in late, LateArrives(w)
      PROVE  EventsKept(a)
  <2>1. w \in Writes
    BY DEF TypeOK
  <2> QED  BY <1>4, <2>1, ApplyFacts, PutKeepsEvents DEF LateArrives
<1>5. ASSUME NEW w \in late, LateVanishes(w)
      PROVE  EventsKept(a)
  BY <1>5 DEF LateVanishes, EventsKept
<1> QED  BY <1>1, <1>2, <1>3, <1>4, <1>5 DEF ServerNext

\* Changes on the servers, with their events, leave nothing unseen.
LEMMA FreshFrame ==
  ASSUME Inv, NEW a \in Agents, FreshAt(a), EventsKept(a), AgentUnchanged(a)
  PROVE  FreshAt(a)'
<1> USE DEF EventsKept, AgentUnchanged, FreshAt
<1>1. StoreFreshAt(a)'
  BY DEF StoreFreshAt, Entry
<1>2. WorkFreshAt(a)'
  <2>1. engaged[a] # {} => running[a]
    BY DEF Inv, DownIsEmpty
  <2> QED  BY <2>1 DEF WorkFreshAt, Entry, Own, HomeOf
<1>3. NoLostWorkAt(a)'
  <2>1. engaged[a] # {} => running[a]
    BY DEF Inv, DownIsEmpty
  <2>2. engaged[a] \subseteq Servers
    BY DEF Inv, TypeOK
  <2>3. SUFFICES ASSUME NEW p \in engaged[a], NEW o \in Own(a),
                        <<p, NameOf[o]>> \in asked[a]
                 PROVE  Settled(a, p, o)' \/ Pending(a, p, o)'
    BY DEF NoLostWorkAt, Own, HomeOf
  <2>4. o \in Objs /\ p \in Servers
    BY <2>2 DEF Own
  <2>5. Settled(a, p, o) \/ Pending(a, p, o)
    BY <2>3 DEF NoLostWorkAt
  <2>6. Pending(a, p, o) => Pending(a, p, o)'
    BY <2>4 DEF Pending
  <2>7. db'[a][o] # db[a][o] \/ db'[p][o] # db[p][o] => Pending(a, p, o)'
    BY <2>1, <2>4 DEF Pending
  <2>8. Settled(a, p, o) /\ db'[a][o] = db[a][o] /\ db'[p][o] = db[p][o] =>
          Settled(a, p, o)'
    BY DEF Settled, objectsMatch
  <2> QED  BY <2>5, <2>6, <2>7, <2>8
<1> QED  BY <1>1, <1>2, <1>3

\* A step of agent a does nothing to what another agent b holds.
LEMMA OtherAgents ==
  ASSUME Inv, NEW a \in Agents, NEW b \in Agents, a # b,
         InformNext(a) \/ ReconcileNext(a)
  PROVE  EventsKept(b) /\ AgentUnchanged(b)
<1> USE DEF Inv
<1>t. TypeOK
  OBVIOUS
<1>1. CASE InformNext(a)
  <2>1. UNCHANGED <<db, work>>
    BY <1>1, WorkUntouched DEF InformNext, RegistryAdd, RegistryRemove, Start,
       Engage, Disengage, WatchSource, HandleSource, HandlePeer, ResyncPeer,
       ResyncSource
  <2>2. /\ running'[b] = running[b] /\ engaged'[b] = engaged[b]
        /\ store'[b] = store[b] /\ notif'[b] = notif[b]
        /\ queue'[b] = queue[b] /\ asked'[b] = asked[b]
        /\ srcEvents'[b] = srcEvents[b] /\ peerEvents'[b] = peerEvents[b]
    BY <1>1 DEF InformNext, RegistryAdd, RegistryRemove, Start,
       Engage, Disengage, WatchSource, HandleSource, HandlePeer, ResyncPeer,
       ResyncSource, TypeOK
  <2> QED  BY <2>1, <2>2 DEF EventsKept, AgentUnchanged
<1>2. CASE ReconcileNext(a)
  <2>a. /\ work \in [Agents -> Works] /\ queue \in [Agents -> SUBSET Requests]
        /\ asked \in [Agents -> SUBSET Requests]
    BY DEF TypeOK
  <2>1. CASE Write(a)
    <3>1. EventsKept(b)
      BY <2>1, <1>t, WriteFacts, ApplyFacts, PutKeepsEvents
    <3>2. AgentUnchanged(b)
      BY <2>1, <2>a, WriteFacts DEF AgentUnchanged
    <3> QED  BY <3>1, <3>2
  <2>2. CASE ReadPeer(a)
    <3>1. UNCHANGED <<db, running, engaged, srcEvents, store, notif, peerEvents,
                      asked>>
      BY <2>2 DEF ReadPeer
    <3>2. /\ \/ work' = [work EXCEPT ![a] = Idle]
             \/ \E w : work' = [work EXCEPT ![a].pc = "write", ![a].wr = w]
          /\ \/ queue' = queue
             \/ queue' = [queue EXCEPT ![a] = @ \cup {work[a].req}]
      BY <2>2, ReadPeerEnds
    <3>3. work'[b] = work[b] /\ queue'[b] = queue[b]
      BY <3>2, <2>a
    <3> QED  BY <3>1, <3>3 DEF EventsKept, AgentUnchanged
  <2>3. ASSUME NEW r \in Requests, Take(a, r)
        PROVE  EventsKept(b) /\ AgentUnchanged(b)
    BY <2>3, <2>a DEF Take, EventsKept, AgentUnchanged
  <2>4. CASE ReadSource(a) \/ CheckAuth(a)
    BY <2>4, <2>a DEF ReadSource, CheckAuth, Done, EventsKept, AgentUnchanged
  <2>5. CASE ReadFails(a) \/ WriteTimesOut(a)
    BY <2>5, <2>a DEF ReadFails, WriteTimesOut, Requeue, EventsKept,
                      AgentUnchanged
  <2>6. CASE Crash(a)
    <3>1. /\ running'[b] = running[b] /\ engaged'[b] = engaged[b]
          /\ store'[b] = store[b] /\ notif'[b] = notif[b]
          /\ queue'[b] = queue[b] /\ asked'[b] = asked[b]
          /\ work'[b] = work[b] /\ db' = db
          /\ srcEvents'[b] = srcEvents[b] /\ peerEvents'[b] = peerEvents[b]
      BY <2>6 DEF Crash, TypeOK
    <3> QED  BY <3>1 DEF EventsKept, AgentUnchanged
  <2> QED
    BY <1>2, <2>1, <2>2, <2>3, <2>4, <2>5, <2>6 DEF ReconcileNext
<1> QED  BY <1>1, <1>2

\* Nothing an informer, a handler or the registry does loses work.
LEMMA FreshInform ==
  ASSUME NamesUnique, Inv, NEW a \in Agents, FreshAt(a), InformNext(a)
  PROVE  FreshAt(a)'
<1> USE DEF Inv, FreshAt
<1>a. /\ store \in [Agents -> [Names -> Copies \cup {None}]]
      /\ running \in [Agents -> BOOLEAN] /\ engaged \in [Agents -> SUBSET Servers]
      /\ srcEvents \in [Agents -> SUBSET Objs] /\ notif \in [Agents -> SUBSET Objs]
      /\ peerEvents \in [Agents -> [Servers -> SUBSET Objs]]
      /\ queue \in [Agents -> SUBSET Requests]
      /\ asked \in [Agents -> SUBSET Requests]
  BY DEF TypeOK
<1>b. UNCHANGED <<db, work>> /\ \A o \in Objs : NameOf[o] \in Names
  BY ConstantsAssumption, WorkUntouched DEF InformNext, RegistryAdd,
     RegistryRemove, Start, Engage, Disengage, WatchSource, HandleSource,
     HandlePeer, ResyncPeer, ResyncSource
<1>c. \A o1, o2 \in Objs : NameOf[o1] = NameOf[o2] => o1 = o2
  BY DEF NamesUnique
<1>d. \A o \in Own(a) : o \in Objs
  BY DEF Own
<1>1. ASSUME NEW s \in Shards, RegistryAdd(a, s) \/ RegistryRemove(a, s)
      PROVE  FreshAt(a)'
  <2>1. EventsKept(a) /\ AgentUnchanged(a)
    BY <1>1 DEF RegistryAdd, RegistryRemove, EventsKept, AgentUnchanged
  <2> QED  BY <2>1, FreshFrame
<1>2. CASE Start(a)
  <2>1. engaged'[a] = {} /\ running[a] = FALSE
    BY <1>2, <1>a DEF Start, DownIsEmpty
  <2>2. StoreFreshAt(a)'
    <3>1. PICK list \in [Names -> Copies \cup {None}] :
            /\ \A n \in Names : list[n] \in Listed(a, n)
            /\ store' = [store EXCEPT ![a] = list]
      BY <1>2 DEF Start
    <3>2. ASSUME NEW o \in Objs
          PROVE  list[NameOf[o]] = Entry(o, db[a][o])
      <4>1. list[NameOf[o]] \in Listed(a, NameOf[o])
        BY <1>b, <3>1
      <4> QED  BY <4>1, <1>c DEF Listed, Entry, Present
    <3> QED  BY <3>1, <3>2, <1>a, <1>b DEF StoreFreshAt, Entry
  <2>3. WorkFreshAt(a)' /\ NoLostWorkAt(a)'
    BY <2>1 DEF WorkFreshAt, NoLostWorkAt
  <2> QED  BY <2>2, <2>3
\* In the other steps a pair that was asked for, and had something pending,
\* still has; the server's state does not move.
<1>e. \A p, o : Settled(a, p, o)' <=> Settled(a, p, o)
  BY <1>b DEF Settled, objectsMatch
<1> DEFINE Asked(p, o) == p \in engaged[a] /\ <<p, NameOf[o]>> \in asked[a]
<1>f. ASSUME \A p, o : o \in Own(a) /\ Asked(p, o)' =>
               \/ Asked(p, o) /\ (Pending(a, p, o) => Pending(a, p, o)')
               \/ Pending(a, p, o)'
      PROVE  NoLostWorkAt(a)'
  BY <1>e, <1>f DEF NoLostWorkAt, Own, HomeOf
<1>g. ASSUME UNCHANGED <<running, srcEvents, store>>
      PROVE  StoreFreshAt(a)'
  BY <1>b, <1>g DEF StoreFreshAt, Entry
<1>3. ASSUME NEW q \in Servers, Engage(a, q)
      PROVE  FreshAt(a)'
  <2>1. /\ UNCHANGED <<running, srcEvents, store, notif, queue, work>>
        /\ engaged'[a] = engaged[a] \cup {q}
        /\ asked'[a] = asked[a] \ ({q} \X Names)
        /\ \A p \in Servers \ {q} : peerEvents'[a][p] = peerEvents[a][p]
    BY <1>3, <1>a DEF Engage
  <2>2. WorkFreshAt(a)'
    BY <2>1, <1>b, <1>d DEF WorkFreshAt, Own, HomeOf, Entry, WorkShape, CallShape, Requests
  <2>3. NoLostWorkAt(a)'
    BY <2>1, <1>a, <1>b, <1>d, <1>f DEF Pending
  <2> QED  BY <2>1, <2>2, <2>3, <1>g
<1>4. ASSUME NEW q \in Servers, Disengage(a, q)
      PROVE  FreshAt(a)'
  <2>1. /\ UNCHANGED <<running, srcEvents, store, notif, queue, work, asked>>
        /\ engaged'[a] = engaged[a] \ {q}
        /\ \A p \in Servers \ {q} : peerEvents'[a][p] = peerEvents[a][p]
    BY <1>4, <1>a DEF Disengage
  <2>2. WorkFreshAt(a)'
    BY <2>1, <1>b DEF WorkFreshAt, Own, HomeOf, Entry
  <2>3. NoLostWorkAt(a)'
    BY <2>1, <1>a, <1>f DEF Pending
  <2> QED  BY <2>1, <2>2, <2>3, <1>g
<1>5. ASSUME NEW x \in Objs, WatchSource(a, x)
      PROVE  FreshAt(a)'
  <2>1. /\ UNCHANGED <<running, engaged, peerEvents, queue, work, asked>>
        /\ srcEvents'[a] = srcEvents[a] \ {x}
        /\ notif'[a] = notif[a] \cup {x}
        /\ store'[a] = [store[a] EXCEPT ![NameOf[x]] = Entry(x, db[a][x])]
    BY <1>5, <1>a DEF WatchSource
  <2>2. StoreFreshAt(a)'
    BY <2>1, <1>a, <1>b, <1>c DEF StoreFreshAt, Entry
  <2>3. WorkFreshAt(a)'
    BY <2>1, <1>b DEF WorkFreshAt, Own, HomeOf, Entry
  <2>4. NoLostWorkAt(a)'
    BY <2>1, <1>f DEF Pending
  <2> QED  BY <2>2, <2>3, <2>4
<1>6. ASSUME NEW x \in Objs, HandleSource(a, x)
      PROVE  FreshAt(a)'
  <2> DEFINE told == IF IsAuthoritative(a, ShardOf[x]) THEN engaged[a] ELSE {}
             reqs == told \X {NameOf[x]}
  <2>1. /\ UNCHANGED <<running, srcEvents, engaged, store, peerEvents, work>>
        /\ notif'[a] = notif[a] \ {x}
        /\ queue'[a] = queue[a] \cup reqs
        /\ asked'[a] = (asked[a] \ ((Servers \ told) \X {NameOf[x]})) \cup reqs
    BY <1>6, <1>a DEF HandleSource
  <2>2. told \subseteq Servers
    BY <1>a
  <2> HIDE DEF told
  <2>3. \A p \in Servers : <<p, NameOf[x]>> \in asked'[a] =>
                             <<p, NameOf[x]>> \in queue'[a]
    BY <2>1, <2>2
  <2>4. \A p, o : o \in Objs /\ o # x /\ <<p, NameOf[o]>> \in asked'[a] =>
                    <<p, NameOf[o]>> \in asked[a]
    BY <2>1, <1>c
  <2>5. queue[a] \subseteq queue'[a]
    BY <2>1
  <2>6. WorkFreshAt(a)'
    <3>1. SUFFICES ASSUME NEW o \in Own(a),
                          work[a].pc \in {"auth", "peer", "write"},
                          work[a].req[2] = NameOf[o],
                          work[a].req[1] \in engaged[a],
                          work[a].req \in asked'[a]
                   PROVE  \/ work[a].src = Entry(o, db[a][o])
                          \/ o \in srcEvents[a] \/ o \in notif'[a]
                          \/ work[a].req \in queue'[a]
      BY <2>1, <1>b DEF WorkFreshAt, Own, HomeOf, Entry
    <3>2. work[a].req = <<work[a].req[1], NameOf[o]>>
      BY <3>1 DEF WorkShape, CallShape, Requests
    <3>3. CASE o = x
      BY <3>1, <3>2, <3>3, <2>3, <1>a
    <3>4. CASE o # x
      BY <3>1, <3>2, <3>4, <2>1, <2>4, <2>5, <1>d DEF WorkFreshAt
    <3> QED  BY <3>3, <3>4
  <2>7. NoLostWorkAt(a)'
    BY <2>1, <2>3, <2>4, <2>5, <1>a, <1>d, <1>f DEF Pending
  <2> QED  BY <2>1, <2>6, <2>7, <1>g
<1>7. ASSUME NEW q \in Servers, NEW x \in Objs, HandlePeer(a, q, x)
      PROVE  FreshAt(a)'
  <2>1. /\ UNCHANGED <<running, srcEvents, engaged, store, notif, work>>
        /\ queue'[a] = queue[a] \cup {<<q, NameOf[x]>>}
        /\ asked'[a] = asked[a] \cup {<<q, NameOf[x]>>}
        /\ \A p \in Servers, o \in Objs :
             o \in peerEvents[a][p] /\ ~(p = q /\ o = x) => o \in peerEvents'[a][p]
    BY <1>7, <1>a DEF HandlePeer
  <2>2. WorkFreshAt(a)'
    BY <2>1, <1>b DEF WorkFreshAt, Own, HomeOf, Entry
  <2>3. NoLostWorkAt(a)'
    BY <2>1, <1>a, <1>d, <1>f DEF Pending
  <2> QED  BY <2>1, <2>2, <2>3, <1>g
<1>8. ASSUME NEW q \in Servers, NEW x \in Objs, ResyncPeer(a, q, x)
      PROVE  FreshAt(a)'
  <2>1. EventsKept(a) /\ AgentUnchanged(a)
    BY <1>8, <1>a DEF ResyncPeer, EventsKept, AgentUnchanged
  <2> QED  BY <2>1, FreshFrame
<1>9. ASSUME NEW n \in Names, ResyncSource(a, n)
      PROVE  FreshAt(a)'
  <2>1. /\ UNCHANGED <<running, srcEvents, engaged, store, peerEvents, queue,
                       work, asked>>
        /\ notif[a] \subseteq notif'[a]
    BY <1>9, <1>a DEF ResyncSource
  <2>2. WorkFreshAt(a)'
    BY <2>1, <1>b DEF WorkFreshAt, Own, HomeOf, Entry
  <2>3. NoLostWorkAt(a)'
    BY <2>1, <1>f DEF Pending
  <2> QED  BY <2>1, <2>2, <2>3, <1>g
<1> QED
  BY <1>1, <1>2, <1>3, <1>4, <1>5, <1>6, <1>7, <1>8, <1>9 DEF InformNext

\* Nothing a Reconcile call does loses work.
LEMMA FreshReconcile ==
  ASSUME NamesUnique, Inv, NEW a \in Agents, FreshAt(a), ReconcileNext(a)
  PROVE  FreshAt(a)'
<1> USE DEF Inv, FreshAt
<1>a. /\ work \in [Agents -> Works] /\ work[a] \in Works
      /\ queue \in [Agents -> SUBSET Requests]
      /\ asked \in [Agents -> SUBSET Requests]
      /\ engaged \in [Agents -> SUBSET Servers]
      /\ peerEvents \in [Agents -> [Servers -> SUBSET Objs]]
  BY DEF TypeOK
<1>b. \A o1, o2 \in Objs : NameOf[o1] = NameOf[o2] => o1 = o2
  BY DEF NamesUnique
<1>c. \A o \in Own(a) : o \in Objs /\ HomeOf(o) = a
  BY DEF Own
<1>d. Idle.pc = "idle"
  BY DEF Idle
<1>e. CallShape(work[a])
  BY DEF WorkShape
<1>f. ASSUME UNCHANGED <<db, running, srcEvents, store>>
      PROVE  StoreFreshAt(a)'
  BY <1>f DEF StoreFreshAt, Entry
<1>g. ASSUME work'[a].pc \notin {"auth", "peer", "write"}
      PROVE  WorkFreshAt(a)'
  BY <1>g DEF WorkFreshAt
\* An entry is there exactly when its version is.
<1>i. ASSUME NEW o \in Objs
      PROVE  /\ Entry(o, db[a][o]) = None <=> db[a][o] = 0
             /\ Entry(o, db[a][o]) # None => Entry(o, db[a][o]).ver = db[a][o]
  <2>1. db[a][o] \in 0..MaxVer
    BY ConstantsAssumption DEF TypeOK
  <2>2. db[a][o] # 0 => [obj |-> o, ver |-> db[a][o]] \in Copies
    BY <2>1, ConstantsAssumption DEF Copies, Versions
  <2>3. None \notin Copies
    BY ConstantsAssumption DEF Copies, Versions
  <2> QED  BY <2>2, <2>3 DEF Entry
\* Steps that move no server and leave each pair asked for to somebody.
<1> DEFINE Asked(p, o) == p \in engaged[a] /\ <<p, NameOf[o]>> \in asked[a]
<1>h. ASSUME UNCHANGED db,
             \A p, o : o \in Own(a) /\ Asked(p, o)' =>
               \/ Asked(p, o) /\ (Pending(a, p, o) => Pending(a, p, o)')
               \/ Pending(a, p, o)'
               \/ Settled(a, p, o)
      PROVE  NoLostWorkAt(a)'
  <2>1. \A p, o : Settled(a, p, o)' <=> Settled(a, p, o)
    BY <1>h DEF Settled, objectsMatch
  <2> QED  BY <1>h, <2>1 DEF NoLostWorkAt, Own, HomeOf
<1>1. ASSUME NEW r \in Requests, Take(a, r)
      PROVE  FreshAt(a)'
  <2>1. /\ UNCHANGED <<db, running, srcEvents, engaged, store, notif,
                       peerEvents, asked>>
        /\ work[a].pc = "idle"
        /\ work'[a].pc = "get" /\ work'[a].req = r
        /\ queue'[a] = queue[a] \ {r}
    BY <1>1, <1>a DEF Take, Idle
  <2>2. NoLostWorkAt(a)'
    BY <2>1, <1>h DEF Pending
  <2> QED  BY <2>1, <2>2, <1>f, <1>g
<1>2. CASE ReadSource(a)
  <2>1. /\ UNCHANGED <<db, running, srcEvents, engaged, store, notif,
                       peerEvents, asked, queue>>
        /\ work[a].pc = "get"
    BY <1>2 DEF ReadSource
  <2>a. PICK obj \in Copies \cup {None} :
          /\ obj \in SourceCandidates(a, work[a].req[2])
          /\ work' = [work EXCEPT
               ![a] = [@ EXCEPT !.pc = IF obj = None THEN "peer" ELSE "auth",
                                !.src = obj]]
    BY <1>2, ReadSourceFacts
  <2>b. /\ work'[a].pc \in {"peer", "auth"} /\ work'[a].req = work[a].req
        /\ work'[a].src = obj
    BY <2>a, <1>a DEF Works
  <2>2. running[a]
    BY <2>1, <1>d DEF DownIsEmpty
  \* Both ways to read agree when the informer has no event to deliver.
  <2>c. ASSUME NEW o \in Own(a), work[a].req[2] = NameOf[o], o \notin srcEvents[a]
        PROVE  obj = Entry(o, db[a][o])
    <3>1. CASE ReadsCache
      BY <2>a, <2>c, <2>2, <3>1 DEF SourceCandidates, StoreFreshAt, Own
    <3>2. CASE ~ReadsCache
      <4>1. \A x \in Present(a) : NameOf[x] = NameOf[o] => x = o
        BY <2>c DEF NamesUnique, Present, Own
      <4>2. obj \in Listed(a, NameOf[o])
        BY <2>a, <2>c, <3>2 DEF SourceCandidates
      <4>3. CASE o \in Present(a)
        BY <4>1, <4>2, <4>3 DEF Listed
      <4>4. CASE o \notin Present(a)
        <5>1. {x \in Present(a) : NameOf[x] = NameOf[o]} = {}
          BY <4>1, <4>4
        <5>2. db[a][o] = 0
          BY <2>c, <4>4 DEF Present, Own
        <5> QED  BY <4>2, <5>1, <5>2 DEF Listed, Entry
      <4> QED  BY <4>3, <4>4
    <3> QED  BY <3>1, <3>2
  <2>3. WorkFreshAt(a)'
    BY <2>1, <2>b, <2>c DEF WorkFreshAt, Own, HomeOf, Entry
  <2>4. NoLostWorkAt(a)'
    BY <2>1, <2>b, <1>h DEF Pending
  <2> QED  BY <2>1, <2>3, <2>4, <1>f
<1>3. CASE CheckAuth(a)
  <2>1. UNCHANGED <<db, running, srcEvents, engaged, store, notif,
                    peerEvents, queue>>
    BY <1>3 DEF CheckAuth, Done
  <2>2. CASE work' = [work EXCEPT ![a].pc = "peer"] /\ UNCHANGED asked
    <3>1. /\ work'[a].pc = "peer" /\ work'[a].req = work[a].req
          /\ work'[a].src = work[a].src /\ work[a].pc = "auth"
      BY <1>3, <2>2, <1>a DEF CheckAuth, Works
    <3>2. WorkFreshAt(a)'
      BY <2>1, <2>2, <3>1 DEF WorkFreshAt, Own, HomeOf, Entry
    <3>3. NoLostWorkAt(a)'
      BY <2>1, <2>2, <3>1, <1>h DEF Pending
    <3> QED  BY <2>1, <3>2, <3>3, <1>f
  <2>3. CASE /\ work' = [work EXCEPT ![a] = Idle]
             /\ asked' = [asked EXCEPT ![a] = @ \ {work[a].req}]
    <3>1. work'[a] = Idle /\ asked'[a] = asked[a] \ {work[a].req}
      BY <2>3, <1>a
    <3>2. NoLostWorkAt(a)'
      BY <2>1, <3>1, <1>h DEF Pending
    <3> QED  BY <2>1, <3>1, <3>2, <1>d, <1>f, <1>g
  <2> QED  BY <1>3, <2>2, <2>3 DEF CheckAuth, Done
<1>4. CASE ReadPeer(a)
  <2> DEFINE p == work[a].req[1]
             W(o) == Decide(work[a].src, p, o, db[p][o])
  <2>1. PICK o \in Objs :
          /\ p \in Servers /\ db[p][o] \in 0..MaxVer
          /\ NameOf[o] = work[a].req[2]
          /\ \/ W(o) = None /\ Done(a)
             \/ /\ W(o) # None
                /\ work' = [work EXCEPT ![a].pc = "write", ![a].wr = W(o)]
                /\ UNCHANGED queue
    <3>1. ~AnotherAnswers(a)
      BY DEF AnotherAnswers, NamesUnique
    <3> QED  BY <1>4, <3>1, ReadPeerFacts
  <2>2. /\ UNCHANGED <<db, running, srcEvents, engaged, store, notif,
                       peerEvents, asked, queue>>
        /\ work[a].pc = "peer"
    BY <1>4, <2>1 DEF ReadPeer, Done
  <2>3. work[a].req = <<p, NameOf[o]>>
    BY <2>1, <2>2, <1>e DEF CallShape, Requests
  <2>4. CASE W(o) = None /\ Done(a)
    <3>1. work'[a] = Idle
      BY <2>4, <1>a DEF Done
    <3>2. work[a].src = Entry(o, db[a][o]) => Settled(a, p, o)
      <4>1. /\ work[a].src = None => db[p][o] = 0
            /\ work[a].src # None =>
                 db[p][o] # 0 /\ objectsMatch(work[a].src.ver, db[p][o])
        <5>1. work[a].src \in Copies \cup {None}
          BY <1>a DEF Works
        <5> QED  BY <2>1, <2>4, <5>1, DecideNothing
      <4> QED  BY <4>1, <1>i DEF Settled
    <3>3. ASSUME NEW q, NEW x \in Own(a), Asked(q, x)'
          PROVE  \/ Asked(q, x) /\ (Pending(a, q, x) => Pending(a, q, x)')
                 \/ Pending(a, q, x)'
                 \/ Settled(a, q, x)
      <4>1. Asked(q, x)
        BY <3>3, <2>2
      <4>2. CASE work[a].req = <<q, NameOf[x]>>
        <5>1. q = p /\ x = o
          BY <4>2, <2>1, <2>3, <1>b, <1>c
        <5>2. \/ work[a].src = Entry(o, db[a][o])
              \/ o \in srcEvents[a] \/ o \in notif[a] \/ work[a].req \in queue[a]
          BY <4>1, <4>2, <5>1, <2>2, <2>3 DEF WorkFreshAt
        <5> QED  BY <5>1, <5>2, <3>2, <2>2, <2>3 DEF Pending
      <4>3. CASE work[a].req # <<q, NameOf[x]>>
        BY <4>1, <4>3, <2>2 DEF Pending
      <4> QED  BY <4>2, <4>3
    <3>4. NoLostWorkAt(a)'
      BY <3>3, <2>2, <1>h
    <3> QED  BY <3>1, <3>4, <2>2, <1>d, <1>f, <1>g
  <2>5. CASE /\ W(o) # None
             /\ work' = [work EXCEPT ![a].pc = "write", ![a].wr = W(o)]
    <3>1. /\ work'[a].pc = "write" /\ work'[a].req = work[a].req
          /\ work'[a].src = work[a].src
      BY <2>5, <1>a DEF Works
    <3>2. WorkFreshAt(a)'
      BY <2>2, <3>1 DEF WorkFreshAt, Own, HomeOf, Entry
    <3>3. NoLostWorkAt(a)'
      BY <2>2, <3>1, <1>h DEF Pending
    <3> QED  BY <2>2, <3>2, <3>3, <1>f
  <2> QED  BY <2>1, <2>4, <2>5
<1>5. CASE Write(a)
  <2> DEFINE w == work[a].wr
  <2>1. /\ w \in Writes /\ w # None /\ Apply(w)
        /\ work'[a] = Idle
        /\ Accepts(w) \/ work[a].req \in queue'[a]
        /\ queue[a] \subseteq queue'[a]
        /\ UNCHANGED <<running, engaged, store, notif, asked>>
        /\ work[a].pc = "write"
    <3>1. work[a].pc = "write"
      BY <1>5 DEF Write
    <3>2. w # None
      BY <3>1, <1>e DEF CallShape
    <3> QED  BY <3>1, <3>2, <1>5, <1>a, WriteFacts
  <2>2. EventsKept(a)
    BY <2>1, ApplyFacts, PutKeepsEvents
  <2>3. /\ w.to \in Servers /\ w.obj \in Objs
        /\ Accepts(w) /\ db'[w.to][w.obj] = db[w.to][w.obj] =>
             db[w.to][w.obj] = w.ver
    <3>1. CASE Put(w.to, w.obj, w.ver) /\ db[w.to][w.obj] # w.ver
      <4>1. db'[w.to][w.obj] = w.ver
        <5>1. w.to \in Servers /\ w.obj \in Objs
          BY <2>1, ApplyFacts
        <5> QED  BY <3>1, <5>1 DEF Put, TypeOK
      <4> QED  BY <3>1, <4>1, <2>1, ApplyFacts
    <3> QED  BY <3>1, <2>1, ApplyFacts
  <2>4. /\ work[a].req = <<w.to, NameOf[w.obj]>>
        /\ work[a].src = None <=> w.ver = 0
        /\ work[a].src # None => w.obj = work[a].src.obj /\ w.ver = work[a].src.ver
    BY <2>1, <1>e DEF CallShape, Requests
  <2>5. StoreFreshAt(a)'
    BY <2>1, <2>2 DEF EventsKept, StoreFreshAt, Entry
  <2>6. NoLostWorkAt(a)'
    <3>1. SUFFICES ASSUME NEW p \in engaged[a], NEW o \in Own(a),
                          <<p, NameOf[o]>> \in asked[a]
                   PROVE  Settled(a, p, o)' \/ Pending(a, p, o)'
      BY <2>1 DEF NoLostWorkAt, Own, HomeOf
    <3>2. p \in Servers /\ o \in Objs /\ running[a]
      BY <2>1, <1>a, <1>c, <1>d DEF DownIsEmpty
    <3>3. db'[a][o] # db[a][o] \/ db'[p][o] # db[p][o] => Pending(a, p, o)'
      BY <2>2, <3>2 DEF EventsKept, Pending
    <3>4. Settled(a, p, o) /\ db'[a][o] = db[a][o] /\ db'[p][o] = db[p][o] =>
            Settled(a, p, o)'
      BY DEF Settled, objectsMatch
    <3>5. CASE work[a].req = <<p, NameOf[o]>>
      <4>1. w.to = p /\ w.obj = o
        BY <2>3, <2>4, <3>2, <3>5, <1>b
      <4>2. \/ work[a].src = Entry(o, db[a][o])
            \/ o \in srcEvents[a] \/ o \in notif[a] \/ work[a].req \in queue[a]
        BY <2>1, <3>1, <3>5 DEF WorkFreshAt
      <4>3. CASE o \in srcEvents[a] \/ o \in notif[a] \/ work[a].req \in queue'[a]
        BY <2>1, <2>2, <3>2, <3>5, <4>3 DEF EventsKept, Pending
      <4>4. CASE /\ work[a].src = Entry(o, db[a][o]) /\ Accepts(w)
                 /\ db'[a][o] = db[a][o] /\ db'[p][o] = db[p][o]
        <5>1. db[p][o] = w.ver
          BY <2>3, <4>1, <4>4
        <5>2. db[a][o] = w.ver
          BY <2>4, <3>2, <4>4, <1>i
        <5>3. Settled(a, p, o)
          BY <5>1, <5>2 DEF Settled, objectsMatch
        <5> QED  BY <3>4, <4>4, <5>3
      <4> QED  BY <2>1, <3>3, <4>2, <4>3, <4>4
    <3>6. CASE work[a].req # <<p, NameOf[o]>>
      <4>1. Pending(a, p, o) => Pending(a, p, o)'
        BY <2>1, <2>2, <3>2, <3>6 DEF EventsKept, Pending
      <4>2. Settled(a, p, o) \/ Pending(a, p, o)
        BY <3>1 DEF NoLostWorkAt
      <4> QED  BY <3>3, <3>4, <4>1, <4>2
    <3> QED  BY <3>5, <3>6
  <2> QED  BY <2>1, <2>5, <2>6, <1>d, <1>g
<1>6. CASE ReadFails(a) \/ WriteTimesOut(a)
  <2>1. /\ UNCHANGED <<db, running, srcEvents, engaged, store, notif,
                       peerEvents, asked>>
        /\ work'[a] = Idle /\ queue'[a] = queue[a] \cup {work[a].req}
    BY <1>6, <1>a DEF ReadFails, WriteTimesOut, Requeue
  <2>2. NoLostWorkAt(a)'
    BY <2>1, <1>h DEF Pending
  <2> QED  BY <2>1, <2>2, <1>d, <1>f, <1>g
<1>7. CASE Crash(a)
  <2>1. running'[a] = FALSE /\ engaged'[a] = {}
    BY <1>7 DEF Crash, TypeOK
  <2> QED  BY <2>1 DEF StoreFreshAt, WorkFreshAt, NoLostWorkAt
<1> QED
  BY <1>1, <1>2, <1>3, <1>4, <1>5, <1>6, <1>7 DEF ReconcileNext

\* The third layer holds when the agents have not started.
LEMMA FreshInit == Init => FreshInv
<1> SUFFICES ASSUME Init, NEW a \in Agents
             PROVE  FreshAt(a)
  BY DEF FreshInv
<1>1. running[a] = FALSE /\ engaged[a] = {}
  BY DEF Init
<1> QED  BY <1>1 DEF FreshAt, StoreFreshAt, WorkFreshAt, NoLostWorkAt

\* Every step keeps the third layer.
LEMMA FreshStep ==
  ASSUME NamesUnique, Inv, FreshInv, [Next]_vars
  PROVE  FreshInv'
<1> SUFFICES ASSUME NEW a \in Agents
             PROVE  FreshAt(a)'
  BY DEF FreshInv
<1>a. FreshAt(a)
  BY DEF FreshInv
<1>1. CASE ServerNext
  BY <1>1, <1>a, ServerKeepsEvents, FreshFrame
<1>2. ASSUME NEW b \in Agents, InformNext(b) \/ ReconcileNext(b)
      PROVE  FreshAt(a)'
  BY <1>2, <1>a, OtherAgents, FreshFrame, FreshInform, FreshReconcile
<1>3. CASE UNCHANGED vars
  <2>1. EventsKept(a) /\ AgentUnchanged(a)
    BY <1>3 DEF vars, EventsKept, AgentUnchanged
  <2> QED  BY <1>a, <2>1, FreshFrame
<1> QED  BY <1>1, <1>2, <1>3 DEF Next

\* When every object has a name of its own, no divergence that the controller
\* has once been asked about goes without an event, a request or a Reconcile
\* call that will see it: retries, requests enqueued during a call, delayed
\* writes, disconnections and restarts included.
THEOREM NoWorkIsLost ==
  ASSUME NamesUnique
  PROVE  Spec => []NoLostWork
<1>1. Init => Inv /\ FreshInv
  BY InvInit, FreshInit
<1>2. Inv /\ FreshInv /\ [Next]_vars => (Inv /\ FreshInv)'
  BY InvStep, FreshStep
<1>3. FreshInv => NoLostWork
  BY DEF FreshInv, FreshAt, NoLostWorkAt, NoLostWork
<1> QED  BY <1>1, <1>2, <1>3, PTL DEF Spec
=============================================================================
