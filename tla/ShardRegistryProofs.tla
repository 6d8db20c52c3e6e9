------------------------ MODULE ShardRegistryProofs ------------------------
(***************************************************************************)
(* The registry's set is right for any number of Shard objects in any      *)
(* clusters, servers, changes and failures, and it does not flap, but for  *)
(* names on which the informer has last heard of another cluster's object. *)
(***************************************************************************)
EXTENDS ShardRegistry, TLAPS

-----------------------------------------------------------------------------
(* The inductive invariant. *)

\* What a Reconcile call carries, and what the informer files under a name.
Shape ==
  /\ worker.pc = "idle" => worker = Idle
  /\ worker.pc # "idle" => worker.name \in Names
  /\ \A n \in Names : store[n] # None =>
       /\ store[n].id[2] = n
       /\ n \notin shadowed => store[n].id[1] = systemShardCluster
  /\ ~watching => events = {}

\* Only names of objects in system:shard are ever asked for.
InSystem ==
  \A n \in Names : n \in queue \/ n \in shardSet \/ worker.name = n =>
    <<systemShardCluster, n>> \in Ids

\* Without an event under way the informer holds what the source has.
FollowedAt(n) ==
  LET i == <<systemShardCluster, n>> IN
  watching /\ i \in Ids \ events /\ n \notin shadowed =>
    store[n] = Entry(i, shards[i])

Followed == \A n \in Names : FollowedAt(n)

\* A name is right in the set for what the informer holds, or will be looked at
\* again, or is just being set to what the informer holds.
Agreed(n) ==
  \/ n \in queue
  \/ worker.name = n /\ (worker.pc = "get" \/ worker.shard = store[n])
  \/ worker.name # n /\ (n \in shardSet <=> NamesUs(store[n]))

AllAgreed ==
  \A n \in Names :
    <<systemShardCluster, n>> \in Ids /\ n \notin shadowed => Agreed(n)

Inv == TypeOK /\ Shape /\ InSystem /\ Followed /\ AllAgreed
-----------------------------------------------------------------------------
(* Type correctness. *)

\* An entry has the type of what the informer holds.
LEMMA EntryType ==
  ASSUME NEW i \in Ids, NEW c \in Caches \cup {Absent}
  PROVE  /\ Entry(i, c) \in Entries \cup {None}
         /\ Entry(i, c) # None => c # Absent /\ Entry(i, c).id = i
         /\ Entry(i, c) = None => c = Absent
         /\ NamesUs(Entry(i, c)) <=> c = ownName
<1>1. CASE c = Absent
  BY <1>1, ConstantsAssumption DEF Entry, NamesUs
<1>2. CASE c # Absent
  <2>1. Entry(i, c) = [id |-> i, cache |-> c] /\ c \in Caches
    BY <1>2 DEF Entry
  <2>2. Entry(i, c) \in Entries /\ Entry(i, c) # None
    BY <2>1, ConstantsAssumption DEF Entries
  <2> QED
    BY <1>2, <2>1, <2>2 DEF NamesUs
<1> QED
  BY <1>1, <1>2

\* An event notifies a name of the tracked kind, or nobody.
LEMMA NotifyType ==
  ASSUME NEW i \in Ids, NEW c
  PROVE  /\ Notify(i, c) \subseteq Names
         /\ \A n \in Notify(i, c) : <<systemShardCluster, n>> = i
         /\ i[1] = systemShardCluster => i[2] \in Notify(i, c)
         /\ i[2] \in Names /\ i = <<i[1], i[2]>>
BY ConstantsAssumption DEF Notify

\* What a LIST does, without the definitions local to the action.
LEMMA ListStep ==
  ASSUME TypeOK, List
  PROVE  /\ ~watching /\ watching' = TRUE
         /\ store' \in [Names -> Entries \cup {None}]
         /\ shadowed' = {n \in Names :
              IF store'[n] = None THEN n \in shadowed
              ELSE store'[n].id[1] # systemShardCluster}
         /\ \A n \in Names :
              \/ /\ \A i \in Ids : i[2] = n => shards[i] = Absent
                 /\ store'[n] = None
                 /\ store[n] # None /\ n \in Notify(store[n].id, Absent) =>
                      n \in queue'
              \/ \E i \in Ids : /\ i[2] = n /\ shards[i] # Absent
                                /\ store'[n] = Entry(i, shards[i])
                                /\ n \in Notify(i, shards[i]) => n \in queue'
         /\ queue \subseteq queue' /\ queue' \subseteq Names
         /\ \A n \in queue' : n \in queue \/ <<systemShardCluster, n>> \in Ids
         /\ UNCHANGED <<shards, events, worker, shardSet, changes, faults>>
<1> DEFINE present == {i \in Ids : shards[i] # Absent}
           held(n) == {i \in present : i[2] = n}
           gone(n) == held(n) = {} /\ store[n] # None
           noted(n) == \/ \E i \in held(n) : n \in Notify(i, shards[i])
                       \/ gone(n) /\ n \in Notify(store[n].id, Absent)
<1>1. /\ ~watching /\ watching' = TRUE
      /\ queue' = queue \cup {n \in Names : noted(n)}
      /\ UNCHANGED <<shards, events, worker, shardSet, changes, faults>>
  BY DEF List
<1>2. PICK list \in [Names -> Entries \cup {None}] :
        /\ \A n \in Names :
             IF held(n) = {} THEN list[n] = None
             ELSE \E i \in held(n) : list[n] = Entry(i, shards[i])
        /\ store' = list
        /\ shadowed' = {n \in Names :
             IF list[n] = None THEN n \in shadowed
             ELSE list[n].id[1] # systemShardCluster}
  BY DEF List
<1>3. ASSUME NEW n \in Names
      PROVE \/ /\ \A i \in Ids : i[2] = n => shards[i] = Absent
               /\ store'[n] = None
               /\ store[n] # None /\ n \in Notify(store[n].id, Absent) =>
                    n \in queue'
            \/ \E i \in Ids : /\ i[2] = n /\ shards[i] # Absent
                              /\ store'[n] = Entry(i, shards[i])
                              /\ n \in Notify(i, shards[i]) => n \in queue'
  BY <1>1, <1>2
<1>4. ASSUME NEW n \in queue'
      PROVE n \in Names /\ (n \in queue \/ <<systemShardCluster, n>> \in Ids)
  <2>1. n \in queue \/ (n \in Names /\ noted(n))
    BY <1>1
  <2>2. CASE n \in queue
    BY <2>2 DEF TypeOK
  <2>3. ASSUME n \in Names, NEW i \in held(n), n \in Notify(i, shards[i])
        PROVE <<systemShardCluster, n>> \in Ids
    BY <2>3, NotifyType
  <2>4. ASSUME n \in Names, gone(n), n \in Notify(store[n].id, Absent)
        PROVE <<systemShardCluster, n>> \in Ids
    <3>1. store[n] \in Entries /\ store[n].id \in Ids
      BY <2>4 DEF TypeOK, Entries
    <3> QED
      BY <2>4, <3>1, NotifyType
  <2> QED
    BY <2>1, <2>2, <2>3, <2>4
<1> QED
  BY <1>1, <1>2, <1>3, <1>4

\* A step that fails stays within the bound, and an idle worker is a worker.
LEMMA FaultType == TypeOK /\ Fault => faults' \in 0..MaxFaults
BY ConstantsAssumption DEF TypeOK, Fault

LEMMA IdleType ==
  /\ Idle \in Workers
  /\ Idle.pc = "idle" /\ Idle.name = None
BY DEF Idle, Workers

\* The types of all variables hold throughout, and so does Shape.
LEMMA TypeStep == TypeOK /\ Shape /\ [Next]_vars => TypeOK' /\ Shape'
<1> SUFFICES ASSUME TypeOK, Shape, [Next]_vars PROVE TypeOK' /\ Shape'
  OBVIOUS
<1>1. CASE \E i \in Ids, c \in Caches \cup {Absent} : Change(i, c)
  <2>1. TypeOK'
    BY <1>1, ConstantsAssumption DEF TypeOK, Change
  <2>2. Shape'
    BY <1>1 DEF Shape, Change
  <2> QED
    BY <2>1, <2>2
<1>2. CASE \E i \in Ids : Watch(i)
  <2>1. PICK i \in Ids : Watch(i)
    BY <1>2
  <2>2. shards[i] \in Caches \cup {Absent}
    BY DEF TypeOK
  <2>3. /\ Entry(i, shards[i]) \in Entries \cup {None}
        /\ Entry(i, shards[i]) # None => Entry(i, shards[i]).id = i
        /\ Notify(i, shards[i]) \subseteq Names /\ i[2] \in Names
    BY <2>2, EntryType, NotifyType
  <2>4. TypeOK'
    BY <2>1, <2>3 DEF TypeOK, Watch
  <2>5. \A n \in Names :
          store'[n] = IF n = i[2] THEN Entry(i, shards[i]) ELSE store[n]
    BY <2>1, <2>3 DEF TypeOK, Watch
  <2>6. ASSUME NEW n \in Names, store'[n] # None
        PROVE  /\ store'[n].id[2] = n
               /\ n \notin shadowed' => store'[n].id[1] = systemShardCluster
    <3>1. CASE n = i[2]
      <4>1. store'[n].id = i /\ shards[i] # Absent
        BY <2>2, <2>5, <2>6, <3>1, EntryType
      <4> QED
        BY <2>1, <3>1, <4>1 DEF Watch
    <3>2. CASE n # i[2]
      <4>1. n \in shadowed' <=> n \in shadowed
        BY <2>1, <3>2 DEF Watch
      <4> QED
        BY <2>5, <2>6, <3>2, <4>1 DEF Shape
    <3> QED
      BY <3>1, <3>2
  <2>7. Shape'
    BY <2>1, <2>6 DEF Shape, Watch
  <2> QED
    BY <2>4, <2>7
<1>3. CASE List
  <2>1. TypeOK'
    BY <1>3, ListStep DEF TypeOK
  <2>2. ASSUME NEW n \in Names, store'[n] # None
        PROVE  /\ store'[n].id[2] = n
               /\ n \notin shadowed' => store'[n].id[1] = systemShardCluster
    <3>1. \/ /\ \A i \in Ids : i[2] = n => shards[i] = Absent
             /\ store'[n] = None
             /\ store[n] # None /\ n \in Notify(store[n].id, Absent) =>
                  n \in queue'
          \/ \E i \in Ids : /\ i[2] = n /\ shards[i] # Absent
                            /\ store'[n] = Entry(i, shards[i])
                            /\ n \in Notify(i, shards[i]) => n \in queue'
      BY <1>3, ListStep
    <3>2. PICK i \in Ids : i[2] = n /\ store'[n] = Entry(i, shards[i])
      BY <2>2, <3>1
    <3>3. shards[i] \in Caches \cup {Absent}
      BY DEF TypeOK
    <3>4. n \notin shadowed' => store'[n].id[1] = systemShardCluster
      BY <1>3, <2>2, ListStep
    <3> QED
      BY <2>2, <3>2, <3>3, <3>4, EntryType
  <2>3. watching' = TRUE /\ worker' = worker
    BY <1>3, ListStep
  <2>4. Shape'
    BY <2>2, <2>3 DEF Shape
  <2> QED
    BY <2>1, <2>4
<1>4. CASE Disconnect
  <2>1. TypeOK'
    BY <1>4, FaultType DEF TypeOK, Disconnect
  <2> QED
    BY <1>4, <2>1 DEF Shape, Disconnect
<1>5. CASE \E n \in Names : Resync(n)
  <2>1. PICK n \in Names : Resync(n)
    BY <1>5
  <2>2. store[n].id \in Ids
    BY <2>1 DEF TypeOK, Resync, Entries
  <2>3. Notify(store[n].id, store[n].cache) \subseteq Names
    BY <2>2, NotifyType
  <2>4. TypeOK'
    BY <2>1, <2>3 DEF TypeOK, Resync
  <2> QED
    BY <2>1, <2>4 DEF Shape, Resync
<1>6. CASE \E n \in Names : Take(n)
  <2>1. TypeOK'
    BY <1>6 DEF TypeOK, Take, Workers
  <2> QED
    BY <1>6, <2>1 DEF Shape, Take
<1>7. CASE Get
  <2>1. store[worker.name] \in Entries \cup {None}
    BY <1>7 DEF TypeOK, Shape, Get
  <2>2. worker \in Workers
    BY DEF TypeOK
  <2>3. worker' \in Workers /\ worker'.pc = "update" /\ worker'.name = worker.name
    BY <1>7, <2>1, <2>2 DEF Get, Workers
  <2>4. TypeOK'
    BY <1>7, <2>3 DEF TypeOK, Get
  <2> QED
    BY <1>7, <2>3, <2>4 DEF Shape, Get
<1>8. CASE GetFails
  <2>1. worker.name \in Names
    BY <1>8 DEF Shape, GetFails
  <2>2. TypeOK'
    BY <1>8, <2>1, FaultType, IdleType DEF TypeOK, GetFails
  <2> QED
    BY <1>8, <2>2, IdleType DEF Shape, GetFails
<1>9. CASE Update
  <2>1. worker.name \in Names
    BY <1>9 DEF Shape, Update
  <2>2. TypeOK'
    BY <1>9, <2>1, IdleType DEF TypeOK, Update, add, remove
  <2> QED
    BY <1>9, <2>2, IdleType DEF Shape, Update
<1>10. CASE Restart
  <2>1. TypeOK'
    BY <1>10, FaultType, IdleType DEF TypeOK, Restart
  <2> QED
    BY <1>10, <2>1, IdleType DEF Shape, Restart
<1>11. CASE UNCHANGED vars
  <2>1. TypeOK'
    BY <1>11 DEF TypeOK, vars
  <2> QED
    BY <1>11, <2>1 DEF Shape, vars
<1> QED
  BY <1>1, <1>2, <1>3, <1>4, <1>5, <1>6, <1>7, <1>8, <1>9, <1>10, <1>11 DEF Next

-----------------------------------------------------------------------------
(* The three parts that relate informer, queue, worker and set. *)

\* Only names of objects in system:shard are asked for: the predicate.
LEMMA InSystemStep ==
  TypeOK /\ Shape /\ InSystem /\ [Next]_vars => InSystem'
<1> SUFFICES ASSUME TypeOK, Shape, InSystem, [Next]_vars,
                    NEW n \in Names,
                    n \in queue' \/ n \in shardSet' \/ worker'.name = n
             PROVE  <<systemShardCluster, n>> \in Ids
  BY DEF InSystem
<1> DEFINE Was == n \in queue \/ n \in shardSet \/ worker.name = n
<1>a. Was => <<systemShardCluster, n>> \in Ids
  BY DEF InSystem
<1>b. n # None
  BY ConstantsAssumption
<1>1. CASE \E i \in Ids, c \in Caches \cup {Absent} : Change(i, c)
  BY <1>1, <1>a DEF Change
<1>2. CASE \E i \in Ids : Watch(i)
  BY <1>2, <1>a, NotifyType DEF Watch
<1>3. CASE List
  BY <1>3, <1>a, ListStep
<1>4. CASE Disconnect
  BY <1>4, <1>a DEF Disconnect
<1>5. CASE \E m \in Names : Resync(m)
  <2>1. PICK m \in Names : Resync(m)
    BY <1>5
  <2>2. store[m].id \in Ids
    BY <2>1 DEF TypeOK, Resync, Entries
  <2> QED
    BY <2>1, <2>2, <1>a, NotifyType DEF Resync
<1>6. CASE \E m \in Names : Take(m)
  BY <1>6, <1>a DEF Take
<1>7. CASE Get
  <2>1. worker'.name = worker.name
    BY <1>7 DEF Get, TypeOK, Workers
  <2> QED
    BY <1>7, <1>a, <2>1 DEF Get
<1>8. CASE GetFails
  BY <1>8, <1>a, <1>b, IdleType DEF GetFails
<1>9. CASE Update
  BY <1>9, <1>a, <1>b, IdleType DEF Update, add, remove
<1>10. CASE Restart
  BY <1>10, <1>a, <1>b, IdleType DEF Restart
<1>11. CASE UNCHANGED vars
  BY <1>11, <1>a DEF vars
<1> QED
  BY <1>1, <1>2, <1>3, <1>4, <1>5, <1>6, <1>7, <1>8, <1>9, <1>10, <1>11 DEF Next

\* What writes an object of a name writes the system's, or shadows the name.
LEMMA OwnOrShadowed ==
  ASSUME TypeOK, NEW i \in Ids, NEW n \in Names, i[2] = n, n \notin shadowed',
         \/ Watch(i) /\ ~(shards[i] = Absent /\ store[n] = None)
         \/ List /\ shards[i] # Absent /\ store'[n] = Entry(i, shards[i])
  PROVE  i = <<systemShardCluster, n>>
<1>1. i = <<i[1], i[2]>> /\ shards[i] \in Caches \cup {Absent}
  BY NotifyType DEF TypeOK
<1>2. CASE Watch(i) /\ ~(shards[i] = Absent /\ store[n] = None)
  BY <1>1, <1>2 DEF Watch
<1>3. CASE List /\ shards[i] # Absent /\ store'[n] = Entry(i, shards[i])
  <2>1. store'[n] # None /\ store'[n].id = i
    BY <1>1, <1>3, EntryType
  <2>2. store'[n].id[1] = systemShardCluster
    BY <1>3, <2>1, ListStep
  <2> QED
    BY <1>1, <2>1, <2>2
<1> QED
  BY <1>2, <1>3

\* The deletion of an object under whose name nothing is held changes nothing,
\* nor does an event of another name.
LEMMA WatchKeeps ==
  ASSUME TypeOK, NEW i \in Ids, Watch(i), NEW n \in Names,
         i[2] # n \/ (shards[i] = Absent /\ store[n] = None)
  PROVE  store'[n] = store[n] /\ (n \in shadowed' <=> n \in shadowed)
BY DEF Watch, TypeOK, Entry

\* The informer follows the source: while no other cluster's object is written
\* under its name, a shard's object is all that is.
LEMMA FollowedStep ==
  ASSUME TypeOK, Shape, Followed, [Next]_vars
  PROVE  Followed'
<1> SUFFICES ASSUME NEW n \in Names, watching', n \notin shadowed',
                    <<systemShardCluster, n>> \in Ids \ events'
             PROVE  store'[n] = Entry(<<systemShardCluster, n>>,
                                      shards[<<systemShardCluster, n>>])'
  BY DEF Followed, FollowedAt
<1> DEFINE own == <<systemShardCluster, n>>
<1>a. own \in Ids /\ own[2] = n /\ shards[own] \in Caches \cup {Absent}
  BY DEF TypeOK
<1>b. watching /\ own \notin events /\ n \notin shadowed =>
        store[n] = Entry(own, shards[own])
  BY <1>a DEF Followed, FollowedAt
<1>c. own \notin events'
  OBVIOUS
<1>d. SUFFICES store'[n] = Entry(own, shards'[own])
  BY DEF Entry
<1> HIDE DEF own
<1>1. CASE \E j \in Ids, c \in Caches \cup {Absent} : Change(j, c)
  <2>1. PICK j \in Ids, c \in Caches \cup {Absent} : Change(j, c)
    BY <1>1
  <2>2. own # j /\ shards'[own] = shards[own]
    BY <1>a, <1>c, <2>1 DEF Change, TypeOK
  <2> QED
    BY <1>b, <1>c, <2>1, <2>2 DEF Change
<1>2. CASE \E j \in Ids : Watch(j)
  <2>1. PICK j \in Ids : Watch(j)
    BY <1>2
  <2>2. shards' = shards /\ watching /\ events' = events \ {j}
    BY <2>1 DEF Watch
  <2>3. CASE own = j
    BY <1>a, <2>1, <2>2, <2>3 DEF Watch, TypeOK
  <2>4. CASE own # j
    <3>1. j[2] # n \/ (shards[j] = Absent /\ store[n] = None)
      BY <2>1, <2>4, OwnOrShadowed DEF own
    <3>2. store'[n] = store[n] /\ n \notin shadowed
      BY <2>1, <3>1, WatchKeeps
    <3> QED
      BY <1>b, <1>c, <2>2, <2>4, <3>2
  <2> QED
    BY <2>3, <2>4
<1>3. CASE List
  <2>1. shards' = shards
    BY <1>3, ListStep
  <2>2. \/ shards[own] = Absent /\ store'[n] = None
        \/ \E j \in Ids : /\ j[2] = n /\ shards[j] # Absent
                          /\ store'[n] = Entry(j, shards[j])
    BY <1>3, <1>a, ListStep
  <2>3. ASSUME NEW j \in Ids, j[2] = n, shards[j] # Absent,
               store'[n] = Entry(j, shards[j])
        PROVE  j = own
    BY <1>3, <2>3, OwnOrShadowed DEF own
  <2>4. CASE shards[own] = Absent /\ store'[n] = None
    BY <2>1, <2>4 DEF Entry
  <2> QED
    BY <2>1, <2>2, <2>3, <2>4
<1>4. CASE Disconnect
  BY <1>4 DEF Disconnect
<1>5. CASE \E m \in Names : Resync(m)
  BY <1>5, <1>b, <1>c DEF Resync
<1>6. CASE \E m \in Names : Take(m)
  BY <1>6, <1>b, <1>c DEF Take
<1>7. CASE Get \/ GetFails \/ Update \/ UNCHANGED vars
  BY <1>7, <1>b, <1>c DEF Get, GetFails, Update, vars
<1>8. CASE Restart
  BY <1>8 DEF Restart
<1> QED
  BY <1>1, <1>2, <1>3, <1>4, <1>5, <1>6, <1>7, <1>8 DEF Next

\* Whoever changes what the informer holds under a name, asks for the name; the
\* worker leaves the set as the informer was when it read.
LEMMA AgreedStep ==
  ASSUME TypeOK, Shape, AllAgreed, [Next]_vars
  PROVE  AllAgreed'
<1> SUFFICES ASSUME NEW n \in Names, <<systemShardCluster, n>> \in Ids,
                    n \notin shadowed'
             PROVE  Agreed(n)'
  BY DEF AllAgreed
<1> DEFINE own == <<systemShardCluster, n>>
<1>a. n \notin shadowed => Agreed(n)
  BY DEF AllAgreed
<1>b. /\ own \in Ids /\ own[1] = systemShardCluster /\ own[2] = n
      /\ \A c : n \in Notify(own, c)
  BY NotifyType
<1>c. n # None /\ (n \in queue' => Agreed(n)')
  BY ConstantsAssumption DEF Agreed
<1>d. UNCHANGED <<store, worker, shardSet, shadowed>> /\ queue \subseteq queue'
        => Agreed(n)'
  BY <1>a DEF Agreed, NamesUs
<1> HIDE DEF own
<1>1. CASE \E i \in Ids, c \in Caches \cup {Absent} : Change(i, c)
  BY <1>1, <1>d DEF Change
<1>2. CASE \E i \in Ids : Watch(i)
  <2>1. PICK i \in Ids : Watch(i)
    BY <1>2
  <2>2. CASE i[2] # n \/ (shards[i] = Absent /\ store[n] = None)
    <3>1. store'[n] = store[n] /\ n \notin shadowed
      BY <2>1, <2>2, WatchKeeps
    <3>2. UNCHANGED <<worker, shardSet>> /\ queue \subseteq queue'
      BY <2>1 DEF Watch
    <3> QED
      BY <1>a, <3>1, <3>2 DEF Agreed, NamesUs
  <2>3. CASE i[2] = n /\ ~(shards[i] = Absent /\ store[n] = None)
    <3>1. i = own
      BY <2>1, <2>3, OwnOrShadowed DEF own
    <3>2. n \in queue'
      BY <1>b, <2>1, <2>3, <3>1 DEF Watch
    <3> QED
      BY <1>c, <3>2
  <2> QED
    BY <2>2, <2>3
<1>3. CASE List
  <2>1. /\ queue \subseteq queue' /\ UNCHANGED <<worker, shardSet>>
        /\ \/ /\ store'[n] = None
              /\ store[n] # None /\ n \in Notify(store[n].id, Absent) => n \in queue'
           \/ \E i \in Ids : /\ i[2] = n /\ shards[i] # Absent
                             /\ store'[n] = Entry(i, shards[i])
                             /\ n \in Notify(i, shards[i]) => n \in queue'
    BY <1>3, ListStep
  <2>2. CASE /\ store'[n] = None
             /\ store[n] # None /\ n \in Notify(store[n].id, Absent) => n \in queue'
    <3>1. n \notin shadowed
      BY <1>3, <2>2, ListStep
    <3>2. CASE store[n] = None
      BY <1>a, <2>1, <2>2, <3>1, <3>2 DEF Agreed, NamesUs
    <3>3. CASE store[n] # None
      <4>1. /\ store[n].id \in Ids /\ store[n].id[2] = n
            /\ store[n].id[1] = systemShardCluster
        BY <3>1, <3>3 DEF TypeOK, Entries, Shape
      <4>2. n \in Notify(store[n].id, Absent)
        BY <4>1 DEF Notify
      <4> QED
        BY <1>c, <2>2, <3>3, <4>2
    <3> QED
      BY <3>2, <3>3
  <2>3. ASSUME NEW i \in Ids, i[2] = n, shards[i] # Absent,
               store'[n] = Entry(i, shards[i]),
               n \in Notify(i, shards[i]) => n \in queue'
        PROVE  Agreed(n)'
    <3>1. i = own
      BY <1>3, <2>3, OwnOrShadowed DEF own
    <3> QED
      BY <1>b, <1>c, <2>3, <3>1
  <2> QED
    BY <2>1, <2>2, <2>3
<1>4. CASE Disconnect
  BY <1>4, <1>d DEF Disconnect
<1>5. CASE \E m \in Names : Resync(m)
  BY <1>5, <1>d DEF Resync
<1>6. CASE \E m \in Names : Take(m)
  <2>1. PICK m \in Names : Take(m)
    BY <1>6
  <2>2. worker.name # n
    BY <1>c, <2>1, IdleType DEF Take, Shape
  <2>3. /\ worker'.pc = "get" /\ worker'.name = m
        /\ queue' = queue \ {m} /\ UNCHANGED <<store, shardSet, shadowed>>
    BY <2>1 DEF Take
  <2> QED
    BY <1>a, <2>2, <2>3 DEF Agreed, NamesUs
<1>7. CASE Get
  <2>1. /\ worker'.name = worker.name /\ worker'.shard = store[worker.name]
        /\ UNCHANGED <<store, queue, shardSet, shadowed>>
    BY <1>7 DEF Get, TypeOK, Workers
  <2> QED
    BY <1>a, <2>1 DEF Agreed, NamesUs
<1>8. CASE GetFails
  <2>1. /\ worker'.name = None /\ queue' = queue \cup {worker.name}
        /\ UNCHANGED <<store, shardSet, shadowed>>
    BY <1>8, IdleType DEF GetFails
  <2> QED
    BY <1>a, <1>c, <2>1 DEF Agreed, NamesUs
<1>9. CASE Update
  <2>1. /\ worker.pc = "update" /\ worker'.name = None
        /\ UNCHANGED <<store, queue, shadowed>>
        /\ shardSet' = IF NamesUs(worker.shard)
                         THEN shardSet \cup {worker.name}
                         ELSE shardSet \ {worker.name}
    BY <1>9, IdleType DEF Update, add, remove
  <2>2. CASE worker.name = n
    BY <1>a, <1>c, <2>1, <2>2 DEF Agreed, NamesUs
  <2>3. CASE worker.name # n
    BY <1>a, <1>c, <2>1, <2>3 DEF Agreed, NamesUs
  <2> QED
    BY <2>2, <2>3
<1>10. CASE Restart
  <2>1. worker'.name = None /\ shardSet' = {} /\ store'[n] = None
    BY <1>10, IdleType DEF Restart
  <2> QED
    BY <1>c, <2>1 DEF Agreed, NamesUs
<1>11. CASE UNCHANGED vars
  BY <1>11, <1>d DEF vars
<1> QED
  BY <1>1, <1>2, <1>3, <1>4, <1>5, <1>6, <1>7, <1>8, <1>9, <1>10, <1>11 DEF Next

-----------------------------------------------------------------------------
(* What a step does to a name the agent has acted on. *)

\* Such a name stays as it is unless its object changes or the agent restarts.
LEMMA SettledStep ==
  ASSUME TypeOK, Shape, Next, NEW n \in Names,
         <<systemShardCluster, n>> \in Ids, Settled(n), ~Restart,
         n \notin shadowed',
         shards'[<<systemShardCluster, n>>] = shards[<<systemShardCluster, n>>]
  PROVE  Settled(n)'
<1> DEFINE own == <<systemShardCluster, n>>
<1>a. /\ own \in Ids /\ own[1] = systemShardCluster /\ own[2] = n
      /\ n # None
  BY ConstantsAssumption
<1>b. /\ shards[own] \in Caches \cup {Absent}
      /\ NamesUs(Entry(own, shards[own])) <=> Own(n)
  <2>1. shards[own] \in Caches \cup {Absent}
    BY <1>a DEF TypeOK
  <2>2. NamesUs(Entry(own, shards[own])) <=> shards[own] = ownName
    BY <1>a, <2>1, EntryType
  <2> QED
    BY <1>a, <2>1, <2>2 DEF Own
<1>c. /\ store[n] = Entry(own, shards[own])
      /\ worker.name = n /\ worker.pc = "update" => worker.shard = store[n]
      /\ n \in shardSet <=> Own(n)
  BY DEF Settled, IsAuthoritative
<1>d. Own(n)' <=> Own(n)
  BY DEF Own
<1>e. ASSUME store'[n] = store[n],
             worker'.name = n /\ worker'.pc = "update" => worker'.shard = store[n],
             n \in shardSet' <=> n \in shardSet
      PROVE  Settled(n)'
  BY <1>c, <1>d, <1>e DEF Settled, IsAuthoritative, Entry
<1> HIDE DEF own
<1>1. CASE \E i \in Ids, c \in Caches \cup {Absent} : Change(i, c)
  BY <1>1, <1>c, <1>e DEF Change
<1>2. CASE \E i \in Ids : Watch(i)
  <2>1. PICK i \in Ids : Watch(i)
    BY <1>2
  <2>2. CASE i = own
    <3>1. store'[n] = Entry(own, shards[own])
      BY <1>a, <2>1, <2>2 DEF Watch, TypeOK
    <3> QED
      BY <1>c, <1>e, <2>1, <3>1 DEF Watch
  <2>3. CASE i # own
    <3>1. i[2] # n \/ (shards[i] = Absent /\ store[n] = None)
      BY <2>1, <2>3, OwnOrShadowed DEF own
    <3>2. store'[n] = store[n]
      BY <2>1, <3>1, WatchKeeps
    <3> QED
      BY <1>c, <1>e, <2>1, <3>2 DEF Watch
  <2> QED
    BY <2>2, <2>3
<1>3. CASE List
  <2>1. /\ UNCHANGED <<worker, shardSet>>
        /\ \/ shards[own] = Absent /\ store'[n] = None
           \/ \E i \in Ids : /\ i[2] = n /\ shards[i] # Absent
                             /\ store'[n] = Entry(i, shards[i])
    BY <1>3, <1>a, ListStep
  <2>3. ASSUME NEW i \in Ids, i[2] = n, shards[i] # Absent,
               store'[n] = Entry(i, shards[i])
        PROVE  i = own
    BY <1>3, <2>3, OwnOrShadowed DEF own
  <2>2. store'[n] = Entry(own, shards[own])
    BY <2>1, <2>3 DEF Entry
  <2> QED
    BY <1>c, <1>e, <2>1, <2>2
<1>4. CASE Disconnect
  BY <1>4, <1>c, <1>e DEF Disconnect
<1>5. CASE \E m \in Names : Resync(m)
  BY <1>5, <1>c, <1>e DEF Resync
<1>6. CASE \E m \in Names : Take(m)
  <2>1. worker'.pc = "get" /\ UNCHANGED <<store, shardSet>>
    BY <1>6 DEF Take
  <2> QED
    BY <1>e, <2>1
<1>7. CASE Get
  <2>1. /\ worker'.name = worker.name /\ worker'.shard = store[worker.name]
        /\ UNCHANGED <<store, shardSet>>
    BY <1>7 DEF Get, TypeOK, Workers
  <2> QED
    BY <1>e, <2>1
<1>8. CASE GetFails
  BY <1>8, <1>a, <1>e, IdleType DEF GetFails
<1>9. CASE Update
  <2>1. /\ worker.pc = "update" /\ worker'.name = None
        /\ UNCHANGED store
        /\ shardSet' = IF NamesUs(worker.shard)
                         THEN shardSet \cup {worker.name}
                         ELSE shardSet \ {worker.name}
    BY <1>9, IdleType DEF Update, add, remove
  <2>2. CASE worker.name = n
    <3>1. NamesUs(worker.shard) <=> Own(n)
      BY <1>b, <1>c, <2>1, <2>2
    <3>2. n \in shardSet' <=> n \in shardSet
      BY <1>c, <2>1, <2>2, <3>1
    <3> QED
      BY <1>a, <1>e, <2>1, <3>2
  <2>3. CASE worker.name # n
    <3>1. n \in shardSet' <=> n \in shardSet
      BY <2>1, <2>3
    <3> QED
      BY <1>a, <1>e, <2>1, <3>1
  <2> QED
    BY <2>2, <2>3
<1> QED
  BY <1>1, <1>2, <1>3, <1>4, <1>5, <1>6, <1>7, <1>8, <1>9 DEF Next

-----------------------------------------------------------------------------
(* The theorems. *)

\* Initially nothing is held, asked for or in the set.
LEMMA InitInv == Init => Inv
<1> SUFFICES ASSUME Init PROVE Inv
  OBVIOUS
<1>1. TypeOK
  <2>1. 0 \in 0..MaxChanges /\ 0 \in 0..MaxFaults
    BY ConstantsAssumption
  <2>2. [n \in Names |-> None] \in [Names -> Entries \cup {None}]
    OBVIOUS
  <2> QED
    BY <2>1, <2>2, IdleType DEF Init, TypeOK
<1>2. Shape
  BY IdleType DEF Init, Shape
<1>3. InSystem
  BY ConstantsAssumption, IdleType DEF Init, InSystem
<1>4. Followed
  BY DEF Init, Followed, FollowedAt
<1>5. AllAgreed
  BY ConstantsAssumption, IdleType DEF Init, AllAgreed, Agreed, NamesUs
<1> QED
  BY <1>1, <1>2, <1>3, <1>4, <1>5 DEF Inv

\* With nothing under way for a name, the invariant makes the set right.
LEMMA InvIsRight ==
  ASSUME Inv
  PROVE  SetIsRight
<1> SUFFICES ASSUME NEW n \in Names, Quiet(n), Unshadowed(n)
             PROVE  n \in shardSet <=> Own(n)
  BY DEF SetIsRight, IsAuthoritative
<1>1. CASE <<systemShardCluster, n>> \in Ids
  <2> DEFINE own == <<systemShardCluster, n>>
  <2>1. own \in Ids /\ own[2] = n /\ own \notin events /\ n \notin shadowed
    BY <1>1 DEF Quiet, Unshadowed
  <2>2. store[n] = Entry(own, shards[own]) /\ shards[own] \in Caches \cup {Absent}
    BY <2>1 DEF Inv, Followed, FollowedAt, Quiet, TypeOK
  <2>3. Agreed(n)
    BY <1>1, <2>1 DEF Inv, AllAgreed
  <2>4. n \in shardSet <=> NamesUs(Entry(own, shards[own]))
    BY <2>2, <2>3 DEF Agreed, Quiet
  <2> QED
    BY <1>1, <2>1, <2>2, <2>4, EntryType DEF Own
<1>2. CASE <<systemShardCluster, n>> \notin Ids
  BY <1>2 DEF Inv, InSystem, Own
<1> QED
  BY <1>1, <1>2

\* Every variable keeps its type, and the set holds names of Shard objects only:
\* for any Shard objects in any clusters, with failed reads, lost
\* watches and restarts.
THEOREM TypeCorrect == Spec => []TypeOK
<1>1. Init => TypeOK /\ Shape
  BY InitInv DEF Inv
<1>2. TypeOK /\ Shape /\ [Next]_vars => (TypeOK /\ Shape)'
  BY TypeStep
<1> QED
  BY <1>1, <1>2, PTL DEF Spec

\* The registry's set is right for every name nothing is under way for and on
\* which the informer has not last heard of another cluster's object, however the
\* source changes, whatever the informer misses while it is disconnected, and
\* through failed reads and restarts.
THEOREM RegistryIsRight == Spec => []SetIsRight
<1>1. Init => Inv
  BY InitInv
<1>2. Inv /\ [Next]_vars => Inv'
  BY TypeStep, InSystemStep, FollowedStep, AgreedStep DEF Inv
<1>3. Inv => SetIsRight
  BY InvIsRight
<1> QED
  BY <1>1, <1>2, <1>3, PTL DEF Spec

\* What the agent has acted on stays: a shard is taken out of the set, or put in,
\* only after a change of its object, a restart, or the moment the informer takes
\* over another cluster's object of that name, never for a failed read, a broken
\* watch or a request left over.
THEOREM AuthorityDoesNotFlap == Spec => AuthorityHeld
<1> DEFINE Held ==
      \A n \in Names :
        /\ <<systemShardCluster, n>> \in Ids
        /\ Settled(n) /\ ~Settled(n)'
        => \/ Restart \/ n \in shadowed'
           \/ shards'[<<systemShardCluster, n>>] # shards[<<systemShardCluster, n>>]
<1>1. Init => TypeOK /\ Shape
  BY InitInv DEF Inv
<1>2. TypeOK /\ Shape /\ [Next]_vars => (TypeOK /\ Shape)'
  BY TypeStep
<1>3. TypeOK /\ Shape /\ [Next]_vars => [Held]_vars
  <2>1. ASSUME TypeOK, Shape, Next PROVE Held
    BY <2>1, SettledStep
  <2> QED
    BY <2>1
<1> QED
  BY <1>1, <1>2, <1>3, PTL DEF Spec, AuthorityHeld
=============================================================================
