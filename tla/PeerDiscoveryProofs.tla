------------------------ MODULE PeerDiscoveryProofs ------------------------
(***************************************************************************)
(* What the source knows of is engaged: for any number of servers, shards, *)
(* agents, initial peers and failures.  And two servers at rest are a full *)
(* mesh, whatever shards they have.                                        *)
(***************************************************************************)
EXTENDS PeerDiscovery, TLAPS

-----------------------------------------------------------------------------
(* The inductive invariant. *)

\* Agent a has engaged the server n, or Engage of it failed, or one of several
\* copies of it was deleted.
Tried(a, n) == n \in peers[a] \/ <<a, n>> \in failed \cup dropped

\* The handlers of an agent have done what they can about each object without
\* an event under way.
Handled ==
  \A a \in Servers : phase[a] = "watching" =>
    \A o \in db[a] \ events[a] : Home[o] # a => Tried(a, Home[o])

Inv == TypeOK /\ Handled

-----------------------------------------------------------------------------
(* Type correctness. *)

\* The types survive a change of the content of a server.
LEMMA StoreType ==
  ASSUME TypeOK, NEW c \in Servers, NEW o \in Shards,
         NEW objs \in SUBSET Shards, Store(c, o, objs)
  PROVE  /\ db' \in [Servers -> SUBSET Shards]
         /\ events' \in [Servers -> SUBSET Shards]
BY DEF TypeOK, Store

\* The types survive the listing of an initial peer.
LEMMA SeedType ==
  ASSUME TypeOK, NEW a \in Servers, NEW q \in Servers,
         NEW lost \in SUBSET Servers, Seed(a, q, lost)
  PROVE  /\ toSeed' \in [Servers -> SUBSET Servers]
         /\ peers' \in [Servers -> SUBSET Servers]
         /\ \A b \in Servers : b \notin peers'[b]
         /\ failed' \subseteq Servers \X Servers
<1> DEFINE found == {Home[o] : o \in db[q]} \ {a}
<1>1. found \subseteq Servers /\ a \notin found
  BY ConstantsAssumption DEF TypeOK
<1>2. peers' = [peers EXCEPT ![a] = @ \cup (found \ lost)]
  BY DEF Seed
<1>3. toSeed' \in [Servers -> SUBSET Servers]
  BY DEF Seed, TypeOK
<1>4. failed' \subseteq Servers \X Servers
  BY DEF Seed, TypeOK
<1> QED
  BY <1>1, <1>2, <1>3, <1>4 DEF TypeOK

\* Failures are counted.
LEMMA FaultType ==
  ASSUME TypeOK, Fault
  PROVE  faults' \in 0..MaxFaults
BY ConstantsAssumption DEF TypeOK, Fault

\* Pushed, removed and replicated Cache objects keep the types.
LEMMA DataTypeStep ==
  ASSUME TypeOK,
         \/ \E s \in Shards : Push(s) \/ Retire(s)
         \/ \E c \in Servers : ServerReady(c)
         \/ \E a, p \in Servers, o \in Shards : CopyTo(a, p, o) \/ DeleteFrom(a, p, o)
  PROVE  TypeOK'
<1>1. ASSUME NEW s \in Shards, Push(s)
      PROVE  TypeOK'
  <2>1. Home[s] \in Servers /\ db[Home[s]] \cup {s} \in SUBSET Shards
    BY ConstantsAssumption DEF TypeOK
  <2> QED
    BY <1>1, <2>1, StoreType DEF Push, TypeOK, agentVars
<1>2. ASSUME NEW s \in Shards, Retire(s)
      PROVE  TypeOK'
  <2>1. Home[s] \in Servers /\ db[Home[s]] \ {s} \in SUBSET Shards
    BY ConstantsAssumption DEF TypeOK
  <2> QED
    BY <1>2, <2>1, StoreType, FaultType DEF Retire, TypeOK, agentVars
<1>3. ASSUME NEW a \in Servers, NEW p \in Servers, NEW o \in Shards, CopyTo(a, p, o)
      PROVE  TypeOK'
  <2>1. db[p] \cup {o} \in SUBSET Shards
    BY DEF TypeOK
  <2> QED
    BY <1>3, <2>1, StoreType DEF CopyTo, TypeOK, agentVars
<1>4. ASSUME NEW a \in Servers, NEW p \in Servers, NEW o \in Shards, DeleteFrom(a, p, o)
      PROVE  TypeOK'
  <2>1. db[p] \ {o} \in SUBSET Shards
    BY DEF TypeOK
  <2> QED
    BY <1>4, <2>1, StoreType DEF DeleteFrom, TypeOK, agentVars
<1>5. ASSUME NEW c \in Servers, ServerReady(c)
      PROVE  TypeOK'
  BY <1>5 DEF ServerReady, TypeOK, agentVars
<1> QED
  BY <1>1, <1>2, <1>3, <1>4, <1>5

\* The start of an agent, its seeding and its restart keep the types.
LEMMA StartTypeStep ==
  ASSUME TypeOK, NEW a \in Servers,
         \/ Launch(a) \/ Resolve(a) \/ Watch(a) \/ Crash(a)
         \/ \E q \in Servers : SeedFrom(a, q) \/ SeedFails(a, q)
         \/ \E q, n \in Servers : SeedLoses(a, q, n)
  PROVE  TypeOK'
<1>0. CASE Launch(a)
  BY <1>0 DEF Launch, TypeOK
<1>1. CASE Resolve(a)
  BY <1>1, ConstantsAssumption DEF Resolve, Complete, TypeOK
<1>2. CASE Watch(a)
  BY <1>2 DEF Watch, TypeOK
<1>3. CASE Crash(a)
  BY <1>3, FaultType DEF Crash, TypeOK
<1>4. ASSUME NEW q \in Servers, SeedFrom(a, q)
      PROVE  TypeOK'
  <2>1. Seed(a, q, {}) /\ {} \in SUBSET Servers
    BY <1>4 DEF SeedFrom
  <2>2. UNCHANGED <<db, retired, ready, phase, known, events, dropped, faults>>
    BY <1>4 DEF SeedFrom, Seed
  <2> QED
    BY <2>1, <2>2, SeedType DEF TypeOK
<1>5. ASSUME NEW q \in Servers, NEW n \in Servers, SeedLoses(a, q, n)
      PROVE  TypeOK'
  <2>1. Seed(a, q, {n}) /\ Fault /\ {n} \in SUBSET Servers
    BY <1>5 DEF SeedLoses
  <2>2. UNCHANGED <<db, retired, ready, phase, known, events, dropped>>
    BY <2>1 DEF Seed
  <2> QED
    BY <2>1, <2>2, SeedType, FaultType DEF TypeOK
<1>6. ASSUME NEW q \in Servers, SeedFails(a, q)
      PROVE  TypeOK'
  BY <1>6, FaultType DEF SeedFails, TypeOK
<1> QED
  BY <1>0, <1>1, <1>2, <1>3, <1>4, <1>5, <1>6

\* The handlers keep the types; in particular nobody becomes their own peer.
LEMMA HandlerTypeStep ==
  ASSUME TypeOK, NEW a \in Servers, NEW o \in Shards,
         Appeared(a, o) \/ AppearedFails(a, o) \/ Disappeared(a, o)
  PROVE  TypeOK'
<1>0. Home[o] \in Servers
  BY ConstantsAssumption
<1>1. CASE Appeared(a, o)
  <2>1. /\ peers' \in [Servers -> SUBSET Servers]
        /\ \A b \in Servers : b \notin peers'[b]
    BY <1>0, <1>1 DEF Appeared, TypeOK
  <2> QED
    BY <1>0, <1>1, <2>1 DEF Appeared, TypeOK
<1>2. CASE AppearedFails(a, o)
  BY <1>0, <1>2, FaultType DEF AppearedFails, TypeOK
<1>3. CASE Disappeared(a, o)
  <2>1. /\ peers' \in [Servers -> SUBSET Servers]
        /\ \A b \in Servers : b \notin peers'[b]
    BY <1>0, <1>3 DEF Disappeared, TypeOK
  <2> QED
    BY <1>0, <1>3, <2>1 DEF Disappeared, TypeOK
<1> QED
  BY <1>1, <1>2, <1>3

\* Every step keeps the types.
LEMMA TypeStep ==
  ASSUME TypeOK, [Next]_vars
  PROVE  TypeOK'
<1>1. CASE Next
  BY <1>1, DataTypeStep, StartTypeStep, HandlerTypeStep DEF Next, AgentNext
<1>2. CASE UNCHANGED vars
  BY <1>2 DEF vars, agentVars, TypeOK
<1> QED
  BY <1>1, <1>2

-----------------------------------------------------------------------------
(* What the source knows of is engaged. *)

\* A change of a server's content: what is new has an event.
LEMMA StoreHandled ==
  ASSUME TypeOK, Handled, NEW c \in Servers, NEW o \in Shards,
         NEW objs \in SUBSET (db[c] \cup {o}), Store(c, o, objs),
         UNCHANGED <<phase, peers, failed, dropped>>
  PROVE  Handled'
<1> SUFFICES ASSUME NEW a \in Servers, phase[a] = "watching",
                    NEW p \in db'[a] \ events'[a], Home[p] # a
             PROVE  Tried(a, Home[p])'
  BY DEF Handled
<1>1. p \in db[a] \ events[a]
  BY DEF Store, TypeOK
<1> QED
  BY <1>1 DEF Handled, Tried

\* A step that concerns agent a only, which is not watching afterwards.
LEMMA OthersHandled ==
  ASSUME TypeOK, Handled, NEW a \in Servers,
         db' = db, failed \subseteq failed',
         \A b \in Servers \ {a} : /\ phase'[b] = phase[b]
                                  /\ peers'[b] = peers[b]
                                  /\ events'[b] = events[b],
         \A b \in Servers \ {a}, n \in Servers : <<b, n>> \in dropped => <<b, n>> \in dropped',
         phase'[a] # "watching"
  PROVE  Handled'
<1> SUFFICES ASSUME NEW b \in Servers, phase'[b] = "watching",
                    NEW p \in db'[b] \ events'[b], Home[p] # b
             PROVE  Tried(b, Home[p])'
  BY DEF Handled
<1>1. b # a /\ Home[p] \in Servers
  BY ConstantsAssumption DEF TypeOK
<1>2. Tried(b, Home[p])
  BY <1>1 DEF Handled
<1> QED
  BY <1>1, <1>2 DEF Tried

\* Pushed, removed and replicated Cache objects.
LEMMA DataHandledStep ==
  ASSUME TypeOK, Handled,
         \/ \E s \in Shards : Push(s) \/ Retire(s)
         \/ \E c \in Servers : ServerReady(c)
         \/ \E a, p \in Servers, o \in Shards : CopyTo(a, p, o) \/ DeleteFrom(a, p, o)
  PROVE  Handled'
<1>1. ASSUME NEW s \in Shards, Push(s) \/ Retire(s)
      PROVE  Handled'
  <2>1. Home[s] \in Servers
    BY ConstantsAssumption
  <2>2. \E objs \in SUBSET (db[Home[s]] \cup {s}) : Store(Home[s], s, objs)
    BY <1>1 DEF Push, Retire
  <2>3. UNCHANGED <<phase, peers, failed, dropped>>
    BY <1>1 DEF Push, Retire, agentVars
  <2> QED
    BY <2>1, <2>2, <2>3, StoreHandled
<1>2. ASSUME NEW a \in Servers, NEW p \in Servers, NEW o \in Shards,
             CopyTo(a, p, o) \/ DeleteFrom(a, p, o)
      PROVE  Handled'
  <2>1. \E objs \in SUBSET (db[p] \cup {o}) : Store(p, o, objs)
    BY <1>2 DEF CopyTo, DeleteFrom
  <2>2. UNCHANGED <<phase, peers, failed, dropped>>
    BY <1>2 DEF CopyTo, DeleteFrom, agentVars
  <2> QED
    BY <2>1, <2>2, StoreHandled
<1>3. ASSUME NEW c \in Servers, ServerReady(c)
      PROVE  Handled'
  BY <1>3 DEF ServerReady, Handled, Tried, agentVars
<1> QED
  BY <1>1, <1>2, <1>3

\* Agents that start, seed or restart are not watching, and one that begins to
\* watch has an event for every object.
LEMMA StartHandledStep ==
  ASSUME TypeOK, Handled, NEW a \in Servers,
         \/ Launch(a) \/ Resolve(a) \/ Watch(a) \/ Crash(a)
         \/ \E q \in Servers : SeedFrom(a, q) \/ SeedFails(a, q)
         \/ \E q, n \in Servers : SeedLoses(a, q, n)
  PROVE  Handled'
<1>0. CASE Launch(a)
  BY <1>0, OthersHandled DEF Launch, TypeOK
<1>1. CASE Resolve(a)
  BY <1>1, OthersHandled DEF Resolve, TypeOK
<1>2. CASE Crash(a)
  <2>1. \A b \in Servers \ {a}, n \in Servers :
          <<b, n>> \in dropped => <<b, n>> \in dropped'
    BY <1>2 DEF Crash
  <2> QED
    BY <1>2, <2>1, OthersHandled DEF Crash, TypeOK
<1>3. CASE Watch(a)
  <2> SUFFICES ASSUME NEW b \in Servers, phase'[b] = "watching",
                      NEW o \in db'[b] \ events'[b], Home[o] # b
               PROVE  Tried(b, Home[o])'
    BY DEF Handled
  <2>1. b # a
    BY <1>3 DEF Watch, TypeOK
  <2>2. phase[b] = "watching" /\ o \in db[b] \ events[b]
    BY <1>3, <2>1 DEF Watch, TypeOK
  <2> QED
    BY <1>3, <2>2 DEF Handled, Tried, Watch
<1>4. ASSUME NEW q \in Servers, NEW lost, Seed(a, q, lost)
      PROVE  Handled'
  <2>1. db' = db /\ failed \subseteq failed' /\ phase'[a] # "watching"
    BY <1>4 DEF Seed, TypeOK
  <2>2. \A b \in Servers \ {a} : /\ phase'[b] = phase[b]
                                 /\ peers'[b] = peers[b]
                                 /\ events'[b] = events[b]
    BY <1>4 DEF Seed, TypeOK
  <2>3. dropped' = dropped
    BY <1>4 DEF Seed
  <2> QED
    BY <2>1, <2>2, <2>3, OthersHandled
<1>5. ASSUME NEW q \in Servers, SeedFails(a, q)
      PROVE  Handled'
  BY <1>5, OthersHandled DEF SeedFails, TypeOK
<1> QED
  BY <1>0, <1>1, <1>2, <1>3, <1>4, <1>5 DEF SeedFrom, SeedLoses

\* The handlers: an object that appeared is engaged or its call failed, and what
\* is disengaged is not on the source, or is dropped.
LEMMA HandlerHandledStep ==
  ASSUME TypeOK, Handled, NEW a \in Servers, NEW o \in Shards,
         Appeared(a, o) \/ AppearedFails(a, o) \/ Disappeared(a, o)
  PROVE  Handled'
<1> SUFFICES ASSUME NEW b \in Servers, phase'[b] = "watching",
                    NEW p \in db'[b] \ events'[b], Home[p] # b
             PROVE  Tried(b, Home[p])'
  BY DEF Handled
<1>1. /\ phase[b] = "watching" /\ p \in db[b] /\ p \in Shards
      /\ (a = b /\ p = o) \/ p \notin events[b]
  BY DEF Appeared, AppearedFails, Disappeared, TypeOK
<1>2. CASE Appeared(a, o)
  <2>1. CASE a = b /\ p = o
    BY <1>2, <2>1 DEF Appeared, TypeOK, Tried
  <2>2. CASE p \notin events[b]
    <3>1. Tried(b, Home[p])
      BY <1>1, <2>2 DEF Handled
    <3> QED
      BY <1>2, <3>1 DEF Appeared, TypeOK, Tried
  <2> QED
    BY <1>1, <2>1, <2>2
<1>3. CASE AppearedFails(a, o)
  <2>1. CASE a = b /\ p = o
    BY <1>3, <2>1 DEF AppearedFails, TypeOK, Tried
  <2>2. CASE p \notin events[b]
    <3>1. Tried(b, Home[p])
      BY <1>1, <2>2 DEF Handled
    <3> QED
      BY <1>3, <3>1 DEF AppearedFails, TypeOK, Tried
  <2> QED
    BY <1>1, <2>1, <2>2
<1>4. CASE Disappeared(a, o)
  <2>1. p \notin events[b]
    BY <1>1, <1>4 DEF Disappeared
  <2>2. Tried(b, Home[p])
    BY <1>1, <2>1 DEF Handled
  <2>3. dropped \subseteq dropped' /\ failed' = failed
    BY <1>4 DEF Disappeared
  <2>4. CASE Home[p] \in peers'[b] \/ Home[p] \notin peers[b]
    BY <2>2, <2>3, <2>4 DEF Tried
  <2>5. CASE Home[p] \in peers[b] /\ Home[p] \notin peers'[b]
    <3>1. a = b /\ Home[p] = Home[o] /\ Home[o] \in known[a]
      BY <1>4, <2>5 DEF Disappeared, TypeOK
    <3>2. p \in Named(a, Home[o])
      BY <1>1, <3>1 DEF Named
    <3>3. <<b, Home[p]>> \in dropped'
      BY <1>4, <3>1, <3>2 DEF Disappeared
    <3> QED
      BY <3>3 DEF Tried
  <2> QED
    BY <2>4, <2>5
<1> QED
  BY <1>2, <1>3, <1>4

\* Every step keeps the invariant.
LEMMA HandledStep ==
  ASSUME TypeOK, Handled, [Next]_vars
  PROVE  Handled'
<1>1. CASE Next
  BY <1>1, DataHandledStep, StartHandledStep, HandlerHandledStep DEF Next, AgentNext
<1>2. CASE UNCHANGED vars
  BY <1>2 DEF vars, agentVars, Handled, Tried
<1> QED
  BY <1>1, <1>2

-----------------------------------------------------------------------------
(* The theorems. *)

\* The initial states satisfy the invariant.
LEMMA InitInv == Init => Inv
BY ConstantsAssumption DEF Init, Inv, TypeOK, Handled

\* An object whose name nothing is under way for is one the handlers are done
\* with.
LEMMA InvIsEngaged ==
  ASSUME Inv
  PROVE  KnownIsEngaged
BY DEF Inv, TypeOK, Handled, Tried, KnownIsEngaged

\* Every variable keeps its type, and no agent ever takes its own server for a
\* peer, whatever Cache objects it finds (provider.go:194).
THEOREM TypeCorrect == Spec => []TypeOK
<1>1. Init => TypeOK
  BY InitInv DEF Inv
<1>2. TypeOK /\ [Next]_vars => TypeOK'
  BY TypeStep
<1> QED
  BY <1>1, <1>2, PTL DEF Spec

\* An agent that watches has engaged every server it finds a Cache object of,
\* unless Engage of it failed or the deletion of one of several copies of its name
\* disengaged it: whatever shards the servers have, the listing of the initial
\* peers, copies and deletions by any agent, restarts and decommissioned shards
\* included.
THEOREM SourceKnowsPeers == Spec => []KnownIsEngaged
<1>1. Init => Inv
  BY InitInv
<1>2. Inv /\ [Next]_vars => Inv'
  BY TypeStep, HandledStep DEF Inv
<1>3. Inv => KnownIsEngaged
  BY InvIsEngaged
<1> QED
  BY <1>1, <1>2, <1>3, PTL DEF Spec
-----------------------------------------------------------------------------
(* Two servers at rest are a full mesh.                                      *)

\* The mesh of two: the second server's agent is told of the first, whose own
\* may be told of anybody; each server has a shard; agents join apart.
Pair(first, second) ==
  /\ Servers = {first, second} /\ first # second
  /\ first \in InitialPeers[second]
  /\ \A c \in Servers : \E s \in Shards : Home[s] = c
  /\ JoinsApart

\* A copy is of an object that its home has.
HomeHasIt == \A c \in Servers : \A o \in db[c] : o \in db[Home[o]]

\* No event is the loss of a copy.
NoCopyLost == \A c \in Servers : \A o \in events[c] : Home[o] # c => o \in db[c]

\* No server is disengaged for the loss of one of several copies.
NothingDropped == \A a, n \in Servers : <<a, n>> \in dropped => n = a

\* Agent a is still to list the server q, which has what it needs to be found.
WillFind(a, q) ==
  /\ phase[a] = "resolving" \/ (phase[a] = "seeding" /\ q \in toSeed[a])
  /\ \A s \in Shards : Home[s] = q => s \in db[q]

\* As long as no shard was decommissioned and nothing failed, the second agent
\* has engaged the first or will find it.
PairInv(first, second) ==
  retired = {} =>
    /\ HomeHasIt /\ NoCopyLost /\ Handled /\ NothingDropped
    /\ (failed = {} /\ second \in Up =>
          first \in peers[second] \/ WillFind(second, first))

\* Shards stay decommissioned, and failures are not forgotten.
LEMMA GhostsGrow ==
  ASSUME Next
  PROVE  retired \subseteq retired' /\ failed \subseteq failed'
<1> DEFINE Grow == retired \subseteq retired' /\ failed \subseteq failed'
<1>1. ASSUME NEW s \in Shards, Push(s) \/ Retire(s)
      PROVE  Grow
  BY <1>1 DEF Push, Retire
<1>2. ASSUME NEW c \in Servers, ServerReady(c)
      PROVE  Grow
  BY <1>2 DEF ServerReady
<1>3. ASSUME NEW a \in Servers, NEW p \in Servers, NEW o \in Shards,
             CopyTo(a, p, o) \/ DeleteFrom(a, p, o)
      PROVE  Grow
  BY <1>3 DEF CopyTo, DeleteFrom
<1>4. ASSUME NEW a \in Servers, Launch(a) \/ Resolve(a) \/ Watch(a) \/ Crash(a)
      PROVE  Grow
  BY <1>4 DEF Launch, Resolve, Watch, Crash
<1>5. ASSUME NEW a \in Servers, NEW q \in Servers, NEW lost,
             Seed(a, q, lost) \/ SeedFails(a, q)
      PROVE  Grow
  BY <1>5 DEF Seed, SeedFails
<1>6. ASSUME NEW a \in Servers, NEW o \in Shards,
             Appeared(a, o) \/ AppearedFails(a, o) \/ Disappeared(a, o)
      PROVE  Grow
  BY <1>6 DEF Appeared, AppearedFails, Disappeared
<1> QED
  BY <1>1, <1>2, <1>3, <1>4, <1>5, <1>6 DEF Next, AgentNext, SeedFrom, SeedLoses

\* Replication among two: nobody deletes a copy whose home has the object, and
\* an object is deleted from its home only where there is no copy.
LEMMA PairDeletes ==
  ASSUME TypeOK, HomeHasIt, NEW first, NEW second, Pair(first, second),
         NEW a \in Servers, NEW p \in Servers, NEW o \in Shards, DeleteFrom(a, p, o)
  PROVE  /\ Home[o] = p /\ a # p /\ o \notin db[a]
         /\ \A c \in Servers : c = a \/ c = p
<1>1. a # p /\ o \in db[p]
  BY DEF DeleteFrom, TypeOK
<1>2. o \notin db[a]
  BY DEF DeleteFrom, Named
<1>3. \A c \in Servers : c = a \/ c = p
  BY <1>1 DEF Pair
<1>4. Home[o] # a
  BY <1>1, <1>2 DEF HomeHasIt
<1> QED
  BY <1>1, <1>2, <1>3, <1>4, ConstantsAssumption

\* The change of one object on one server.
LEMMA StoreChanges ==
  ASSUME TypeOK, NEW c \in Servers, NEW o \in Shards,
         NEW objs \in SUBSET Shards, Store(c, o, objs)
  PROVE  /\ db'[c] = objs
         /\ \A d \in Servers : d # c => db'[d] = db[d] /\ events'[d] = events[d]
         /\ events'[c] \subseteq events[c] \cup {o}
BY DEF TypeOK, Store

\* An object that is added where its home is, or where its home has it.
LEMMA AddKeepsCopies ==
  ASSUME TypeOK, HomeHasIt, NoCopyLost, NEW c \in Servers, NEW o \in Shards,
         Store(c, o, db[c] \cup {o}), Home[o] = c \/ o \in db[Home[o]]
  PROVE  HomeHasIt' /\ NoCopyLost'
<1>1. db[c] \cup {o} \in SUBSET Shards
  BY DEF TypeOK
<1>2. /\ db'[c] = db[c] \cup {o}
      /\ \A d \in Servers : d # c => db'[d] = db[d] /\ events'[d] = events[d]
      /\ events'[c] \subseteq events[c] \cup {o}
  BY <1>1, StoreChanges
<1>3. \A d \in Servers : db[d] \subseteq db'[d] /\ db'[d] \subseteq db[d] \cup {o}
  BY <1>2
<1>4. HomeHasIt'
  <2> SUFFICES ASSUME NEW d \in Servers, NEW p \in db'[d]
               PROVE  p \in db'[Home[p]]
    BY DEF HomeHasIt
  <2>1. p \in Shards /\ Home[p] \in Servers /\ Home[o] \in Servers
    BY <1>3, ConstantsAssumption DEF TypeOK
  <2>2. CASE p \in db[d]
    BY <1>3, <2>1, <2>2 DEF HomeHasIt
  <2>3. CASE p = o
    BY <1>2, <1>3, <2>1, <2>3
  <2> QED
    BY <1>3, <2>2, <2>3
<1>5. NoCopyLost'
  BY <1>2, <1>3 DEF NoCopyLost
<1> QED
  BY <1>4, <1>5

\* An object that is deleted from its home when nobody has a copy.
LEMMA DeleteKeepsCopies ==
  ASSUME TypeOK, HomeHasIt, NoCopyLost, NEW c \in Servers, NEW o \in Shards,
         Store(c, o, db[c] \ {o}), Home[o] = c,
         \A d \in Servers \ {c} : o \notin db[d]
  PROVE  HomeHasIt' /\ NoCopyLost'
<1>1. db[c] \ {o} \in SUBSET Shards
  BY DEF TypeOK
<1>2. /\ db'[c] = db[c] \ {o}
      /\ \A d \in Servers : d # c => db'[d] = db[d] /\ events'[d] = events[d]
      /\ events'[c] \subseteq events[c] \cup {o}
  BY <1>1, StoreChanges
<1>3. HomeHasIt'
  <2> SUFFICES ASSUME NEW d \in Servers, NEW p \in db'[d]
               PROVE  p \in db'[Home[p]]
    BY DEF HomeHasIt
  <2>1. p \in db[d] /\ p # o /\ p \in Shards /\ Home[p] \in Servers
    BY <1>2, ConstantsAssumption DEF TypeOK
  <2>2. p \in db[Home[p]]
    BY <2>1 DEF HomeHasIt
  <2> QED
    BY <1>2, <2>1, <2>2
<1>4. NoCopyLost'
  BY <1>2 DEF NoCopyLost
<1> QED
  BY <1>3, <1>4

\* Copies stay, as long as no shard is decommissioned.
LEMMA CopiesStep ==
  ASSUME TypeOK, HomeHasIt, NoCopyLost, NEW first, NEW second, Pair(first, second),
         Next, retired' = {}
  PROVE  HomeHasIt' /\ NoCopyLost'
<1>1. ASSUME NEW s \in Shards, Push(s)
      PROVE  HomeHasIt' /\ NoCopyLost'
  BY <1>1, AddKeepsCopies, ConstantsAssumption DEF Push
<1>2. ASSUME NEW s \in Shards, Retire(s)
      PROVE  HomeHasIt' /\ NoCopyLost'
  BY <1>2 DEF Retire
<1>3. ASSUME NEW a \in Servers, NEW p \in Servers, NEW o \in Shards, CopyTo(a, p, o)
      PROVE  HomeHasIt' /\ NoCopyLost'
  BY <1>3, AddKeepsCopies DEF CopyTo, Authoritative
<1>4. ASSUME NEW a \in Servers, NEW p \in Servers, NEW o \in Shards, DeleteFrom(a, p, o)
      PROVE  HomeHasIt' /\ NoCopyLost'
  <2>1. Home[o] = p /\ \A d \in Servers \ {p} : o \notin db[d]
    BY <1>4, PairDeletes
  <2> QED
    BY <1>4, <2>1, DeleteKeepsCopies DEF DeleteFrom
<1>5. ASSUME db' = db,
             \A c \in Servers : events'[c] \subseteq events[c] \cup db[c]
      PROVE  HomeHasIt' /\ NoCopyLost'
  BY <1>5 DEF HomeHasIt, NoCopyLost
<1>6. ASSUME NEW a \in Servers,
             \/ Launch(a) \/ Resolve(a) \/ Watch(a) \/ Crash(a)
             \/ \E q \in Servers : SeedFrom(a, q) \/ SeedFails(a, q)
             \/ \E q, n \in Servers : SeedLoses(a, q, n)
      PROVE  /\ db' = db
             /\ \A c \in Servers : events'[c] \subseteq events[c] \cup db[c]
  BY <1>6 DEF Launch, Resolve, Watch, Crash, SeedFrom, SeedFails, SeedLoses, Seed,
              TypeOK
<1>7. ASSUME NEW a \in Servers, NEW o \in Shards,
             Appeared(a, o) \/ AppearedFails(a, o) \/ Disappeared(a, o)
      PROVE  /\ db' = db
             /\ \A c \in Servers : events'[c] \subseteq events[c] \cup db[c]
  BY <1>7 DEF Appeared, AppearedFails, Disappeared, TypeOK
<1>8. ASSUME NEW c \in Servers, ServerReady(c)
      PROVE  db' = db /\ events' = events
  BY <1>8 DEF ServerReady
<1> QED
  BY <1>1, <1>2, <1>3, <1>4, <1>5, <1>6, <1>7, <1>8 DEF Next, AgentNext
\* The second agent: when it is started, the first server has what it will list;
\* nobody but itself, once it has engaged the first, deletes it there; and what
\* is engaged is disengaged by a restart only.
LEMMA ReachStep ==
  ASSUME TypeOK, HomeHasIt, NoCopyLost, NEW first, NEW second, Pair(first, second),
         second \in Up => first \in peers[second] \/ WillFind(second, first),
         Next, retired' = {}, failed' = {}, (second \in Up)'
  PROVE  first \in peers'[second] \/ WillFind(second, first)'
<1> DEFINE Goal == first \in peers'[second] \/ WillFind(second, first)'
<1>0. /\ first \in Servers /\ second \in Servers /\ first # second
      /\ \A c \in Servers : c = first \/ c = second
  BY DEF Pair
<1>1. retired = {} /\ failed = {}
  BY GhostsGrow
<1>2. ASSUME second \in Up,
             peers[second] \subseteq peers'[second],
             phase'[second] = phase[second], toSeed' = toSeed,
             db[first] \subseteq db'[first] \/ first \in peers[second]
      PROVE  Goal
  BY <1>2 DEF WillFind
<1>3. ASSUME NEW c \in Servers, NEW o \in Shards, Store(c, o, db[c] \cup {o})
      PROVE  db[first] \subseteq db'[first]
  <2>1. db[c] \cup {o} \in SUBSET Shards
    BY DEF TypeOK
  <2> QED
    BY <1>0, <1>3, <2>1, StoreChanges
<1>4. ASSUME NEW s \in Shards, Push(s)
      PROVE  Goal
  <2>1. Home[s] \in Servers /\ Store(Home[s], s, db[Home[s]] \cup {s})
        /\ UNCHANGED agentVars
    BY <1>4, ConstantsAssumption DEF Push
  <2> QED
    BY <1>2, <1>3, <2>1 DEF agentVars, Up
<1>5. ASSUME NEW s \in Shards, Retire(s)
      PROVE  Goal
  BY <1>5 DEF Retire
<1>6. ASSUME NEW c \in Servers, ServerReady(c)
      PROVE  Goal
  BY <1>2, <1>6 DEF ServerReady, agentVars, Up
<1>7. ASSUME NEW a \in Servers, NEW p \in Servers, NEW o \in Shards, CopyTo(a, p, o)
      PROVE  Goal
  <2>1. Store(p, o, db[p] \cup {o}) /\ UNCHANGED agentVars
    BY <1>7 DEF CopyTo
  <2> QED
    BY <1>2, <1>3, <2>1 DEF agentVars, Up
<1>8. ASSUME NEW a \in Servers, NEW p \in Servers, NEW o \in Shards, DeleteFrom(a, p, o)
      PROVE  Goal
  <2>1. /\ Store(p, o, db[p] \ {o}) /\ UNCHANGED agentVars
        /\ p \in peers[a] /\ db[p] \ {o} \in SUBSET Shards
    BY <1>8 DEF DeleteFrom, TypeOK
  <2>2. a # p
    BY <2>1 DEF TypeOK
  <2>3. CASE p = first
    BY <1>0, <1>2, <2>1, <2>2, <2>3 DEF agentVars, Up
  <2>4. CASE p # first
    <3>1. db'[first] = db[first]
      BY <1>0, <2>1, <2>4, StoreChanges
    <3> QED
      BY <1>2, <2>1, <3>1 DEF agentVars, Up
  <2> QED
    BY <2>3, <2>4
<1>9. ASSUME NEW a \in Servers, a # second,
             \/ Launch(a) \/ Resolve(a) \/ Watch(a) \/ Crash(a)
             \/ \E q \in Servers : SeedFrom(a, q) \/ SeedFails(a, q)
             \/ \E q, n \in Servers : SeedLoses(a, q, n)
             \/ \E o \in Shards :
                  Appeared(a, o) \/ AppearedFails(a, o) \/ Disappeared(a, o)
      PROVE  Goal
  <2>1. /\ db' = db
        /\ phase'[second] = phase[second] /\ toSeed'[second] = toSeed[second]
        /\ peers'[second] = peers[second]
    BY <1>0, <1>9 DEF Launch, Resolve, Watch, Crash, SeedFrom, SeedFails, SeedLoses,
                      Seed, Appeared, AppearedFails, Disappeared, TypeOK
  <2> QED
    BY <2>1 DEF WillFind, Up
<1>10. ASSUME Launch(second)
       PROVE  Goal
  <2>1. Pushed(first)
    BY <1>0, <1>10 DEF Launch, Pair
  <2>2. phase'[second] = "resolving" /\ db' = db
    BY <1>0, <1>10 DEF Launch, TypeOK
  <2> QED
    BY <1>1, <2>1, <2>2 DEF Pushed, WillFind
<1>11. ASSUME Resolve(second)
       PROVE  Goal
  <2>1. phase[second] = "resolving" /\ UNCHANGED <<db, peers>>
    BY <1>11 DEF Resolve
  <2>2. /\ phase'[second] = "seeding"
        /\ toSeed'[second] = InitialPeers[second] \ {second}
    BY <1>0, <1>11 DEF Resolve, Complete, TypeOK
  <2>3. first \in toSeed'[second]
    BY <1>0, <2>2 DEF Pair
  <2> QED
    BY <1>0, <2>1, <2>2, <2>3 DEF WillFind, Up
<1>12. ASSUME Watch(second)
       PROVE  Goal
  BY <1>0, <1>12 DEF Watch, WillFind, Up
<1>13. ASSUME Crash(second)
       PROVE  Goal
  BY <1>0, <1>13 DEF Crash, Up, TypeOK
<1>14. ASSUME NEW q \in Servers, SeedFrom(second, q)
       PROVE  Goal
  <2>1. /\ Seed(second, q, {}) /\ phase' = phase /\ db' = db
        /\ phase[second] = "seeding"
    BY <1>14 DEF SeedFrom, Seed
  <2>2. peers[second] \subseteq peers'[second]
    BY <1>0, <2>1 DEF Seed, TypeOK
  <2>3. CASE q = first /\ first \notin peers[second]
    <3>1. PICK s \in Shards : Home[s] = first
      BY <1>0 DEF Pair
    <3>2. s \in db[first]
      BY <1>0, <2>1, <2>3, <3>1 DEF WillFind, Up
    <3> QED
      BY <1>0, <2>1, <2>3, <3>1, <3>2 DEF Seed, TypeOK
  <2>4. CASE q # first
    <3>1. first \in toSeed[second] => first \in toSeed'[second]
      BY <1>0, <2>1, <2>4 DEF Seed, TypeOK
    <3> QED
      BY <1>0, <2>1, <2>2, <3>1 DEF WillFind, Up
  <2> QED
    BY <2>2, <2>3, <2>4
<1>15. ASSUME NEW q \in Servers, \/ SeedFails(second, q)
                                \/ \E n \in Servers : SeedLoses(second, q, n)
       PROVE  Goal
  BY <1>15 DEF SeedFails, SeedLoses, Seed
<1>16. ASSUME NEW o \in Shards, Appeared(second, o)
       PROVE  Goal
  <2>1. peers[second] \subseteq peers'[second]
    BY <1>0, <1>16 DEF Appeared, TypeOK
  <2> QED
    BY <1>2, <1>16, <2>1 DEF Appeared, Up
<1>17. ASSUME NEW o \in Shards, AppearedFails(second, o)
       PROVE  Goal
  BY <1>17 DEF AppearedFails
<1>18. ASSUME NEW o \in Shards, Disappeared(second, o)
       PROVE  Goal
  <2>1. Home[o] = second
    BY <1>0, <1>18 DEF Disappeared, NoCopyLost
  <2>2. peers[second] \subseteq peers'[second]
    BY <1>0, <1>18, <2>1 DEF Disappeared, TypeOK
  <2> QED
    BY <1>2, <1>18, <2>2 DEF Disappeared, Up
<1> QED
  BY <1>4, <1>5, <1>6, <1>7, <1>8, <1>9, <1>10, <1>11, <1>12, <1>13, <1>14, <1>15,
     <1>16, <1>17, <1>18 DEF Next, AgentNext

\* Without the loss of a copy nothing is dropped.
LEMMA DroppedStep ==
  ASSUME TypeOK, NoCopyLost, NothingDropped, Next
  PROVE  NothingDropped'
<1>1. ASSUME NEW a \in Servers, NEW o \in Shards, Disappeared(a, o)
      PROVE  NothingDropped'
  <2>1. Home[o] = a
    BY <1>1 DEF Disappeared, NoCopyLost
  <2>2. dropped' \subseteq dropped \cup {<<a, Home[o]>>}
    BY <1>1 DEF Disappeared
  <2> QED
    BY <2>1, <2>2 DEF NothingDropped
<1>2. ASSUME dropped' \subseteq dropped
      PROVE  NothingDropped'
  BY <1>2 DEF NothingDropped
<1> QED
  BY <1>1, <1>2 DEF Next, AgentNext, Push, Retire, ServerReady, CopyTo, DeleteFrom,
     Launch, Resolve, Watch, Crash, SeedFrom, SeedLoses, SeedFails, Seed, Appeared,
     AppearedFails

\* Every step keeps the invariant of the mesh of two.
LEMMA PairStep ==
  ASSUME TypeOK, NEW first, NEW second, Pair(first, second),
         PairInv(first, second), [Next]_vars
  PROVE  PairInv(first, second)'
<1>1. CASE UNCHANGED vars
  BY <1>1 DEF vars, agentVars, PairInv, HomeHasIt, NoCopyLost, Handled, Tried, Up,
              NothingDropped, WillFind
<1>2. CASE Next /\ retired' # {}
  BY <1>2 DEF PairInv
<1>3. CASE Next /\ retired' = {}
  <2>1. /\ HomeHasIt /\ NoCopyLost /\ Handled /\ NothingDropped
        /\ (failed = {} /\ second \in Up =>
              first \in peers[second] \/ WillFind(second, first))
    BY <1>3, GhostsGrow DEF PairInv
  <2>2. HomeHasIt' /\ NoCopyLost'
    BY <1>3, <2>1, CopiesStep
  <2>3. NothingDropped'
    BY <1>3, <2>1, DroppedStep
  <2>4. Handled'
    BY <2>1, HandledStep
  <2>5. ASSUME failed' = {}, (second \in Up)'
        PROVE  first \in peers'[second] \/ WillFind(second, first)'
    BY <1>3, <2>1, <2>5, ReachStep, GhostsGrow
  <2> QED
    BY <2>2, <2>3, <2>4, <2>5 DEF PairInv
<1> QED
  BY <1>1, <1>2, <1>3

\* When nothing is left to be done, the first server is engaged by the second,
\* which has copied its own objects to it, and so is engaged in turn.
LEMMA PairAtRest ==
  ASSUME TypeOK, NEW first, NEW second, Pair(first, second), PairInv(first, second)
  PROVE  RestIsFullMesh
<1> SUFFICES ASSUME AgentsAtRest, \A c \in Servers : Pushed(c),
                    Up = Servers, failed = {}, retired = {}
             PROVE  \A a \in Servers : peers[a] = Servers \ {a}
  BY DEF RestIsFullMesh
<1>0. /\ first \in Servers /\ second \in Servers /\ first # second
      /\ \A c \in Servers : c = first \/ c = second
  BY DEF Pair
<1>1. Handled /\ NothingDropped
  BY DEF PairInv
<1>2. \A a \in Servers : phase[a] = "watching" /\ events[a] = {}
  BY DEF AgentsAtRest
<1>3. first \in peers[second]
  BY <1>0, <1>2 DEF PairInv, WillFind
<1>4. PICK s \in Shards : Home[s] = second
  BY <1>0 DEF Pair
<1>5. s \in db[second]
  BY <1>0, <1>4 DEF Pushed
<1>6. s \in db[first]
  BY <1>0, <1>3, <1>4, <1>5 DEF AgentsAtRest, Authoritative
<1>7. second \in peers[first]
  BY <1>0, <1>1, <1>2, <1>4, <1>6 DEF Handled, Tried, NothingDropped
<1> QED
  BY <1>0, <1>3, <1>7 DEF TypeOK

\* plan-data-sync-mechanism.md:51 for two servers: however the two agents start,
\* restart, seed and replicate, and whatever shards they have, a state in which
\* nothing is left to be done, nothing has failed and no shard was decommissioned
\* is a full mesh.  The second agent is told of the first.
THEOREM PairIsFullMesh ==
  ASSUME NEW first, NEW second, Pair(first, second)
  PROVE  Spec => []RestIsFullMesh
<1>1. Init => TypeOK /\ PairInv(first, second)
  BY InitInv DEF Init, Inv, PairInv, HomeHasIt, NoCopyLost,
     NothingDropped, Up, Pair
<1>2. TypeOK /\ PairInv(first, second) /\ [Next]_vars
      => (TypeOK /\ PairInv(first, second))'
  BY TypeStep, PairStep
<1>3. TypeOK /\ PairInv(first, second) => RestIsFullMesh
  BY PairAtRest
<1> QED
  BY <1>1, <1>2, <1>3, PTL DEF Spec
=============================================================================
