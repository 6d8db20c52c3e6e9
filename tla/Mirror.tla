------------------------------- MODULE Mirror -------------------------------
(***************************************************************************)
(* What replication promises, whatever way it is done: the cache-servers   *)
(* mirror what the shards publish.  The only source of versions of an      *)
(* object is its shard, through the object's home; another server only     *)
(* ever takes over a version that was published and is newer than its own. *)
(* A server may drop an object: because its home no longer has it, because *)
(* data is lost, and the home itself because its shard deletes it (or      *)
(* another server's agent takes it for a copy, see README).                *)
(***************************************************************************)
EXTENDS Naturals

CONSTANTS
  Servers, Objs,
  Origin,    \* Origin[o]: the server o is published on
  MaxVer     \* bound: versions of one object

VARIABLES
  db,        \* db[c][o]: version of o on server c, 0 for none
  last       \* last[o]: newest version published

Init ==
  /\ db = [c \in Servers |-> [o \in Objs |-> 0]]
  /\ last = [o \in Objs |-> 0]

Publish(o) ==
  /\ last[o] < MaxVer
  /\ last' = [last EXCEPT ![o] = @ + 1]
  /\ db' = [db EXCEPT ![Origin[o]][o] = last[o] + 1]

Copy(c, o) ==
  /\ c # Origin[o]
  /\ \E v \in 1..last[o] :
       db[c][o] < v /\ db' = [db EXCEPT ![c][o] = v]
  /\ UNCHANGED last

Drop(c, o) ==
  /\ db[c][o] # 0
  /\ db' = [db EXCEPT ![c][o] = 0]
  /\ UNCHANGED last

Next ==
  \E o \in Objs : Publish(o) \/ \E c \in Servers : Copy(c, o) \/ Drop(c, o)

Spec == Init /\ [][Next]_<<db, last>>
=============================================================================
