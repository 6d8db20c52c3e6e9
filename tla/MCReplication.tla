--------------------------- MODULE MCReplication ---------------------------
(* Instances of Replication for TLC. *)
EXTENDS Replication

CONSTANTS A, B, sa, sb, oa, ob, na, nb

\* Shard sa is connected to cache-server A, shard sb to B or to A too.
MCHome    == [s \in Shards |-> IF s = sa THEN A ELSE B]
MCHomeA   == [s \in Shards |-> A]
MCShardOf == [o \in Objs |-> IF o = oa THEN sa ELSE sb]

\* Every object has a name of its own, or both have the same.
MCOwnName == [o \in Objs |-> IF o = oa THEN na ELSE nb]
MCOneName == [o \in Objs |-> na]

\* objectsMatch sees every version but the third, which it takes for the second
\* (a change of annotations or status).
MCThirdHidden == [v \in 1..MaxVer |-> IF v = 3 THEN 2 ELSE v]
=============================================================================
