-------------------------- MODULE MCPeerDiscovery --------------------------
(* Instances of PeerDiscovery for TLC. *)
EXTENDS PeerDiscovery

CONSTANTS A, B, C, sa, sb, sc, sx

\* One shard for each server, and sx, a second one for A.
MCHome == [s \in Shards |-> CASE s = sb -> B [] s = sc -> C [] OTHER -> A]

\* A is the first server; all are told of it, A too.
MCSeedA == [a \in Servers |-> {A}]
=============================================================================
