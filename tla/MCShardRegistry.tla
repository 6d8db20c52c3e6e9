-------------------------- MODULE MCShardRegistry --------------------------
(* Instances of ShardRegistry for TLC. *)
EXTENDS ShardRegistry

CONSTANTS system, root, sa, sb, A, B

\* One name in both clusters, and one in the other cluster only.
MCIds == {<<system, sa>>, <<root, sa>>, <<root, sb>>}
=============================================================================
