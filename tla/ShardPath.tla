----------------------------- MODULE ShardPath -----------------------------
(***************************************************************************)
(* How a request to a cache-server gets its shard (internal/client): the   *)
(* shard of the request's context, or the wildcard, is put in front of the *)
(* URL path.  A path is a sequence of tokens; a shard name is a sequence   *)
(* of tokens too, so that one name can be the beginning of another.        *)
(***************************************************************************)
EXTENDS Naturals, Sequences, SequencesExt

Slash    == <<"/">>
Wildcard == <<"*">>
Empty(s) == s = <<>>

Path(s) == <<"/", "shards", "/">> \o s

-----------------------------------------------------------------------------
\* The matches of shards/([^/]+)/.+ in a path, each by the indices of its first
\* and last token of the shard name.  The name takes all it can.
Matches(orig) ==
  {m \in (1..Len(orig)) \X (1..Len(orig)) :
     /\ m[1] > 2 /\ m[1] <= m[2] /\ m[2] + 1 < Len(orig)
     /\ orig[m[1] - 2] = "shards" /\ orig[m[1] - 1] = "/"
     /\ \A i \in m[1]..m[2] : orig[i] # "/"
     /\ orig[m[2] + 1] = "/"}

\* Mutant: the last match counts.
LastMatch(orig) ==
  LET m == CHOOSE m \in Matches(orig) : \A n \in Matches(orig) : n[1] <= m[1]
  IN  SubSeq(orig, m[1], m[2])

\* The leftmost match counts.
shardSegment(orig) ==
  LET m == CHOOSE m \in Matches(orig) : \A n \in Matches(orig) : m[1] <= n[1]
  IN  SubSeq(orig, m[1], m[2])

shardInPath(orig, s) ==
  IF IsPrefix(Path(s), orig) THEN orig
  ELSE IF IsPrefix(<<"/", "shards">>, orig)
    THEN IF Matches(orig) # {}
           THEN ReplaceFirstSubSeq(Path(s), Path(shardSegment(orig)), orig)
           ELSE Path(s) \o (IF Last(orig) = "/" THEN Slash ELSE <<>>)
  ELSE Path(s) \o (IF orig # <<>> /\ Head(orig) # "/" THEN Slash ELSE <<>>) \o orig

-----------------------------------------------------------------------------
\* The round-trippers, outermost first.  ctx is the shard in the request's
\* context, the empty name if there is none.

\* Mutant: no default.
withoutDefaultShard(ctx, defaultShard) == ctx

withDefaultShard(ctx, defaultShard) == IF Empty(ctx) THEN defaultShard ELSE ctx

shardRoundTripper(path, ctx) == IF Empty(ctx) THEN path ELSE shardInPath(path, ctx)

\* The path that a client made by BuildKcpConfig sends.
Sent(path, ctx) == shardRoundTripper(path, withDefaultShard(ctx, Wildcard))
=============================================================================
