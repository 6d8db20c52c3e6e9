----------------------------- MODULE Algorithms -----------------------------
(***************************************************************************)
(* What the two pure algorithms promise: where a client's request goes     *)
(* (ShardPath), and what the comparison of a copy with its source sees and *)
(* what it does not mind (ObjectsMatch).                                   *)
(***************************************************************************)
EXTENDS ShardPath, ObjectsMatch

CONSTANT Tokens  \* what paths and the names of shards are made of

ASSUME TokensAssumption == {"/", "shards", "*"} \subseteq Tokens

VARIABLE input   \* a request: [what : {"path"}, named, rest, ctx], or
                 \* two objects: [what : {"pair"}, source, peer]

-----------------------------------------------------------------------------
(* Requests. *)

\* The names of shards: not empty, and no slash.
IsName(n) == n \in Seq(Tokens) /\ n # <<>> /\ \A i \in 1..Len(n) : n[i] # "/"

\* A request's path names a shard or none (the empty name), and goes on with
\* rest, which belongs to no shard's name; ctx is the shard of its context, or
\* the empty name.
IsRequest(r) ==
  /\ Empty(r.ctx) \/ IsName(r.ctx)
  /\ r.rest \in Seq(Tokens)
  /\ \/ Empty(r.named) /\ ~IsPrefix(<<"/", "shards">>, r.rest)
     \/ IsName(r.named) /\ (Empty(r.rest) \/ Head(r.rest) = "/")

\* The path the request has before it gets its shard.
Before(r) == IF Empty(r.named) THEN r.rest ELSE Path(r.named) \o r.rest

\* Every request goes to its context's shard, or to all shards if it has none,
\* with the rest of its path untouched, whatever shard its path named before (a
\* request that is retried or redirected) and even if a resource is called
\* shards too.  There is one exception: a named shard whose name begins with
\* the context's is taken for it (shardInPath compares text).
RoutedToShard ==
  input.what = "path" =>
    LET s     == IF Empty(input.ctx) THEN Wildcard ELSE input.ctx
        taken == IF IsStrictPrefix(s, input.named) THEN input.named ELSE s
        gap   == IF input.rest # <<>> /\ Head(input.rest) # "/" THEN <<"/">> ELSE <<>>
    IN  Sent(Before(input), input.ctx) = Path(taken) \o gap \o input.rest

-----------------------------------------------------------------------------
(* Pairs of objects. *)

\* Of an object objectsMatch sees the generation, the labels and the spec.
IsObject(o) ==
  /\ IsFiniteSet(DOMAIN o.labels)
  /\ o.labels = [k \in DOMAIN o.labels |-> o.labels[k]]
  /\ o.spec \in Maps

IsPair(p) == IsObject(p.source) /\ IsObject(p.peer)

\* A change is overlooked only if the objects have the same generation, the specs
\* print the same, and the labels are the same, or one of the source's has the
\* value "" and is not on the peer at all.
ChangesSeen ==
  input.what = "pair" /\ objectsMatch(input.source, input.peer) =>
    /\ input.source.generation = input.peer.generation
    /\ Text[input.source.spec] = Text[input.peer.spec]
    /\ \/ input.source.labels = input.peer.labels
       \/ EmptyLabelMissing(input.source.labels, input.peer.labels)

\* A copy that differs from its source only in how its leaves are typed (the two
\* servers need not decode a number alike) is not updated, so that no peer is
\* updated for ever.
CopiesRest ==
  /\ input.what = "pair"
  /\ input.source.generation = input.peer.generation
  /\ input.source.labels = input.peer.labels
  /\ Alike[<<input.source.spec, input.peer.spec>>]
  => objectsMatch(input.source, input.peer)

\* controller.go:202: objectsMatch returns true if source and peer have
\* equivalent spec and labels.  So it does not if a reader of the peer finds
\* another value for some label than on the source.
LabelsSeen ==
  input.what = "pair" /\ objectsMatch(input.source, input.peer) =>
    SameLabels(input.source.labels, input.peer.labels)
=============================================================================
