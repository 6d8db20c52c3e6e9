---------------------------- MODULE MCAlgorithms ----------------------------
(***************************************************************************)
(* The two pure algorithms that decide where a request goes and whether a  *)
(* copy is up to date, on every input of a bounded size: one input for     *)
(* each initial state, and no steps.                                       *)
(***************************************************************************)
EXTENDS Algorithms

-----------------------------------------------------------------------------
(* Requests: a path that names a shard (named) or none (the empty name), and *)
(* the rest of it; the shard of the context, or none.                        *)

MCKeyOrder == <<"a", "b">>

\* One name is the beginning of another.
Shards == {<<"x">>, <<"x", "y">>, <<"y">>}

\* The kind Shard has a resource "shards" itself, and objects with subresources.
Rests == {<<>>, <<"/">>, <<"/", "apis">>, <<"/", "apis", "/">>,
          <<"/", "apis", "/", "shards">>,
          <<"/", "apis", "/", "shards", "/", "x">>,
          <<"/", "apis", "/", "shards", "/", "x", "/", "status">>,
          <<"/", "apis", "/", "shards", "/", "y", "/", "status">>}

Requests ==
  [what : {"path"}, named : Shards \cup {Wildcard}, rest : Rests,
   ctx : Shards \cup {<<>>}]
  \cup
  [what : {"path"}, named : {<<>>}, ctx : Shards \cup {<<>>},
   rest : Rests \cup {Tail(r) : r \in Rests \ {<<>>}}]

\* What is proved of every request is proved of these.
ASSUME RequestsAssumption == \A r \in Requests : IsRequest(r)

-----------------------------------------------------------------------------
(* Pairs of objects: many specs, or many label sets. *)

Leaves == {Leaf("string", <<"1">>), Leaf("int", <<"1">>), Leaf("int", <<"2">>),
           Leaf("string", <<"map", "a", "1", "end">>)}
MapsOf(keys, values) == UNION {[ks -> values] : ks \in SUBSET keys}
Inner  == {Map(f) : f \in MapsOf({"a"}, Leaves)}
Specs  == {Map(f) : f \in MapsOf({"a", "b"}, Leaves \cup Inner)}
MCValues == Leaves \cup Specs
MCDepth  == [v \in MCValues |->
               IF ~IsMap(v) THEN 0 ELSE IF v \in Inner THEN 1 ELSE 2]
LabelSets == MapsOf({"k", "l"}, {"", "v"})

Plain == CHOOSE f \in MapsOf({"k"}, {"v"}) : DOMAIN f = {"k"}
Object(g, l, s) == [generation |-> g, labels |-> l, spec |-> s]

Pairs ==
  {[what |-> "pair", source |-> Object(1, Plain, s), peer |-> Object(g, Plain, t)] :
     g \in {1, 2}, s \in Specs, t \in Specs}
  \cup
  {[what |-> "pair", source |-> Object(1, l, Map(<<>>)),
    peer |-> Object(1, m, Map(<<>>))] : l \in LabelSets, m \in LabelSets}

\* What is proved of every pair is proved of these.
ASSUME PairsAssumption == \A p \in Pairs : IsPair(p)

-----------------------------------------------------------------------------
Init == input \in Requests \cup Pairs
Next == UNCHANGED input
Spec == Init /\ [][Next]_input
=============================================================================
