---------------------------- MODULE ObjectsMatch ----------------------------
(***************************************************************************)
(* objectsMatch, on which it hangs whether a peer's copy is updated        *)
(* (internal/controller/resourcereplication/replication/controller.go).    *)
(*                                                                         *)
(* A value of a spec is a leaf of some type, or a map from keys to values. *)
(* Of a leaf only its %v text counts: a sequence of tokens, which another  *)
(* leaf, or a map, may have too.  What is recursive in the code is here a  *)
(* recursive function, with its body as an operator: what the function     *)
(* does for a value, given what it does for the values in it.              *)
(***************************************************************************)
EXTENDS Naturals, Sequences, SequencesExt, Labels

CONSTANTS
  KeyOrder, \* the keys of maps, in the order in which %v prints them
  Values,   \* the values that occur in specs, and the specs
  Depth     \* how deep the maps in a value are nested

Leaf(type, text) == [type |-> type, text |-> text]
Map(of)          == [type |-> "map", of |-> of]
IsMap(v)         == v.type = "map"
Maps             == {v \in Values : IsMap(v)}

\* Values are decoded from JSON: they have an end.
ASSUME ValuesAssumption ==
  /\ Depth \in [Values -> Nat]
  /\ \A v \in Maps : \A k \in DOMAIN v.of :
       /\ k \in {KeyOrder[i] : i \in DOMAIN KeyOrder}
       /\ v.of[k] \in Values /\ Depth[v.of[k]] < Depth[v]

\* What %v prints for a map whose values print as texts says.
MapText(texts) ==
  <<"map">> \o FoldLeft(
    LAMBDA t, k : IF k \in DOMAIN texts THEN t \o <<k>> \o texts[k] ELSE t,
    <<>>, KeyOrder) \o <<"end">>

\* What %v prints for a value.
TextOf(text, v) ==
  IF IsMap(v) THEN MapText([k \in DOMAIN v.of |-> text[v.of[k]]]) ELSE v.text

Text[v \in Values] == TextOf(Text, v)

-----------------------------------------------------------------------------
\* Mutants: keys only the second map has are not seen; types count.
EqualNoLenOf(equal, p) ==
  LET a == p[1].of  b == p[2].of
  IN  \A k \in DOMAIN a :
        /\ k \in DOMAIN b
        /\ IF IsMap(a[k]) THEN IsMap(b[k]) /\ equal[<<a[k], b[k]>>]
                          ELSE Text[a[k]] = Text[b[k]]

EqualTypedOf(equal, p) ==
  LET a == p[1].of  b == p[2].of
  IN  /\ DOMAIN a = DOMAIN b
      /\ \A k \in DOMAIN a :
           IF IsMap(a[k]) THEN IsMap(b[k]) /\ equal[<<a[k], b[k]>>]
                          ELSE a[k] = b[k]

\* With as many keys in both, and all of a's in b, the keys are the same.
EqualOf(equal, p) ==
  LET a == p[1].of  b == p[2].of
  IN  /\ DOMAIN a = DOMAIN b
      /\ \A k \in DOMAIN a :
           IF IsMap(a[k]) THEN IsMap(b[k]) /\ equal[<<a[k], b[k]>>]
                          ELSE Text[a[k]] = Text[b[k]]

mapsEqual[p \in Maps \X Maps] == EqualOf(mapsEqual, p)

objectsMatch(source, peer) ==
  /\ source.generation = peer.generation
  /\ labelsMatch(source.labels, peer.labels)
  /\ mapsEqual[<<source.spec, peer.spec>>]

-----------------------------------------------------------------------------
\* Two values that are maps in the same places, with leaves that print alike.
AlikeOf(alike, p) ==
  LET v == p[1]  w == p[2]
  IN  /\ IsMap(v) <=> IsMap(w)
      /\ IF IsMap(v)
           THEN /\ DOMAIN v.of = DOMAIN w.of
                /\ \A k \in DOMAIN v.of : alike[<<v.of[k], w.of[k]>>]
           ELSE v.text = w.text

Alike[p \in Values \X Values] == AlikeOf(Alike, p)
=============================================================================
