------------------------------- MODULE Labels -------------------------------
(***************************************************************************)
(* The part of objectsMatch that compares labels                           *)
(* (internal/controller/resourcereplication/replication/controller.go).    *)
(* The labels of an object are a function from keys to values.             *)
(***************************************************************************)
EXTENDS FiniteSets

\* Reading a label that is not there gives "".
Label(labels, k) == IF k \in DOMAIN labels THEN labels[k] ELSE ""

labelsMatch(a, b) ==
  /\ Cardinality(DOMAIN a) = Cardinality(DOMAIN b)
  /\ \A k \in DOMAIN a : Label(b, k) = a[k]

\* Two label sets that give every key the same value, "" if it has none.
SameLabels(a, b) ==
  \A k \in DOMAIN a \cup DOMAIN b : Label(a, k) = Label(b, k)

\* The only way in which labelsMatch overlooks a change: a label of the source
\* has the value "" and is not on the peer at all.
EmptyLabelMissing(a, b) == \E k \in DOMAIN a \ DOMAIN b : a[k] = ""
=============================================================================
