----------------------------- MODULE Recursion -----------------------------
(***************************************************************************)
(* Recursive functions.  A function that is defined by f[v \in S] == e     *)
(* satisfies f[v] = e for all v only if such a function exists.  It does   *)
(* if its body looks at what f does for elements of a lower rank only.     *)
(*                                                                         *)
(* The body is the operator Def(f, v), a constant of this module: to use   *)
(* the theorem for a function, this module is instantiated with its body.  *)
(***************************************************************************)
EXTENDS Naturals, WellFoundedInduction, TLAPS

CONSTANTS
  S,        \* the domain
  Rank,     \* the rank of each of its elements
  Def(_, _) \* the body: what f does for v

\* Ranks are natural numbers, so that there is no endless descent.
WellRanked == Rank \in [S -> Nat]

\* What the body says of v depends on what f does below v's rank and no more.
Local ==
  \A v \in S : \A f, g :
    (\A c \in S : Rank[c] < Rank[v] => f[c] = g[c]) => Def(f, v) = Def(g, v)

-----------------------------------------------------------------------------
(* Least elements, which stand in for induction. *)

\* A set of natural numbers that is not empty has a least element.
LEMMA LeastNatural ==
  ASSUME NEW T \in SUBSET Nat, T # {}
  PROVE  \E n \in T : \A m \in T : n <= m
<1> DEFINE R == {ss \in Nat \X Nat : ss[1] < ss[2]}
<1>1. IsWellFoundedOn(R, Nat)
  BY NatLessThanWellFounded DEF OpToRel
<1>2. \A m, n \in Nat : m < n => <<m, n>> \in R
  OBVIOUS
<1> HIDE DEF R
<1>3. PICK n \in T : \A m \in T : <<m, n>> \notin R
  BY <1>1, WFMin
<1>4. \A m \in T : m \in Nat /\ n \in Nat /\ ~(m < n)
  BY <1>2, <1>3
<1> QED
  BY <1>4

\* A part of the domain that is not empty has an element of least rank.
LEMMA LeastRanked ==
  ASSUME WellRanked, NEW T \in SUBSET S, T # {}
  PROVE  \E v \in T : \A w \in T : Rank[v] <= Rank[w]
<1> DEFINE N == {Rank[v] : v \in T}
<1>1. N \in SUBSET Nat /\ N # {}
  BY DEF WellRanked
<1>2. PICK n \in N : \A m \in N : n <= m
  BY <1>1, LeastNatural
<1> QED
  BY <1>2

-----------------------------------------------------------------------------
(* The equation. *)

\* f satisfies the equation below rank n.
Upto(f, n) == \A v \in S : Rank[v] < n => f[v] = Def(f, v)

\* Two functions agree as far as both satisfy the equation: take an element of
\* least rank where they differ.
LEMMA Agree ==
  ASSUME WellRanked, Local, NEW f, NEW g, NEW m \in Nat, NEW n \in Nat,
         Upto(f, m), Upto(g, n)
  PROVE  \A v \in S : Rank[v] < m /\ Rank[v] < n => f[v] = g[v]
<1> DEFINE T == {v \in S : Rank[v] < m /\ Rank[v] < n /\ f[v] # g[v]}
<1>1. SUFFICES ASSUME T # {} PROVE FALSE
  OBVIOUS
<1>2. PICK v \in T : \A w \in T : Rank[v] <= Rank[w]
  BY <1>1, LeastRanked
<1>3. \A c \in S : Rank[c] \in Nat
  BY DEF WellRanked
<1>4. \A c \in S : Rank[c] < Rank[v] => f[c] = g[c]
  BY <1>2, <1>3
<1>5. Def(f, v) = Def(g, v)
  BY <1>2, <1>4 DEF Local
<1> QED
  BY <1>2, <1>5 DEF Upto

\* Below each rank there is a function that satisfies the equation: take the least
\* rank for which there is none, and apply the body once more to the one before.
LEMMA Exist ==
  ASSUME WellRanked, Local
  PROVE  \A n \in Nat : \E f : Upto(f, n)
<1> DEFINE T == {n \in Nat : ~ \E f : Upto(f, n)}
<1>1. SUFFICES ASSUME T # {} PROVE FALSE
  OBVIOUS
<1>2. PICK n \in T : \A m \in T : n <= m
  BY <1>1, LeastNatural
<1>3. \A c \in S : Rank[c] \in Nat
  BY DEF WellRanked
<1>4. n # 0
  BY <1>2, <1>3 DEF Upto
<1>5. n - 1 \in Nat /\ n - 1 \notin T
  BY <1>2, <1>4
<1>6. PICK f : Upto(f, n - 1)
  BY <1>5
<1> DEFINE g == [v \in S |-> Def(f, v)]
<1>7. ASSUME NEW v \in S, Rank[v] < n PROVE g[v] = Def(g, v)
  <2>1. \A c \in S : Rank[c] < Rank[v] => Rank[c] < n - 1
    BY <1>3, <1>7
  <2>2. \A c \in S : Rank[c] < Rank[v] => f[c] = g[c]
    BY <1>6, <2>1 DEF Upto
  <2>3. Def(f, v) = Def(g, v)
    <3> HIDE DEF g
    <3> QED BY <2>2 DEF Local
  <2> QED
    BY <2>3
<1>8. Upto(g, n)
  BY <1>7 DEF Upto
<1> QED
  BY <1>2, <1>8

\* A recursive function whose body is local satisfies its equation: the functions
\* that satisfy it below each rank agree (Agree), and together they are one.
THEOREM Equation ==
  ASSUME WellRanked, Local, NEW F, F = CHOOSE f : f = [v \in S |-> Def(f, v)]
  PROVE  F = [v \in S |-> Def(F, v)]
<1> DEFINE h(n) == CHOOSE f : Upto(f, n)
           G == [v \in S |-> h(Rank[v] + 1)[v]]
<1>1. \A c \in S : Rank[c] \in Nat
  BY DEF WellRanked
<1>2. \A n \in Nat : Upto(h(n), n)
  BY Exist
<1>3. ASSUME NEW v \in S PROVE G[v] = Def(G, v)
  <2> DEFINE f == h(Rank[v] + 1)
  <2>1. Upto(f, Rank[v] + 1)
    BY <1>1, <1>2
  <2>2. f[v] = Def(f, v)
    BY <1>1, <2>1 DEF Upto
  <2>3. ASSUME NEW c \in S, Rank[c] < Rank[v] PROVE f[c] = G[c]
    <3>1. Rank[c] + 1 \in Nat /\ Rank[v] + 1 \in Nat
      BY <1>1
    <3>2. Upto(h(Rank[c] + 1), Rank[c] + 1)
      BY <1>2, <3>1
    <3>3. Rank[c] < Rank[c] + 1 /\ Rank[c] < Rank[v] + 1
      BY <1>1, <2>3
    <3>4. f[c] = h(Rank[c] + 1)[c]
      <4> HIDE DEF h, f
      <4> QED BY <2>1, <3>1, <3>2, <3>3, Agree
    <3> QED
      BY <3>4
  <2>4. G[v] = f[v]
    OBVIOUS
  <2>5. Def(f, v) = Def(G, v)
    <3> HIDE DEF f, G
    <3> QED BY <2>3 DEF Local
  <2> QED
    BY <2>2, <2>4, <2>5
<1>4. G = [v \in S |-> Def(G, v)]
  <2> DEFINE H == [v \in S |-> Def(G, v)]
  <2>1. G = [v \in S |-> G[v]]
    OBVIOUS
  <2> QED
    BY <1>3, <2>1
<1> HIDE DEF G
<1> QED
  BY <1>4
=============================================================================
