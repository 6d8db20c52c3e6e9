-------------------------- MODULE AlgorithmsProofs --------------------------
(***************************************************************************)
(* The pure algorithms on every input: where any request goes, whatever    *)
(* its path and its shards are, and what the comparison of two objects     *)
(* sees and does not mind, however deep their specs are nested.            *)
(***************************************************************************)
EXTENDS Algorithms, SequenceTheorems, FiniteSetTheorems, TLAPS

Paths == Seq(Tokens)

-----------------------------------------------------------------------------
(* Sequences.                                                                *)

\* A part of a sequence, element by element.
LEMMA Part ==
  ASSUME NEW s \in Paths, NEW m \in Nat \ {0}, NEW n \in 0..Len(s), m <= n + 1
  PROVE  /\ SubSeq(s, m, n) \in Paths
         /\ Len(SubSeq(s, m, n)) = n - m + 1
         /\ \A i \in 1..(n - m + 1) : SubSeq(s, m, n)[i] = s[m + i - 1]
<1>1. Len(s) \in Nat /\ m \in Int /\ n \in Int
  BY LenProperties DEF Paths
<1>2. \A i \in m..n : s[i] \in Tokens
  BY <1>1, ElementOfSeq DEF Paths
<1>3. /\ SubSeq(s, m, n) \in Seq(Tokens)
      /\ Len(SubSeq(s, m, n)) = IF m <= n THEN n - m + 1 ELSE 0
      /\ \A i \in 1..(n - m + 1) : SubSeq(s, m, n)[i] = s[m + i - 1]
  BY <1>1, <1>2, SubSeqProperties
<1> QED
  BY <1>1, <1>3 DEF Paths

\* Two joined sequences, element by element.
LEMMA Joined ==
  ASSUME NEW u \in Paths, NEW v \in Paths
  PROVE  /\ Len(u) \in Nat /\ Len(v) \in Nat
         /\ u \o v \in Paths /\ Len(u \o v) = Len(u) + Len(v)
         /\ \A i \in 1..Len(u) : (u \o v)[i] = u[i]
         /\ \A i \in 1..Len(v) : (u \o v)[Len(u) + i] = v[i]
<1>1. Len(u) \in Nat /\ Len(v) \in Nat
  BY LenProperties DEF Paths
<1>2. /\ u \o v \in Seq(Tokens) /\ Len(u \o v) = Len(u) + Len(v)
      /\ \A i \in 1..(Len(u) + Len(v)) :
           (u \o v)[i] = IF i <= Len(u) THEN u[i] ELSE v[i - Len(u)]
  BY ConcatProperties DEF Paths
<1>3. \A i \in 1..Len(u) : (u \o v)[i] = u[i]
  BY <1>1, <1>2
<1>4. ASSUME NEW i \in 1..Len(v)
      PROVE  (u \o v)[Len(u) + i] = v[i]
  <2> DEFINE j == Len(u) + i
  <2>1. j \in 1..(Len(u) + Len(v)) /\ ~(j <= Len(u)) /\ j - Len(u) = i
    BY <1>1
  <2> HIDE DEF j
  <2>2. (u \o v)[j] = v[j - Len(u)]
    BY <1>2, <2>1
  <2> QED
    BY <2>1, <2>2 DEF j
<1> QED
  BY <1>1, <1>2, <1>3, <1>4 DEF Paths

\* Sequences with the same elements are the same.
LEMMA SamePath ==
  ASSUME NEW u \in Paths, NEW v \in Paths, Len(u) = Len(v),
         \A i \in 1..Len(u) : u[i] = v[i]
  PROVE  u = v
BY SeqEqual DEF Paths

\* A prefix, element by element.
LEMMA PrefixElements ==
  ASSUME NEW u \in Paths, NEW v \in Paths
  PROVE  IsPrefix(u, v) <=>
           Len(u) <= Len(v) /\ \A i \in 1..Len(u) : u[i] = v[i]
<1> DEFINE V == SubSeq(v, 1, Len(u))
<1>1. Len(u) \in Nat /\ Len(v) \in Nat
  BY LenProperties DEF Paths
<1>2. SubSeq(u, 1, Len(u)) = u
  BY SubSeqFull DEF Paths
<1>3. ASSUME Len(u) <= Len(v)
      PROVE  /\ V \in Paths /\ Len(V) = Len(u)
             /\ \A i \in 1..Len(u) : V[i] = v[i]
  <2>1. /\ V \in Paths /\ Len(V) = Len(u) - 1 + 1
        /\ \A i \in 1..(Len(u) - 1 + 1) : V[i] = v[1 + i - 1]
    BY <1>1, <1>3, Part
  <2> HIDE DEF V
  <2> QED
    BY <1>1, <2>1
<1>4. IsPrefix(u, v) <=> Len(u) <= Len(v) /\ u = V
  BY <1>2 DEF IsPrefix
<1> HIDE DEF V
<1>5. ASSUME Len(u) <= Len(v), \A i \in 1..Len(u) : u[i] = v[i]
      PROVE  u = V
  BY <1>3, <1>5, SamePath
<1> QED
  BY <1>3, <1>4, <1>5

\* The parts of two joined sequences.
LEMMA Halves ==
  ASSUME NEW u \in Paths, NEW v \in Paths
  PROVE  /\ SubSeq(u \o v, 1, Len(u)) = u
         /\ SubSeq(u \o v, Len(u) + 1, Len(u \o v)) = v
<1> DEFINE t == u \o v
           H == SubSeq(t, 1, Len(u))
           K == SubSeq(t, Len(u) + 1, Len(t))
<1>1. /\ Len(u) \in Nat /\ Len(v) \in Nat
      /\ t \in Paths /\ Len(t) = Len(u) + Len(v)
      /\ \A i \in 1..Len(u) : t[i] = u[i]
      /\ \A i \in 1..Len(v) : t[Len(u) + i] = v[i]
  BY Joined
<1> HIDE DEF t
<1>2. /\ H \in Paths /\ Len(H) = Len(u) - 1 + 1
      /\ \A i \in 1..(Len(u) - 1 + 1) : H[i] = t[1 + i - 1]
  BY <1>1, Part
<1>3. /\ K \in Paths /\ Len(K) = Len(t) - (Len(u) + 1) + 1
      /\ \A i \in 1..(Len(t) - (Len(u) + 1) + 1) : K[i] = t[Len(u) + 1 + i - 1]
  BY <1>1, Part
<1> HIDE DEF H, K
<1>4. Len(H) = Len(u) /\ \A i \in 1..Len(H) : H[i] = u[i]
  BY <1>1, <1>2
<1>5. Len(K) = Len(v)
  BY <1>1, <1>3
<1>6. ASSUME NEW i \in 1..Len(K)
      PROVE  K[i] = v[i]
  <2>1. Len(u) + 1 + i - 1 = Len(u) + i
    BY <1>1
  <2>2. K[i] = t[Len(u) + i]
    BY <1>1, <1>3, <1>5, <2>1
  <2> QED
    BY <1>1, <1>5, <2>2
<1>7. H = u /\ K = v
  BY <1>2, <1>3, <1>4, <1>5, <1>6, SamePath
<1> QED
  BY <1>7 DEF H, K, t

\* What stands at the beginning is replaced there.
LEMMA ReplaceHead ==
  ASSUME NEW r \in Paths, NEW p \in Paths, NEW q \in Paths
  PROVE  ReplaceFirstSubSeq(r, p, p \o q) = r \o q
<1> DEFINE t == p \o q
           L == Len(p)
           EndsAt(i) == p \in SubSeqs(SubSeq(t, 1, i))
<1>1. /\ L \in Nat /\ t \in Paths /\ Len(t) \in Nat /\ L <= Len(t)
      /\ SubSeq(t, 1, L) = p /\ SubSeq(t, 1 + L, Len(t)) = q
  <2>1. Len(p) \in Nat /\ Len(q) \in Nat /\ Len(t) = Len(p) + Len(q) /\ t \in Paths
    BY Joined
  <2>2. SubSeq(t, 1, L) = p /\ SubSeq(t, L + 1, Len(t)) = q
    BY Halves
  <2>3. 1 + L = L + 1
    BY <2>1
  <2> QED
    BY <2>1, <2>2, <2>3
<1>2. p \in SubSeqs(p)
  <2>1. SubSeq(p, 0 + 1, Len(p)) = p
    BY SubSeqFull DEF Paths
  <2>2. 0 \in 0..Len(p) /\ Len(p) \in 0..Len(p)
    BY <1>1
  <2> QED
    BY <2>1, <2>2 DEF SubSeqs
<1> HIDE DEF t
<1>3. p \in SubSeqs(t)
  <2>1. SubSeq(t, 0 + 1, L) = p /\ 0 \in 0..Len(t) /\ L \in 0..Len(t)
    BY <1>1
  <2> QED
    BY <2>1 DEF SubSeqs
<1>4. EndsAt(L)
  BY <1>1, <1>2
<1>5. ASSUME NEW i \in 0..Len(t), EndsAt(i)
      PROVE  L <= i
  <2> DEFINE h == SubSeq(t, 1, i)
  <2>1. h \in Paths /\ Len(h) = i
    <3>1. h \in Paths /\ Len(h) = i - 1 + 1
      BY <1>1, Part
    <3> QED
      BY <3>1
  <2>0. p \in SubSeqs(h)
    BY <1>5
  <2> HIDE DEF h
  <2>2. PICK a \in 0..Len(h), b \in 0..Len(h) : p = SubSeq(h, a + 1, b)
    BY <2>0 DEF SubSeqs
  <2>3. CASE a <= b
    <3>1. a + 1 \in Nat \ {0} /\ a + 1 <= b + 1
      BY <2>1, <2>3
    <3>2. Len(p) = b - (a + 1) + 1
      BY <2>1, <2>2, <3>1, Part
    <3> QED
      BY <2>1, <2>2, <3>2
  <2>4. CASE b < a
    <3>1. p = << >>
      BY <2>1, <2>2, <2>4, SubSeqEmpty
    <3>2. Len(p) = 0
      BY <3>1, EmptySeq
    <3> QED
      BY <3>2
  <2> QED
    BY <2>1, <2>2, <2>3, <2>4
<1> HIDE DEF EndsAt, L
<1> DEFINE Last1(i) == EndsAt(i) /\ \A j \in 0..(i - 1) : ~EndsAt(j)
<1>6. (CHOOSE i \in 0..Len(t) : Last1(i)) = L
  <2>1. L \in 0..Len(t) /\ Last1(L)
    BY <1>1, <1>4, <1>5
  <2>2. ASSUME NEW i \in 0..Len(t), Last1(i)
        PROVE  i = L
    <3>1. L <= i
      BY <1>5, <2>2
    <3>2. ~(L <= i - 1)
      BY <1>1, <1>4, <2>2
    <3> QED
      BY <1>1, <3>1, <3>2
  <2> QED
    BY <2>1, <2>2
<1>7. IndexFirstSubSeq(p, t) = L - (L - 1)
  BY <1>6 DEF IndexFirstSubSeq, EndsAt, L
<1>8. IndexFirstSubSeq(p, t) = 1
  BY <1>1, <1>7
<1>9. ReplaceFirstSubSeq(r, p, t) = SubSeq(t, 1, 1 - 1) \o r \o SubSeq(t, 1 + L, Len(t))
  BY <1>3, <1>8 DEF ReplaceFirstSubSeq, ReplaceSubSeqAt, L
<1>10. SubSeq(t, 1, 1 - 1) = << >>
  BY SubSeqEmpty
<1>11. << >> \o r = r
  BY ConcatEmptySeq DEF Paths
<1> QED
  BY <1>1, <1>9, <1>10, <1>11 DEF t, L

-----------------------------------------------------------------------------
(* Paths with a shard.                                                       *)

\* A path in front of which a shard was put, element by element.
LEMMA PathElements ==
  ASSUME NEW s \in Paths
  PROVE  /\ Path(s) \in Paths /\ Len(s) \in Nat /\ Len(Path(s)) = 3 + Len(s)
         /\ Path(s)[1] = "/" /\ Path(s)[2] = "shards" /\ Path(s)[3] = "/"
         /\ \A i \in 1..Len(s) : Path(s)[3 + i] = s[i]
<1> DEFINE h == <<"/", "shards", "/">>
<1>0. "/" \in Tokens /\ "shards" \in Tokens
  BY TokensAssumption
<1>1. /\ h \in Paths /\ Len(h) = 3
      /\ h[1] = "/" /\ h[2] = "shards" /\ h[3] = "/"
  BY <1>0 DEF Paths
<1> HIDE DEF h
<1>2. Path(s) = h \o s
  BY DEF Path, h
<1>3. /\ Len(s) \in Nat /\ h \o s \in Paths /\ Len(h \o s) = Len(h) + Len(s)
      /\ \A i \in 1..Len(h) : (h \o s)[i] = h[i]
      /\ \A i \in 1..Len(s) : (h \o s)[Len(h) + i] = s[i]
  BY <1>1, Joined
<1> QED
  BY <1>1, <1>2, <1>3

\* A path names the shard n and goes on with rest.
Names(n, rest) == IsName(n) /\ rest \in Paths /\ (Empty(rest) \/ Head(rest) = "/")

\* Such a path, element by element.
LEMMA NamedElements ==
  ASSUME NEW n, NEW rest, Names(n, rest)
  PROVE  LET t == Path(n) \o rest IN
         /\ n \in Paths /\ rest \in Paths /\ t \in Paths
         /\ Len(n) \in Nat \ {0} /\ Len(rest) \in Nat
         /\ Len(t) = 3 + Len(n) + Len(rest)
         /\ t[1] = "/" /\ t[2] = "shards" /\ t[3] = "/"
         /\ \A i \in 4..(3 + Len(n)) : t[i] = n[i - 3] /\ t[i] # "/"
         /\ \A i \in 1..Len(rest) : t[3 + Len(n) + i] = rest[i]
         /\ Len(rest) > 0 => rest[1] = "/"
         /\ Len(rest) = 0 <=> rest = << >>
<1> DEFINE t == Path(n) \o rest
<1>1. /\ n \in Paths /\ rest \in Paths /\ Len(n) \in Nat \ {0} /\ Len(rest) \in Nat
      /\ Len(rest) = 0 <=> rest = << >>
      /\ \A i \in 1..Len(n) : n[i] # "/"
  BY EmptySeq, LenProperties DEF Names, IsName, Paths
<1>2. /\ Path(n) \in Paths /\ Len(Path(n)) = 3 + Len(n)
      /\ Path(n)[1] = "/" /\ Path(n)[2] = "shards" /\ Path(n)[3] = "/"
      /\ \A i \in 1..Len(n) : Path(n)[3 + i] = n[i]
  BY <1>1, PathElements
<1>3. /\ t \in Paths /\ Len(t) = Len(Path(n)) + Len(rest)
      /\ \A i \in 1..Len(Path(n)) : t[i] = Path(n)[i]
      /\ \A i \in 1..Len(rest) : t[Len(Path(n)) + i] = rest[i]
  BY <1>1, <1>2, Joined
<1> HIDE DEF t
<1>4. t[1] = "/" /\ t[2] = "shards" /\ t[3] = "/"
  BY <1>1, <1>2, <1>3
<1>5. ASSUME NEW i \in 4..(3 + Len(n))
      PROVE  t[i] = n[i - 3] /\ t[i] # "/"
  <2> DEFINE j == i - 3
  <2>1. j \in 1..Len(n) /\ i = 3 + j /\ i \in 1..Len(Path(n))
    BY <1>1, <1>2
  <2> HIDE DEF j
  <2>2. t[i] = n[j] /\ n[j] # "/"
    BY <1>1, <1>2, <1>3, <2>1
  <2> QED
    BY <2>2 DEF j
<1>6. Len(rest) > 0 => rest[1] = "/"
  BY <1>1 DEF Names, Empty
<1> QED
  BY <1>1, <1>2, <1>3, <1>4, <1>5, <1>6 DEF t

\* The pattern finds the shard's name, if something follows the slash after it,

\* and nothing otherwise; what follows may have matches of its own.
LEMMA NamedMatches ==
  ASSUME NEW n, NEW rest, Names(n, rest)
  PROVE  LET M == Matches(Path(n) \o rest) IN
         /\ M # {} <=> Len(rest) >= 2
         /\ M # {} => <<4, 3 + Len(n)>> \in M
         /\ \A m \in M : m[1] >= 4 /\ (m[1] = 4 => m[2] = 3 + Len(n))
<1> DEFINE t == Path(n) \o rest
           M == Matches(t)
<1>1. /\ Len(n) \in Nat \ {0} /\ Len(rest) \in Nat
      /\ Len(t) = 3 + Len(n) + Len(rest)
      /\ t[1] = "/" /\ t[2] = "shards" /\ t[3] = "/"
      /\ \A i \in 4..(3 + Len(n)) : t[i] # "/"
      /\ \A i \in 1..Len(rest) : t[3 + Len(n) + i] = rest[i]
      /\ Len(rest) > 0 => rest[1] = "/"
  BY NamedElements
<1> HIDE DEF t
<1>2. ASSUME Len(rest) >= 2
      PROVE  <<4, 3 + Len(n)>> \in M
  <2>1. t[3 + Len(n) + 1] = "/"
    BY <1>1, <1>2
  <2>2. <<4, 3 + Len(n)>> \in (1..Len(t)) \X (1..Len(t))
    BY <1>1, <1>2
  <2>3. 4 - 2 = 2 /\ 4 - 1 = 3 /\ 3 + Len(n) + 1 < Len(t) /\ 4 <= 3 + Len(n)
    BY <1>1, <1>2
  <2> QED
    BY <1>1, <2>1, <2>2, <2>3 DEF Matches
<1>3. ASSUME NEW m \in M
      PROVE  /\ m[1] \in Nat /\ m[2] \in Nat /\ m[1] >= 4
             /\ m[1] <= m[2] /\ m[2] + 1 < Len(t)
             /\ \A i \in m[1]..m[2] : t[i] # "/"
             /\ t[m[2] + 1] = "/"
  <2>1. /\ m[1] \in 1..Len(t) /\ m[2] \in 1..Len(t)
        /\ m[1] > 2 /\ m[1] <= m[2] /\ m[2] + 1 < Len(t)
        /\ t[m[1] - 2] = "shards"
        /\ \A i \in m[1]..m[2] : t[i] # "/"
        /\ t[m[2] + 1] = "/"
    BY DEF Matches
  <2>2. m[1] # 3
    <3>1. ASSUME m[1] = 3
          PROVE  t[1] = "shards"
      <4>1. m[1] - 2 = 1
        BY <3>1
      <4> QED
        BY <2>1, <4>1
    <3> QED
      BY <1>1, <3>1
  <2> QED
    BY <1>1, <2>1, <2>2
<1> HIDE DEF M
<1>4. ASSUME NEW m \in M
      PROVE  Len(rest) >= 2
  <2>1. ~(m[2] + 1 \in 4..(3 + Len(n)))
    BY <1>1, <1>3
  <2> QED
    BY <1>1, <1>3, <2>1
<1>5. ASSUME NEW m \in M, m[1] = 4
      PROVE  m[2] = 3 + Len(n)
  <2>1. ~(m[2] + 1 \in 4..(3 + Len(n)))
    BY <1>1, <1>3
  <2>2. t[3 + Len(n) + 1] = "/"
    BY <1>1, <1>4
  <2>3. ~(3 + Len(n) + 1 \in m[1]..m[2])
    BY <1>3, <2>2
  <2> QED
    BY <1>1, <1>3, <1>5, <2>1, <2>3
<1>6. /\ M # {} <=> Len(rest) >= 2
      /\ M # {} => <<4, 3 + Len(n)>> \in M
      /\ \A m \in M : m[1] >= 4 /\ (m[1] = 4 => m[2] = 3 + Len(n))
  BY <1>2, <1>3, <1>4, <1>5
<1> QED
  BY <1>6 DEF M, t

\* So the segment that is replaced is the shard's name.
LEMMA NamedSegment ==
  ASSUME NEW n, NEW rest, Names(n, rest), Len(rest) >= 2
  PROVE  shardSegment(Path(n) \o rest) = n
<1> DEFINE t == Path(n) \o rest
           M == Matches(t)
           c == CHOOSE m \in M : \A k \in M : m[1] <= k[1]
<1>1. /\ <<4, 3 + Len(n)>> \in M
      /\ \A m \in M : m[1] >= 4 /\ (m[1] = 4 => m[2] = 3 + Len(n))
  BY NamedMatches
<1>2. /\ n \in Paths /\ t \in Paths /\ Len(n) \in Nat \ {0} /\ Len(rest) \in Nat
      /\ Len(t) = 3 + Len(n) + Len(rest)
      /\ \A i \in 4..(3 + Len(n)) : t[i] = n[i - 3]
  BY NamedElements
<1>0. shardSegment(t) = SubSeq(t, c[1], c[2])
  BY DEF shardSegment
<1>3. \A m \in M : m[1] \in Nat
  BY DEF Matches
<1> HIDE DEF t, M
<1>4. c \in M /\ \A k \in M : c[1] <= k[1]
  <2>1. \A k \in M : <<4, 3 + Len(n)>>[1] <= k[1]
    BY <1>1, <1>3
  <2> QED
    BY <1>1, <2>1
<1> HIDE DEF c
<1>5. c[1] = 4 /\ c[2] = 3 + Len(n)
  <2>1. c[1] <= 4
    BY <1>1, <1>4
  <2> QED
    BY <1>1, <1>3, <1>4, <2>1
<1> DEFINE h == SubSeq(t, 4, 3 + Len(n))
<1>6. /\ h \in Paths /\ Len(h) = 3 + Len(n) - 4 + 1
      /\ \A i \in 1..(3 + Len(n) - 4 + 1) : h[i] = t[4 + i - 1]
  BY <1>2, Part
<1> HIDE DEF h
<1>7. ASSUME NEW i \in 1..Len(h)
      PROVE  h[i] = n[i]
  <2> DEFINE j == 4 + i - 1
  <2>1. i \in 1..(3 + Len(n) - 4 + 1) /\ j \in 4..(3 + Len(n)) /\ j - 3 = i
    BY <1>2, <1>6
  <2>2. h[i] = t[j]
    BY <1>6, <2>1
  <2> HIDE DEF j
  <2> QED
    BY <1>2, <2>1, <2>2
<1>8. h = n
  <2>1. Len(h) = Len(n)
    BY <1>2, <1>6
  <2> QED
    BY <1>2, <1>6, <1>7, <2>1, SamePath
<1> QED
  BY <1>0, <1>5, <1>8 DEF h, t

-----------------------------------------------------------------------------
(* Where requests go.                                                        *)

\* shardInPath takes a shard for the one it is asked for if its name begins so.
LEMMA TakenForIt ==
  ASSUME NEW s, IsName(s), NEW n, NEW rest, Names(n, rest)
  PROVE  IsPrefix(Path(s), Path(n) \o rest) <=> IsPrefix(s, n)
<1> DEFINE t == Path(n) \o rest
           p == Path(s)
<1>1. /\ n \in Paths /\ t \in Paths
      /\ Len(n) \in Nat \ {0} /\ Len(rest) \in Nat
      /\ Len(t) = 3 + Len(n) + Len(rest)
      /\ t[1] = "/" /\ t[2] = "shards" /\ t[3] = "/"
      /\ \A i \in 4..(3 + Len(n)) : t[i] = n[i - 3]
      /\ \A i \in 1..Len(rest) : t[3 + Len(n) + i] = rest[i]
      /\ Len(rest) > 0 => rest[1] = "/"
  BY NamedElements
<1>2. s \in Paths /\ \A i \in 1..Len(s) : s[i] # "/"
  BY DEF IsName, Paths
<1>3. /\ p \in Paths /\ Len(s) \in Nat /\ Len(p) = 3 + Len(s)
      /\ p[1] = "/" /\ p[2] = "shards" /\ p[3] = "/"
      /\ \A i \in 1..Len(s) : p[3 + i] = s[i]
  BY <1>2, PathElements
<1> HIDE DEF t, p
<1>4. IsPrefix(p, t) <=> Len(p) <= Len(t) /\ \A i \in 1..Len(p) : p[i] = t[i]
  BY <1>1, <1>3, PrefixElements
<1>5. IsPrefix(s, n) <=> Len(s) <= Len(n) /\ \A i \in 1..Len(s) : s[i] = n[i]
  BY <1>1, <1>2, PrefixElements
<1>6. ASSUME NEW i \in 1..Len(s), i <= Len(n)
      PROVE  p[3 + i] = s[i] /\ t[3 + i] = n[i]
  <2> DEFINE j == 3 + i
  <2>1. j \in 4..(3 + Len(n)) /\ j - 3 = i
    BY <1>1, <1>3, <1>6
  <2> HIDE DEF j
  <2>2. t[j] = n[i]
    BY <1>1, <2>1
  <2> QED
    BY <1>3, <2>2 DEF j
<1>7. ASSUME IsPrefix(p, t)
      PROVE  IsPrefix(s, n)
  <2>1. Len(s) <= Len(n)
    <3> SUFFICES ASSUME Len(n) < Len(s) PROVE FALSE
      BY <1>1, <1>3
    <3> DEFINE k == Len(n) + 1
    <3>1. /\ k \in 1..Len(s) /\ 3 + k \in 1..Len(p)
          /\ 1 \in 1..Len(rest) /\ 3 + k = 3 + Len(n) + 1
      BY <1>1, <1>3, <1>4, <1>7
    <3>2. t[3 + k] = "/"
      BY <1>1, <3>1
    <3> HIDE DEF k
    <3>3. p[3 + k] = s[k] /\ s[k] # "/"
      BY <1>2, <1>3, <3>1
    <3> QED
      BY <1>4, <1>7, <3>1, <3>2, <3>3
  <2>2. ASSUME NEW i \in 1..Len(s)
        PROVE  s[i] = n[i]
    <3>1. i <= Len(n) /\ 3 + i \in 1..Len(p)
      BY <1>1, <1>3, <2>1
    <3> QED
      BY <1>4, <1>6, <1>7, <3>1
  <2> QED
    BY <1>5, <2>1, <2>2
<1>8. ASSUME IsPrefix(s, n)
      PROVE  IsPrefix(p, t)
  <2>1. Len(p) <= Len(t)
    BY <1>1, <1>3, <1>5, <1>8
  <2>2. ASSUME NEW i \in 1..Len(p)
        PROVE  p[i] = t[i]
    <3>1. CASE i \in 1..3
      BY <1>1, <1>3, <3>1
    <3>2. CASE i > 3
      <4> DEFINE j == i - 3
      <4>1. j \in 1..Len(s) /\ j <= Len(n) /\ i = 3 + j
        BY <1>1, <1>3, <1>5, <1>8, <3>2
      <4> HIDE DEF j
      <4> QED
        BY <1>5, <1>6, <1>8, <4>1
    <3> QED
      BY <1>3, <3>1, <3>2
  <2> QED
    BY <1>4, <2>1, <2>2
<1> QED
  BY <1>7, <1>8 DEF t, p

\* A path that names a shard gets the one that is asked for instead, with the

\* exception that RoutedToShard makes.
LEMMA NamedIsRouted ==
  ASSUME NEW s, IsName(s), NEW n, NEW rest, Names(n, rest)
  PROVE  shardInPath(Path(n) \o rest, s) =
           Path(IF IsStrictPrefix(s, n) THEN n ELSE s) \o rest
<1> DEFINE t == Path(n) \o rest
<1>1. /\ n \in Paths /\ rest \in Paths /\ t \in Paths
      /\ Len(n) \in Nat \ {0} /\ Len(rest) \in Nat
      /\ Len(t) = 3 + Len(n) + Len(rest)
      /\ t[1] = "/" /\ t[2] = "shards"
      /\ \A i \in 4..(3 + Len(n)) : t[i] # "/"
      /\ \A i \in 1..Len(rest) : t[3 + Len(n) + i] = rest[i]
      /\ Len(rest) > 0 => rest[1] = "/"
      /\ Len(rest) = 0 <=> rest = << >>
  BY NamedElements
<1>2. s \in Paths
  BY DEF IsName, Paths
<1>3. Path(s) \in Paths /\ Path(n) \in Paths
  BY <1>1, <1>2, PathElements
<1>4. CASE IsPrefix(s, n)
  <2>1. shardInPath(t, s) = t
    BY <1>4, TakenForIt DEF shardInPath
  <2>2. n = IF IsStrictPrefix(s, n) THEN n ELSE s
    BY <1>4 DEF IsStrictPrefix
  <2> QED
    BY <2>1, <2>2
<1>5. CASE ~IsPrefix(s, n)
  <2>1. ~IsPrefix(Path(s), t) /\ ~IsStrictPrefix(s, n)
    BY <1>5, TakenForIt DEF IsStrictPrefix
  <2>2. IsPrefix(<<"/", "shards">>, t)
    <3> DEFINE h == <<"/", "shards">>
    <3>1. h \in Paths /\ Len(h) = 2 /\ h[1] = "/" /\ h[2] = "shards"
      BY TokensAssumption DEF Paths
    <3> HIDE DEF h, t
    <3>2. Len(h) <= Len(t) /\ \A i \in 1..Len(h) : h[i] = t[i]
      BY <1>1, <3>1
    <3>3. IsPrefix(h, t)
      BY <1>1, <3>1, <3>2, PrefixElements
    <3> QED
      BY <3>3 DEF h
  <2>3. Matches(t) # {} <=> Len(rest) >= 2
    BY NamedMatches
  <2>4. CASE Len(rest) >= 2
    <3>1. shardSegment(t) = n
      BY <2>4, NamedSegment
    <3>2. shardInPath(t, s) = ReplaceFirstSubSeq(Path(s), Path(n), t)
      BY <2>1, <2>2, <2>3, <2>4, <3>1 DEF shardInPath
    <3>3. ReplaceFirstSubSeq(Path(s), Path(n), t) = Path(s) \o rest
      BY <1>1, <1>3, ReplaceHead
    <3> QED
      BY <2>1, <3>2, <3>3
  <2>5. CASE ~(Len(rest) >= 2)
    <3>1. shardInPath(t, s) = Path(s) \o (IF Last(t) = "/" THEN Slash ELSE << >>)
      BY <2>1, <2>2, <2>3, <2>5 DEF shardInPath
    <3>2. CASE Len(rest) = 0
      <4>1. Last(t) # "/" /\ rest = << >>
        <5> HIDE DEF t
        <5>1. Len(t) \in 4..(3 + Len(n))
          BY <1>1, <3>2
        <5> QED
          BY <1>1, <3>2, <5>1 DEF Last
      <4> QED
        BY <2>1, <3>1, <4>1
    <3>3. CASE Len(rest) = 1
      <4>1. Last(t) = "/"
        <5> HIDE DEF t
        <5>1. Len(t) = 3 + Len(n) + 1
          BY <1>1, <3>3
        <5>2. t[3 + Len(n) + 1] = "/"
          BY <1>1, <3>3
        <5> QED
          BY <5>1, <5>2 DEF Last
      <4>2. rest = Slash
        <5> DEFINE h == <<"/">>
        <5>1. h \in Paths /\ Len(h) = 1 /\ h[1] = "/"
          BY TokensAssumption DEF Paths
        <5> HIDE DEF h
        <5>2. rest = h
          BY <1>1, <3>3, <5>1, SamePath
        <5> QED
          BY <5>2 DEF Slash, h
      <4> QED
        BY <2>1, <3>1, <4>1, <4>2
    <3>4. Len(rest) = 0 \/ Len(rest) = 1
      <4> DEFINE l == Len(rest)
      <4>1. l \in Nat /\ ~(l >= 2)
        BY <1>1, <2>5
      <4> HIDE DEF l
      <4>2. l = 0 \/ l = 1
        BY <4>1
      <4> QED
        BY <4>2 DEF l
    <3> HIDE DEF t
    <3> QED
      BY <3>2, <3>3, <3>4
  <2> QED
    BY <2>4, <2>5
<1> QED
  BY <1>4, <1>5

\* A path without a shard gets the one that is asked for, in front.
LEMMA UnnamedIsRouted ==
  ASSUME NEW s, IsName(s), NEW rest \in Paths, ~IsPrefix(<<"/", "shards">>, rest)
  PROVE  shardInPath(rest, s) =
           Path(s) \o (IF rest # << >> /\ Head(rest) # "/" THEN Slash ELSE << >>) \o rest
<1>1. s \in Paths
  BY DEF IsName, Paths
<1> DEFINE h == <<"/", "shards">>
<1>2. h \in Paths /\ Len(h) = 2 /\ h[1] = "/" /\ h[2] = "shards"
  BY TokensAssumption DEF Paths
<1>3. ~IsPrefix(h, rest)
  OBVIOUS
<1> HIDE DEF h
<1>4. /\ Path(s) \in Paths /\ Len(s) \in Nat /\ Len(Path(s)) = 3 + Len(s)
      /\ Path(s)[1] = "/" /\ Path(s)[2] = "shards"
  BY <1>1, PathElements
<1>5. Len(rest) \in Nat
  BY LenProperties DEF Paths
<1>6. ~IsPrefix(Path(s), rest)
  <2> SUFFICES ASSUME IsPrefix(Path(s), rest) PROVE FALSE
    OBVIOUS
  <2>1. /\ Len(Path(s)) <= Len(rest)
        /\ \A i \in 1..Len(Path(s)) : Path(s)[i] = rest[i]
    BY <1>4, PrefixElements
  <2>2. Len(h) <= Len(rest) /\ \A i \in 1..Len(h) : h[i] = rest[i]
    BY <1>2, <1>4, <1>5, <2>1
  <2> QED
    BY <1>2, <1>3, <2>2, PrefixElements
<1> QED
  BY <1>6 DEF shardInPath

\* Whatever a request's path is and whatever shards it and its context name, it
\* goes where RoutedToShard says (round_tripper.go:57, and the chain of
\* builder.go): names that begin one another, resources that are called shards
\* and names of several tokens included.
THEOREM EveryRequestIsRouted ==
  ASSUME IsRequest(input)
  PROVE  RoutedToShard
<1> DEFINE s     == IF Empty(input.ctx) THEN Wildcard ELSE input.ctx
           rest  == input.rest
           named == input.named
           taken == IF IsStrictPrefix(s, named) THEN named ELSE s
           gap   == IF rest # << >> /\ Head(rest) # "/" THEN <<"/">> ELSE << >>
<1>1. IsName(s)
  <2>1. IsName(Wildcard)
    <3> DEFINE w == <<"*">>
    <3>1. w \in Seq(Tokens) /\ w # << >> /\ Len(w) = 1 /\ w[1] = "*" /\ "*" # "/"
      BY TokensAssumption
    <3> HIDE DEF w
    <3>2. IsName(w)
      BY <3>1 DEF IsName
    <3> QED
      BY <3>2 DEF Wildcard, w
  <2> QED
    BY <2>1 DEF IsRequest
<1>2. Sent(Before(input), input.ctx) = shardInPath(Before(input), s)
  <2>1. s # << >>
    BY <1>1 DEF IsName
  <2> QED
    BY <2>1 DEF Sent, shardRoundTripper, withDefaultShard, Empty
<1>3. rest \in Paths
  BY DEF IsRequest, Paths
<1>4. shardInPath(Before(input), s) = Path(taken) \o gap \o rest
  <2> HIDE DEF s
  <2>1. CASE Empty(named) /\ ~IsPrefix(<<"/", "shards">>, rest)
    <3>1. Before(input) = rest
      BY <2>1 DEF Before
    <3>2. taken = s
      <4>1. s \in Paths /\ << >> \in Paths /\ Len(s) \in Nat \ {0} /\ Len(<< >>) = 0
        BY <1>1, EmptySeq DEF IsName, Paths
      <4>2. ~IsPrefix(s, << >>)
        BY <4>1, PrefixElements
      <4> QED
        BY <2>1, <4>2 DEF IsStrictPrefix, Empty
    <3> HIDE DEF taken
    <3>3. shardInPath(rest, s) = Path(s) \o gap \o rest
      BY <1>1, <1>3, <2>1, UnnamedIsRouted DEF Slash
    <3> QED
      BY <3>1, <3>2, <3>3
  <2>2. CASE IsName(named) /\ (Empty(rest) \/ Head(rest) = "/")
    <3>1. Names(named, rest)
      BY <1>3, <2>2 DEF Names
    <3>2. Before(input) = Path(named) \o rest
      BY <2>2 DEF Before, IsName, Empty
    <3>3. shardInPath(Path(named) \o rest, s) = Path(taken) \o rest
      BY <1>1, <3>1, NamedIsRouted
    <3>4. gap = << >>
      BY <2>2 DEF Empty
    <3>5. Path(taken) \in Paths
      BY <1>1, <2>2, PathElements DEF IsName, Paths
    <3> HIDE DEF taken, gap
    <3>6. Path(taken) \o gap = Path(taken)
      BY <3>4, <3>5, ConcatEmptySeq DEF Paths
    <3> QED
      BY <3>2, <3>3, <3>6
  <2> QED
    BY <2>1, <2>2 DEF IsRequest
<1> QED
  BY <1>2, <1>4 DEF RoutedToShard

-----------------------------------------------------------------------------
(* Labels.                                                                   *)

\* Of two label sets that match, the keys are the same unless the source has an
\* empty label that the peer lacks: the peer has all others, and not more labels.
THEOREM LabelChangesAreSeen ==
  ASSUME NEW a, NEW b, IsFiniteSet(DOMAIN a), IsFiniteSet(DOMAIN b),
         a = [k \in DOMAIN a |-> a[k]], b = [k \in DOMAIN b |-> b[k]],
         labelsMatch(a, b)
  PROVE  a = b \/ EmptyLabelMissing(a, b)
<1> SUFFICES ASSUME ~EmptyLabelMissing(a, b) PROVE a = b
  OBVIOUS
<1>1. DOMAIN a \subseteq DOMAIN b
  BY DEF labelsMatch, Label, EmptyLabelMissing
<1>2. DOMAIN a = DOMAIN b
  BY <1>1, FS_Subset DEF labelsMatch
<1>3. \A k \in DOMAIN a : a[k] = b[k]
  BY <1>2 DEF labelsMatch, Label
<1> QED
  BY <1>2, <1>3

-----------------------------------------------------------------------------
(* Specs.  What is recursive satisfies its own equation, as the values in a  *)
(* value are nested less deep.                                               *)

Pairs == Values \X Values
MapPairs == Maps \X Maps
DepthOf(P) == [p \in P |-> Depth[p[1]]]

T == INSTANCE Recursion WITH S <- Values, Rank <- Depth, Def <- TextOf
E == INSTANCE Recursion WITH S <- MapPairs, Rank <- DepthOf(MapPairs), Def <- EqualOf
A == INSTANCE Recursion WITH S <- Pairs, Rank <- DepthOf(Pairs), Def <- AlikeOf

\* What is in a map is a value that is nested less deep.
LEMMA Nested ==
  ASSUME NEW v \in Values, IsMap(v), NEW k \in DOMAIN v.of
  PROVE  /\ v.of[k] \in Values
         /\ Depth[v] \in Nat /\ Depth[v.of[k]] \in Nat
         /\ Depth[v.of[k]] < Depth[v]
         /\ IsMap(v.of[k]) => v.of[k] \in Maps
BY ValuesAssumption DEF Maps

\* Two pairs of values, and the depth of a pair.
LEMMA PairDepth ==
  ASSUME NEW v \in Values, NEW w \in Values
  PROVE  /\ <<v, w>> \in Pairs /\ DepthOf(Pairs)[<<v, w>>] = Depth[v]
         /\ v \in Maps /\ w \in Maps =>
              <<v, w>> \in MapPairs /\ DepthOf(MapPairs)[<<v, w>>] = Depth[v]
BY DEF Pairs, MapPairs, DepthOf

\* The text of a value is what it is said to be.
LEMMA TextEquation == \A v \in Values : Text[v] = TextOf(Text, v)
<1>1. T!WellRanked
  BY ValuesAssumption DEF T!WellRanked
<1>2. T!Local
  <2> SUFFICES ASSUME NEW v \in Values, NEW f, NEW g,
                      \A c \in Values : Depth[c] < Depth[v] => f[c] = g[c]
               PROVE  TextOf(f, v) = TextOf(g, v)
    BY DEF T!Local
  <2>1. CASE ~IsMap(v)
    BY <2>1 DEF TextOf
  <2>2. CASE IsMap(v)
    <3>1. \A k \in DOMAIN v.of : f[v.of[k]] = g[v.of[k]]
      BY <2>2, Nested
    <3>2. [k \in DOMAIN v.of |-> f[v.of[k]]] = [k \in DOMAIN v.of |-> g[v.of[k]]]
      BY <3>1
    <3> QED
      BY <2>2, <3>2 DEF TextOf
  <2> QED
    BY <2>1, <2>2
<1>3. Text = CHOOSE f : f = [v \in Values |-> TextOf(f, v)]
  BY DEF Text
<1>4. Text = [v \in Values |-> TextOf(Text, v)]
  BY <1>1, <1>2, <1>3, T!Equation
<1> QED
  BY <1>4

\* mapsEqual of two maps is what it is said to be.
LEMMA EqualEquation ==
  ASSUME NEW v \in Maps, NEW w \in Maps
  PROVE  mapsEqual[<<v, w>>] <=>
           /\ DOMAIN v.of = DOMAIN w.of
           /\ \A k \in DOMAIN v.of :
                IF IsMap(v.of[k])
                  THEN IsMap(w.of[k]) /\ mapsEqual[<<v.of[k], w.of[k]>>]
                  ELSE Text[v.of[k]] = Text[w.of[k]]
<1>1. E!WellRanked
  BY ValuesAssumption DEF E!WellRanked, DepthOf, MapPairs, Maps
<1>2. E!Local
  <2> SUFFICES ASSUME NEW p \in MapPairs, NEW f, NEW g,
                      \A c \in MapPairs :
                        DepthOf(MapPairs)[c] < DepthOf(MapPairs)[p] => f[c] = g[c]
               PROVE  EqualOf(f, p) = EqualOf(g, p)
    BY DEF E!Local
  <2> DEFINE a == p[1]  b == p[2]
  <2>1. a \in Maps /\ b \in Maps /\ p = <<a, b>>
    BY DEF MapPairs
  <2>2. a \in Values /\ b \in Values /\ IsMap(a) /\ IsMap(b)
    BY <2>1 DEF Maps
  <2>3. DepthOf(MapPairs)[p] = Depth[a]
    BY <2>1, <2>2, PairDepth
  <2>4. ASSUME DOMAIN a.of = DOMAIN b.of, NEW k \in DOMAIN a.of,
               IsMap(a.of[k]), IsMap(b.of[k])
        PROVE  f[<<a.of[k], b.of[k]>>] = g[<<a.of[k], b.of[k]>>]
    <3>1. /\ a.of[k] \in Maps /\ a.of[k] \in Values /\ Depth[a.of[k]] < Depth[a]
          /\ b.of[k] \in Maps /\ b.of[k] \in Values
      BY <2>2, <2>4, Nested
    <3>2. /\ <<a.of[k], b.of[k]>> \in MapPairs
          /\ DepthOf(MapPairs)[<<a.of[k], b.of[k]>>] = Depth[a.of[k]]
      BY <3>1, PairDepth
    <3> QED
      BY <2>3, <3>1, <3>2
  <2> QED
    BY <2>4 DEF EqualOf
<1>3. mapsEqual = CHOOSE f : f = [p \in MapPairs |-> EqualOf(f, p)]
  BY DEF mapsEqual, MapPairs
<1>4. mapsEqual = [p \in MapPairs |-> EqualOf(mapsEqual, p)]
  BY <1>1, <1>2, <1>3, E!Equation
<1>5. <<v, w>> \in MapPairs
  BY DEF MapPairs
<1>6. mapsEqual[<<v, w>>] = EqualOf(mapsEqual, <<v, w>>)
  BY <1>4, <1>5
<1> HIDE DEF mapsEqual
<1> QED
  BY <1>6 DEF EqualOf

\* Alike of two values is what it is said to be.
LEMMA AlikeEquation ==
  ASSUME NEW v \in Values, NEW w \in Values
  PROVE  Alike[<<v, w>>] <=>
           /\ IsMap(v) <=> IsMap(w)
           /\ IF IsMap(v)
                THEN /\ DOMAIN v.of = DOMAIN w.of
                     /\ \A k \in DOMAIN v.of : Alike[<<v.of[k], w.of[k]>>]
                ELSE v.text = w.text
<1>1. A!WellRanked
  BY ValuesAssumption DEF A!WellRanked, DepthOf, Pairs
<1>2. A!Local
  <2> SUFFICES ASSUME NEW p \in Pairs, NEW f, NEW g,
                      \A c \in Pairs :
                        DepthOf(Pairs)[c] < DepthOf(Pairs)[p] => f[c] = g[c]
               PROVE  AlikeOf(f, p) = AlikeOf(g, p)
    BY DEF A!Local
  <2> DEFINE a == p[1]  b == p[2]
  <2>1. a \in Values /\ b \in Values /\ p = <<a, b>>
    BY DEF Pairs
  <2>2. DepthOf(Pairs)[p] = Depth[a]
    BY <2>1, PairDepth
  <2>3. ASSUME IsMap(a), IsMap(b), DOMAIN a.of = DOMAIN b.of, NEW k \in DOMAIN a.of
        PROVE  f[<<a.of[k], b.of[k]>>] = g[<<a.of[k], b.of[k]>>]
    <3>1. /\ a.of[k] \in Values /\ Depth[a.of[k]] < Depth[a]
          /\ b.of[k] \in Values
      BY <2>1, <2>3, Nested
    <3>2. /\ <<a.of[k], b.of[k]>> \in Pairs
          /\ DepthOf(Pairs)[<<a.of[k], b.of[k]>>] = Depth[a.of[k]]
      BY <3>1, PairDepth
    <3> QED
      BY <2>2, <3>1, <3>2
  <2> QED
    BY <2>3 DEF AlikeOf
<1>3. Alike = CHOOSE f : f = [p \in Pairs |-> AlikeOf(f, p)]
  BY DEF Alike, Pairs
<1>4. Alike = [p \in Pairs |-> AlikeOf(Alike, p)]
  BY <1>1, <1>2, <1>3, A!Equation
<1>5. <<v, w>> \in Pairs
  BY DEF Pairs
<1>6. Alike[<<v, w>>] = AlikeOf(Alike, <<v, w>>)
  BY <1>4, <1>5
<1> QED
  BY <1>6 DEF AlikeOf

\* Of the pairs in a set there is one whose first is nested least.
LEMMA Shallowest ==
  ASSUME NEW B \in SUBSET Pairs, B # {}
  PROVE  \E p \in B : \A q \in B : Depth[p[1]] <= Depth[q[1]]
<1>1. A!WellRanked
  BY ValuesAssumption DEF A!WellRanked, DepthOf, Pairs
<1>2. \E p \in B : \A q \in B : DepthOf(Pairs)[p] <= DepthOf(Pairs)[q]
  BY <1>1, A!LeastRanked
<1> QED
  BY <1>2 DEF DepthOf

\* Maps that are equal print the same, however deep they are.
LEMMA EqualMapsPrintAlike ==
  ASSUME NEW v \in Maps, NEW w \in Maps, mapsEqual[<<v, w>>]
  PROVE  Text[v] = Text[w]
<1> DEFINE B == {p \in MapPairs : mapsEqual[p] /\ Text[p[1]] # Text[p[2]]}
<1>1. SUFFICES ASSUME B # {} PROVE FALSE
  BY DEF MapPairs
<1>2. B \subseteq Pairs
  BY DEF MapPairs, Pairs, Maps
<1>3. PICK p \in B : \A q \in B : Depth[p[1]] <= Depth[q[1]]
  BY <1>1, <1>2, Shallowest
<1> DEFINE a == p[1]  b == p[2]
<1>4. /\ a \in Maps /\ b \in Maps /\ a \in Values /\ b \in Values
      /\ IsMap(a) /\ IsMap(b)
      /\ p = <<a, b>> /\ mapsEqual[<<a, b>>] /\ Text[a] # Text[b]
  BY <1>3 DEF MapPairs, Maps
<1>5. /\ DOMAIN a.of = DOMAIN b.of
      /\ \A k \in DOMAIN a.of :
           IF IsMap(a.of[k]) THEN IsMap(b.of[k]) /\ mapsEqual[<<a.of[k], b.of[k]>>]
                             ELSE Text[a.of[k]] = Text[b.of[k]]
  BY <1>4, EqualEquation
<1>6. ASSUME NEW k \in DOMAIN a.of
      PROVE  Text[a.of[k]] = Text[b.of[k]]
  <2>1. CASE ~IsMap(a.of[k])
    BY <1>5, <2>1
  <2>2. CASE IsMap(a.of[k])
    <3> DEFINE x == a.of[k]  y == b.of[k]
    <3>1. x \in Maps /\ y \in Maps /\ mapsEqual[<<x, y>>]
      BY <1>4, <1>5, <2>2, Nested
    <3>2. Depth[x] < Depth[a] /\ Depth[x] \in Nat /\ Depth[a] \in Nat
      BY <1>4, <2>2, Nested
    <3>3. <<x, y>> \in MapPairs /\ <<x, y>>[1] = x /\ <<x, y>>[2] = y
      BY <3>1 DEF MapPairs
    <3> HIDE DEF x, y, a, b
    <3>4. <<x, y>> \notin B
      BY <1>3, <3>2, <3>3 DEF a
    <3>5. Text[x] = Text[y]
      BY <3>1, <3>3, <3>4
    <3> QED
      BY <3>5 DEF x, y
  <2> QED
    BY <2>1, <2>2
<1>7. [k \in DOMAIN a.of |-> Text[a.of[k]]] = [k \in DOMAIN b.of |-> Text[b.of[k]]]
  BY <1>5, <1>6
<1>8. TextOf(Text, a) = TextOf(Text, b)
  BY <1>4, <1>7 DEF TextOf
<1> QED
  BY <1>4, <1>8, TextEquation

\* Maps that differ in the types of their leaves only are equal, however deep.
LEMMA AlikeMapsAreEqual ==
  ASSUME NEW v \in Maps, NEW w \in Maps, Alike[<<v, w>>]
  PROVE  mapsEqual[<<v, w>>]
<1> DEFINE B == {p \in MapPairs : Alike[p] /\ ~mapsEqual[p]}
<1>1. SUFFICES ASSUME B # {} PROVE FALSE
  BY DEF MapPairs
<1>2. B \subseteq Pairs
  BY DEF MapPairs, Pairs, Maps
<1>3. PICK p \in B : \A q \in B : Depth[p[1]] <= Depth[q[1]]
  BY <1>1, <1>2, Shallowest
<1> DEFINE a == p[1]  b == p[2]
<1>4. /\ a \in Maps /\ b \in Maps /\ a \in Values /\ b \in Values
      /\ IsMap(a) /\ IsMap(b)
      /\ p = <<a, b>> /\ Alike[<<a, b>>] /\ ~mapsEqual[<<a, b>>]
  BY <1>3 DEF MapPairs, Maps
<1>5. /\ DOMAIN a.of = DOMAIN b.of
      /\ \A k \in DOMAIN a.of : Alike[<<a.of[k], b.of[k]>>]
  BY <1>4, AlikeEquation
<1>6. ASSUME NEW k \in DOMAIN a.of
      PROVE  IF IsMap(a.of[k])
               THEN IsMap(b.of[k]) /\ mapsEqual[<<a.of[k], b.of[k]>>]
               ELSE Text[a.of[k]] = Text[b.of[k]]
  <2> DEFINE x == a.of[k]  y == b.of[k]
  <2>1. x \in Values /\ y \in Values /\ Alike[<<x, y>>]
    BY <1>4, <1>5, Nested
  <2>2. /\ IsMap(x) <=> IsMap(y)
        /\ ~IsMap(x) => x.text = y.text
    BY <2>1, AlikeEquation
  <2>3. CASE ~IsMap(x)
    <3>1. Text[x] = x.text /\ Text[y] = y.text
      BY <2>1, <2>2, <2>3, TextEquation DEF TextOf
    <3> QED
      BY <2>2, <2>3, <3>1
  <2>4. CASE IsMap(x)
    <3>1. x \in Maps /\ y \in Maps
      BY <2>1, <2>2, <2>4 DEF Maps
    <3>2. Depth[x] < Depth[a] /\ Depth[x] \in Nat /\ Depth[a] \in Nat
      BY <1>4, <2>4, Nested
    <3>3. <<x, y>> \in MapPairs /\ <<x, y>>[1] = x
      BY <3>1 DEF MapPairs
    <3> HIDE DEF x, y, a, b
    <3>4. <<x, y>> \notin B
      BY <1>3, <3>2, <3>3 DEF a
    <3>5. mapsEqual[<<x, y>>] /\ IsMap(y)
      BY <2>1, <2>2, <2>4, <3>3, <3>4
    <3> QED
      BY <2>4, <3>5 DEF x, y
  <2> QED
    BY <2>3, <2>4
<1>7. mapsEqual[<<a, b>>]
  BY <1>4, <1>5, <1>6, EqualEquation
<1> QED
  BY <1>4, <1>7

\* What objectsMatch (controller.go:202) overlooks, for objects of any labels and
\* with specs of any depth: specs that print the same are the same to it, and
\* a label that has the value "" is as good as none.  Nothing else.
THEOREM ChangesAreSeen ==
  ASSUME IsPair(input)
  PROVE  ChangesSeen
<1> SUFFICES ASSUME objectsMatch(input.source, input.peer)
             PROVE  /\ input.source.generation = input.peer.generation
                    /\ Text[input.source.spec] = Text[input.peer.spec]
                    /\ \/ input.source.labels = input.peer.labels
                       \/ EmptyLabelMissing(input.source.labels, input.peer.labels)
  BY DEF ChangesSeen
<1> DEFINE s == input.source  p == input.peer
<1>1. IsObject(s) /\ IsObject(p)
  BY DEF IsPair
<1>2. /\ s.generation = p.generation
      /\ labelsMatch(s.labels, p.labels)
      /\ mapsEqual[<<s.spec, p.spec>>]
  BY DEF objectsMatch
<1> HIDE DEF s, p
<1>3. Text[s.spec] = Text[p.spec]
  BY <1>1, <1>2, EqualMapsPrintAlike DEF IsObject
<1>4. s.labels = p.labels \/ EmptyLabelMissing(s.labels, p.labels)
  BY <1>1, <1>2, LabelChangesAreSeen DEF IsObject
<1> QED
  BY <1>2, <1>3, <1>4 DEF s, p

\* objectsMatch does not mind how the leaves of a spec are typed, at any depth:
\* a copy that two servers decode differently is not updated for ever.
THEOREM CopiesAreLeftAlone ==
  ASSUME IsPair(input)
  PROVE  CopiesRest
<1> SUFFICES ASSUME input.source.generation = input.peer.generation,
                    input.source.labels = input.peer.labels,
                    Alike[<<input.source.spec, input.peer.spec>>]
             PROVE  objectsMatch(input.source, input.peer)
  BY DEF CopiesRest
<1>1. input.source.spec \in Maps /\ input.peer.spec \in Maps
  BY DEF IsPair, IsObject
<1>2. mapsEqual[<<input.source.spec, input.peer.spec>>]
  BY <1>1, AlikeMapsAreEqual
<1>3. labelsMatch(input.source.labels, input.peer.labels)
  BY DEF labelsMatch, Label
<1> QED
  BY <1>2, <1>3 DEF objectsMatch
=============================================================================
