----------------------------- MODULE LoopFacts ------------------------------
(***************************************************************************)
(* What the proofs about the loops of ut_kvp.c and ut_log.c start from:    *)
(* induction over the natural numbers, and definition by recursion up to a *)
(* number, stated with sets and functions in the place of operators; and   *)
(* the loop of fy_node_insert, on which profiles and includes both rest.   *)
(***************************************************************************)
EXTENDS KvpNode, SequenceTheorems, WellFoundedInduction, TLAPS

(* The order of the naturals is well-founded: a set of them has a least    *)
(* element.                                                                *)
LEMMA LeastNatural ==
  ASSUME NEW T, T \subseteq Nat, T # {}
  PROVE  \E n \in T : \A m \in T : n <= m
<1> DEFINE R == OpToRel(<, Nat)
<1>1. IsWellFoundedOn(R, Nat)
  BY NatLessThanWellFounded
<1>2. \A x, y \in Nat : x < y => <<x, y>> \in R
  BY DEF OpToRel
<1> HIDE DEF R
<1>3. PICK n \in T : \A m \in T : <<m, n>> \notin R
  BY <1>1, WFMin
<1>4. ASSUME NEW m \in T PROVE n <= m
  <2>1. n \in Nat /\ m \in Nat /\ ~(m < n)
    BY <1>2, <1>3
  <2> QED
    BY <2>1
<1> QED
  BY <1>4

(* A set that has 0, and with a number the next one, has them all.         *)
THEOREM SetInduction ==
  ASSUME NEW T, 0 \in T, \A n \in Nat : n \in T => n + 1 \in T
  PROVE  \A n \in Nat : n \in T
<1> SUFFICES ASSUME NEW x \in Nat, x \notin T PROVE FALSE
  OBVIOUS
<1>1. PICK n \in Nat \ T : \A m \in Nat \ T : n <= m
  <2>1. Nat \ T \subseteq Nat /\ Nat \ T # {}
    OBVIOUS
  <2> QED
    BY <2>1, LeastNatural
<1>2. n # 0 /\ n - 1 \in Nat /\ n = (n - 1) + 1
  BY <1>1
<1>3. n - 1 \in T
  BY <1>1, <1>2
<1> QED
  BY <1>1, <1>2, <1>3

(* A loop of N rounds, each of which makes a value of A of the last one:   *)
(* what every round makes of what it finds, and what the rounds leave.     *)
IsRound(g, N, A) == g \in [1 .. N -> [A -> A]]
IsRounds(f, g, N, A, a) == /\ f \in [0 .. N -> A]
                           /\ f[0] = a
                           /\ \A n \in 1 .. N : f[n] = g[n][f[n - 1]]

(* Such a loop has an outcome.                                             *)
THEOREM RoundsExist ==
  ASSUME NEW N \in Nat, NEW A, NEW a \in A, NEW g, IsRound(g, N, A)
  PROVE  \E f : IsRounds(f, g, N, A, a)
<1>0. g \in [1 .. N -> [A -> A]]
  BY DEF IsRound
<1> DEFINE Rounds(f, k) == /\ f[0] = a
                           /\ \A n \in 1 .. k : f[n] = g[n][f[n - 1]]
           T == {k \in Nat : k <= N => \E f \in [0 .. k -> A] : Rounds(f, k)}
<1>1. 0 \in T
  <2>1. [n \in 0 .. 0 |-> a] \in [0 .. 0 -> A] /\ Rounds([n \in 0 .. 0 |-> a], 0)
    OBVIOUS
  <2> QED
    BY <2>1
<1>2. ASSUME NEW k \in Nat, k \in T PROVE k + 1 \in T
  <2> SUFFICES ASSUME k + 1 <= N PROVE \E f \in [0 .. k + 1 -> A] : Rounds(f, k + 1)
    BY <1>2
  <2>1. PICK f \in [0 .. k -> A] : Rounds(f, k)
    BY <1>2
  <2> DEFINE v == g[k + 1][f[k]]
             h == [n \in 0 .. k + 1 |-> IF n = k + 1 THEN v ELSE f[n]]
  <2>2. v \in A
    BY <1>0, <2>1
  <2> HIDE DEF v
  <2>3. h \in [0 .. k + 1 -> A] /\ h[k + 1] = v /\ \A n \in 0 .. k : h[n] = f[n]
    BY <2>1, <2>2
  <2> HIDE DEF h
  <2>4. ASSUME NEW n \in 1 .. k + 1
        PROVE  n - 1 \in 0 .. k /\ (n = k + 1 \/ (n \in 1 .. k /\ n \in 0 .. k))
    OBVIOUS
  <2>5. h[0] = a
    BY <2>1, <2>3
  <2>6. ASSUME NEW n \in 1 .. k + 1 PROVE h[n] = g[n][h[n - 1]]
    <3>1. CASE n = k + 1
      BY <2>3, <3>1 DEF v
    <3>2. CASE n \in 1 .. k /\ n \in 0 .. k
      BY <2>1, <2>3, <2>4, <3>2
    <3> QED
      BY <2>4, <3>1, <3>2
  <2> QED
    BY <2>3, <2>5, <2>6
<1> HIDE DEF T
<1>3. N \in T
  BY <1>1, <1>2, SetInduction
<1> QED
  BY <1>3 DEF T, IsRounds

(* A set of indices has a last one.                                        *)
LEMMA Greatest ==
  ASSUME NEW n \in Nat, NEW S, S \subseteq 1 .. n, S # {}
  PROVE  \E j \in S : \A h \in S : h <= j
<1> DEFINE T == {m \in Nat : \E j \in S : m = n - j}
<1>1. T \subseteq Nat /\ T # {}
  <2>1. PICK j \in S : TRUE
    OBVIOUS
  <2>2. n - j \in T
    BY <2>1
  <2> QED
    BY <2>2
<1>2. PICK m \in T : \A h \in T : m <= h
  <2> HIDE DEF T
  <2> QED
    BY <1>1, LeastNatural
<1>3. PICK j \in S : m = n - j
  BY <1>2
<1>4. ASSUME NEW h \in S PROVE h <= j
  <2>1. n - h \in T /\ h \in 1 .. n /\ j \in 1 .. n
    OBVIOUS
  <2>2. m <= n - h
    BY <1>2, <2>1
  <2> QED
    BY <1>3, <2>1, <2>2
<1> QED
  BY <1>4

-----------------------------------------------------------------------------
(* Mappings as fy_node_insert goes through them, pair by pair.             *)
Mappings(P) == [kind : {"mapping"}, pairs : Seq(P)]
Unique(n) == \A i, j \in DOMAIN n.pairs : n.pairs[i].key = n.pairs[j].key => i = j

LEMMA WellFormedIs ==
  ASSUME NEW n
  PROVE  /\ IsMapping(n) /\ WellFormed(n) => n \in Mappings(Range(n.pairs)) /\ Unique(n)
         /\ \A P : n \in Mappings(P) /\ Unique(n) => IsMapping(n) /\ WellFormed(n)
<1>1. ASSUME IsMapping(n), WellFormed(n)
      PROVE  n \in Mappings(Range(n.pairs)) /\ Unique(n)
  <2>1. n = Mapping(n.pairs) /\ n.pairs \in Seq(Range(n.pairs)) /\ Unique(n)
    BY <1>1 DEF WellFormed, Unique
  <2> QED
    BY <2>1 DEF Mapping, Mappings
<1>2. ASSUME NEW P, n \in Mappings(P), Unique(n)
      PROVE  IsMapping(n) /\ WellFormed(n)
  <2>1. n.kind = "mapping" /\ n.pairs \in Seq(P) /\ n = [kind |-> "mapping", pairs |-> n.pairs]
    BY <1>2 DEF Mappings
  <2>2. n.pairs \in Seq(Range(n.pairs))
    BY <2>1, SeqOfRange
  <2> QED
    BY <1>2, <2>1, <2>2 DEF IsMapping, WellFormed, Mapping, Unique
<1> QED
  BY <1>1, <1>2

LEMMA LookupAt ==
  ASSUME NEW n, Unique(n), NEW i \in DOMAIN n.pairs
  PROVE  HasKey(n, n.pairs[i].key) /\ Lookup(n, n.pairs[i].key) = n.pairs[i].value
<1>1. HasKey(n, n.pairs[i].key)
  BY DEF HasKey
<1>2. (CHOOSE j \in DOMAIN n.pairs : n.pairs[j].key = n.pairs[i].key) = i
  BY DEF Unique
<1> QED
  BY <1>1, <1>2 DEF Lookup

(* r has the pair, and besides it the pairs of n with another key.         *)
TakesOver(r, n, pair) ==
  /\ \E i \in DOMAIN r.pairs : r.pairs[i] = pair
  /\ \A i \in DOMAIN r.pairs :
       \/ r.pairs[i] = pair
       \/ /\ r.pairs[i].key # pair.key
          /\ \E j \in DOMAIN n.pairs : r.pairs[i] = n.pairs[j]
  /\ \A j \in DOMAIN n.pairs :
       n.pairs[j].key # pair.key => \E i \in DOMAIN r.pairs : r.pairs[i] = n.pairs[j]

(* One pair: its key has its value afterwards, every other key what it had.*)
LEMMA InsertPairFacts ==
  ASSUME NEW P, NEW n \in Mappings(P), Unique(n), NEW pair \in P
  PROVE  LET r == InsertPair(n, pair)
         IN /\ r \in Mappings(P) /\ Unique(r)
            /\ \A k : HasKey(r, k) <=> HasKey(n, k) \/ k = pair.key
            /\ Lookup(r, pair.key) = pair.value
            /\ \A k : k # pair.key => Lookup(r, k) = Lookup(n, k)
<1> DEFINE r == InsertPair(n, pair)
           N == Len(n.pairs)
<1>1. n.pairs \in Seq(P) /\ N \in Nat /\ DOMAIN n.pairs = 1 .. N
      /\ \A i \in 1 .. N : n.pairs[i] \in P
  BY LenProperties, ElementOfSeq DEF Mappings
<1> HIDE DEF r, N
<1>2. ASSUME r \in Mappings(P), Unique(r), TakesOver(r, n, pair)
      PROVE  /\ \A k : HasKey(r, k) <=> HasKey(n, k) \/ k = pair.key
             /\ Lookup(r, pair.key) = pair.value
             /\ \A k : k # pair.key => Lookup(r, k) = Lookup(n, k)
  <2>1. ASSUME NEW k PROVE HasKey(r, k) <=> HasKey(n, k) \/ k = pair.key
    BY <1>2 DEF HasKey, TakesOver
  <2>2. Lookup(r, pair.key) = pair.value
    BY <1>2, LookupAt DEF TakesOver
  <2>3. ASSUME NEW k, k # pair.key PROVE Lookup(r, k) = Lookup(n, k)
    <3>1. CASE HasKey(n, k)
      <4>1. PICK j \in DOMAIN n.pairs : n.pairs[j].key = k
        BY <3>1 DEF HasKey
      <4>2. PICK i \in DOMAIN r.pairs : r.pairs[i] = n.pairs[j]
        BY <1>2, <2>3, <4>1 DEF TakesOver
      <4> QED
        BY <1>2, <4>1, <4>2, LookupAt
    <3>2. CASE ~HasKey(n, k)
      BY <2>1, <2>3, <3>2 DEF Lookup
    <3> QED
      BY <3>1, <3>2
  <2> QED
    BY <2>1, <2>2, <2>3
<1>3. CASE HasKey(n, pair.key)
  <2> DEFINE ps == [i \in 1 .. N |-> IF n.pairs[i].key = pair.key THEN pair ELSE n.pairs[i]]
  <2>1. r = [kind |-> "mapping", pairs |-> ps]
    BY <1>1, <1>3 DEF InsertPair, Mapping, r
  <2>2. ps \in [1 .. N -> P]
    BY <1>1
  <2>3. /\ r.pairs = ps /\ DOMAIN ps = 1 .. N
        /\ \A i \in 1 .. N : ps[i] = IF n.pairs[i].key = pair.key THEN pair ELSE n.pairs[i]
    BY <2>1
  <2> HIDE DEF ps
  <2>4. ps \in Seq(P)
    BY <1>1, <2>2, IsASeq
  <2>5. r \in Mappings(P)
    BY <2>1, <2>4 DEF Mappings
  <2>6. \A i \in 1 .. N : ps[i].key = n.pairs[i].key
    BY <2>3
  <2>7. Unique(r)
    BY <1>1, <2>3, <2>6 DEF Unique
  <2>8. \E i \in DOMAIN r.pairs : r.pairs[i] = pair
    BY <1>1, <1>3, <2>3 DEF HasKey
  <2>9. TakesOver(r, n, pair)
    BY <1>1, <2>3, <2>8 DEF TakesOver
  <2> QED
    BY <1>2, <2>5, <2>7, <2>9 DEF r
<1>4. CASE ~HasKey(n, pair.key)
  <2> DEFINE ps == Append(n.pairs, pair)
  <2>1. r = [kind |-> "mapping", pairs |-> ps]
    BY <1>1, <1>4 DEF InsertPair, Mapping, r
  <2>2. /\ ps \in Seq(P) /\ Len(ps) = N + 1 /\ DOMAIN ps = 1 .. N + 1 /\ ps[N + 1] = pair
        /\ \A i \in 1 .. N : ps[i] = n.pairs[i]
    BY <1>1, AppendProperties, LenProperties DEF N
  <2>3. r.pairs = ps
    BY <2>1
  <2> HIDE DEF ps
  <2>4. r \in Mappings(P)
    BY <2>1, <2>2 DEF Mappings
  <2>5. \A i \in 1 .. N + 1 : i = N + 1 \/ i \in 1 .. N
    BY <1>1
  <2>6. \A i \in 1 .. N : n.pairs[i].key # pair.key
    BY <1>1, <1>4 DEF HasKey
  <2>7. Unique(r)
    BY <1>1, <2>2, <2>3, <2>5, <2>6 DEF Unique
  <2>8. \E i \in DOMAIN r.pairs : r.pairs[i] = pair
    BY <1>1, <2>2, <2>3
  <2>9. TakesOver(r, n, pair)
    BY <1>1, <2>2, <2>3, <2>5, <2>6, <2>8 DEF TakesOver
  <2> QED
    BY <1>2, <2>4, <2>7, <2>9 DEF r
<1> QED
  BY <1>3, <1>4

(* fy_node_insert, whose loop is a recursion over the pairs of from.       *)
IsInserted(f, to, from) ==
  f = [j \in 0 .. Len(from.pairs) |->
         IF j = 0 THEN to ELSE InsertPair(f[j - 1], from.pairs[j])]
Inserted(to, from) == CHOOSE f : IsInserted(f, to, from)

UniqueMappings(P) == {n \in Mappings(P) : Unique(n)}

LEMMA InsertedRounds ==
  ASSUME NEW P, NEW to \in UniqueMappings(P), NEW from \in Mappings(P)
  PROVE  IsInserted(Inserted(to, from), to, from)
<1> DEFINE N == Len(from.pairs)
           A == UniqueMappings(P)
           g == [j \in 1 .. N |-> [n \in A |-> InsertPair(n, from.pairs[j])]]
<1>1. N \in Nat /\ \A j \in 1 .. N : from.pairs[j] \in P
  BY LenProperties, ElementOfSeq DEF Mappings
<1>2. \A n \in A, j \in 1 .. N : InsertPair(n, from.pairs[j]) \in A
  BY <1>1, InsertPairFacts DEF UniqueMappings
<1>3. \A n \in A, j \in 1 .. N : g[j][n] = InsertPair(n, from.pairs[j])
  OBVIOUS
<1>4. IsRound(g, N, A)
  BY <1>2 DEF IsRound
<1> HIDE DEF g
<1>5. PICK f : IsRounds(f, g, N, A, to)
  <2> HIDE DEF N
  <2> QED
    BY <1>1, <1>4, RoundsExist
<1>6. f \in [0 .. N -> A] /\ f[0] = to /\ \A j \in 1 .. N : f[j] = g[j][f[j - 1]]
  BY <1>5 DEF IsRounds
<1>7. \A j \in 0 .. N : f[j] = IF j = 0 THEN to ELSE InsertPair(f[j - 1], from.pairs[j])
  <2> SUFFICES ASSUME NEW j \in 0 .. N, j # 0 PROVE f[j] = InsertPair(f[j - 1], from.pairs[j])
    BY <1>6
  <2>1. j \in 1 .. N /\ f[j - 1] \in A
    BY <1>1, <1>6
  <2> QED
    BY <1>3, <1>6, <2>1
<1>8. IsInserted(f, to, from)
  BY <1>6, <1>7 DEF IsInserted
<1> QED
  BY <1>8 DEF Inserted

(* After m pairs of from, a key has the value of its pair among them, or   *)
(* else what to has.                                                       *)
Overlaid(r, to, from, m, P) ==
  /\ r \in UniqueMappings(P)
  /\ \A k : HasKey(r, k) <=> HasKey(to, k) \/ \E j \in 1 .. m : from.pairs[j].key = k
  /\ \A j \in 1 .. m : Lookup(r, from.pairs[j].key) = from.pairs[j].value
  /\ \A k : (\A j \in 1 .. m : from.pairs[j].key # k) => Lookup(r, k) = Lookup(to, k)

LEMMA OverlaidNext ==
  ASSUME NEW P, NEW to \in UniqueMappings(P), NEW from \in UniqueMappings(P),
         NEW m \in Nat, m + 1 <= Len(from.pairs), NEW r, Overlaid(r, to, from, m, P)
  PROVE  Overlaid(InsertPair(r, from.pairs[m + 1]), to, from, m + 1, P)
<1> DEFINE pair == from.pairs[m + 1]
           s == InsertPair(r, pair)
<1>1. /\ DOMAIN from.pairs = 1 .. Len(from.pairs) /\ Len(from.pairs) \in Nat /\ pair \in P
      /\ m + 1 \in DOMAIN from.pairs
  BY LenProperties, ElementOfSeq DEF UniqueMappings, Mappings
<1>2. /\ s \in UniqueMappings(P)
      /\ \A k : HasKey(s, k) <=> HasKey(r, k) \/ k = pair.key
      /\ Lookup(s, pair.key) = pair.value
      /\ \A k : k # pair.key => Lookup(s, k) = Lookup(r, k)
  BY <1>1, InsertPairFacts DEF Overlaid, UniqueMappings
<1>3. \A j \in 1 .. m + 1 : j = m + 1 \/ j \in 1 .. m
  OBVIOUS
<1>4. \A j \in 1 .. m : j \in 1 .. m + 1 /\ from.pairs[j].key # pair.key
  <2> SUFFICES ASSUME NEW j \in 1 .. m PROVE from.pairs[j].key # pair.key
    OBVIOUS
  <2>1. j \in DOMAIN from.pairs /\ j # m + 1
    BY <1>1
  <2> QED
    BY <1>1, <2>1 DEF UniqueMappings, Unique
<1>5. m + 1 \in 1 .. m + 1
  OBVIOUS
<1> HIDE DEF s
<1>6. \A k : HasKey(s, k) <=> HasKey(to, k) \/ \E j \in 1 .. m + 1 : from.pairs[j].key = k
  BY <1>2, <1>3, <1>4, <1>5 DEF Overlaid
<1>7. \A j \in 1 .. m + 1 : Lookup(s, from.pairs[j].key) = from.pairs[j].value
  BY <1>2, <1>3, <1>4 DEF Overlaid
<1>8. \A k : (\A j \in 1 .. m + 1 : from.pairs[j].key # k) => Lookup(s, k) = Lookup(to, k)
  BY <1>2, <1>4, <1>5 DEF Overlaid
<1> QED
  BY <1>2, <1>6, <1>7, <1>8 DEF Overlaid, s

(* fy_node_insert: the keys of both, with the values of from where it has  *)
(* the key; and every pair is one of theirs.                               *)
LEMMA NodeInsertOver ==
  ASSUME NEW P, NEW to \in UniqueMappings(P), NEW from \in UniqueMappings(P)
  PROVE  LET r == NodeInsert(to, from)
         IN /\ r \in UniqueMappings(P)
            /\ \A k : HasKey(r, k) <=> HasKey(to, k) \/ HasKey(from, k)
            /\ \A k : Lookup(r, k) = IF HasKey(from, k) THEN Lookup(from, k) ELSE Lookup(to, k)
<1> DEFINE N == Len(from.pairs)
           f == Inserted(to, from)
           T == {m \in Nat : m <= N => Overlaid(f[m], to, from, m, P)}
<1>2. N \in Nat /\ DOMAIN from.pairs = 1 .. N /\ Unique(from)
  BY LenProperties DEF UniqueMappings, Mappings
<1>3. f = [j \in 0 .. N |-> IF j = 0 THEN to ELSE InsertPair(f[j - 1], from.pairs[j])]
  BY InsertedRounds DEF IsInserted, UniqueMappings
<1> HIDE DEF f
<1>4. 0 \in T
  <2>1. f[0] = to
    BY <1>2, <1>3
  <2> QED
    BY <2>1 DEF Overlaid
<1>5. ASSUME NEW m \in Nat, m \in T PROVE m + 1 \in T
  <2> SUFFICES ASSUME m + 1 <= N PROVE Overlaid(f[m + 1], to, from, m + 1, P)
    OBVIOUS
  <2>1. Overlaid(f[m], to, from, m, P)
    BY <1>2, <1>5
  <2>2. f[m + 1] = InsertPair(f[m], from.pairs[m + 1])
    BY <1>2, <1>3
  <2> QED
    BY <2>1, <2>2, OverlaidNext
<1>6. Overlaid(f[N], to, from, N, P)
  <2>1. N \in T
    <3> HIDE DEF T
    <3> QED
      BY <1>2, <1>4, <1>5, SetInduction
  <2> QED
    BY <1>2, <2>1
<1>7. NodeInsert(to, from) = f[N]
  BY DEF NodeInsert, f, Inserted, IsInserted
<1>8. f[N] \in UniqueMappings(P)
  BY <1>6 DEF Overlaid
<1>9. \A k : HasKey(from, k) <=> \E j \in 1 .. N : from.pairs[j].key = k
  BY <1>2 DEF HasKey
<1>10. ASSUME NEW k
       PROVE  Lookup(f[N], k) = IF HasKey(from, k) THEN Lookup(from, k) ELSE Lookup(to, k)
  <2>1. CASE HasKey(from, k)
    <3>1. PICK j \in 1 .. N : from.pairs[j].key = k
      BY <1>9, <2>1
    <3> QED
      BY <1>2, <1>6, <2>1, <3>1, LookupAt DEF Overlaid
  <2>2. CASE ~HasKey(from, k)
    BY <1>6, <1>9, <2>2 DEF Overlaid
  <2> QED
    BY <2>1, <2>2
<1> QED
  BY <1>6, <1>7, <1>8, <1>9, <1>10 DEF Overlaid

LEMMA NodeInsertFacts ==
  ASSUME NEW to, NEW from, IsMapping(to), WellFormed(to), IsMapping(from), WellFormed(from)
  PROVE  LET r == NodeInsert(to, from)
         IN /\ IsMapping(r) /\ WellFormed(r)
            /\ \A k : HasKey(r, k) <=> HasKey(to, k) \/ HasKey(from, k)
            /\ \A k : Lookup(r, k) = IF HasKey(from, k) THEN Lookup(from, k) ELSE Lookup(to, k)
<1> DEFINE P == Range(to.pairs) \cup Range(from.pairs)
<1>1. to \in UniqueMappings(P) /\ from \in UniqueMappings(P)
  <2>1. /\ to \in Mappings(Range(to.pairs)) /\ Unique(to)
        /\ from \in Mappings(Range(from.pairs)) /\ Unique(from)
    BY WellFormedIs
  <2>2. Seq(Range(to.pairs)) \subseteq Seq(P) /\ Seq(Range(from.pairs)) \subseteq Seq(P)
    BY SeqMonotonic
  <2> HIDE DEF P
  <2> QED
    BY <2>1, <2>2 DEF UniqueMappings, Mappings
<1> HIDE DEF P
<1> QED
  BY <1>1, NodeInsertOver, WellFormedIs DEF UniqueMappings
=============================================================================
