-------------------------- MODULE KvpIncludeProofs --------------------------
(***************************************************************************)
(* Proofs about KvpInclude, for every set of keys, names, scalars and      *)
(* documents, whatever they include and however long their mappings and    *)
(* sequences are, and for every limit of the includes.                     *)
(*                                                                         *)
(* The inductive invariant IInv is short: the documents are those of the   *)
(* start, and the copy is the one that process_node_copy makes of the file *)
(* that was opened.  What the four properties need is a theory of that     *)
(* copy.                                                                   *)
(*                                                                         *)
(* 1. The recursive functions of the model exist: a CHOOSE of each         *)
(* (IncludeNesting, Nested, Copied, Appended, CopyNode, Nodes, CopyAt,     *)
(* IncludedAfter, Provides) has something to choose.                       *)
(*                                                                         *)
(* 2. The loops over pairs and entries, by induction on the round          *)
(* (CopyPairsFacts, CopyEntriesFacts): a pair that is copied is in the     *)
(* copy unless its key is there already, and the last include that gives a *)
(* key prevails.                                                           *)
(*                                                                         *)
(* 3. The recursion into nodes, by induction on how deep a node is nested  *)
(* (CopyGood): when the includes give nodes of a kind, the copy is of that *)
(* kind, and reaches no deeper than Height, so that the function CopyNode  *)
(* is defined on it.                                                       *)
(*                                                                         *)
(* 4. The recursion into includes, by induction from the limit up, once    *)
(* for each property: no tag is left (AlwaysTagless), nothing is left to   *)
(* include (AlwaysClean), the keys are those of files within the limit     *)
(* (AlwaysKeyed), the values are those the documents give                  *)
(* (AlwaysPrevails).                                                       *)
(***************************************************************************)
EXTENDS KvpInclude, LoopFacts

-----------------------------------------------------------------------------
(* The nodes there are.  Each function of the model that is defined by     *)
(* recursion is shown to exist first.                                      *)

AnyKey == PlainKey \cup IncludeKey
PairSet(S) == [key : AnyKey, value : S]

(* How deep the includes of some levels nest: a tag is copied twice, so    *)
(* every level doubles what is below it.                                   *)
LEMMA IncludeNestingIs ==
  /\ IncludeNesting \in [0 .. MaxIncludeDepth -> Nat]
  /\ IncludeNesting[0] = 0
  /\ \A k \in 1 .. MaxIncludeDepth :
       IncludeNesting[k] = MaxNesting + 2 * IncludeNesting[k - 1]
<1> DEFINE D == MaxIncludeDepth
           g == [k \in 1 .. D |-> [x \in Nat |-> MaxNesting + 2 * x]]
           IsNesting(f) == f = [levels \in 0 .. D |->
                                  IF levels = 0 THEN 0 ELSE MaxNesting + 2 * f[levels - 1]]
<1>1. D \in Nat /\ MaxNesting \in Nat
  BY DepthAssumption, NestingAssumption
<1>2. IsRound(g, D, Nat)
  BY <1>1 DEF IsRound
<1>3. \A k \in 1 .. D, x \in Nat : g[k][x] = MaxNesting + 2 * x
  OBVIOUS
<1> HIDE DEF g, D
<1>4. PICK f : IsRounds(f, g, D, Nat, 0)
  BY <1>1, <1>2, RoundsExist
<1>5. f \in [0 .. D -> Nat] /\ f[0] = 0 /\ \A k \in 1 .. D : f[k] = g[k][f[k - 1]]
  BY <1>4 DEF IsRounds
<1>6. \A k \in 1 .. D : k - 1 \in 0 .. D /\ k \in 0 .. D
  BY <1>1
<1>7. IsNesting(f)
  <2> SUFFICES ASSUME NEW k \in 0 .. D
               PROVE  f[k] = IF k = 0 THEN 0 ELSE MaxNesting + 2 * f[k - 1]
    BY <1>5
  <2>1. k = 0 \/ k \in 1 .. D
    BY <1>1
  <2> QED
    BY <1>3, <1>5, <1>6, <2>1
<1>8. IsNesting(IncludeNesting)
  BY <1>7 DEF IncludeNesting, D
<1> DEFINE T == {k \in Nat : k <= D => IncludeNesting[k] \in Nat}
<1>9. /\ DOMAIN IncludeNesting = 0 .. D /\ IncludeNesting[0] = 0
      /\ \A k \in 1 .. D : IncludeNesting[k] = MaxNesting + 2 * IncludeNesting[k - 1]
  BY <1>1, <1>6, <1>8
<1> HIDE DEF IsNesting
<1>10. 0 \in T
  BY <1>9
<1>11. ASSUME NEW k \in Nat, k \in T PROVE k + 1 \in T
  <2> SUFFICES ASSUME k + 1 <= D PROVE IncludeNesting[k + 1] \in Nat
    OBVIOUS
  <2>1. k + 1 \in 1 .. D /\ (k + 1) - 1 = k /\ IncludeNesting[k] \in Nat
    BY <1>1, <1>11
  <2>2. IncludeNesting[k + 1] = MaxNesting + 2 * IncludeNesting[k]
    BY <1>9, <2>1
  <2> QED
    BY <1>1, <2>1, <2>2
<1>12. \A k \in 0 .. D : IncludeNesting[k] \in Nat
  <2> HIDE DEF T
  <2>1. \A k \in Nat : k \in T
    BY <1>10, <1>11, SetInduction
  <2> QED
    BY <1>1, <2>1 DEF T
<1> QED
  BY <1>8, <1>9, <1>12 DEF D, IsNesting

LEMMA HeightIs == Height \in Nat /\ MaxNesting \in 0 .. Height
<1>1. MaxIncludeDepth \in 0 .. MaxIncludeDepth /\ MaxNesting \in Nat
  BY DepthAssumption, NestingAssumption
<1>2. IncludeNesting[MaxIncludeDepth] \in Nat
  BY <1>1, IncludeNestingIs
<1> QED
  BY <1>1, <1>2 DEF Height

(* The nodes of a depth are the leaves and what holds nodes of the depth   *)
(* below.                                                                  *)
LEMMA NestedIs ==
  /\ DOMAIN Nested = 0 .. Height /\ Nested[0] = Leaf
  /\ \A h \in 1 .. Height : Nested[h] = NodesOver(Nested[h - 1])
<1> DEFINE Upto(f, k) == f = [h \in 0 .. Height |->
                                IF h = 0 THEN Leaf
                                ELSE IF h <= k THEN NodesOver(f[h - 1]) ELSE {}]
           T == {k \in Nat : \E f : Upto(f, k)}
<1>1. Height \in Nat
  BY HeightIs
<1>2. 0 \in T
  <2>1. Upto([h \in 0 .. Height |-> IF h = 0 THEN Leaf ELSE {}], 0)
    BY <1>1
  <2> QED
    BY <2>1
<1>3. ASSUME NEW k \in Nat, k \in T PROVE k + 1 \in T
  <2>1. PICK f : Upto(f, k)
    BY <1>3
  <2> DEFINE e == [h \in 0 .. Height |-> IF h = k + 1 THEN NodesOver(f[k]) ELSE f[h]]
  <2>2. \A h \in 0 .. Height : e[h] = IF h = k + 1 THEN NodesOver(f[k]) ELSE f[h]
    OBVIOUS
  <2>3. \A h \in 0 .. Height :
           e[h] = IF h = 0 THEN Leaf ELSE IF h <= k + 1 THEN NodesOver(e[h - 1]) ELSE {}
    <3> SUFFICES ASSUME NEW h \in 0 .. Height
                 PROVE  e[h] = IF h = 0 THEN Leaf
                               ELSE IF h <= k + 1 THEN NodesOver(e[h - 1]) ELSE {}
      OBVIOUS
    <3>1. h # 0 /\ h <= k + 1 => h - 1 \in 0 .. Height /\ h - 1 # k + 1
      BY <1>1
    <3>2. h # 0 /\ h <= k + 1 => e[h - 1] = f[h - 1]
      BY <2>2, <3>1
    <3>3. f[h] = IF h = 0 THEN Leaf ELSE IF h <= k THEN NodesOver(f[h - 1]) ELSE {}
      BY <2>1
    <3> HIDE DEF e
    <3>4. CASE h = k + 1
      <4>1. h # 0 /\ h <= k + 1 /\ h - 1 = k
        BY <3>4
      <4> QED
        BY <2>2, <3>2, <3>4, <4>1
    <3>5. CASE h # k + 1
      <4>1. (h <= k + 1) <=> (h <= k)
        BY <1>1, <3>5
      <4> QED
        BY <2>2, <3>2, <3>3, <3>5, <4>1
    <3> QED
      BY <3>4, <3>5
  <2>4. Upto(e, k + 1)
    BY <2>3
  <2> HIDE DEF Upto, e
  <2> QED
    BY <2>4
<1>4. Height \in T
  <2> HIDE DEF T
  <2> QED
    BY <1>1, <1>2, <1>3, SetInduction
<1>5. PICK f : Upto(f, Height)
  BY <1>4
<1>6. f = [h \in 0 .. Height |-> IF h = 0 THEN Leaf ELSE NodesOver(f[h - 1])]
  BY <1>1, <1>5
<1>7. Nested = [h \in 0 .. Height |-> IF h = 0 THEN Leaf ELSE NodesOver(Nested[h - 1])]
  BY <1>6 DEF Nested
<1> QED
  BY <1>1, <1>7

(* What a node can be.                                                     *)
LEMMA Shape ==
  ASSUME NEW S, NEW n \in NodesOver(S)
  PROVE  \/ n \in Leaf
         \/ /\ n.kind = "mapping" /\ n = Mapping(n.pairs) /\ n.pairs \in PairsOver(S)
            /\ n \in UniqueMappings(PairSet(S))
            /\ DOMAIN n.pairs = 1 .. Len(n.pairs) /\ Len(n.pairs) \in Nat
            /\ \A j \in 1 .. Len(n.pairs) : n.pairs[j] \in PairSet(S)
         \/ /\ n.kind = "sequence" /\ n = Items(n.items) /\ n.items \in Seq(S)
            /\ DOMAIN n.items = 1 .. Len(n.items) /\ Len(n.items) \in Nat
            /\ \A j \in 1 .. Len(n.items) : n.items[j] \in S
<1>1. CASE n \in [kind : {"mapping"}, pairs : PairsOver(S)]
  <2>1. n.kind = "mapping" /\ n.pairs \in PairsOver(S) /\ n = [kind |-> "mapping", pairs |-> n.pairs]
    BY <1>1
  <2>2. n.pairs \in Seq(PairSet(S)) /\ Unique(n)
    BY <2>1 DEF PairsOver, PairSet, AnyKey, Unique
  <2>3. n \in UniqueMappings(PairSet(S))
    BY <2>1, <2>2 DEF UniqueMappings, Mappings
  <2> QED
    BY <2>1, <2>2, <2>3, LenProperties, ElementOfSeq DEF Mapping
<1>2. CASE n \in [kind : {"sequence"}, items : Seq(S)]
  <2>1. n.kind = "sequence" /\ n.items \in Seq(S) /\ n = [kind |-> "sequence", items |-> n.items]
    BY <1>2
  <2> QED
    BY <2>1, LenProperties, ElementOfSeq DEF Items
<1> QED
  BY <1>1, <1>2 DEF NodesOver

(* What a leaf can be.                                                     *)
LEMMA LeafShape ==
  ASSUME NEW n \in Leaf
  PROVE  n.kind \in {"scalar", "tagged"} /\ n.value \in Value
  BY DEF Leaf

(* Every mapping with unique keys, and every sequence, is a node.          *)
LEMMA Shaped ==
  ASSUME NEW S
  PROVE  /\ Leaf \subseteq NodesOver(S)
         /\ UniqueMappings(PairSet(S)) \subseteq NodesOver(S)
         /\ \A items \in Seq(S) : Items(items) \in NodesOver(S)
<1>1. ASSUME NEW n \in UniqueMappings(PairSet(S)) PROVE n \in NodesOver(S)
  <2>1. n \in [kind : {"mapping"}, pairs : Seq(PairSet(S))] /\ Unique(n)
    BY DEF UniqueMappings, Mappings
  <2>2. n.pairs \in PairsOver(S)
    BY <2>1 DEF PairsOver, PairSet, AnyKey, Unique
  <2>3. n \in [kind : {"mapping"}, pairs : PairsOver(S)]
    BY <2>1, <2>2
  <2> QED
    BY <2>3 DEF NodesOver
<1> QED
  BY <1>1 DEF NodesOver, Items

(* A node that is nested less deep is a node of every greater depth.       *)
LEMMA NestedGrows ==
  \A h \in 0 .. Height, g \in 0 .. Height : g <= h => Nested[g] \subseteq Nested[h]
<1> DEFINE T == {h \in Nat : h + 1 <= Height => Nested[h] \subseteq Nested[h + 1]}
<1>1. Height \in Nat
  BY HeightIs
<1>2. 0 \in T
  <2> SUFFICES ASSUME 0 + 1 <= Height PROVE Nested[0] \subseteq Nested[0 + 1]
    OBVIOUS
  <2>1. 1 \in 1 .. Height /\ Nested[0] = Leaf /\ 0 + 1 = 1 /\ 1 - 1 = 0
    BY <1>1, NestedIs
  <2>2. Nested[1] = NodesOver(Nested[0])
    BY <2>1, NestedIs
  <2> QED
    BY <2>1, <2>2, Shaped
<1>3. ASSUME NEW h \in Nat, h \in T PROVE h + 1 \in T
  <2> SUFFICES ASSUME h + 1 + 1 <= Height PROVE Nested[h + 1] \subseteq Nested[h + 1 + 1]
    OBVIOUS
  <2>1. Nested[h] \subseteq Nested[h + 1] /\ h + 1 \in 1 .. Height /\ h + 1 + 1 \in 1 .. Height
        /\ (h + 1) - 1 = h /\ (h + 1 + 1) - 1 = h + 1
    BY <1>1, <1>3
  <2>2. Nested[h + 1] = NodesOver(Nested[h]) /\ Nested[h + 1 + 1] = NodesOver(Nested[h + 1])
    BY <2>1, NestedIs
  <2>3. PairSet(Nested[h]) \subseteq PairSet(Nested[h + 1])
    BY <2>1 DEF PairSet
  <2>4. UniqueMappings(PairSet(Nested[h])) \subseteq UniqueMappings(PairSet(Nested[h + 1]))
    BY <2>3, SeqMonotonic DEF UniqueMappings, Mappings
  <2>5. Seq(Nested[h]) \subseteq Seq(Nested[h + 1])
    BY <2>1, SeqMonotonic
  <2> QED
    BY <2>2, <2>4, <2>5, Shape, Shaped
<1>4. \A h \in Nat : h \in T
  <2> HIDE DEF T
  <2> QED
    BY <1>2, <1>3, SetInduction
<1> DEFINE U == {k \in Nat : \A g \in 0 .. Height : g + k <= Height => Nested[g] \subseteq Nested[g + k]}
<1>5. 0 \in U
  BY <1>1
<1>6. ASSUME NEW k \in Nat, k \in U PROVE k + 1 \in U
  <2> SUFFICES ASSUME NEW g \in 0 .. Height, g + (k + 1) <= Height
               PROVE  Nested[g] \subseteq Nested[g + (k + 1)]
    OBVIOUS
  <2>1. g + k <= Height /\ g + k \in Nat /\ (g + k) + 1 = g + (k + 1) /\ (g + k) + 1 <= Height
    BY <1>1
  <2>2. Nested[g] \subseteq Nested[g + k]
    BY <1>6, <2>1
  <2>3. Nested[g + k] \subseteq Nested[(g + k) + 1]
    BY <1>4, <2>1
  <2> QED
    BY <2>1, <2>2, <2>3
<1>7. \A k \in Nat : k \in U
  <2> HIDE DEF U
  <2> QED
    BY <1>5, <1>6, SetInduction
<1> QED
  <2> SUFFICES ASSUME NEW h \in 0 .. Height, NEW g \in 0 .. Height, g <= h
               PROVE  Nested[g] \subseteq Nested[h]
    OBVIOUS
  <2>1. h - g \in Nat /\ g + (h - g) = h /\ h - g \in U
    BY <1>1, <1>7
  <2> QED
    BY <2>1

-----------------------------------------------------------------------------
(* The loops of process_node_copy.  For a key, an include counts that is a *)
(* mapping with the key, and a pair that has the key and is appended.      *)

Gives(included, k) == IsNode(included) /\ IsMapping(included) /\ HasKey(included, k)
Keeps(pair, included, copied_val, k) ==
  ~IsNode(included) /\ IsNode(copied_val) /\ pair.key = k

(* Pairs of P alone are copied.                                            *)
PairFits(pair, included, copied_val, P) ==
  /\ IsNode(included) /\ IsMapping(included) => included \in UniqueMappings(P)
  /\ ~IsNode(included) /\ IsNode(copied_val) => Pair(pair.key, copied_val) \in P

(* fy_node_mapping_append adds a pair unless its key is there.             *)
LEMMA MappingAppendFacts ==
  ASSUME NEW P, NEW n \in UniqueMappings(P), NEW k, NEW v, Pair(k, v) \in P
  PROVE  LET r == MappingAppend(n, Pair(k, v))
         IN /\ r \in UniqueMappings(P)
            /\ \A x : HasKey(r, x) <=> HasKey(n, x) \/ x = k
            /\ \A x : Lookup(r, x) = IF HasKey(n, x) THEN Lookup(n, x)
                                     ELSE IF x = k THEN v ELSE NoNode
<1> DEFINE r == MappingAppend(n, Pair(k, v))
<1>1. Pair(k, v).key = k /\ Pair(k, v).value = v
  BY DEF Pair
<1>2. n \in Mappings(P) /\ Unique(n)
  BY DEF UniqueMappings
<1>3. CASE HasKey(n, k)
  <2>1. r = n
    BY <1>1, <1>3 DEF MappingAppend
  <2> QED
    BY <1>3, <2>1 DEF Lookup
<1>4. CASE ~HasKey(n, k)
  <2>1. r = InsertPair(n, Pair(k, v))
    BY <1>1, <1>4 DEF MappingAppend, InsertPair
  <2> HIDE DEF r
  <2>2. /\ r \in Mappings(P) /\ Unique(r)
        /\ \A x : HasKey(r, x) <=> HasKey(n, x) \/ x = k
        /\ Lookup(r, k) = v
        /\ \A x : x # k => Lookup(r, x) = Lookup(n, x)
    BY <1>1, <1>2, <2>1, InsertPairFacts
  <2>3. \A x : ~HasKey(n, x) => Lookup(n, x) = NoNode
    BY DEF Lookup
  <2>4. \A x : Lookup(r, x) = IF HasKey(n, x) THEN Lookup(n, x)
                              ELSE IF x = k THEN v ELSE NoNode
    BY <1>4, <2>2, <2>3
  <2> QED
    BY <2>2, <2>4 DEF UniqueMappings, r
<1> QED
  BY <1>3, <1>4

(* One round of the loop over pairs: an include overrides what is there, a *)
(* copied pair does not.                                                   *)
LEMMA CopyPairFacts ==
  ASSUME NEW P, NEW n \in UniqueMappings(P), NEW pair, NEW included, NEW copied_val,
         PairFits(pair, included, copied_val, P)
  PROVE  LET r == CopyPair(n, pair, included, copied_val)
         IN /\ r \in UniqueMappings(P)
            /\ \A k : HasKey(r, k) <=> \/ HasKey(n, k) \/ Gives(included, k)
                                       \/ Keeps(pair, included, copied_val, k)
            /\ \A k : Lookup(r, k) =
                        IF Gives(included, k) THEN Lookup(included, k)
                        ELSE IF HasKey(n, k) THEN Lookup(n, k)
                        ELSE IF Keeps(pair, included, copied_val, k) THEN copied_val
                        ELSE NoNode
<1> DEFINE r == CopyPair(n, pair, included, copied_val)
<1>1. IsMapping(n)
  BY DEF UniqueMappings, Mappings, IsMapping
<1>2. \A k : ~HasKey(n, k) => Lookup(n, k) = NoNode
  BY DEF Lookup
<1>3. CASE IsNode(included) /\ IsMapping(included)
  <2>1. r = NodeInsert(n, included) /\ included \in UniqueMappings(P)
    BY <1>1, <1>3 DEF CopyPair, MergeNodes, PairFits
  <2> HIDE DEF r
  <2>2. /\ r \in UniqueMappings(P)
        /\ \A k : HasKey(r, k) <=> HasKey(n, k) \/ HasKey(included, k)
        /\ \A k : Lookup(r, k) = IF HasKey(included, k) THEN Lookup(included, k) ELSE Lookup(n, k)
    BY <2>1, NodeInsertOver
  <2> QED
    BY <1>2, <1>3, <2>2 DEF Gives, Keeps, r
<1>4. CASE IsNode(included) /\ ~IsMapping(included)
  <2>1. r = n
    BY <1>4 DEF CopyPair, MergeNodes
  <2> HIDE DEF r
  <2> QED
    BY <1>2, <1>4, <2>1 DEF Gives, Keeps, r
<1>5. CASE ~IsNode(included) /\ IsNode(copied_val)
  <2>1. r = MappingAppend(n, Pair(pair.key, copied_val)) /\ Pair(pair.key, copied_val) \in P
    BY <1>5 DEF CopyPair, PairFits
  <2> HIDE DEF r
  <2>2. /\ r \in UniqueMappings(P)
        /\ \A x : HasKey(r, x) <=> HasKey(n, x) \/ x = pair.key
        /\ \A x : Lookup(r, x) = IF HasKey(n, x) THEN Lookup(n, x)
                                 ELSE IF x = pair.key THEN copied_val ELSE NoNode
    BY <2>1, MappingAppendFacts
  <2> QED
    BY <1>5, <2>2 DEF Gives, Keeps, r
<1>6. CASE ~IsNode(included) /\ ~IsNode(copied_val)
  <2>1. r = n
    BY <1>6 DEF CopyPair
  <2> HIDE DEF r
  <2> QED
    BY <1>2, <1>6, <2>1 DEF Gives, Keeps, r
<1> QED
  BY <1>3, <1>4, <1>5, <1>6

(* The copies after each round of the loop over pairs.                     *)
IsCopied(f, pairs, included, copied_vals) ==
  f = [j \in 0 .. Len(pairs) |->
         IF j = 0 THEN Mapping(<<>>)
         ELSE CopyPair(f[j - 1], pairs[j], included[j], copied_vals[j])]
Copied(pairs, included, copied_vals) == CHOOSE f : IsCopied(f, pairs, included, copied_vals)

PairsFit(pairs, included, copied_vals, P) ==
  \A j \in 1 .. Len(pairs) : PairFits(pairs[j], included[j], copied_vals[j], P)

(* fy_node_create_mapping: no key at all.                                  *)
LEMMA EmptyMapping ==
  ASSUME NEW P
  PROVE  Mapping(<<>>) \in UniqueMappings(P) /\ \A k : ~HasKey(Mapping(<<>>), k)
<1> DEFINE s == <<>>
           n == Mapping(s)
<1>1. s \in Seq(P) /\ Len(s) = 0
  BY EmptySeq
<1> HIDE DEF s
<1>2. DOMAIN s = {}
  <2>1. DOMAIN s = 1 .. Len(s)
    BY <1>1, LenProperties
  <2> QED
    BY <1>1, <2>1
<1>3. n = [kind |-> "mapping", pairs |-> s]
  BY DEF Mapping
<1>4. n \in Mappings(P) /\ DOMAIN n.pairs = {}
  BY <1>1, <1>2, <1>3 DEF Mappings
<1> HIDE DEF n
<1>5. Unique(n) /\ \A k : ~HasKey(n, k)
  BY <1>4 DEF Unique, HasKey
<1> QED
  BY <1>4, <1>5 DEF UniqueMappings, n, s

(* There are such copies.                                                  *)
LEMMA CopiedRounds ==
  ASSUME NEW P, NEW X, NEW pairs \in Seq(X), NEW included, NEW copied_vals,
         PairsFit(pairs, included, copied_vals, P)
  PROVE  IsCopied(Copied(pairs, included, copied_vals), pairs, included, copied_vals)
<1> DEFINE N == Len(pairs)
           A == UniqueMappings(P)
           g == [j \in 1 .. N |->
                   [n \in A |-> CopyPair(n, pairs[j], included[j], copied_vals[j])]]
<1>1. N \in Nat /\ Mapping(<<>>) \in A
  BY LenProperties, EmptyMapping
<1>2. \A n \in A, j \in 1 .. N : CopyPair(n, pairs[j], included[j], copied_vals[j]) \in A
  BY CopyPairFacts DEF PairsFit
<1>3. \A n \in A, j \in 1 .. N : g[j][n] = CopyPair(n, pairs[j], included[j], copied_vals[j])
  OBVIOUS
<1>4. g \in [1 .. N -> [A -> A]]
  BY <1>2
<1> HIDE DEF g
<1>5. PICK f : IsRounds(f, g, N, A, Mapping(<<>>))
  <2> HIDE DEF N, A
  <2>1. IsRound(g, N, A)
    BY <1>4 DEF IsRound
  <2> QED
    BY <1>1, <2>1, RoundsExist
<1>6. f \in [0 .. N -> A] /\ f[0] = Mapping(<<>>) /\ \A j \in 1 .. N : f[j] = g[j][f[j - 1]]
  BY <1>5 DEF IsRounds
<1>7. ASSUME NEW j \in 0 .. N
      PROVE  f[j] = IF j = 0 THEN Mapping(<<>>)
                    ELSE CopyPair(f[j - 1], pairs[j], included[j], copied_vals[j])
  <2>1. CASE j = 0
    BY <1>6, <2>1
  <2>2. CASE j # 0
    <3>1. j \in 1 .. N /\ f[j - 1] \in A
      BY <1>1, <1>6, <2>2
    <3> QED
      BY <1>3, <1>6, <2>2, <3>1
  <2> QED
    BY <2>1, <2>2
<1>8. IsCopied(f, pairs, included, copied_vals)
  BY <1>6, <1>7 DEF IsCopied
<1> QED
  BY <1>8 DEF Copied

(* After m pairs: the last include that gives the key, or else the pair    *)
(* that has it.                                                            *)
CopiedUpTo(r, pairs, included, copied_vals, m, P) ==
  /\ r \in UniqueMappings(P)
  /\ \A k : HasKey(r, k) <=>
              \E j \in 1 .. m : \/ Gives(included[j], k)
                                \/ Keeps(pairs[j], included[j], copied_vals[j], k)
  /\ \A k : \A j \in 1 .. m :
       Gives(included[j], k) /\ (\A h \in 1 .. m : Gives(included[h], k) => h <= j)
         => Lookup(r, k) = Lookup(included[j], k)
  /\ \A k : \A j \in 1 .. m :
       /\ Keeps(pairs[j], included[j], copied_vals[j], k)
       /\ \A h \in 1 .. m : ~Gives(included[h], k)
       /\ \A h \in 1 .. m : Keeps(pairs[h], included[h], copied_vals[h], k) => h = j
       => Lookup(r, k) = copied_vals[j]

(* One more pair keeps what CopiedUpTo says.                               *)
LEMMA CopiedNext ==
  ASSUME NEW P, NEW pairs, NEW included, NEW copied_vals, NEW m \in Nat, NEW r,
         CopiedUpTo(r, pairs, included, copied_vals, m, P),
         PairFits(pairs[m + 1], included[m + 1], copied_vals[m + 1], P)
  PROVE  CopiedUpTo(CopyPair(r, pairs[m + 1], included[m + 1], copied_vals[m + 1]),
                    pairs, included, copied_vals, m + 1, P)
<1> DEFINE s == CopyPair(r, pairs[m + 1], included[m + 1], copied_vals[m + 1])
           G(j, k) == Gives(included[j], k)
           K(j, k) == Keeps(pairs[j], included[j], copied_vals[j], k)
<1>1. /\ s \in UniqueMappings(P)
      /\ \A k : HasKey(s, k) <=> HasKey(r, k) \/ G(m + 1, k) \/ K(m + 1, k)
      /\ \A k : Lookup(s, k) = IF G(m + 1, k) THEN Lookup(included[m + 1], k)
                               ELSE IF HasKey(r, k) THEN Lookup(r, k)
                               ELSE IF K(m + 1, k) THEN copied_vals[m + 1] ELSE NoNode
  BY CopyPairFacts DEF CopiedUpTo
<1>2. /\ \A k : HasKey(r, k) <=> \E j \in 1 .. m : G(j, k) \/ K(j, k)
      /\ \A k : \A j \in 1 .. m :
           G(j, k) /\ (\A h \in 1 .. m : G(h, k) => h <= j) => Lookup(r, k) = Lookup(included[j], k)
      /\ \A k : \A j \in 1 .. m :
           /\ K(j, k)
           /\ \A h \in 1 .. m : ~G(h, k)
           /\ \A h \in 1 .. m : K(h, k) => h = j
           => Lookup(r, k) = copied_vals[j]
  BY DEF CopiedUpTo
<1>3. /\ \A j \in 1 .. m + 1 : j = m + 1 \/ j \in 1 .. m
      /\ \A j \in 1 .. m : j \in 1 .. m + 1 /\ ~(m + 1 <= j) /\ j # m + 1
      /\ m + 1 \in 1 .. m + 1
  OBVIOUS
<1> HIDE DEF s, G, K
<1>4. \A k : HasKey(s, k) <=> \E j \in 1 .. m + 1 : G(j, k) \/ K(j, k)
  BY <1>1, <1>2, <1>3
<1>5. ASSUME NEW k, NEW j \in 1 .. m + 1, G(j, k), \A h \in 1 .. m + 1 : G(h, k) => h <= j
      PROVE  Lookup(s, k) = Lookup(included[j], k)
  <2>1. CASE j = m + 1
    BY <1>1, <1>5, <2>1
  <2>2. CASE j \in 1 .. m
    <3>1. ~G(m + 1, k) /\ HasKey(r, k) /\ Lookup(r, k) = Lookup(included[j], k)
      BY <1>2, <1>3, <1>5, <2>2
    <3> QED
      BY <1>1, <3>1
  <2> QED
    BY <1>3, <2>1, <2>2
<1>6. ASSUME NEW k, NEW j \in 1 .. m + 1, K(j, k), \A h \in 1 .. m + 1 : ~G(h, k),
             \A h \in 1 .. m + 1 : K(h, k) => h = j
      PROVE  Lookup(s, k) = copied_vals[j]
  <2>1. CASE j = m + 1
    <3>1. ~HasKey(r, k) /\ ~G(m + 1, k)
      BY <1>2, <1>3, <1>6, <2>1
    <3> QED
      BY <1>1, <1>6, <2>1, <3>1
  <2>2. CASE j \in 1 .. m
    <3>1. ~G(m + 1, k) /\ HasKey(r, k) /\ Lookup(r, k) = copied_vals[j]
      BY <1>2, <1>3, <1>6, <2>2
    <3> QED
      BY <1>1, <3>1
  <2> QED
    BY <1>3, <2>1, <2>2
<1> QED
  BY <1>1, <1>4, <1>5, <1>6 DEF CopiedUpTo, s, G, K

(* The copy of a mapping: the last include that gives a key prevails, and  *)
(* a pair is kept whose key no include gives.                              *)
LEMMA CopyPairsFacts ==
  ASSUME NEW P, NEW X, NEW pairs \in Seq(X), NEW included, NEW copied_vals,
         PairsFit(pairs, included, copied_vals, P)
  PROVE  CopiedUpTo(CopyPairs(pairs, included, copied_vals),
                    pairs, included, copied_vals, Len(pairs), P)
<1> DEFINE N == Len(pairs)
           f == Copied(pairs, included, copied_vals)
           T == {m \in Nat : m <= N => CopiedUpTo(f[m], pairs, included, copied_vals, m, P)}
<1>1. N \in Nat
  BY LenProperties
<1>2. f = [j \in 0 .. N |-> IF j = 0 THEN Mapping(<<>>)
                            ELSE CopyPair(f[j - 1], pairs[j], included[j], copied_vals[j])]
  BY CopiedRounds DEF IsCopied
<1>3. CopyPairs(pairs, included, copied_vals) = f[N]
  BY DEF CopyPairs, Copied, IsCopied
<1> HIDE DEF f
<1>4. 0 \in T
  <2>1. f[0] = Mapping(<<>>)
    BY <1>1, <1>2
  <2> QED
    BY <2>1, EmptyMapping DEF CopiedUpTo
<1>5. ASSUME NEW m \in Nat, m \in T PROVE m + 1 \in T
  <2> SUFFICES ASSUME m + 1 <= N
               PROVE  CopiedUpTo(f[m + 1], pairs, included, copied_vals, m + 1, P)
    OBVIOUS
  <2>1. m <= N /\ m + 1 \in 0 .. N /\ m + 1 # 0 /\ (m + 1) - 1 = m /\ m + 1 \in 1 .. N
    BY <1>1
  <2>2. CopiedUpTo(f[m], pairs, included, copied_vals, m, P)
    BY <1>5, <2>1
  <2>3. f[m + 1] = CopyPair(f[m], pairs[m + 1], included[m + 1], copied_vals[m + 1])
    BY <1>2, <2>1
  <2>4. PairFits(pairs[m + 1], included[m + 1], copied_vals[m + 1], P)
    BY <2>1 DEF PairsFit
  <2> QED
    BY <2>2, <2>3, <2>4, CopiedNext
<1>6. N \in T
  <2> HIDE DEF T
  <2> QED
    BY <1>1, <1>4, <1>5, SetInduction
<1> QED
  BY <1>1, <1>3, <1>6

(* A function on 1 .. n is a sequence of n values.                         *)
LEMMA FunctionSeq ==
  ASSUME NEW S, NEW n \in Nat, NEW s \in [1 .. n -> S]
  PROVE  s \in Seq(S) /\ Len(s) = n
<1>1. s \in Seq(S)
  BY SeqDef
<1>2. Len(s) \in Nat /\ DOMAIN s = 1 .. Len(s)
  BY <1>1, LenProperties
<1> QED
  BY <1>1, <1>2

(* The copies after each round of the loop over entries.                   *)
IsAppended(f, entries) ==
  f = [j \in 0 .. Len(entries) |-> IF j = 0 THEN <<>> ELSE SequenceAppend(f[j - 1], entries[j])]
Appended(entries) == CHOOSE f : IsAppended(f, entries)

(* There are such copies, and one more entry makes each longer or leaves   *)
(* it.                                                                     *)
LEMMA AppendedRounds ==
  ASSUME NEW S, NEW entries \in Seq(S \cup {NoNode})
  PROVE  IsAppended(Appended(entries), entries)
<1> DEFINE N == Len(entries)
           e == <<>>
           g == [j \in 1 .. N |-> [s \in Seq(S) |-> SequenceAppend(s, entries[j])]]
<1>1. N \in Nat /\ \A j \in 1 .. N : entries[j] \in S \cup {NoNode}
  BY LenProperties, ElementOfSeq
<1>2. e \in Seq(S)
  BY EmptySeq
<1>3. ASSUME NEW s \in Seq(S), NEW j \in 1 .. N PROVE SequenceAppend(s, entries[j]) \in Seq(S)
  <2>1. CASE IsNode(entries[j])
    <3>1. entries[j] \in S
      BY <1>1, <2>1 DEF IsNode
    <3> QED
      BY <2>1, <3>1, AppendProperties DEF SequenceAppend
  <2>2. CASE ~IsNode(entries[j])
    BY <2>2 DEF SequenceAppend
  <2> QED
    BY <2>1, <2>2
<1>4. \A s \in Seq(S), j \in 1 .. N : g[j][s] = SequenceAppend(s, entries[j])
  OBVIOUS
<1>5. g \in [1 .. N -> [Seq(S) -> Seq(S)]]
  BY <1>3
<1> HIDE DEF g, e, N
<1>6. PICK f : IsRounds(f, g, N, Seq(S), e)
  <2>1. IsRound(g, N, Seq(S))
    BY <1>5 DEF IsRound
  <2> QED
    BY <1>1, <1>2, <2>1, RoundsExist
<1>7. f \in [0 .. N -> Seq(S)] /\ f[0] = e /\ \A j \in 1 .. N : f[j] = g[j][f[j - 1]]
  BY <1>6 DEF IsRounds
<1>8. ASSUME NEW j \in 0 .. N
      PROVE  f[j] = IF j = 0 THEN e ELSE SequenceAppend(f[j - 1], entries[j])
  <2>1. CASE j = 0
    BY <1>7, <2>1
  <2>2. CASE j # 0
    <3>1. j \in 1 .. N /\ f[j - 1] \in Seq(S)
      BY <1>1, <1>7, <2>2
    <3> QED
      BY <1>4, <1>7, <2>2, <3>1
  <2> QED
    BY <2>1, <2>2
<1>9. IsAppended(f, entries)
  BY <1>7, <1>8 DEF IsAppended, e, N
<1> QED
  BY <1>9 DEF Appended

(* The copy of a sequence holds its copied entries, all of them when there *)
(* is one of each.                                                         *)
LEMMA CopyEntriesFacts ==
  ASSUME NEW S, NEW entries \in Seq(S \cup {NoNode})
  PROVE  \E items \in Seq(S) :
           /\ CopyEntries(entries) = Items(items)
           /\ (\A j \in 1 .. Len(entries) : IsNode(entries[j])) => items = entries
<1> DEFINE N == Len(entries)
           e == <<>>
           f == Appended(entries)
           All == \A j \in 1 .. N : IsNode(entries[j])
           T == {m \in Nat : m <= N => /\ f[m] \in Seq(S)
                                       /\ All => /\ Len(f[m]) = m
                                                 /\ \A i \in 1 .. m : f[m][i] = entries[i]}
<1>1. N \in Nat /\ \A j \in 1 .. N : entries[j] \in S \cup {NoNode}
  BY LenProperties, ElementOfSeq
<1>2. e \in Seq(S) /\ Len(e) = 0
  BY EmptySeq
<1>3. f = [j \in 0 .. N |-> IF j = 0 THEN e ELSE SequenceAppend(f[j - 1], entries[j])]
  BY AppendedRounds DEF IsAppended
<1>4. CopyEntries(entries) = Items(f[N])
  BY DEF CopyEntries, Appended, IsAppended
<1> HIDE DEF f, e, N
<1>5. 0 \in T
  <2>1. f[0] = e
    BY <1>1, <1>3
  <2>2. f[0] \in Seq(S) /\ Len(f[0]) = 0 /\ 1 .. 0 = {}
    BY <1>2, <2>1
  <2> QED
    BY <2>2
<1>6. ASSUME NEW m \in Nat, m \in T PROVE m + 1 \in T
  <2> SUFFICES ASSUME m + 1 <= N
               PROVE  /\ f[m + 1] \in Seq(S)
                      /\ All => /\ Len(f[m + 1]) = m + 1
                                /\ \A i \in 1 .. m + 1 : f[m + 1][i] = entries[i]
    OBVIOUS
  <2>1. m <= N /\ m + 1 \in 0 .. N /\ m + 1 # 0 /\ (m + 1) - 1 = m /\ m + 1 \in 1 .. N
    BY <1>1
  <2>2. f[m] \in Seq(S) /\ (All => Len(f[m]) = m /\ \A i \in 1 .. m : f[m][i] = entries[i])
    BY <1>6, <2>1
  <2>3. f[m + 1] = SequenceAppend(f[m], entries[m + 1])
    BY <1>3, <2>1
  <2>4. CASE IsNode(entries[m + 1])
    <3>1. f[m + 1] = Append(f[m], entries[m + 1]) /\ entries[m + 1] \in S
      BY <1>1, <2>1, <2>3, <2>4 DEF SequenceAppend, IsNode
    <3>2. /\ f[m + 1] \in Seq(S) /\ Len(f[m + 1]) = Len(f[m]) + 1
          /\ \A i \in 1 .. Len(f[m]) : f[m + 1][i] = f[m][i]
          /\ f[m + 1][Len(f[m]) + 1] = entries[m + 1]
      BY <2>2, <3>1, AppendProperties
    <3>3. \A i \in 1 .. m + 1 : i = m + 1 \/ i \in 1 .. m
      OBVIOUS
    <3> QED
      BY <2>2, <3>2, <3>3
  <2>5. CASE ~IsNode(entries[m + 1])
    BY <2>1, <2>2, <2>3, <2>5 DEF SequenceAppend
  <2> QED
    BY <2>4, <2>5
<1>7. N \in T
  <2> HIDE DEF T
  <2> QED
    BY <1>1, <1>5, <1>6, SetInduction
<1>8. /\ f[N] \in Seq(S)
      /\ All => Len(f[N]) = N /\ \A i \in 1 .. N : f[N][i] = entries[i]
  BY <1>1, <1>7
<1>9. All => f[N] = entries
  <2> SUFFICES ASSUME All PROVE f[N] = entries
    OBVIOUS
  <2>1. f[N] \in Seq(S \cup {NoNode})
    BY <1>8, SeqMonotonic
  <2> QED
    BY <1>8, <2>1, SeqEqual DEF N
<1> QED
  BY <1>4, <1>8, <1>9 DEF N

(* A mapping without includes, whose values copy to themselves, copies to  *)
(* itself.                                                                 *)
LEMMA CopyPairsSame ==
  ASSUME NEW S, NoNode \notin S, NEW n \in UniqueMappings(PairSet(S)),
         NEW included, NEW copied_vals,
         \A j \in 1 .. Len(n.pairs) : included[j] = NoNode /\ copied_vals[j] = n.pairs[j].value
  PROVE  CopyPairs(n.pairs, included, copied_vals) = n
<1> DEFINE P == PairSet(S)
           N == Len(n.pairs)
           f == Copied(n.pairs, included, copied_vals)
           T == {m \in Nat : m <= N => /\ f[m] \in UniqueMappings(P)
                                       /\ Len(f[m].pairs) = m
                                       /\ \A i \in 1 .. m : f[m].pairs[i] = n.pairs[i]}
<1>1. /\ n.pairs \in Seq(P) /\ N \in Nat /\ DOMAIN n.pairs = 1 .. N
      /\ \A j \in 1 .. N : n.pairs[j] \in P
      /\ Unique(n) /\ n = [kind |-> "mapping", pairs |-> n.pairs]
  BY LenProperties, ElementOfSeq DEF UniqueMappings, Mappings
<1>2. \A j \in 1 .. N : /\ IsNode(n.pairs[j].value)
                        /\ Pair(n.pairs[j].key, n.pairs[j].value) = n.pairs[j]
  BY <1>1 DEF PairSet, Pair, IsNode
<1>3. PairsFit(n.pairs, included, copied_vals, P)
  BY <1>1, <1>2 DEF PairsFit, PairFits, IsNode
<1>4. f = [j \in 0 .. N |-> IF j = 0 THEN Mapping(<<>>)
                            ELSE CopyPair(f[j - 1], n.pairs[j], included[j], copied_vals[j])]
  <2>1. n.pairs \in Seq(P)
    BY <1>1
  <2> HIDE DEF P
  <2>2. IsCopied(f, n.pairs, included, copied_vals)
    BY <1>3, <2>1, CopiedRounds
  <2> QED
    BY <2>2 DEF IsCopied
<1>5. CopyPairs(n.pairs, included, copied_vals) = f[N]
  BY DEF CopyPairs, Copied, IsCopied
<1> HIDE DEF f, N, P
<1>6. 0 \in T
  <2> DEFINE e == <<>>
  <2>1. f[0] = Mapping(e)
    BY <1>1, <1>4
  <2>2. Len(e) = 0
    BY EmptySeq
  <2>3. Mapping(e) \in UniqueMappings(P)
    BY EmptyMapping
  <2> HIDE DEF e
  <2>4. Mapping(e).pairs = e
    BY DEF Mapping
  <2> QED
    BY <2>1, <2>2, <2>3, <2>4
<1>7. ASSUME NEW m \in Nat, m \in T PROVE m + 1 \in T
  <2> SUFFICES ASSUME m + 1 <= N
               PROVE  /\ f[m + 1] \in UniqueMappings(P)
                      /\ Len(f[m + 1].pairs) = m + 1
                      /\ \A i \in 1 .. m + 1 : f[m + 1].pairs[i] = n.pairs[i]
    OBVIOUS
  <2> DEFINE p == n.pairs[m + 1]
  <2>1. m <= N /\ m + 1 \in 0 .. N /\ m + 1 # 0 /\ (m + 1) - 1 = m /\ m + 1 \in 1 .. N
    BY <1>1
  <2>2. /\ f[m] \in UniqueMappings(P) /\ Len(f[m].pairs) = m
        /\ \A i \in 1 .. m : f[m].pairs[i] = n.pairs[i]
    BY <1>7, <2>1
  <2>3. f[m].pairs \in Seq(P) /\ DOMAIN f[m].pairs = 1 .. m
    BY <2>2, LenProperties DEF UniqueMappings, Mappings
  <2>4. ~HasKey(f[m], p.key)
    <3> SUFFICES ASSUME NEW i \in 1 .. m, f[m].pairs[i].key = p.key PROVE FALSE
      BY <2>3 DEF HasKey
    <3>1. n.pairs[i].key = p.key /\ i \in 1 .. N /\ i # m + 1
      BY <1>1, <2>1, <2>2
    <3> QED
      BY <1>1, <2>1, <3>1 DEF Unique
  <2>5. f[m + 1] = CopyPair(f[m], p, NoNode, p.value)
    BY <1>4, <2>1 DEF N
  <2>6. f[m + 1] = MappingAppend(f[m], p) /\ p \in P
    BY <1>1, <1>2, <2>1, <2>5 DEF CopyPair, IsNode
  <2>7. f[m + 1].pairs = Append(f[m].pairs, p)
    BY <2>4, <2>6 DEF MappingAppend, Mapping
  <2>8. Pair(p.key, p.value) = p
    BY <1>2, <2>1
  <2>9. f[m + 1] \in UniqueMappings(P)
    BY <2>2, <2>6, <2>8, MappingAppendFacts
  <2>10. /\ Len(f[m + 1].pairs) = m + 1 /\ f[m + 1].pairs[m + 1] = p
         /\ \A i \in 1 .. m : f[m + 1].pairs[i] = f[m].pairs[i]
    BY <2>2, <2>3, <2>6, <2>7, AppendProperties
  <2>11. \A i \in 1 .. m + 1 : i = m + 1 \/ i \in 1 .. m
    OBVIOUS
  <2> QED
    BY <2>2, <2>9, <2>10, <2>11
<1>8. N \in T
  <2> HIDE DEF T
  <2> QED
    BY <1>1, <1>6, <1>7, SetInduction
<1>9. /\ f[N] \in UniqueMappings(P) /\ Len(f[N].pairs) = N
      /\ \A i \in 1 .. N : f[N].pairs[i] = n.pairs[i]
  BY <1>1, <1>8
<1>10. f[N].pairs \in Seq(P) /\ f[N] = [kind |-> "mapping", pairs |-> f[N].pairs]
  BY <1>9 DEF UniqueMappings, Mappings
<1>11. f[N].pairs = n.pairs
  BY <1>1, <1>9, <1>10, SeqEqual DEF N
<1> QED
  BY <1>1, <1>5, <1>10, <1>11

-----------------------------------------------------------------------------
(* The recursion into nodes.                                               *)

IsCopy(c, Included, Recopied) ==
  c = [n \in Tree \cup {NoNode} |-> CopyOf(n, c, Included, Recopied)]

(* A node of any depth is a leaf, or holds nodes of the depth below.       *)
LEMMA TreeIs ==
  /\ Height \in Nat /\ Tree = Nested[Height]
  /\ \A h \in 0 .. Height : Nested[h] \subseteq Tree
  /\ \A h \in 0 .. Height : \A n \in Nested[h] :
       n \in Leaf \/ (h \in 1 .. Height /\ h - 1 \in 0 .. Height /\ n \in NodesOver(Nested[h - 1]))
<1>1. Height \in Nat
  BY HeightIs
<1>2. Height \in 0 .. Height
  BY <1>1
<1>3. ASSUME NEW h \in 0 .. Height, NEW n \in Nested[h]
      PROVE  n \in Leaf \/ (h \in 1 .. Height /\ h - 1 \in 0 .. Height /\ n \in NodesOver(Nested[h - 1]))
  <2>1. CASE h = 0
    BY <1>3, <2>1, NestedIs
  <2>2. CASE h # 0
    <3>1. h \in 1 .. Height /\ h - 1 \in 0 .. Height
      BY <1>1, <2>2
    <3> QED
      BY <1>3, <3>1, NestedIs
  <2> QED
    BY <2>1, <2>2
<1>4. ASSUME NEW h \in 0 .. Height PROVE Nested[h] \subseteq Nested[Height]
  BY <1>1, <1>2, NestedGrows
<1> QED
  BY <1>1, <1>3, <1>4 DEF Tree

(* NULL is not a node of any depth.                                        *)
LEMMA NoNodeIs == NoNode.kind = "none" /\ \A h \in 0 .. Height : NoNode \notin Nested[h]
<1>1. NoNode.kind = "none"
  BY DEF NoNode
<1>2. ASSUME NEW h \in 0 .. Height, NEW n \in Nested[h] PROVE n.kind # "none"
  <2>1. CASE n \in Leaf
    BY <2>1, LeafShape
  <2>2. CASE n \in NodesOver(Nested[h - 1])
    <3>1. n \in Leaf \/ n.kind = "mapping" \/ n.kind = "sequence"
      BY <2>2, Shape
    <3> QED
      BY <3>1, LeafShape
  <2> QED
    BY <1>2, <2>1, <2>2, TreeIs
<1> QED
  BY <1>1, <1>2

(* Only the copies of its children count.                                  *)
LEMMA CopyOfSame ==
  ASSUME NEW h \in 0 .. Height, NEW n \in Nested[h], NEW c, NEW e, NEW Included, NEW Recopied,
         h # 0 => \A m \in Nested[h - 1] : c[m] = e[m]
  PROVE  CopyOf(n, c, Included, Recopied) = CopyOf(n, e, Included, Recopied)
<1>1. CASE n \in Leaf
  <2>1. n.kind = "scalar" \/ n.kind = "tagged"
    BY <1>1, LeafShape
  <2> QED
    BY <2>1 DEF CopyOf
<1>2. CASE h # 0 /\ n \in NodesOver(Nested[h - 1])
  <2>1. CASE n.kind = "mapping" /\ \A j \in 1 .. Len(n.pairs) : n.pairs[j] \in PairSet(Nested[h - 1])
    <3>1. \A j \in 1 .. Len(n.pairs) : c[n.pairs[j].value] = e[n.pairs[j].value]
      BY <1>2, <2>1 DEF PairSet
    <3>2. PairCopies(n, c) = PairCopies(n, e)
      BY <3>1 DEF PairCopies
    <3> QED
      BY <2>1, <3>2 DEF CopyOf
  <2>2. CASE n.kind = "sequence" /\ \A j \in 1 .. Len(n.items) : n.items[j] \in Nested[h - 1]
    <3>1. \A j \in 1 .. Len(n.items) : c[n.items[j]] = e[n.items[j]]
      BY <1>2, <2>2
    <3>2. \A j \in 1 .. Len(n.items) :
             CopyEntry(n.items[j], Recopied, c[n.items[j]]) = CopyEntry(n.items[j], Recopied, e[n.items[j]])
      BY <3>1
    <3>3. EntryCopies(n, c, Recopied) = EntryCopies(n, e, Recopied)
      BY <3>2 DEF EntryCopies
    <3> QED
      BY <2>2, <3>3 DEF CopyOf
  <2> QED
    BY <1>1, <1>2, <2>1, <2>2, Shape
<1> QED
  BY <1>1, <1>2, TreeIs

(* There is a function that copies every node by the copies of its         *)
(* children.                                                               *)
LEMMA CopyExists ==
  ASSUME NEW Included, NEW Recopied
  PROVE  IsCopy(CopyNode(Included, Recopied), Included, Recopied)
<1> DEFINE Upto(c, h) == c = [n \in Nested[h] \cup {NoNode} |-> CopyOf(n, c, Included, Recopied)]
           T == {h \in Nat : h <= Height => \E c : Upto(c, h)}
<1>1. Height \in Nat
  BY HeightIs
<1>2. ASSUME NEW h \in 0 .. Height, NEW c,
             h # 0 => \A m \in Nested[h - 1] : c[m] = CopyOf(m, c, Included, Recopied)
      PROVE  \E e : Upto(e, h)
  <2> DEFINE e == [n \in Nested[h] \cup {NoNode} |-> CopyOf(n, c, Included, Recopied)]
  <2>1. \A n \in Nested[h] \cup {NoNode} : e[n] = CopyOf(n, c, Included, Recopied)
    OBVIOUS
  <2>2. DOMAIN e = Nested[h] \cup {NoNode} /\ e = [n \in DOMAIN e |-> e[n]]
    OBVIOUS
  <2> HIDE DEF e
  <2>3. h # 0 => \A m \in Nested[h - 1] : c[m] = e[m]
    <3> SUFFICES ASSUME h # 0, NEW m \in Nested[h - 1] PROVE c[m] = e[m]
      OBVIOUS
    <3>1. h - 1 \in 0 .. Height /\ h - 1 <= h
      BY <1>1
    <3>2. m \in Nested[h]
      BY <3>1, NestedGrows
    <3> QED
      BY <1>2, <2>1, <3>2
  <2>4. ASSUME NEW n \in Nested[h] \cup {NoNode}
        PROVE  e[n] = CopyOf(n, e, Included, Recopied)
    <3>1. CASE n \in Nested[h]
      BY <2>1, <2>3, <3>1, CopyOfSame
    <3>2. CASE n = NoNode
      BY <2>1, <3>2, NoNodeIs DEF CopyOf
    <3> QED
      BY <3>1, <3>2
  <2>5. e = [n \in Nested[h] \cup {NoNode} |-> CopyOf(n, e, Included, Recopied)]
    BY <2>2, <2>4
  <2> QED
    BY <2>5
<1>3. 0 \in T
  <2>1. 0 \in 0 .. Height
    BY <1>1
  <2> HIDE DEF Upto
  <2> QED
    BY <1>2, <2>1
<1>4. ASSUME NEW h \in Nat, h \in T PROVE h + 1 \in T
  <2> HIDE DEF Upto
  <2> SUFFICES ASSUME h + 1 <= Height PROVE \E e : Upto(e, h + 1)
    OBVIOUS
  <2>1. h <= Height /\ h + 1 \in 0 .. Height /\ (h + 1) - 1 = h
    BY <1>1
  <2>2. PICK c : Upto(c, h)
    BY <1>4, <2>1
  <2>3. \A m \in Nested[h] : c[m] = CopyOf(m, c, Included, Recopied)
    BY <2>2 DEF Upto
  <2> QED
    BY <1>2, <2>1, <2>3
<1>5. Height \in T
  <2> HIDE DEF T
  <2> QED
    BY <1>1, <1>3, <1>4, SetInduction
<1>6. PICK c : Upto(c, Height)
  BY <1>1, <1>5
<1>7. IsCopy(c, Included, Recopied)
  BY <1>6, TreeIs DEF IsCopy
<1>8. CopyNode(Included, Recopied) = CHOOSE e : IsCopy(e, Included, Recopied)
  BY DEF CopyNode, IsCopy
<1> QED
  BY <1>7, <1>8

(* The copy of each kind of node.                                          *)
LEMMA CopyNodeIs ==
  ASSUME NEW Included, NEW Recopied
  PROVE  LET c == CopyNode(Included, Recopied)
         IN /\ c[NoNode] = NoNode
            /\ \A n \in Tree :
                 /\ n.kind = "scalar" => c[n] = n
                 /\ n.kind = "tagged" => c[n] = Recopied[n.value]
                 /\ n.kind = "sequence" => c[n] = CopyEntries(EntryCopies(n, c, Recopied))
                 /\ n.kind = "mapping" =>
                      c[n] = CopyPairs(n.pairs, PairIncludes(n, Included), PairCopies(n, c))
<1> DEFINE c == CopyNode(Included, Recopied)
<1>1. c = [n \in Tree \cup {NoNode} |-> CopyOf(n, c, Included, Recopied)]
  BY CopyExists DEF IsCopy
<1> HIDE DEF c
<1>2. \A n \in Tree \cup {NoNode} : c[n] = CopyOf(n, c, Included, Recopied)
  BY <1>1
<1>3. c[NoNode] = NoNode
  BY <1>2, NoNodeIs DEF CopyOf
<1>4. ASSUME NEW n \in Tree
      PROVE  /\ n.kind = "scalar" => c[n] = n
             /\ n.kind = "tagged" => c[n] = Recopied[n.value]
             /\ n.kind = "sequence" => c[n] = CopyEntries(EntryCopies(n, c, Recopied))
             /\ n.kind = "mapping" =>
                  c[n] = CopyPairs(n.pairs, PairIncludes(n, Included), PairCopies(n, c))
  BY <1>2 DEF CopyOf
<1> QED
  BY <1>3, <1>4 DEF c

(* A leaf has no children; those of a node are nested one level less deep. *)
LEMMA ChildrenIs ==
  /\ Children(NoNode) = {}
  /\ \A n \in Leaf : Children(n) = {}
  /\ \A h \in 0 .. Height : \A n \in Nested[h] : \A c \in Children(n) :
       h \in 1 .. Height /\ h - 1 \in 0 .. Height /\ c \in Nested[h - 1]
<1>1. Children(NoNode) = {}
  BY NoNodeIs DEF Children, IsMapping, IsSequence
<1>2. ASSUME NEW n \in Leaf PROVE Children(n) = {}
  BY LeafShape DEF Children, IsMapping, IsSequence
<1>3. ASSUME NEW h \in 0 .. Height, NEW n \in Nested[h], NEW c \in Children(n)
      PROVE  h \in 1 .. Height /\ h - 1 \in 0 .. Height /\ c \in Nested[h - 1]
  <2>1. h \in 1 .. Height /\ h - 1 \in 0 .. Height /\ n \in NodesOver(Nested[h - 1]) /\ n \notin Leaf
    BY <1>2, <1>3, TreeIs
  <2>2. CASE /\ n.kind = "mapping" /\ DOMAIN n.pairs = 1 .. Len(n.pairs)
             /\ \A j \in 1 .. Len(n.pairs) : n.pairs[j] \in PairSet(Nested[h - 1])
    <3>1. PICK j \in DOMAIN n.pairs : c = n.pairs[j].value
      BY <1>3, <2>2 DEF Children, IsMapping
    <3> QED
      BY <2>1, <2>2, <3>1 DEF PairSet
  <2>3. CASE /\ n.kind = "sequence" /\ DOMAIN n.items = 1 .. Len(n.items)
             /\ \A j \in 1 .. Len(n.items) : n.items[j] \in Nested[h - 1]
    <3>1. PICK j \in DOMAIN n.items : c = n.items[j]
      BY <1>3, <2>3 DEF Children, IsMapping, IsSequence
    <3> QED
      BY <2>1, <2>3, <3>1
  <2> QED
    BY <2>1, <2>2, <2>3, Shape
<1> QED
  BY <1>1, <1>2, <1>3

BelowOf(b, m) == {m} \cup UNION {b[c] : c \in Children(m)}
IsBelow(b) == b = [m \in Tree \cup {NoNode} |-> BelowOf(b, m)]

LEMMA BelowSame ==
  ASSUME NEW m, NEW b, NEW e, \A c \in Children(m) : b[c] = e[c]
  PROVE  BelowOf(b, m) = BelowOf(e, m)
BY DEF BelowOf

(* There is a function that collects the nodes below each node.            *)
LEMMA BelowExists == \E b : IsBelow(b) /\ \A n : Nodes(n) = b[n]
<1> DEFINE Upto(b, h) == b = [n \in Nested[h] \cup {NoNode} |-> BelowOf(b, n)]
           T == {h \in Nat : h <= Height => \E b : Upto(b, h)}
<1>1. Height \in Nat
  BY HeightIs
<1>2. ASSUME NEW h \in 0 .. Height, NEW b,
             h # 0 => \A m \in Nested[h - 1] : b[m] = BelowOf(b, m)
      PROVE  \E e : Upto(e, h)
  <2> DEFINE e == [n \in Nested[h] \cup {NoNode} |-> BelowOf(b, n)]
  <2>1. \A n \in Nested[h] \cup {NoNode} : e[n] = BelowOf(b, n)
    OBVIOUS
  <2>2. DOMAIN e = Nested[h] \cup {NoNode} /\ e = [n \in DOMAIN e |-> e[n]]
    OBVIOUS
  <2> HIDE DEF e
  <2>3. ASSUME NEW n \in Nested[h] \cup {NoNode}, NEW c \in Children(n)
        PROVE  b[c] = e[c]
    <3>1. h \in 1 .. Height /\ h - 1 \in 0 .. Height /\ c \in Nested[h - 1]
      BY <2>3, ChildrenIs
    <3>2. h # 0 /\ h - 1 <= h
      BY <1>1, <3>1
    <3>3. c \in Nested[h]
      BY <3>1, <3>2, NestedGrows
    <3> QED
      BY <1>2, <2>1, <3>1, <3>2, <3>3
  <2>4. \A n \in Nested[h] \cup {NoNode} : e[n] = BelowOf(e, n)
    BY <2>1, <2>3, BelowSame
  <2>5. e = [n \in Nested[h] \cup {NoNode} |-> BelowOf(e, n)]
    BY <2>2, <2>4
  <2> QED
    BY <2>5
<1>3. 0 \in T
  <2>1. 0 \in 0 .. Height
    BY <1>1
  <2> HIDE DEF Upto
  <2> QED
    BY <1>2, <2>1
<1>4. ASSUME NEW h \in Nat, h \in T PROVE h + 1 \in T
  <2> HIDE DEF Upto
  <2> SUFFICES ASSUME h + 1 <= Height PROVE \E e : Upto(e, h + 1)
    OBVIOUS
  <2>1. h <= Height /\ h + 1 \in 0 .. Height /\ (h + 1) - 1 = h
    BY <1>1
  <2>2. PICK b : Upto(b, h)
    BY <1>4, <2>1
  <2>3. \A m \in Nested[h] : b[m] = BelowOf(b, m)
    BY <2>2 DEF Upto
  <2> QED
    BY <1>2, <2>1, <2>3
<1>5. Height \in T
  <2> HIDE DEF T
  <2> QED
    BY <1>1, <1>3, <1>4, SetInduction
<1>6. PICK c : Upto(c, Height)
  BY <1>1, <1>5
<1>7. IsBelow(c)
  BY <1>6, TreeIs DEF IsBelow
<1>8. \A n : Nodes(n) = (CHOOSE b : IsBelow(b))[n]
  BY DEF Nodes, IsBelow, BelowOf
<1> QED
  BY <1>7, <1>8

(* A node and the nodes below its children.                                *)
LEMMA NodesIs ==
  \A n \in Tree \cup {NoNode} : Nodes(n) = {n} \cup UNION {Nodes(c) : c \in Children(n)}
<1>1. PICK b : IsBelow(b) /\ \A n : Nodes(n) = b[n]
  BY BelowExists
<1>2. \A n \in Tree \cup {NoNode} : b[n] = BelowOf(b, n)
  BY <1>1 DEF IsBelow
<1> QED
  BY <1>1, <1>2 DEF BelowOf

-----------------------------------------------------------------------------
(* Nodes without tags, with keys of Z alone, and with no scalar under a    *)
(* key of K.                                                               *)
Fits(n, K, Z) ==
  /\ n.kind # "tagged"
  /\ IsMapping(n) => \A j \in DOMAIN n.pairs :
                       /\ n.pairs[j].key \in Z
                       /\ n.pairs[j].key \in K => ~IsScalar(n.pairs[j].value)
Good(h, K, Z) == {n \in Nested[h] : \A m \in Nodes(n) : Fits(m, K, Z)}
GoodPairs(h, K, Z) ==
  {p \in PairSet(Good(h, K, Z)) : p.key \in Z /\ (p.key \in K => ~IsScalar(p.value))}

(* A node is good when it fits and its children are good.                  *)
LEMMA GoodIs ==
  ASSUME NEW K, NEW Z, NEW h \in 0 .. Height, NEW n \in Nested[h]
  PROVE  n \in Good(h, K, Z) <=> Fits(n, K, Z) /\ \A c \in Children(n) : c \in Good(h - 1, K, Z)
<1>1. \A c \in Children(n) : c \in Nested[h - 1]
  BY ChildrenIs
<1>2. Nodes(n) = {n} \cup UNION {Nodes(c) : c \in Children(n)}
  BY NodesIs, TreeIs
<1> QED
  BY <1>1, <1>2 DEF Good

(* A good node is good at every greater depth.                             *)
LEMMA GoodGrows ==
  ASSUME NEW K, NEW Z, NEW h \in 0 .. Height, NEW g \in 0 .. Height, g <= h
  PROVE  Good(g, K, Z) \subseteq Good(h, K, Z)
BY NestedGrows DEF Good

(* A scalar is good at every depth.                                        *)
LEMMA GoodScalar ==
  ASSUME NEW K, NEW Z, NEW h \in 0 .. Height, NEW n \in Leaf, n.kind = "scalar"
  PROVE  n \in Good(h, K, Z)
<1>1. 0 \in 0 .. Height /\ 0 <= h
  BY HeightIs
<1>2. n \in Nested[0] /\ Children(n) = {}
  BY NestedIs, ChildrenIs
<1>3. Fits(n, K, Z)
  BY DEF Fits, IsMapping
<1> QED
  BY <1>1, <1>2, <1>3, GoodIs, GoodGrows

(* A mapping is good when its pairs are, a sequence when its entries are.  *)
LEMMA GoodMapping ==
  ASSUME NEW K, NEW Z, NEW h \in 0 .. Height, NEW n, IsMapping(n)
  PROVE  n \in Good(h, K, Z) <=> h # 0 /\ n \in UniqueMappings(GoodPairs(h - 1, K, Z))
<1>1. n \notin Leaf
  BY LeafShape DEF IsMapping
<1>2. ASSUME n \in Good(h, K, Z)
      PROVE  h # 0 /\ n \in UniqueMappings(GoodPairs(h - 1, K, Z))
  <2>1. n \in Nested[h] /\ Fits(n, K, Z) /\ \A c \in Children(n) : c \in Good(h - 1, K, Z)
    BY <1>2, GoodIs DEF Good
  <2>2. h \in 1 .. Height /\ n \in NodesOver(Nested[h - 1])
    BY <1>1, <2>1, TreeIs
  <2>3. /\ n \in UniqueMappings(PairSet(Nested[h - 1]))
        /\ DOMAIN n.pairs = 1 .. Len(n.pairs) /\ Len(n.pairs) \in Nat
        /\ \A j \in 1 .. Len(n.pairs) : n.pairs[j] \in PairSet(Nested[h - 1])
    BY <1>1, <2>2, Shape DEF IsMapping
  <2>4. ASSUME NEW j \in 1 .. Len(n.pairs) PROVE n.pairs[j] \in GoodPairs(h - 1, K, Z)
    <3>1. n.pairs[j].value \in Good(h - 1, K, Z)
      BY <2>1, <2>3 DEF Children
    <3>2. n.pairs[j] \in PairSet(Good(h - 1, K, Z))
      BY <2>3, <3>1 DEF PairSet
    <3> QED
      BY <2>1, <2>3, <3>2 DEF Fits, GoodPairs
  <2>5. /\ n = [kind |-> "mapping", pairs |-> n.pairs] /\ Unique(n)
        /\ n.pairs \in Seq(PairSet(Nested[h - 1]))
    BY <2>3 DEF UniqueMappings, Mappings
  <2>6. n.pairs \in Seq(GoodPairs(h - 1, K, Z))
    <3>1. n.pairs \in [1 .. Len(n.pairs) -> PairSet(Nested[h - 1])]
      BY <2>5, LenProperties
    <3>2. n.pairs \in [1 .. Len(n.pairs) -> GoodPairs(h - 1, K, Z)]
      BY <2>4, <3>1
    <3> QED
      BY <2>3, <3>2, FunctionSeq
  <2>7. h # 0
    BY <2>2
  <2> QED
    BY <2>5, <2>6, <2>7 DEF UniqueMappings, Mappings
<1>3. ASSUME h # 0, n \in UniqueMappings(GoodPairs(h - 1, K, Z))
      PROVE  n \in Good(h, K, Z)
  <2>1. h \in 1 .. Height /\ h - 1 \in 0 .. Height
    BY <1>3, HeightIs
  <2>2. /\ n.pairs \in Seq(GoodPairs(h - 1, K, Z)) /\ Unique(n)
        /\ n = [kind |-> "mapping", pairs |-> n.pairs]
    BY <1>3 DEF UniqueMappings, Mappings
  <2>3. /\ DOMAIN n.pairs = 1 .. Len(n.pairs)
        /\ \A j \in 1 .. Len(n.pairs) : n.pairs[j] \in GoodPairs(h - 1, K, Z)
    BY <2>2, LenProperties, ElementOfSeq
  <2>4. GoodPairs(h - 1, K, Z) \subseteq PairSet(Nested[h - 1])
    BY DEF GoodPairs, PairSet, Good
  <2>5. n \in UniqueMappings(PairSet(Nested[h - 1]))
    BY <2>2, <2>4, SeqMonotonic DEF UniqueMappings, Mappings
  <2>6. n \in Nested[h]
    BY <2>1, <2>5, Shaped, NestedIs
  <2>7. \A c \in Children(n) : c \in Good(h - 1, K, Z)
    BY <2>3 DEF Children, GoodPairs, PairSet
  <2>8. Fits(n, K, Z)
    BY <2>3 DEF Fits, GoodPairs, IsMapping
  <2> QED
    BY <2>6, <2>7, <2>8, GoodIs
<1> QED
  BY <1>2, <1>3

LEMMA GoodSequence ==
  ASSUME NEW K, NEW Z, NEW h \in 1 .. Height, NEW items \in Seq(Good(h - 1, K, Z))
  PROVE  Items(items) \in Good(h, K, Z)
<1> DEFINE n == Items(items)
<1>1. h - 1 \in 0 .. Height /\ h \in 0 .. Height
  BY HeightIs
<1>2. items \in Seq(Nested[h - 1])
  <2>1. Good(h - 1, K, Z) \subseteq Nested[h - 1]
    BY DEF Good
  <2> QED
    BY <2>1, SeqMonotonic
<1>3. n.kind = "sequence" /\ n.items = items
  BY DEF Items
<1>4. n \in Nested[h]
  BY <1>1, <1>2, Shaped, NestedIs
<1>5. DOMAIN items = 1 .. Len(items) /\ \A j \in 1 .. Len(items) : items[j] \in Good(h - 1, K, Z)
  BY LenProperties, ElementOfSeq
<1> HIDE DEF n
<1>6. \A c \in Children(n) : c \in Good(h - 1, K, Z)
  BY <1>3, <1>5 DEF Children, IsMapping
<1>7. Fits(n, K, Z)
  BY <1>3 DEF Fits, IsMapping
<1>8. n \in Good(h, K, Z)
  BY <1>1, <1>4, <1>6, <1>7, GoodIs
<1> QED
  BY <1>8 DEF n

(* What is in a node is what is in it and in its children.                 *)
LEMMA PartsIs ==
  ASSUME NEW n \in Tree
  PROVE  /\ \A c \in Children(n) : /\ Includes(c) \subseteq Includes(n)
                                   /\ PairsOf(c) \subseteq PairsOf(n)
                                   /\ CopiesTwice(c) => CopiesTwice(n)
         /\ n.kind = "tagged" => n.value \in Includes(n) /\ CopiesTwice(n)
         /\ n.kind = "sequence" => CopiesTwice(n)
         /\ n.kind = "mapping" =>
              \A j \in DOMAIN n.pairs :
                /\ n.pairs[j] \in PairsOf(n)
                /\ NamesInclude(n.pairs[j]) => n.pairs[j].value.value \in Includes(n)
<1>1. Nodes(n) = {n} \cup UNION {Nodes(c) : c \in Children(n)}
  BY NodesIs
<1>2. n \in Nodes(n) /\ \A c \in Children(n) : Nodes(c) \subseteq Nodes(n)
  BY <1>1
<1>3. ASSUME NEW c \in Children(n) PROVE PairsOf(c) \subseteq PairsOf(n)
  BY <1>2 DEF PairsOf
<1>4. ASSUME NEW c \in Children(n) PROVE Includes(c) \subseteq Includes(n)
  BY <1>2, <1>3 DEF Includes
<1>5. ASSUME NEW c \in Children(n), CopiesTwice(c) PROVE CopiesTwice(n)
  BY <1>2, <1>5 DEF CopiesTwice
<1>6. n.kind = "tagged" => n.value \in Includes(n) /\ CopiesTwice(n)
  BY <1>2 DEF Includes, CopiesTwice
<1>7. n.kind = "sequence" => CopiesTwice(n)
  BY <1>2 DEF CopiesTwice
<1>8. ASSUME n.kind = "mapping", NEW j \in DOMAIN n.pairs PROVE n.pairs[j] \in PairsOf(n)
  BY <1>2, <1>8 DEF PairsOf, IsMapping
<1>9. ASSUME n.kind = "mapping", NEW j \in DOMAIN n.pairs, NamesInclude(n.pairs[j])
      PROVE  n.pairs[j].value.value \in Includes(n)
  <2>1. n.pairs[j] \in {p \in PairsOf(n) : NamesInclude(p)}
    BY <1>8, <1>9
  <2> QED
    BY <2>1 DEF Includes
<1> QED
  BY <1>3, <1>4, <1>5, <1>6, <1>7, <1>8, <1>9

(* Names of V give good nodes, or one of N, once and twice copied.         *)
GivesGood(Given, V, M, K, Z, N) == \A v \in V : Given[v] \in Good(M, K, Z) \cup N
Ready(n, V, Z, Recopied, M, K, N) ==
  /\ Includes(n) \subseteq V /\ \A p \in PairsOf(n) : p.key \in Z
  /\ CopiesTwice(n) => GivesGood(Recopied, V, M, K, Z, N)

(* The children of such a node are such nodes.                             *)
LEMMA ReadyBelow ==
  ASSUME NEW V, NEW Z, NEW Recopied, NEW M, NEW K, NEW N, NEW n \in Tree,
         Ready(n, V, Z, Recopied, M, K, N), NEW c \in Children(n)
  PROVE  Ready(c, V, Z, Recopied, M, K, N)
BY PartsIs DEF Ready

(* No node is left out (N = {}), and then no include is, or nothing is     *)
(* asked of the values under a key.                                        *)
Total(K, N) == N \subseteq {NoNode} /\ (K = {} \/ (K = IncludeKey /\ N = {}))

(* The copy of a node that is nested h deep; what is not a leaf gets one.  *)
CopiesWell(n, h, M, K, Z, N, Included, Recopied) ==
  LET copy == CopyNode(Included, Recopied)[n]
  IN /\ copy \in Good(h + M, K, Z) \cup N
     /\ ~IsScalar(n) => copy \in Good(h + M, K, Z) /\ ~IsScalar(copy)

(* The copy of a mapping is good when the copies of its values are.        *)
LEMMA CopyMapping ==
  ASSUME NEW V, NEW Z, NEW K, NEW N, Total(K, N), NEW Included, NEW Recopied,
         NEW g \in 0 .. Height, NEW M \in 0 .. Height, g + M + 1 <= Height,
         GivesGood(Included, V, M, K, Z, N),
         NEW n \in NodesOver(Nested[g]), IsMapping(n), n \in Tree,
         Ready(n, V, Z, Recopied, M, K, N),
         \A c \in Children(n) : CopiesWell(c, g, M, K, Z, N, Included, Recopied)
  PROVE  CopiesWell(n, g + 1, M, K, Z, N, Included, Recopied)
<1> DEFINE Copy == CopyNode(Included, Recopied)
           incl == PairIncludes(n, Included)
           cop == PairCopies(n, Copy)
           P == GoodPairs(g + M, K, Z)
           S == PairSet(Nested[g])
<1>0. \A c \in Children(n) : /\ Copy[c] \in Good(g + M, K, Z) \cup N
                             /\ ~IsScalar(c) => ~IsScalar(Copy[c])
  BY DEF CopiesWell
<1>1. /\ n \in UniqueMappings(S)
      /\ DOMAIN n.pairs = 1 .. Len(n.pairs) /\ Len(n.pairs) \in Nat
      /\ \A j \in 1 .. Len(n.pairs) : n.pairs[j] \in S
  BY Shape, LeafShape DEF IsMapping
<1>2. n.kind = "mapping" /\ n.pairs \in Seq(S)
  BY <1>1 DEF UniqueMappings, Mappings
<1>3. Copy[n] = CopyPairs(n.pairs, incl, cop)
  BY <1>2, CopyNodeIs
<1>4. g + M \in 0 .. Height /\ g + M + 1 \in 0 .. Height /\ M <= g + M /\ g <= g + M
  BY HeightIs
<1>5. \A j \in 1 .. Len(n.pairs) :
        /\ incl[j] = IF NamesInclude(n.pairs[j]) THEN Included[n.pairs[j].value.value] ELSE NoNode
        /\ cop[j] = Copy[n.pairs[j].value]
        /\ n.pairs[j].value \in Children(n)
        /\ n.pairs[j].key \in Z /\ n.pairs[j].key \in AnyKey
        /\ NamesInclude(n.pairs[j]) => n.pairs[j].value.value \in V
  BY <1>1, <1>2, PartsIs DEF PairIncludes, PairCopies, Children, IsMapping, Ready, PairSet
<1>5a. ASSUME NEW j \in 1 .. Len(n.pairs)
       PROVE  /\ cop[j] \in Good(g + M, K, Z) \cup N
              /\ ~IsScalar(n.pairs[j].value) => ~IsScalar(cop[j])
  <2> HIDE DEF cop, incl, Copy
  <2>1. cop[j] = Copy[n.pairs[j].value] /\ n.pairs[j].value \in Children(n)
    BY <1>5
  <2> QED
    BY <1>0, <2>1
<1>6. ASSUME NEW j \in 1 .. Len(n.pairs) PROVE PairFits(n.pairs[j], incl[j], cop[j], P)
  <2>1. ASSUME IsNode(incl[j]), IsMapping(incl[j]) PROVE incl[j] \in UniqueMappings(P)
    <3>1. incl[j] \in Good(M, K, Z)
      BY <1>5, <2>1 DEF GivesGood, Total, IsNode
    <3>2. incl[j] \in Good(g + M + 1, K, Z)
      BY <1>4, <3>1, GoodGrows
    <3>3. (g + M + 1) - 1 = g + M
      BY <1>4
    <3> HIDE DEF incl
    <3> QED
      BY <1>4, <2>1, <3>2, <3>3, GoodMapping
  <2>2. ASSUME ~IsNode(incl[j]), IsNode(cop[j]) PROVE Pair(n.pairs[j].key, cop[j]) \in P
    <3>1. cop[j] \in Good(g + M, K, Z)
      BY <1>5a, <2>2 DEF Total, IsNode
    <3>2. n.pairs[j].key \in K => ~IsScalar(cop[j])
      <4> SUFFICES ASSUME n.pairs[j].key \in K PROVE ~IsScalar(cop[j])
        OBVIOUS
      <4>1. K = IncludeKey /\ N = {}
        BY DEF Total
      <4>2. ~NamesInclude(n.pairs[j])
        <5> SUFFICES ASSUME NamesInclude(n.pairs[j]) PROVE FALSE
          OBVIOUS
        <5>1. incl[j] \in Good(M, K, Z)
          BY <1>5, <4>1 DEF GivesGood
        <5>2. NoNode \notin Good(M, K, Z)
          BY NoNodeIs DEF Good
        <5> QED
          BY <2>2, <5>1, <5>2 DEF IsNode
      <4>3. ~IsScalar(n.pairs[j].value)
        BY <4>1, <4>2 DEF NamesInclude
      <4> QED
        BY <1>5a, <4>3
    <3>3. Pair(n.pairs[j].key, cop[j]) \in PairSet(Good(g + M, K, Z))
      BY <1>5, <3>1 DEF Pair, PairSet
    <3> HIDE DEF cop, incl
    <3> QED
      BY <1>5, <3>2, <3>3 DEF GoodPairs, Pair
  <2> QED
    BY <2>1, <2>2 DEF PairFits
<1>7. PairsFit(n.pairs, incl, cop, P)
  BY <1>6 DEF PairsFit
<1> HIDE DEF incl, cop, P, S, Copy
<1>8. Copy[n] \in UniqueMappings(P)
  BY <1>2, <1>3, <1>7, CopyPairsFacts DEF CopiedUpTo
<1>9. IsMapping(Copy[n])
  BY <1>8 DEF UniqueMappings, Mappings, IsMapping
<1>10. g + M + 1 # 0 /\ (g + M + 1) - 1 = g + M
  BY <1>4
<1>11. Copy[n] \in Good(g + M + 1, K, Z) /\ ~IsScalar(Copy[n]) /\ g + 1 + M = g + M + 1
  BY <1>4, <1>8, <1>9, <1>10, GoodMapping DEF P, IsMapping, IsScalar
<1> QED
  BY <1>11 DEF CopiesWell, Copy

(* The copy of a sequence is good when the copies of its entries are.      *)
LEMMA CopySequence ==
  ASSUME NEW V, NEW Z, NEW K, NEW N, Total(K, N), NEW Included, NEW Recopied,
         NEW g \in 0 .. Height, NEW M \in 0 .. Height, g + M + 1 <= Height,
         NEW n \in NodesOver(Nested[g]), IsSequence(n), n \in Tree,
         Ready(n, V, Z, Recopied, M, K, N),
         \A c \in Children(n) : CopiesWell(c, g, M, K, Z, N, Included, Recopied)
  PROVE  CopiesWell(n, g + 1, M, K, Z, N, Included, Recopied)
<1> DEFINE Copy == CopyNode(Included, Recopied)
           entries == EntryCopies(n, Copy, Recopied)
           S == Good(g + M, K, Z)
<1>0. \A c \in Children(n) : Copy[c] \in S \cup N
  BY DEF CopiesWell
<1>1. /\ n.kind = "sequence" /\ n.items \in Seq(Nested[g])
      /\ DOMAIN n.items = 1 .. Len(n.items) /\ Len(n.items) \in Nat
      /\ \A j \in 1 .. Len(n.items) : n.items[j] \in Nested[g]
  BY Shape, LeafShape DEF IsSequence
<1>2. Copy[n] = CopyEntries(entries)
  BY <1>1, CopyNodeIs
<1>3. g + M \in 0 .. Height /\ g + M + 1 \in 1 .. Height /\ M <= g + M /\ (g + M + 1) - 1 = g + M
  BY HeightIs
<1>4. \A j \in 1 .. Len(n.items) :
        /\ n.items[j] \in Children(n)
        /\ entries[j] = CopyEntry(n.items[j], Recopied, Copy[n.items[j]])
  BY <1>1 DEF EntryCopies, Children, IsMapping, IsSequence
<1>5. DOMAIN entries = 1 .. Len(n.items)
  BY DEF EntryCopies
<1>6. GivesGood(Recopied, V, M, K, Z, N)
  BY <1>1, PartsIs DEF Ready
<1> HIDE DEF entries
<1>7. ASSUME NEW j \in 1 .. Len(n.items) PROVE entries[j] \in S \cup {NoNode}
  <2> DEFINE entry == n.items[j]
             incl == IF IsMapping(entry) THEN Lookup(entry, "include") ELSE NoNode
             back == IF IsScalar(incl) THEN Recopied[incl.value] ELSE NoNode
  <2>1. entries[j] = IF IsNode(back) THEN back ELSE Copy[entry]
    BY <1>4 DEF CopyEntry
  <2>2. Copy[entry] \in S \cup {NoNode}
    BY <1>0, <1>4 DEF Total
  <2>3. ASSUME IsNode(back) PROVE back \in S
    <3>1. IsScalar(incl) /\ back = Recopied[incl.value]
      BY <2>3 DEF IsNode
    <3>2. IsMapping(entry) /\ incl = Lookup(entry, "include")
      BY <3>1, NoNodeIs DEF IsScalar
    <3> HIDE DEF incl, back
    <3>3. HasKey(entry, "include")
      BY <3>1, <3>2, NoNodeIs DEF Lookup, IsScalar
    <3>4. PICK i \in DOMAIN entry.pairs : entry.pairs[i].key = "include" /\ incl = entry.pairs[i].value
      BY <3>2, <3>3 DEF Lookup, HasKey
    <3>5. NamesInclude(entry.pairs[i])
      BY <3>1, <3>4, KeyAssumption DEF NamesInclude
    <3>6. entry \in Tree
      BY <1>1, TreeIs
    <3>7. incl.value \in Includes(entry)
      BY <3>2, <3>4, <3>5, <3>6, PartsIs DEF IsMapping
    <3>8. incl.value \in V
      BY <1>4, <3>7, PartsIs DEF Ready
    <3>9. back \in Good(M, K, Z)
      BY <1>6, <2>3, <3>1, <3>8 DEF GivesGood, Total, IsNode
    <3> QED
      BY <1>3, <3>9, GoodGrows
  <2> HIDE DEF back, S
  <2> QED
    BY <2>1, <2>2, <2>3
<1>8. entries \in Seq(S \cup {NoNode})
  <2>1. entries \in [1 .. Len(n.items) -> S \cup {NoNode}]
    <3>1. entries = [j \in 1 .. Len(n.items) |-> entries[j]]
      BY DEF entries, EntryCopies
    <3> HIDE DEF S
    <3> QED
      BY <1>7, <3>1
  <2> HIDE DEF S
  <2> QED
    BY <1>1, <2>1, FunctionSeq
<1>9. PICK items \in Seq(S) : Copy[n] = Items(items)
  <2> HIDE DEF S, Copy
  <2>1. \E items \in Seq(S) : CopyEntries(entries) = Items(items)
    BY <1>8, CopyEntriesFacts
  <2> QED
    BY <1>2, <2>1
<1>10. ~IsScalar(Copy[n])
  BY <1>9 DEF Items, IsScalar
<1>11. Copy[n] \in Good(g + M + 1, K, Z) /\ g + 1 + M = g + M + 1
  BY <1>3, <1>9, GoodSequence
<1> QED
  BY <1>10, <1>11 DEF CopiesWell

(* The copy of a node, by the includes it reaches.                         *)
LEMMA CopyGood ==
  ASSUME NEW V, NEW Z, NEW K, NEW N, Total(K, N), NEW Included, NEW Recopied,
         NEW M \in 0 .. Height, GivesGood(Included, V, M, K, Z, N)
  PROVE  \A h \in 0 .. Height : h + M <= Height =>
           \A n \in Nested[h] : Ready(n, V, Z, Recopied, M, K, N) =>
             CopiesWell(n, h, M, K, Z, N, Included, Recopied)
<1> DEFINE Copies(n, h) == CopiesWell(n, h, M, K, Z, N, Included, Recopied)
           T == {h \in Nat : h + M <= Height =>
                   \A n \in Nested[h] : Ready(n, V, Z, Recopied, M, K, N) => Copies(n, h)}
<1>1. Height \in Nat
  BY HeightIs
<1>2. ASSUME NEW h \in 0 .. Height, h + M <= Height, NEW n \in Leaf,
             Ready(n, V, Z, Recopied, M, K, N)
      PROVE  Copies(n, h)
  <2> DEFINE Copy == CopyNode(Included, Recopied)
  <2>1. n \in Tree /\ IsScalar(n)
    BY <1>1, LeafShape, NestedIs, TreeIs DEF IsScalar
  <2>2. h + M \in 0 .. Height /\ M <= h + M
    BY <1>1, <1>2
  <2>3. Copy[n] \in Good(h + M, K, Z) \cup N
    <3>1. CASE n.kind = "scalar"
      BY <2>1, <2>2, <3>1, CopyNodeIs, GoodScalar
    <3>2. CASE n.kind = "tagged"
      <4>1. Copy[n] = Recopied[n.value] /\ n.value \in V /\ GivesGood(Recopied, V, M, K, Z, N)
        BY <1>2, <2>1, <3>2, CopyNodeIs, PartsIs DEF Ready
      <4>2. Good(M, K, Z) \subseteq Good(h + M, K, Z)
        BY <2>2, GoodGrows
      <4> HIDE DEF Copy
      <4> QED
        BY <4>1, <4>2 DEF GivesGood
    <3> QED
      BY <3>1, <3>2, LeafShape
  <2> QED
    BY <2>1, <2>3 DEF CopiesWell
<1> HIDE DEF Copies
<1>3. 0 \in T
  <2>1. Nested[0] = Leaf /\ 0 \in 0 .. Height
    BY <1>1, NestedIs
  <2> QED
    BY <1>2, <2>1
<1>4. ASSUME NEW g \in Nat, g \in T PROVE g + 1 \in T
  <2> SUFFICES ASSUME g + 1 + M <= Height, NEW n \in Nested[g + 1],
                      Ready(n, V, Z, Recopied, M, K, N)
               PROVE  Copies(n, g + 1)
    OBVIOUS
  <2>1. /\ g \in 0 .. Height /\ g + 1 \in 0 .. Height /\ (g + 1) - 1 = g
        /\ g + M <= Height /\ g + M + 1 <= Height
    BY <1>1
  <2>2. n \in Tree /\ \A c \in Children(n) : c \in Nested[g]
    BY <2>1, TreeIs, ChildrenIs
  <2>3. \A c \in Children(n) : Copies(c, g)
    BY <1>4, <2>1, <2>2, ReadyBelow
  <2> HIDE DEF T
  <2>4. n \in Leaf \/ n \in NodesOver(Nested[g])
    BY <2>1, TreeIs
  <2>5. n \in NodesOver(Nested[g]) => n \in Leaf \/ IsMapping(n) \/ IsSequence(n)
    BY Shape DEF IsMapping, IsSequence
  <2>6. CASE n \in NodesOver(Nested[g]) /\ IsMapping(n)
    BY <2>1, <2>2, <2>3, <2>6, CopyMapping DEF Copies
  <2>7. CASE n \in NodesOver(Nested[g]) /\ IsSequence(n)
    BY <2>1, <2>2, <2>3, <2>7, CopySequence DEF Copies
  <2> QED
    BY <1>2, <2>1, <2>4, <2>5, <2>6, <2>7
<1>5. \A h \in Nat : h \in T
  <2> HIDE DEF T
  <2> QED
    BY <1>3, <1>4, SetInduction
<1> QED
  BY <1>1, <1>5 DEF Copies

-----------------------------------------------------------------------------
(* The recursion into includes, from the limit up.                         *)
LEMMA CopiesAtSame ==
  ASSUME NEW fs, NEW d \in Nat, NEW f, NEW e, TooDeep(d) \/ f[d + 1] = e[d + 1]
  PROVE  CopiesAt(f, fs, d) = CopiesAt(e, fs, d)
<1>1. CASE TooDeep(d)
  BY <1>1 DEF CopiesAt
<1>2. CASE f[d + 1] = e[d + 1]
  <2>1. ASSUME NEW v \in Value PROVE ProcessInclude(f, fs, v, d) = ProcessInclude(e, fs, v, d)
    BY <1>2 DEF ProcessInclude, IncludedDepth
  <2>2. [v \in Value |-> ProcessInclude(f, fs, v, d)] = [v \in Value |-> ProcessInclude(e, fs, v, d)]
    BY <2>1
  <2> QED
    BY <1>2, <2>2 DEF CopiesAt
<1> QED
  BY <1>1, <1>2

IsAt(at, fs) == at = [d \in Nat |-> CopiesAt(at, fs, d)]

(* There are the copies of every depth: those of a depth need those of the *)
(* next alone, and there are none at the limit.                            *)
LEMMA CopyAtExists == \A fs : IsAt(CopyAt(fs), fs)
<1> SUFFICES ASSUME NEW fs PROVE IsAt(CopyAt(fs), fs)
  OBVIOUS
<1> DEFINE D == MaxIncludeDepth
           Upto(f, k) == f = [d \in Nat |-> IF d + k >= D THEN CopiesAt(f, fs, d) ELSE NoNode]
           T == {k \in Nat : \E f : Upto(f, k)}
<1>1. D \in Nat /\ \A d \in Nat : TooDeep(d) <=> d >= D
  BY DepthAssumption DEF TooDeep
<1> HIDE DEF D
<1>2. ASSUME NEW k \in Nat, NEW f,
             \A d \in Nat : d + k >= D => TooDeep(d) \/ f[d + 1] = CopiesAt(f, fs, d + 1)
      PROVE  \E e : Upto(e, k)
  <2> DEFINE e == [d \in Nat |-> IF d + k >= D THEN CopiesAt(f, fs, d) ELSE NoNode]
  <2>1. \A d \in Nat : e[d] = IF d + k >= D THEN CopiesAt(f, fs, d) ELSE NoNode
    OBVIOUS
  <2>2. DOMAIN e = Nat /\ e = [d \in DOMAIN e |-> e[d]]
    OBVIOUS
  <2> HIDE DEF e
  <2>3. ASSUME NEW d \in Nat, d + k >= D PROVE CopiesAt(f, fs, d) = CopiesAt(e, fs, d)
    <3>1. d + 1 \in Nat /\ (d + 1) + k >= D
      BY <1>1, <2>3
    <3>2. TooDeep(d) \/ f[d + 1] = e[d + 1]
      BY <1>2, <2>1, <2>3, <3>1
    <3> QED
      BY <3>2, CopiesAtSame
  <2>4. \A d \in Nat : e[d] = IF d + k >= D THEN CopiesAt(e, fs, d) ELSE NoNode
    BY <2>1, <2>3
  <2>5. e = [d \in Nat |-> IF d + k >= D THEN CopiesAt(e, fs, d) ELSE NoNode]
    BY <2>2, <2>4
  <2> QED
    BY <2>5
<1>3. 0 \in T
  <2>1. \A d \in Nat : d + 0 >= D => TooDeep(d)
    BY <1>1
  <2> HIDE DEF Upto
  <2> QED
    BY <1>2, <2>1
<1>4. ASSUME NEW k \in Nat, k \in T PROVE k + 1 \in T
  <2>1. PICK f : Upto(f, k)
    BY <1>4
  <2>2. \A d \in Nat : d + k >= D => f[d] = CopiesAt(f, fs, d)
    BY <2>1
  <2>3. \A d \in Nat : d + (k + 1) >= D => d + 1 \in Nat /\ (d + 1) + k >= D
    BY <1>1
  <2> HIDE DEF Upto
  <2> QED
    BY <1>2, <2>2, <2>3
<1>5. D \in T
  <2> HIDE DEF T
  <2> QED
    BY <1>1, <1>3, <1>4, SetInduction
<1>6. PICK f : Upto(f, D)
  BY <1>5
<1>7. \A d \in Nat : d + D >= D
  BY <1>1
<1>8. f = [d \in Nat |-> CopiesAt(f, fs, d)]
  BY <1>6, <1>7
<1>9. CopyAt(fs) = CHOOSE at : IsAt(at, fs)
  BY DEF CopyAt, IsAt
<1> QED
  BY <1>8, <1>9 DEF IsAt

(* What the includes of a depth give, and a copy of that.                  *)
IncludedAt(fs, d) ==
  [f \in Value |-> IF f \in DOMAIN fs THEN CopyAt(fs)[d + 1][fs[f]] ELSE NoNode]
RecopiedAt(fs, d) == [f \in Value |-> CopyAt(fs)[d + 1][IncludedAt(fs, d)[f]]]

(* The copies of a depth: none at the limit, and below it those of a       *)
(* function that copies nodes, given what the next depth includes.         *)
LEMMA CopyAtIs ==
  ASSUME NEW fs, NEW d \in Nat
  PROVE  /\ d >= MaxIncludeDepth => \A n \in Tree \cup {NoNode} : CopyAt(fs)[d][n] = NoNode
         /\ d < MaxIncludeDepth => CopyAt(fs)[d] = CopyNode(IncludedAt(fs, d), RecopiedAt(fs, d))
         /\ CopyAt(fs)[d][NoNode] = NoNode
<1>1. CopyAt(fs)[d] = CopiesAt(CopyAt(fs), fs, d)
  BY CopyAtExists DEF IsAt
<1>2. CASE d >= MaxIncludeDepth
  <2>1. TooDeep(d)
    BY <1>2 DEF TooDeep
  <2>2. CopyAt(fs)[d] = [n \in Tree \cup {NoNode} |-> NoNode]
    BY <1>1, <2>1 DEF CopiesAt
  <2> QED
    BY <1>2, <2>2, DepthAssumption
<1>3. CASE d < MaxIncludeDepth
  <2>1. ~TooDeep(d)
    BY <1>3, DepthAssumption DEF TooDeep
  <2>2. \A f \in Value : ProcessInclude(CopyAt(fs), fs, f, d)
                           = IF f \in DOMAIN fs THEN CopyAt(fs)[d + 1][fs[f]] ELSE NoNode
    BY <2>1 DEF ProcessInclude, IncludedDepth
  <2>3. [f \in Value |-> ProcessInclude(CopyAt(fs), fs, f, d)] = IncludedAt(fs, d)
    BY <2>2 DEF IncludedAt
  <2>4. CopyAt(fs)[d] = CopyNode(IncludedAt(fs, d), RecopiedAt(fs, d))
    BY <1>1, <2>1, <2>3 DEF CopiesAt, RecopiedAt
  <2> QED
    BY <1>3, <2>4, CopyNodeIs, DepthAssumption
<1> QED
  BY <1>2, <1>3, DepthAssumption

(* How deep the copies of a depth reach below what they are copied from.   *)
Reach(d) == IncludeNesting[MaxIncludeDepth - d]

(* At the limit the copies reach no deeper; a level above, they hold an    *)
(* include of a document, copied a second time.                            *)
LEMMA ReachIs ==
  /\ Reach(MaxIncludeDepth) = 0
  /\ \A d \in 0 .. MaxIncludeDepth :
       Reach(d) \in Nat /\ MaxNesting + Reach(d) <= Height /\ Reach(d) \in 0 .. Height
  /\ \A d \in 0 .. MaxIncludeDepth - 1 :
       /\ Reach(d) = (MaxNesting + Reach(d + 1)) + Reach(d + 1)
       /\ MaxNesting + Reach(d + 1) \in 0 .. Height /\ MaxNesting + Reach(d + 1) <= Reach(d)
<1> DEFINE D == MaxIncludeDepth
           R == IncludeNesting
           T == {k \in Nat : k <= D => \A j \in 0 .. k : R[j] <= R[k]}
<1>1. /\ D \in Nat /\ MaxNesting \in Nat /\ R[0] = 0 /\ \A k \in 0 .. D : R[k] \in Nat
      /\ \A k \in 1 .. D : R[k] = MaxNesting + 2 * R[k - 1]
  BY DepthAssumption, NestingAssumption, IncludeNestingIs
<1> HIDE DEF D, R
<1>2. 0 \in T
  BY <1>1
<1>3. ASSUME NEW k \in Nat, k \in T PROVE k + 1 \in T
  <2> SUFFICES ASSUME k + 1 <= D, NEW j \in 0 .. k + 1 PROVE R[j] <= R[k + 1]
    OBVIOUS
  <2>1. k + 1 \in 1 .. D /\ k \in 0 .. D /\ (k + 1) - 1 = k /\ k + 1 \in 0 .. D
    BY <1>1
  <2>2. R[k + 1] = MaxNesting + 2 * R[k]
    BY <1>1, <2>1
  <2>3. R[k] \in Nat /\ R[k] <= R[k + 1] /\ R[k + 1] \in Nat
    BY <1>1, <2>1, <2>2
  <2>4. CASE j = k + 1
    BY <2>3, <2>4
  <2>5. CASE j \in 0 .. k
    <3>1. R[j] <= R[k] /\ R[j] \in Nat
      BY <1>1, <1>3, <2>1, <2>5
    <3> QED
      BY <2>3, <3>1
  <2> QED
    BY <2>4, <2>5
<1>4. D \in T
  <2> HIDE DEF T
  <2> QED
    BY <1>1, <1>2, <1>3, SetInduction
<1>5. Height = MaxNesting + R[D]
  BY DEF Height, D, R
<1>6. ASSUME NEW d \in 0 .. D
      PROVE  Reach(d) \in Nat /\ MaxNesting + Reach(d) <= Height /\ Reach(d) \in 0 .. Height
  <2>1. D - d \in 0 .. D /\ D \in 0 .. D /\ Reach(d) = R[D - d]
    BY <1>1 DEF Reach, D, R
  <2>2. R[D - d] <= R[D] /\ R[D - d] \in Nat /\ R[D] \in Nat
    BY <1>1, <1>4, <2>1
  <2> QED
    BY <1>1, <1>5, <2>1, <2>2
<1>7. ASSUME NEW d \in 0 .. D - 1
      PROVE  /\ Reach(d) = (MaxNesting + Reach(d + 1)) + Reach(d + 1)
             /\ MaxNesting + Reach(d + 1) \in 0 .. Height /\ MaxNesting + Reach(d + 1) <= Reach(d)
  <2>1. /\ D - d \in 1 .. D /\ (D - d) - 1 = D - (d + 1) /\ d + 1 \in 0 .. D
        /\ D - (d + 1) \in 0 .. D
    BY <1>1
  <2>2. Reach(d) = R[D - d] /\ Reach(d + 1) = R[D - (d + 1)]
    BY DEF Reach, D, R
  <2>3. Reach(d) = MaxNesting + 2 * Reach(d + 1)
    BY <1>1, <2>1, <2>2
  <2>4. Reach(d + 1) \in Nat /\ MaxNesting + Reach(d + 1) <= Height
    BY <1>6, <2>1
  <2> HIDE DEF Reach
  <2> QED
    BY <1>1, <2>3, <2>4, HeightIs
<1>8. Reach(D) = 0
  BY <1>1 DEF Reach, D, R
<1> QED
  BY <1>6, <1>7, <1>8 DEF D

(* What is below a node is a node.                                         *)
LEMMA NodesInTree == \A n \in Tree : Nodes(n) \subseteq Tree
<1> DEFINE T == {h \in Nat : h <= Height => \A n \in Nested[h] : Nodes(n) \subseteq Tree}
<1>1. Height \in Nat
  BY HeightIs
<1>2. ASSUME NEW h \in 0 .. Height, NEW n \in Nested[h], \A c \in Children(n) : Nodes(c) \subseteq Tree
      PROVE  Nodes(n) \subseteq Tree
  BY <1>2, NodesIs, TreeIs
<1>3. 0 \in T
  <2>1. 0 \in 0 .. Height /\ Nested[0] = Leaf
    BY <1>1, NestedIs
  <2> QED
    BY <1>2, <2>1, ChildrenIs
<1>4. ASSUME NEW h \in Nat, h \in T PROVE h + 1 \in T
  <2> SUFFICES ASSUME h + 1 <= Height, NEW n \in Nested[h + 1] PROVE Nodes(n) \subseteq Tree
    OBVIOUS
  <2>1. h + 1 \in 0 .. Height /\ (h + 1) - 1 = h /\ h <= Height
    BY <1>1
  <2>2. \A c \in Children(n) : Nodes(c) \subseteq Tree
    BY <1>4, <2>1, ChildrenIs
  <2> QED
    BY <1>2, <2>1, <2>2
<1>5. Height \in T
  <2> HIDE DEF T
  <2> QED
    BY <1>1, <1>3, <1>4, SetInduction
<1> QED
  BY <1>1, <1>5, TreeIs

(* The kinds of nodes and what is in them.                                 *)
LEMMA KindIs ==
  ASSUME NEW n \in Tree
  PROVE  /\ n.kind \in {"scalar", "tagged", "mapping", "sequence"}
         /\ IsScalar(n) => n \in Leaf /\ n.value \in Value
         /\ IsMapping(n) => \A p \in {n.pairs[j] : j \in DOMAIN n.pairs} :
                              p.key \in AnyKey /\ p.value \in Tree
<1>1. Height \in 0 .. Height /\ n \in Nested[Height]
  BY TreeIs
<1>2. CASE n \in Leaf
  BY <1>2, LeafShape DEF IsMapping
<1>3. CASE n \notin Leaf
  <2>1. Height - 1 \in 0 .. Height /\ n \in NodesOver(Nested[Height - 1])
    BY <1>1, <1>3, TreeIs
  <2>2. CASE /\ n.kind = "mapping" /\ DOMAIN n.pairs = 1 .. Len(n.pairs)
             /\ \A j \in 1 .. Len(n.pairs) : n.pairs[j] \in PairSet(Nested[Height - 1])
    BY <2>1, <2>2, TreeIs DEF PairSet, IsScalar
  <2>3. CASE n.kind = "sequence"
    BY <2>3 DEF IsScalar, IsMapping
  <2> QED
    BY <1>3, <2>1, <2>2, <2>3, Shape
<1> QED
  BY <1>2, <1>3

(* The keys in a node are keys, and what it includes is named by values.   *)
LEMMA KeysAndNames ==
  ASSUME NEW n \in Tree
  PROVE  /\ \A p \in PairsOf(n) : p.key \in AnyKey /\ p.value \in Tree
         /\ Includes(n) \subseteq Value
<1>1. \A m \in Nodes(n) : m \in Tree
  BY NodesInTree
<1>2. ASSUME NEW p \in PairsOf(n) PROVE p.key \in AnyKey /\ p.value \in Tree
  <2>1. PICK m \in Nodes(n) : IsMapping(m) /\ p \in {m.pairs[j] : j \in DOMAIN m.pairs}
    BY DEF PairsOf
  <2> QED
    BY <1>1, <2>1, KindIs
<1>3. ASSUME NEW v \in Includes(n) PROVE v \in Value
  <2>1. CASE \E p \in PairsOf(n) : NamesInclude(p) /\ v = p.value.value
    BY <1>2, <2>1, KindIs DEF NamesInclude
  <2>2. CASE \E m \in Nodes(n) : m.kind = "tagged" /\ v = m.value
    BY <1>1, <2>2, KindIs DEF IsScalar
  <2> QED
    BY <2>1, <2>2 DEF Includes
<1> QED
  BY <1>2, <1>3

(* The copies of a depth, when its includes give good nodes.               *)
LEMMA CopyAtGood ==
  ASSUME NEW fs, NEW d \in 0 .. MaxIncludeDepth - 1,
         NEW V, NEW Z, NEW K, NEW N, Total(K, N),
         GivesGood(IncludedAt(fs, d), V, Reach(d), K, Z, N),
         NEW h \in 0 .. Height, h + Reach(d) <= Height, NEW n \in Nested[h],
         Ready(n, V, Z, RecopiedAt(fs, d), Reach(d), K, N)
  PROVE  /\ CopyAt(fs)[d][n] \in Good(h + Reach(d), K, Z) \cup N
         /\ ~IsScalar(n) => CopyAt(fs)[d][n] \in Good(h + Reach(d), K, Z)
<1>1. d \in Nat /\ d < MaxIncludeDepth /\ d \in 0 .. MaxIncludeDepth
  BY DepthAssumption
<1>2. CopyAt(fs)[d] = CopyNode(IncludedAt(fs, d), RecopiedAt(fs, d))
  BY <1>1, CopyAtIs
<1>3. Reach(d) \in 0 .. Height
  BY <1>1, ReachIs
<1>4. CopiesWell(n, h, Reach(d), K, Z, N, IncludedAt(fs, d), RecopiedAt(fs, d))
  BY <1>3, CopyGood
<1> QED
  BY <1>2, <1>4 DEF CopiesWell

(* The document of a name, and what including it at a depth gives.         *)
LEMMA DocumentIs ==
  ASSUME NEW fs \in FileSystems, NEW v
  PROVE  /\ DOMAIN fs = File /\ File \subseteq Value
         /\ v \in File => /\ fs[v] \in Nested[MaxNesting] \cup {NoNode}
                          /\ \A p \in PairsOf(fs[v]) : p.key \in File => p.key = v
<1>1. ASSUME v \in File PROVE \A p \in PairsOf(fs[v]) : p.key \in File => p.key = v
  <2>1. {p.key : p \in PairsOf(fs[v])} \cap File \subseteq {v}
    BY <1>1, MarkAssumption
  <2> QED
    BY <2>1
<1> QED
  BY <1>1, DocumentAssumption, NameAssumption

LEMMA IncludedAtIs ==
  ASSUME NEW fs \in FileSystems, NEW d, NEW v \in Value
  PROVE  /\ IncludedAt(fs, d)[v] = IF v \in File THEN CopyAt(fs)[d + 1][fs[v]] ELSE NoNode
         /\ RecopiedAt(fs, d)[v] = CopyAt(fs)[d + 1][IncludedAt(fs, d)[v]]
BY DocumentIs DEF IncludedAt, RecopiedAt

-----------------------------------------------------------------------------
(* Every copy is a node without tags, or none.                             *)
Tagless(h) == Good(h, {}, AnyKey)
CopiesTagless(fs, d) ==
  \A h \in 0 .. Height : h + Reach(d) <= Height =>
    \A n \in Nested[h] : CopyAt(fs)[d][n] \in Tagless(h + Reach(d)) \cup {NoNode}

(* From the copies of a depth to those of the depth before.                *)
LEMMA TaglessStep ==
  ASSUME NEW fs \in FileSystems, NEW d \in 0 .. MaxIncludeDepth - 1, CopiesTagless(fs, d + 1)
  PROVE  CopiesTagless(fs, d)
<1> DEFINE N == {NoNode}
           H == MaxNesting + Reach(d + 1)
<1>1. d + 1 \in Nat /\ d + 1 \in 0 .. MaxIncludeDepth /\ d \in 0 .. MaxIncludeDepth
  BY DepthAssumption
<1>2. /\ MaxNesting \in 0 .. Height /\ H \in 0 .. Height /\ H <= Reach(d)
      /\ Reach(d) = H + Reach(d + 1) /\ Reach(d) \in 0 .. Height
  BY <1>1, ReachIs, HeightIs
<1> HIDE DEF N
<1>3. ASSUME NEW v \in Value PROVE IncludedAt(fs, d)[v] \in Tagless(H) \cup N
  <2>1. CASE v \in File /\ fs[v] # NoNode
    <3>1. fs[v] \in Nested[MaxNesting] /\ IncludedAt(fs, d)[v] = CopyAt(fs)[d + 1][fs[v]]
      BY <2>1, DocumentIs, IncludedAtIs
    <3> QED
      BY <1>2, <3>1 DEF CopiesTagless, N
  <2>2. CASE v \notin File \/ fs[v] = NoNode
    <3>1. IncludedAt(fs, d)[v] = NoNode
      BY <1>1, <2>2, IncludedAtIs, CopyAtIs
    <3> QED
      BY <3>1 DEF N
  <2> QED
    BY <2>1, <2>2
<1>4. ASSUME NEW v \in Value PROVE RecopiedAt(fs, d)[v] \in Tagless(Reach(d)) \cup N
  <2> DEFINE m == IncludedAt(fs, d)[v]
  <2>1. RecopiedAt(fs, d)[v] = CopyAt(fs)[d + 1][m]
    BY IncludedAtIs
  <2>2. m \in Nested[H] \/ m = NoNode
    BY <1>3 DEF Tagless, Good, N
  <2> HIDE DEF m, H
  <2>3. CASE m \in Nested[H]
    BY <1>2, <2>1, <2>3 DEF CopiesTagless, N
  <2>4. CASE m = NoNode
    BY <1>1, <2>1, <2>4, CopyAtIs DEF N
  <2> QED
    BY <2>2, <2>3, <2>4
<1>5. Tagless(H) \subseteq Tagless(Reach(d))
  BY <1>2, GoodGrows DEF Tagless
<1>6. GivesGood(IncludedAt(fs, d), Value, Reach(d), {}, AnyKey, N)
  BY <1>3, <1>5 DEF GivesGood, Tagless
<1>7. GivesGood(RecopiedAt(fs, d), Value, Reach(d), {}, AnyKey, N)
  BY <1>4 DEF GivesGood, Tagless
<1>8. Total({}, N)
  BY DEF Total, N
<1>9. ASSUME NEW h \in 0 .. Height, h + Reach(d) <= Height, NEW n \in Nested[h]
      PROVE  CopyAt(fs)[d][n] \in Tagless(h + Reach(d)) \cup N
  <2>1. n \in Tree
    BY TreeIs
  <2>2. Ready(n, Value, AnyKey, RecopiedAt(fs, d), Reach(d), {}, N)
    BY <1>7, <2>1, KeysAndNames DEF Ready
  <2> QED
    BY <1>6, <1>8, <1>9, <2>2, CopyAtGood DEF Tagless
<1> QED
  BY <1>9 DEF CopiesTagless, N

(* The copies of every depth are without tags, whatever is included.       *)
LEMMA AlwaysTagless ==
  ASSUME NEW fs \in FileSystems
  PROVE  \A d \in 0 .. MaxIncludeDepth : CopiesTagless(fs, d)
<1> DEFINE D == MaxIncludeDepth
           T == {k \in Nat : k <= D => CopiesTagless(fs, D - k)}
<1>1. D \in Nat /\ D >= D
  BY DepthAssumption
<1>2. 0 \in T
  <2>1. \A n \in Tree : CopyAt(fs)[D][n] = NoNode
    BY <1>1, CopyAtIs
  <2>2. CopiesTagless(fs, D)
    BY <2>1, TreeIs DEF CopiesTagless
  <2>3. D - 0 = D
    BY <1>1
  <2> QED
    BY <2>2, <2>3
<1>3. ASSUME NEW k \in Nat, k \in T PROVE k + 1 \in T
  <2> SUFFICES ASSUME k + 1 <= D PROVE CopiesTagless(fs, D - (k + 1))
    OBVIOUS
  <2>1. D - (k + 1) \in 0 .. D - 1 /\ (D - (k + 1)) + 1 = D - k /\ k <= D
    BY <1>1
  <2>2. CopiesTagless(fs, D - k)
    BY <1>3, <2>1
  <2> QED
    BY <2>1, <2>2, TaglessStep
<1>4. \A k \in Nat : k \in T
  <2> HIDE DEF T
  <2> QED
    BY <1>2, <1>3, SetInduction
<1>5. ASSUME NEW d \in 0 .. D PROVE CopiesTagless(fs, d)
  <2>1. D - d \in Nat /\ D - d <= D /\ D - (D - d) = d
    BY <1>1
  <2> QED
    BY <1>4, <2>1
<1> QED
  BY <1>5

-----------------------------------------------------------------------------
(* The chains of includes that start from a file.                          *)
LEMMA IncludedAfterIs ==
  ASSUME NEW f
  PROVE  /\ IncludedAfter(f, 0) = {f}
         /\ \A k \in 1 .. MaxIncludeDepth :
              IncludedAfter(f, k) = UNION {Includes(files[g]) : g \in IncludedAfter(f, k - 1) \cap File}
<1> DEFINE D == MaxIncludeDepth
           Onward(S) == UNION {Includes(files[g]) : g \in S \cap File}
           A == SUBSET ({f} \cup UNION {Includes(files[g]) : g \in File})
           step == [k \in 1 .. D |-> [S \in A |-> Onward(S)]]
           IsAfter(a) == a = [k \in 0 .. D |-> IF k = 0 THEN {f} ELSE Onward(a[k - 1])]
<1>1. D \in Nat /\ {f} \in A
  BY DepthAssumption
<1>2. \A S \in A : Onward(S) \in A
  OBVIOUS
<1>3. \A k \in 1 .. D, S \in A : step[k][S] = Onward(S)
  OBVIOUS
<1>4. step \in [1 .. D -> [A -> A]]
  BY <1>2
<1> HIDE DEF step, D, A, Onward
<1>5. PICK a : IsRounds(a, step, D, A, {f})
  <2>1. IsRound(step, D, A)
    BY <1>4 DEF IsRound
  <2> QED
    BY <1>1, <2>1, RoundsExist
<1>6. a \in [0 .. D -> A] /\ a[0] = {f} /\ \A k \in 1 .. D : a[k] = step[k][a[k - 1]]
  BY <1>5 DEF IsRounds
<1>7. \A k \in 1 .. D : k - 1 \in 0 .. D /\ k \in 0 .. D /\ k # 0
  BY <1>1
<1>8. \A k \in 1 .. D : a[k] = Onward(a[k - 1])
  BY <1>3, <1>6, <1>7
<1>9. \A k \in 0 .. D : k = 0 \/ k \in 1 .. D
  BY <1>1
<1>10. IsAfter(a)
  BY <1>6, <1>8, <1>9
<1> DEFINE after == CHOOSE b : IsAfter(b)
<1>11. IsAfter(after)
  BY <1>10
<1>12. \A n : IncludedAfter(f, n) = after[n]
  BY DEF IncludedAfter, D, Onward
<1> HIDE DEF after
<1>13. 0 \in 0 .. D
  BY <1>1
<1>14. after[0] = {f} /\ \A k \in 1 .. D : after[k] = Onward(after[k - 1])
  BY <1>7, <1>11, <1>13
<1>15. ASSUME NEW k \in 1 .. D
       PROVE  IncludedAfter(f, k)
                = UNION {Includes(files[g]) : g \in IncludedAfter(f, k - 1) \cap File}
  BY <1>12, <1>14 DEF Onward
<1> QED
  BY <1>12, <1>14, <1>15 DEF D

(* What a document includes is one step further, and within the limit.     *)
LEMMA Further ==
  ASSUME NEW f, NEW d \in 0 .. MaxIncludeDepth - 1
  PROVE  /\ IncludedAfter(f, d) \subseteq WithinDepth(f)
         /\ \A g \in IncludedAfter(f, d) \cap File : Includes(files[g]) \subseteq IncludedAfter(f, d + 1)
<1>1. d + 1 \in 1 .. MaxIncludeDepth /\ (d + 1) - 1 = d
  BY DepthAssumption
<1>2. IncludedAfter(f, d + 1) = UNION {Includes(files[g]) : g \in IncludedAfter(f, d) \cap File}
  BY <1>1, IncludedAfterIs
<1> QED
  BY <1>2 DEF WithinDepth

-----------------------------------------------------------------------------
(* Nodes in which nothing is left to include; they copy to themselves.     *)
Clean(h) == Good(h, IncludeKey, AnyKey)

(* Such a node includes nothing.                                           *)
LEMMA CleanIs ==
  ASSUME NEW h \in 0 .. Height, NEW n \in Clean(h)
  PROVE  n \in Nested[h] /\ n \in Tree /\ Includes(n) = {}
<1>1. n \in Nested[h] /\ \A m \in Nodes(n) : Fits(m, IncludeKey, AnyKey)
  BY DEF Clean, Good
<1>2. ASSUME NEW p \in PairsOf(n), NamesInclude(p) PROVE FALSE
  BY <1>1, <1>2 DEF PairsOf, NamesInclude, Fits
<1>3. \A m \in Nodes(n) : m.kind # "tagged"
  BY <1>1 DEF Fits
<1> QED
  BY <1>1, <1>2, <1>3, TreeIs DEF Includes

(* A mapping of such nodes copies to itself.                               *)
LEMMA CleanMapping ==
  ASSUME NEW Included, NEW Recopied, NEW g \in 0 .. Height, g + 1 \in 0 .. Height,
         NEW n \in Clean(g + 1), IsMapping(n),
         \A c \in Children(n) : CopyNode(Included, Recopied)[c] = c
  PROVE  CopyNode(Included, Recopied)[n] = n
<1> DEFINE Copy == CopyNode(Included, Recopied)
           incl == PairIncludes(n, Included)
           cop == PairCopies(n, Copy)
           S == Nested[g]
<1>1. n \in Tree /\ (g + 1) - 1 = g /\ n.kind = "mapping"
  BY CleanIs, HeightIs DEF IsMapping
<1>2. n \in UniqueMappings(GoodPairs(g, IncludeKey, AnyKey))
  BY <1>1, GoodMapping DEF Clean
<1>3. /\ n.pairs \in Seq(GoodPairs(g, IncludeKey, AnyKey)) /\ Unique(n)
      /\ n = [kind |-> "mapping", pairs |-> n.pairs]
  BY <1>2 DEF UniqueMappings, Mappings
<1>4. /\ DOMAIN n.pairs = 1 .. Len(n.pairs)
      /\ \A j \in 1 .. Len(n.pairs) : n.pairs[j] \in GoodPairs(g, IncludeKey, AnyKey)
  BY <1>3, LenProperties, ElementOfSeq
<1>5. GoodPairs(g, IncludeKey, AnyKey) \subseteq PairSet(S)
  BY DEF GoodPairs, PairSet, Good
<1>6. n \in UniqueMappings(PairSet(S))
  BY <1>3, <1>5, SeqMonotonic DEF UniqueMappings, Mappings
<1>7. ASSUME NEW j \in 1 .. Len(n.pairs)
      PROVE  incl[j] = NoNode /\ cop[j] = n.pairs[j].value
  <2>1. ~NamesInclude(n.pairs[j])
    BY <1>4 DEF GoodPairs, NamesInclude
  <2>2. n.pairs[j].value \in Children(n)
    BY <1>1, <1>4 DEF Children, IsMapping
  <2>3. Copy[n.pairs[j].value] = n.pairs[j].value
    BY <2>2
  <2> HIDE DEF Copy
  <2> QED
    BY <2>1, <2>3 DEF PairIncludes, PairCopies
<1>8. Copy[n] = CopyPairs(n.pairs, incl, cop)
  BY <1>1, CopyNodeIs
<1>9. NoNode \notin S
  BY NoNodeIs
<1> HIDE DEF incl, cop, S, Copy
<1>10. CopyPairs(n.pairs, incl, cop) = n
  BY <1>6, <1>7, <1>9, CopyPairsSame
<1> QED
  BY <1>8, <1>10 DEF Copy

(* A sequence of such nodes copies to itself.                              *)
LEMMA CleanSequence ==
  ASSUME NEW Included, NEW Recopied, NEW g \in 0 .. Height, g + 1 \in 0 .. Height,
         NEW n \in Clean(g + 1), IsSequence(n),
         \A c \in Children(n) : c \in Clean(g) /\ CopyNode(Included, Recopied)[c] = c
  PROVE  CopyNode(Included, Recopied)[n] = n
<1> DEFINE Copy == CopyNode(Included, Recopied)
           entries == EntryCopies(n, Copy, Recopied)
           S == Nested[g]
<1>1. n \in Tree /\ n \in Nested[g + 1] /\ (g + 1) - 1 = g /\ n.kind = "sequence"
  BY CleanIs, HeightIs DEF IsSequence
<1>2. n \in NodesOver(S) /\ n \notin Leaf
  BY <1>1, TreeIs, LeafShape
<1>3. /\ n = Items(n.items) /\ n.items \in Seq(S)
      /\ DOMAIN n.items = 1 .. Len(n.items) /\ Len(n.items) \in Nat
      /\ \A j \in 1 .. Len(n.items) : n.items[j] \in S
  BY <1>1, <1>2, Shape
<1>4. \A j \in 1 .. Len(n.items) : n.items[j] \in Children(n)
  BY <1>1, <1>3 DEF Children, IsMapping, IsSequence
<1>5. ASSUME NEW j \in 1 .. Len(n.items) PROVE entries[j] = n.items[j]
  <2> DEFINE entry == n.items[j]
             incl == IF IsMapping(entry) THEN Lookup(entry, "include") ELSE NoNode
             back == IF IsScalar(incl) THEN Recopied[incl.value] ELSE NoNode
  <2>1. entries[j] = CopyEntry(entry, Recopied, Copy[entry]) /\ Copy[entry] = entry
    BY <1>4 DEF EntryCopies
  <2>2. entry \in Clean(g)
    BY <1>4
  <2>3. ~IsScalar(incl)
    <3> SUFFICES ASSUME IsScalar(incl) PROVE FALSE
      OBVIOUS
    <3>1. IsMapping(entry) /\ incl = Lookup(entry, "include")
      BY NoNodeIs DEF IsScalar
    <3> HIDE DEF incl
    <3>2. HasKey(entry, "include")
      BY <3>1, NoNodeIs DEF Lookup, IsScalar
    <3>3. PICK i \in DOMAIN entry.pairs : entry.pairs[i].key = "include" /\ incl = entry.pairs[i].value
      BY <3>1, <3>2 DEF Lookup, HasKey
    <3>4. NamesInclude(entry.pairs[i])
      BY <3>3, KeyAssumption DEF NamesInclude
    <3>5. entry \in Tree /\ Includes(entry) = {}
      BY <2>2, CleanIs
    <3> HIDE DEF entry
    <3> QED
      BY <3>1, <3>4, <3>5, PartsIs DEF IsMapping
  <2>4. ~IsNode(back)
    BY <2>3 DEF IsNode
  <2> QED
    BY <2>1, <2>4 DEF CopyEntry
<1>6. entries = n.items
  <2>1. n.items = [j \in 1 .. Len(n.items) |-> n.items[j]]
    BY <1>3
  <2>2. entries = [j \in 1 .. Len(n.items) |-> entries[j]]
    BY DEF EntryCopies
  <2> HIDE DEF entries
  <2> QED
    BY <1>5, <2>1, <2>2
<1>7. Copy[n] = CopyEntries(n.items)
  BY <1>1, <1>6, CopyNodeIs
<1>8. n.items \in Seq(S \cup {NoNode}) /\ \A j \in 1 .. Len(n.items) : IsNode(n.items[j])
  <2>1. S \subseteq S \cup {NoNode}
    OBVIOUS
  <2>2. NoNode \notin S
    BY NoNodeIs
  <2> HIDE DEF S
  <2> QED
    BY <1>3, <2>1, <2>2, SeqMonotonic DEF IsNode
<1> HIDE DEF S, Copy
<1>9. CopyEntries(n.items) = Items(n.items)
  BY <1>8, CopyEntriesFacts
<1> QED
  BY <1>3, <1>7, <1>9 DEF Copy

(* Every such node copies to itself, at any depth.                         *)
LEMMA CleanCopies ==
  ASSUME NEW Included, NEW Recopied
  PROVE  \A h \in 0 .. Height : \A n \in Clean(h) : CopyNode(Included, Recopied)[n] = n
<1> DEFINE Copy == CopyNode(Included, Recopied)
           T == {h \in Nat : h <= Height => \A n \in Clean(h) : Copy[n] = n}
<1>1. Height \in Nat
  BY HeightIs
<1>2. ASSUME NEW h \in 0 .. Height, NEW n \in Clean(h), n \in Leaf PROVE Copy[n] = n
  <2>1. n \in Nested[h] /\ n \in Tree
    BY CleanIs
  <2>2. n.kind # "tagged"
    BY <1>2, <2>1, GoodIs DEF Clean, Fits
  <2> QED
    BY <1>2, <2>1, <2>2, LeafShape, CopyNodeIs
<1>3. 0 \in T
  <2>1. 0 \in 0 .. Height /\ Nested[0] = Leaf
    BY <1>1, NestedIs
  <2> QED
    BY <1>2, <2>1, CleanIs
<1>4. ASSUME NEW g \in Nat, g \in T PROVE g + 1 \in T
  <2> SUFFICES ASSUME g + 1 <= Height, NEW n \in Clean(g + 1) PROVE Copy[n] = n
    OBVIOUS
  <2>1. g + 1 \in 0 .. Height /\ g \in 0 .. Height /\ (g + 1) - 1 = g
    BY <1>1
  <2>2. n \in Nested[g + 1]
    BY <2>1, CleanIs
  <2>3. \A c \in Children(n) : c \in Clean(g)
    BY <2>1, <2>2, GoodIs DEF Clean
  <2>4. \A c \in Children(n) : Copy[c] = c
    BY <1>4, <2>1, <2>3
  <2>5. n \in Leaf \/ IsMapping(n) \/ IsSequence(n)
    BY <2>1, <2>2, TreeIs, Shape DEF IsMapping, IsSequence
  <2> HIDE DEF T
  <2> QED
    BY <1>2, <2>1, <2>3, <2>4, <2>5, CleanMapping, CleanSequence
<1> QED
  <2>1. \A h \in Nat : h \in T
    <3> HIDE DEF T
    <3> QED
      BY <1>3, <1>4, SetInduction
  <2> QED
    BY <1>1, <2>1

(* Every file within the limit can be read, and none is beyond it.         *)
Complete == /\ main \in File /\ files \in FileSystems
            /\ IncludedAfter(main, MaxIncludeDepth) = {}
            /\ WithinDepth(main) \subseteq {f \in File : IsNode(files[f])}

CleanFrom(d) ==
  \A f \in IncludedAfter(main, d) : CopyAt(files)[d][files[f]] \in Clean(MaxNesting + Reach(d))

(* The copies of the files of a depth, from those of the next.             *)
LEMMA CleanStep ==
  ASSUME Complete, NEW d \in 0 .. MaxIncludeDepth - 1,
         d + 1 = MaxIncludeDepth \/ (d + 1 \in 0 .. MaxIncludeDepth - 1 /\ CleanFrom(d + 1))
  PROVE  CleanFrom(d)
<1> DEFINE H == MaxNesting + Reach(d + 1)
           V == IncludedAfter(main, d + 1)
<1>1. d + 1 \in Nat /\ d + 1 \in 0 .. MaxIncludeDepth /\ d \in 0 .. MaxIncludeDepth
  BY DepthAssumption
<1>2. /\ MaxNesting \in 0 .. Height /\ H \in 0 .. Height /\ H <= Reach(d)
      /\ Reach(d) = H + Reach(d + 1) /\ Reach(d) \in 0 .. Height /\ MaxNesting + Reach(d) <= Height
  BY <1>1, ReachIs, HeightIs
<1> HIDE DEF V
<1>3. ASSUME NEW v \in V
      PROVE  /\ d + 1 \in 0 .. MaxIncludeDepth - 1 /\ v \in File /\ v \in Value
             /\ IncludedAt(files, d)[v] \in Clean(H)
             /\ RecopiedAt(files, d)[v] \in Clean(Reach(d))
  <2>1. d + 1 \in 0 .. MaxIncludeDepth - 1 /\ CleanFrom(d + 1)
    BY <1>3 DEF Complete, V
  <2>2. v \in WithinDepth(main)
    BY <2>1, Further DEF V
  <2>3. v \in File /\ v \in Value
    BY <2>2, DocumentIs DEF Complete
  <2> DEFINE m == IncludedAt(files, d)[v]
  <2>4. m = CopyAt(files)[d + 1][files[v]] /\ RecopiedAt(files, d)[v] = CopyAt(files)[d + 1][m]
    BY <2>3, IncludedAtIs DEF Complete
  <2>5. m \in Clean(H)
    BY <2>1, <2>4 DEF CleanFrom, V
  <2> HIDE DEF m, H
  <2>6. m \in Nested[H] /\ m \in Tree /\ Includes(m) = {}
    BY <1>2, <2>5, CleanIs
  <2>7. Ready(m, {}, AnyKey, RecopiedAt(files, d + 1), Reach(d + 1), IncludeKey, {})
    BY <2>6, KeysAndNames DEF Ready, GivesGood
  <2>8. /\ GivesGood(IncludedAt(files, d + 1), {}, Reach(d + 1), IncludeKey, AnyKey, {})
        /\ Total(IncludeKey, {})
    BY DEF GivesGood, Total
  <2>9. H + Reach(d + 1) <= Height
    BY <1>2
  <2>10. CopyAt(files)[d + 1][m] \in Good(H + Reach(d + 1), IncludeKey, AnyKey) \cup {}
    BY <1>2, <2>1, <2>6, <2>7, <2>8, <2>9, CopyAtGood
  <2> QED
    BY <1>2, <2>1, <2>3, <2>4, <2>5, <2>10 DEF Clean, m
<1>4. Clean(H) \subseteq Clean(Reach(d))
  BY <1>2, GoodGrows DEF Clean
<1> HIDE DEF H
<1>5. /\ GivesGood(IncludedAt(files, d), V, Reach(d), IncludeKey, AnyKey, {})
      /\ GivesGood(RecopiedAt(files, d), V, Reach(d), IncludeKey, AnyKey, {})
      /\ Total(IncludeKey, {})
  BY <1>3, <1>4 DEF GivesGood, Clean, Total
<1>6. ASSUME NEW f \in IncludedAfter(main, d)
      PROVE  CopyAt(files)[d][files[f]] \in Clean(MaxNesting + Reach(d))
  <2>1. f \in File /\ IsNode(files[f])
    BY Further DEF Complete
  <2>2. files[f] \in Nested[MaxNesting] /\ files[f] \in Tree
    BY <1>2, <2>1, DocumentIs, TreeIs DEF Complete, IsNode
  <2>3. Includes(files[f]) \subseteq V
    BY <2>1, Further DEF V
  <2>4. Ready(files[f], V, AnyKey, RecopiedAt(files, d), Reach(d), IncludeKey, {})
    BY <1>5, <2>2, <2>3, KeysAndNames DEF Ready
  <2>5. CopyAt(files)[d][files[f]] \in Good(MaxNesting + Reach(d), IncludeKey, AnyKey) \cup {}
    BY <1>2, <1>5, <2>2, <2>4, CopyAtGood
  <2> QED
    BY <2>5 DEF Clean
<1> QED
  BY <1>6 DEF CleanFrom

(* When all files can be read and none is beyond the limit, the copies of  *)
(* the files of every depth are nodes with nothing left to include.        *)
LEMMA AlwaysClean ==
  ASSUME Complete
  PROVE  \A d \in 0 .. MaxIncludeDepth - 1 : CleanFrom(d)
<1> DEFINE D == MaxIncludeDepth
           T == {k \in Nat : k < D => CleanFrom(D - 1 - k)}
<1>1. D \in Nat /\ D # 0
  BY DepthAssumption
<1>2. 0 \in T
  <2>1. D - 1 \in 0 .. D - 1 /\ (D - 1) + 1 = D /\ D - 1 - 0 = D - 1
    BY <1>1
  <2>2. CleanFrom(D - 1)
    BY <2>1, CleanStep
  <2> QED
    BY <2>1, <2>2
<1>3. ASSUME NEW k \in Nat, k \in T PROVE k + 1 \in T
  <2> SUFFICES ASSUME k + 1 < D PROVE CleanFrom(D - 1 - (k + 1))
    OBVIOUS
  <2>1. /\ D - 1 - (k + 1) \in 0 .. D - 1 /\ (D - 1 - (k + 1)) + 1 = D - 1 - k
        /\ D - 1 - k \in 0 .. D - 1 /\ k < D
    BY <1>1
  <2>2. CleanFrom(D - 1 - k)
    BY <1>3, <2>1
  <2> QED
    BY <2>1, <2>2, CleanStep
<1>4. \A k \in Nat : k \in T
  <2> HIDE DEF T
  <2> QED
    BY <1>2, <1>3, SetInduction
<1>5. ASSUME NEW d \in 0 .. D - 1 PROVE CleanFrom(d)
  <2>1. D - 1 - d \in Nat /\ D - 1 - d < D /\ D - 1 - (D - 1 - d) = d
    BY <1>1
  <2> QED
    BY <1>4, <2>1
<1> QED
  BY <1>5

-----------------------------------------------------------------------------
(* Without forms of include that copy twice, the keys of a copy are those  *)
(* of files within the limit.                                              *)
Within == AnyKey \ (File \ WithinDepth(main))
KeyedOnly == main \in File /\ files \in FileSystems /\ \A f \in File : ~CopiesTwice(files[f])
KeyedFrom(d) ==
  \A f \in IncludedAfter(main, d) \cap File :
    CopyAt(files)[d][files[f]] \in Good(MaxNesting + Reach(d), {}, Within) \cup {NoNode}

(* The keys of the copies of a depth, from those of the next.              *)
LEMMA KeyedStep ==
  ASSUME KeyedOnly, NEW d \in 0 .. MaxIncludeDepth - 1, KeyedFrom(d + 1)
  PROVE  KeyedFrom(d)
<1> DEFINE H == MaxNesting + Reach(d + 1)
           N == {NoNode}
<1>1. d + 1 \in Nat /\ d \in Nat /\ d + 1 \in 0 .. MaxIncludeDepth /\ d \in 0 .. MaxIncludeDepth
  BY DepthAssumption
<1>2. /\ MaxNesting \in 0 .. Height /\ H \in 0 .. Height /\ H <= Reach(d)
      /\ Reach(d) \in 0 .. Height /\ MaxNesting + Reach(d) <= Height
  BY <1>1, ReachIs, HeightIs
<1>3. Good(H, {}, Within) \subseteq Good(Reach(d), {}, Within)
  BY <1>2, GoodGrows
<1>4. Total({}, N)
  BY DEF Total
<1> HIDE DEF H, N
<1>5. ASSUME NEW f \in IncludedAfter(main, d) \cap File, files[f] # NoNode
      PROVE  CopyAt(files)[d][files[f]] \in Good(MaxNesting + Reach(d), {}, Within) \cup N
  <2> DEFINE V == Includes(files[f])
  <2>1. files[f] \in Nested[MaxNesting] /\ files[f] \in Tree
    BY <1>2, <1>5, DocumentIs, TreeIs DEF KeyedOnly
  <2>2. V \subseteq Value /\ V \subseteq IncludedAfter(main, d + 1)
    BY <2>1, KeysAndNames, Further
  <2>3. ASSUME NEW v \in V PROVE IncludedAt(files, d)[v] \in Good(Reach(d), {}, Within) \cup N
    <3>1. CASE v \in File
      <4>1. IncludedAt(files, d)[v] = CopyAt(files)[d + 1][files[v]]
        BY <2>2, <3>1, IncludedAtIs DEF KeyedOnly
      <4> HIDE DEF V
      <4>2. CopyAt(files)[d + 1][files[v]] \in Good(H, {}, Within) \cup N
        BY <2>2, <3>1 DEF KeyedFrom, H, N
      <4> QED
        BY <1>3, <4>1, <4>2
    <3>2. CASE v \notin File
      BY <2>2, <3>2, IncludedAtIs DEF KeyedOnly, N
    <3> QED
      BY <3>1, <3>2
  <2>4. \A p \in PairsOf(files[f]) : p.key \in Within
    <3>1. f \in WithinDepth(main)
      BY Further
    <3> QED
      BY <2>1, <3>1, KeysAndNames, DocumentIs DEF KeyedOnly, Within
  <2>5. Ready(files[f], V, Within, RecopiedAt(files, d), Reach(d), {}, N)
    BY <2>4 DEF Ready, KeyedOnly
  <2>6. GivesGood(IncludedAt(files, d), V, Reach(d), {}, Within, N)
    BY <2>3 DEF GivesGood
  <2> HIDE DEF V
  <2> QED
    BY <1>2, <1>4, <2>1, <2>5, <2>6, CopyAtGood
<1>6. ASSUME NEW f \in IncludedAfter(main, d) \cap File, files[f] = NoNode
      PROVE  CopyAt(files)[d][files[f]] = NoNode
  BY <1>1, <1>6, CopyAtIs
<1> QED
  BY <1>5, <1>6 DEF KeyedFrom, N

(* The copy of the main file has no key of a file beyond the limit.        *)
LEMMA AlwaysKeyed ==
  ASSUME KeyedOnly
  PROVE  KeyedFrom(0)
<1> DEFINE D == MaxIncludeDepth
           T == {k \in Nat : k <= D => KeyedFrom(D - k)}
<1>1. D \in Nat /\ D >= D
  BY DepthAssumption
<1>2. 0 \in T
  <2>1. \A n \in Tree \cup {NoNode} : CopyAt(files)[D][n] = NoNode
    BY <1>1, CopyAtIs
  <2>2. \A f \in File : files[f] \in Tree \cup {NoNode}
    BY DocumentIs, HeightIs, TreeIs DEF KeyedOnly
  <2>3. KeyedFrom(D)
    BY <2>1, <2>2 DEF KeyedFrom
  <2>4. D - 0 = D
    BY <1>1
  <2> QED
    BY <2>3, <2>4
<1>3. ASSUME NEW k \in Nat, k \in T PROVE k + 1 \in T
  <2> SUFFICES ASSUME k + 1 <= D PROVE KeyedFrom(D - (k + 1))
    OBVIOUS
  <2>1. D - (k + 1) \in 0 .. D - 1 /\ (D - (k + 1)) + 1 = D - k /\ k <= D
    BY <1>1
  <2>2. KeyedFrom(D - k)
    BY <1>3, <2>1
  <2> QED
    BY <2>1, <2>2, KeyedStep
<1>4. D \in T
  <2> HIDE DEF T
  <2> QED
    BY <1>1, <1>2, <1>3, SetInduction
<1>5. D - D = 0
  BY <1>1
<1> QED
  BY <1>1, <1>4, <1>5

-----------------------------------------------------------------------------
(* The values that the documents give a key, from the limit up.            *)
GivenOf(g, k, d) == IF d >= MaxIncludeDepth THEN [f \in File |-> NoNode]
                    ELSE ValuesAt(g[d + 1], k, d)
IsGiven(g, k) == g = [d \in Nat |-> GivenOf(g, k, d)]

(* There are the values of every depth: those of a depth need those of the *)
(* next alone.                                                             *)
LEMMA GivenExists ==
  ASSUME NEW k
  PROVE  \E g : IsGiven(g, k) /\ \A f, d : Provides(f, k, d) = g[d][f]
<1> DEFINE D == MaxIncludeDepth
           Upto(f, n) == f = [d \in Nat |-> IF d + n >= D THEN GivenOf(f, k, d) ELSE NoNode]
           T == {n \in Nat : \E f : Upto(f, n)}
<1>1. D \in Nat
  BY DepthAssumption
<1>2. ASSUME NEW n \in Nat, NEW f,
             \A d \in Nat : d + n >= D => d >= D \/ f[d + 1] = GivenOf(f, k, d + 1)
      PROVE  \E e : Upto(e, n)
  <2> DEFINE e == [d \in Nat |-> IF d + n >= D THEN GivenOf(f, k, d) ELSE NoNode]
  <2>1. \A d \in Nat : e[d] = IF d + n >= D THEN GivenOf(f, k, d) ELSE NoNode
    OBVIOUS
  <2>2. DOMAIN e = Nat /\ e = [d \in DOMAIN e |-> e[d]]
    OBVIOUS
  <2> HIDE DEF e
  <2>3. ASSUME NEW d \in Nat, d + n >= D PROVE GivenOf(f, k, d) = GivenOf(e, k, d)
    <3>1. d + 1 \in Nat /\ (d + 1) + n >= D
      BY <1>1, <2>3
    <3>2. d >= D \/ f[d + 1] = e[d + 1]
      BY <1>2, <2>1, <2>3, <3>1
    <3> QED
      BY <3>2 DEF GivenOf
  <2>4. \A d \in Nat : e[d] = IF d + n >= D THEN GivenOf(e, k, d) ELSE NoNode
    BY <2>1, <2>3
  <2>5. e = [d \in Nat |-> IF d + n >= D THEN GivenOf(e, k, d) ELSE NoNode]
    BY <2>2, <2>4
  <2> QED
    BY <2>5
<1>3. 0 \in T
  <2>1. \A d \in Nat : d + 0 >= D => d >= D
    BY <1>1
  <2> HIDE DEF Upto
  <2> QED
    BY <1>2, <2>1
<1>4. ASSUME NEW n \in Nat, n \in T PROVE n + 1 \in T
  <2>1. PICK f : Upto(f, n)
    BY <1>4
  <2>2. \A d \in Nat : d + n >= D => f[d] = GivenOf(f, k, d)
    BY <2>1
  <2>3. \A d \in Nat : d + (n + 1) >= D => d + 1 \in Nat /\ (d + 1) + n >= D
    BY <1>1
  <2> HIDE DEF Upto
  <2> QED
    BY <1>2, <2>2, <2>3
<1>5. D \in T
  <2> HIDE DEF T
  <2> QED
    BY <1>1, <1>3, <1>4, SetInduction
<1>6. PICK f : Upto(f, D)
  BY <1>5
<1>7. \A d \in Nat : d + D >= D
  BY <1>1
<1>8. f = [d \in Nat |-> GivenOf(f, k, d)]
  BY <1>6, <1>7
<1>9. \A g, d : Provides(g, k, d) = (CHOOSE e : IsGiven(e, k))[d][g]
  BY DEF Provides, IsGiven, GivenOf
<1>10. IsGiven(CHOOSE e : IsGiven(e, k), k)
  BY <1>8 DEF IsGiven
<1> QED
  BY <1>9, <1>10

(* A mapping has unique keys, and a node under each.                       *)
LEMMA TreeMapping ==
  ASSUME NEW n \in Tree, IsMapping(n)
  PROVE  /\ n \in UniqueMappings(PairSet(Tree)) /\ n.pairs \in Seq(PairSet(Tree)) /\ Unique(n)
         /\ DOMAIN n.pairs = 1 .. Len(n.pairs) /\ Len(n.pairs) \in Nat
         /\ \A j \in 1 .. Len(n.pairs) : n.pairs[j] \in PairSet(Tree)
         /\ \A k : HasKey(n, k) <=> IsNode(Lookup(n, k))
<1>1. Height \in 0 .. Height /\ n \in Nested[Height] /\ n \notin Leaf
  BY TreeIs, LeafShape DEF IsMapping
<1>2. Height - 1 \in 0 .. Height /\ n \in NodesOver(Nested[Height - 1])
  BY <1>1, TreeIs
<1>3. n \in UniqueMappings(PairSet(Nested[Height - 1]))
  BY <1>1, <1>2, Shape DEF IsMapping
<1>4. PairSet(Nested[Height - 1]) \subseteq PairSet(Tree)
  BY <1>2, TreeIs DEF PairSet
<1>5. n.pairs \in Seq(PairSet(Tree)) /\ Unique(n)
  BY <1>3, <1>4, SeqMonotonic DEF UniqueMappings, Mappings
<1>6. n \in UniqueMappings(PairSet(Tree))
  BY <1>3, <1>5 DEF UniqueMappings, Mappings
<1>7. /\ DOMAIN n.pairs = 1 .. Len(n.pairs) /\ Len(n.pairs) \in Nat
      /\ \A j \in 1 .. Len(n.pairs) : n.pairs[j] \in PairSet(Tree)
  BY <1>5, LenProperties, ElementOfSeq
<1>8. NoNode \notin Tree
  BY <1>1, NoNodeIs, TreeIs
<1>9. ASSUME NEW k PROVE HasKey(n, k) <=> IsNode(Lookup(n, k))
  <2>1. CASE HasKey(n, k)
    <3>1. PICK j \in DOMAIN n.pairs : n.pairs[j].key = k /\ Lookup(n, k) = n.pairs[j].value
      BY <1>5, <2>1, LookupAt DEF HasKey
    <3> QED
      BY <1>7, <1>8, <2>1, <3>1 DEF PairSet, IsNode
  <2>2. CASE ~HasKey(n, k)
    BY <2>2 DEF Lookup, IsNode
  <2> QED
    BY <2>1, <2>2
<1> QED
  BY <1>5, <1>6, <1>7, <1>9

(* What the copy of a file answers a query of a key.                       *)
Answer(f, k, d) == LET root == ProcessNodeCopy(files, files[f], d)
                   IN IF IsMapping(root) THEN Lookup(root, k) ELSE NoNode
Loading(d) == {h \in File : IsNode(ProcessNodeCopy(files, files[h], d + 1))}

(* The copies of nodes of a document are nodes, or none.                   *)
LEMMA CopiesInTree ==
  ASSUME files \in FileSystems, NEW d \in 0 .. MaxIncludeDepth, NEW n,
         NEW h \in 0 .. MaxNesting, n \in Nested[h] \cup {NoNode}
  PROVE  ProcessNodeCopy(files, n, d) \in Tree \cup {NoNode}
<1>1. /\ d \in Nat /\ Reach(d) \in Nat /\ MaxNesting + Reach(d) <= Height
      /\ h \in 0 .. Height /\ h + Reach(d) <= Height /\ h + Reach(d) \in 0 .. Height
  BY ReachIs, HeightIs, NestingAssumption, DepthAssumption
<1>2. CASE n = NoNode
  BY <1>1, <1>2, CopyAtIs DEF ProcessNodeCopy
<1>3. CASE n \in Nested[h]
  <2>1. CopiesTagless(files, d)
    BY AlwaysTagless
  <2>2. CopyAt(files)[d][n] \in Nested[h + Reach(d)] \cup {NoNode}
    BY <1>1, <1>3, <2>1 DEF CopiesTagless, Tagless, Good
  <2> QED
    BY <1>1, <2>2, TreeIs DEF ProcessNodeCopy
<1> QED
  BY <1>2, <1>3

(* The loop over the pairs of a document answers a query as ValueIn says,  *)
(* when the includes answer as the values of the next depth say.           *)
LEMMA PrevailStep ==
  ASSUME files \in FileSystems, NEW d \in 0 .. MaxIncludeDepth - 1, NEW k, NEW Deeper,
         \A v \in File : Deeper[v] = Answer(v, k, d + 1),
         NEW f \in File, IsMapping(files[f])
  PROVE  LET root == ProcessNodeCopy(files, files[f], d)
         IN /\ root \in UniqueMappings(PairSet(Tree)) /\ IsMapping(root)
            /\ ValueIn(files[f].pairs, k, Deeper, Loading(d), d) = Lookup(root, k)
<1> DEFINE n == files[f]
           pairs == n.pairs
           root == ProcessNodeCopy(files, n, d)
           Included == IncludedAt(files, d)
           Copy == CopyNode(Included, RecopiedAt(files, d))
           incl == PairIncludes(n, Included)
           cop == PairCopies(n, Copy)
           P == PairSet(Tree)
<1>1. /\ d \in Nat /\ d < MaxIncludeDepth /\ d \in 0 .. MaxIncludeDepth
      /\ d + 1 \in 0 .. MaxIncludeDepth
  BY DepthAssumption
<1>2. n \in Nested[MaxNesting] /\ n \in Tree /\ n.kind = "mapping"
  BY DocumentIs, NoNodeIs, HeightIs, TreeIs DEF IsMapping
<1>3. /\ pairs \in Seq(P) /\ Unique(n) /\ DOMAIN pairs = 1 .. Len(pairs) /\ Len(pairs) \in Nat
      /\ \A j \in 1 .. Len(pairs) : pairs[j] \in P
  BY <1>2, TreeMapping
<1>4. CopyAt(files)[d] = Copy
  BY <1>1, CopyAtIs
<1>5. root = CopyPairs(pairs, incl, cop)
  BY <1>2, <1>4, CopyNodeIs DEF ProcessNodeCopy
<1>6. ASSUME NEW j \in 1 .. Len(pairs)
      PROVE  /\ cop[j] = ProcessNodeCopy(files, pairs[j].value, d)
             /\ cop[j] \in Tree \cup {NoNode}
  <2>1. cop[j] = ProcessNodeCopy(files, pairs[j].value, d)
    BY <1>4 DEF PairCopies, ProcessNodeCopy
  <2>2. pairs[j].value \in Children(n)
    BY <1>2, <1>3 DEF Children, IsMapping
  <2>3. MaxNesting \in 1 .. Height /\ pairs[j].value \in Nested[MaxNesting - 1]
    BY <1>2, <2>2, ChildrenIs, HeightIs
  <2>4. MaxNesting - 1 \in 0 .. MaxNesting
    BY <2>3, NestingAssumption
  <2> HIDE DEF cop, pairs
  <2>5. ProcessNodeCopy(files, pairs[j].value, d) \in Tree \cup {NoNode}
    BY <1>1, <2>3, <2>4, CopiesInTree
  <2> QED
    BY <2>1, <2>5
<1>7. ASSUME NEW j \in 1 .. Len(pairs), NamesInclude(pairs[j]), pairs[j].value.value \in File
      PROVE  /\ incl[j] = ProcessNodeCopy(files, files[pairs[j].value.value], d + 1)
             /\ incl[j] \in Tree \cup {NoNode}
             /\ Deeper[pairs[j].value.value] = IF IsMapping(incl[j]) THEN Lookup(incl[j], k) ELSE NoNode
  <2> DEFINE v == pairs[j].value.value
  <2>1. v \in File /\ v \in Value
    BY <1>7, NameAssumption
  <2>2. incl[j] = Included[v]
    BY <1>7 DEF PairIncludes
  <2>3. incl[j] = ProcessNodeCopy(files, files[v], d + 1)
    BY <2>1, <2>2, IncludedAtIs DEF ProcessNodeCopy
  <2> HIDE DEF v, incl
  <2>4. files[v] \in Nested[MaxNesting] \cup {NoNode} /\ MaxNesting \in 0 .. MaxNesting
    BY <2>1, DocumentIs, NestingAssumption
  <2>5. incl[j] \in Tree \cup {NoNode}
    BY <1>1, <2>3, <2>4, CopiesInTree
  <2>6. Deeper[v] = IF IsMapping(incl[j]) THEN Lookup(incl[j], k) ELSE NoNode
    BY <2>1, <2>3 DEF Answer
  <2> QED
    BY <2>3, <2>5, <2>6 DEF v
<1>8. ASSUME NEW j \in 1 .. Len(pairs), ~(NamesInclude(pairs[j]) /\ pairs[j].value.value \in File)
      PROVE  incl[j] = NoNode
  <2>1. CASE NamesInclude(pairs[j])
    <3>1. pairs[j].value.value \in Value
      BY <1>2, <1>3, <2>1, PartsIs, KeysAndNames
    <3> QED
      BY <1>8, <2>1, <3>1, IncludedAtIs DEF PairIncludes
  <2>2. CASE ~NamesInclude(pairs[j])
    BY <2>2 DEF PairIncludes
  <2> QED
    BY <2>1, <2>2
<1> HIDE DEF incl, cop, Copy, Included, root, P
<1>9. ASSUME NEW j \in 1 .. Len(pairs)
      PROVE  PairFits(pairs[j], incl[j], cop[j], P)
  <2>1. incl[j] \in Tree \cup {NoNode}
    BY <1>7, <1>8
  <2>2. IsNode(incl[j]) /\ IsMapping(incl[j]) => incl[j] \in UniqueMappings(P)
    BY <2>1, TreeMapping DEF IsNode, P
  <2>3. IsNode(cop[j]) => Pair(pairs[j].key, cop[j]) \in P
    BY <1>3, <1>6 DEF IsNode, P, PairSet, Pair
  <2> QED
    BY <2>2, <2>3 DEF PairFits
<1>10. CopiedUpTo(root, pairs, incl, cop, Len(pairs), P)
  <2> HIDE DEF pairs
  <2>1. PairsFit(pairs, incl, cop, P)
    BY <1>9 DEF PairsFit
  <2> QED
    BY <1>3, <1>5, <2>1, CopyPairsFacts
<1>11. root \in UniqueMappings(P) /\ IsMapping(root)
  BY <1>10 DEF CopiedUpTo, UniqueMappings, Mappings, IsMapping
<1> DEFINE N == Len(pairs)
           Loaded == {j \in DOMAIN pairs : NamesInclude(pairs[j]) /\ pairs[j].value.value \in Loading(d)}
           Giving == {j \in Loaded : IsNode(Deeper[pairs[j].value.value])}
           Own == {j \in DOMAIN pairs \ Loaded : pairs[j].key = k}
           Last == CHOOSE j \in Giving : \A h \in Giving : h <= j
           One == CHOOSE j \in Own : TRUE
<1>12. ValueIn(pairs, k, Deeper, Loading(d), d)
         = IF Giving # {} THEN Deeper[pairs[Last].value.value]
           ELSE IF Own = {} THEN NoNode ELSE ProcessNodeCopy(files, pairs[One].value, d)
  BY DEF ValueIn
<1> HIDE DEF n
<1>13. \A j \in 1 .. N : j \in Loaded <=> IsNode(incl[j])
  BY <1>3, <1>7, <1>8 DEF Loading, IsNode
<1>14. ASSUME NEW j \in 1 .. N
       PROVE  /\ j \in Giving <=> Gives(incl[j], k)
              /\ j \in Giving => Deeper[pairs[j].value.value] = Lookup(incl[j], k)
  <2>1. CASE j \notin Loaded
    BY <1>13, <2>1 DEF Gives
  <2>2. CASE j \in Loaded
    <3>1. /\ NamesInclude(pairs[j]) /\ pairs[j].value.value \in File /\ IsNode(incl[j])
      BY <1>13, <2>2 DEF Loading
    <3>2. incl[j] \in Tree
      BY <1>7, <3>1 DEF IsNode
    <3>3. IsMapping(incl[j]) => (HasKey(incl[j], k) <=> IsNode(Lookup(incl[j], k)))
      BY <3>2, TreeMapping
    <3>4. Deeper[pairs[j].value.value] = IF IsMapping(incl[j]) THEN Lookup(incl[j], k) ELSE NoNode
      BY <1>7, <3>1
    <3>5. j \in Giving <=> IsNode(Deeper[pairs[j].value.value])
      BY <2>2
    <3> HIDE DEF Giving, Loaded, pairs
    <3> QED
      BY <3>1, <3>3, <3>4, <3>5 DEF Gives, IsNode
  <2> QED
    BY <2>1, <2>2
<1>15. /\ Giving \subseteq 1 .. N /\ Own \subseteq 1 .. N
       /\ \A j \in 1 .. N : j \in Own <=> ~IsNode(incl[j]) /\ pairs[j].key = k
  BY <1>3, <1>13
<1>16. /\ N \in Nat
       /\ \A j, h \in 1 .. N : pairs[j].key = pairs[h].key => j = h
  BY <1>3 DEF Unique
<1> HIDE DEF Giving, Own, Loaded, N
<1>17. /\ \A x : HasKey(root, x) <=> \E j \in 1 .. N : \/ Gives(incl[j], x)
                                                       \/ Keeps(pairs[j], incl[j], cop[j], x)
       /\ \A j \in 1 .. N :
            Gives(incl[j], k) /\ (\A h \in 1 .. N : Gives(incl[h], k) => h <= j)
              => Lookup(root, k) = Lookup(incl[j], k)
       /\ \A j \in 1 .. N :
            /\ Keeps(pairs[j], incl[j], cop[j], k)
            /\ \A h \in 1 .. N : ~Gives(incl[h], k)
            /\ \A h \in 1 .. N : Keeps(pairs[h], incl[h], cop[h], k) => h = j
            => Lookup(root, k) = cop[j]
  BY <1>10 DEF CopiedUpTo, N
<1> HIDE DEF pairs
<1>18. CASE Giving # {}
  <2>1. \E j \in Giving : \A h \in Giving : h <= j
    BY <1>15, <1>16, <1>18, Greatest
  <2>2. Last \in Giving /\ \A h \in Giving : h <= Last
    BY <2>1
  <2> HIDE DEF Last
  <2>3. Last \in 1 .. N
    BY <1>15, <2>2
  <2>4. Gives(incl[Last], k) /\ Deeper[pairs[Last].value.value] = Lookup(incl[Last], k)
    BY <1>14, <2>2, <2>3
  <2>5. \A h \in 1 .. N : Gives(incl[h], k) => h <= Last
    BY <1>14, <2>2
  <2>6. Lookup(root, k) = Lookup(incl[Last], k)
    BY <1>17, <2>3, <2>4, <2>5
  <2> QED
    BY <1>11, <1>12, <1>18, <2>4, <2>6 DEF root, P, pairs, n
<1>19. CASE Giving = {} /\ Own = {}
  <2>1. \A j \in 1 .. N : ~Gives(incl[j], k) /\ ~Keeps(pairs[j], incl[j], cop[j], k)
    BY <1>14, <1>15, <1>19 DEF Keeps
  <2>2. ~HasKey(root, k)
    BY <1>17, <2>1
  <2>3. Lookup(root, k) = NoNode
    BY <2>2 DEF Lookup
  <2> QED
    BY <1>11, <1>12, <1>19, <2>3 DEF root, P, pairs, n
<1>20. CASE Giving = {} /\ Own # {}
  <2>1. One \in Own
    BY <1>20
  <2> HIDE DEF One
  <2>2. One \in 1 .. N /\ ~IsNode(incl[One]) /\ pairs[One].key = k
    BY <1>15, <2>1
  <2>3. \A h \in 1 .. N : ~Gives(incl[h], k) /\ (Keeps(pairs[h], incl[h], cop[h], k) => h = One)
    BY <1>14, <1>16, <1>20, <2>2 DEF Keeps
  <2>4. Lookup(root, k) = cop[One]
    <3>1. CASE IsNode(cop[One])
      <4>1. Keeps(pairs[One], incl[One], cop[One], k)
        BY <2>2, <3>1 DEF Keeps
      <4> QED
        BY <1>17, <2>2, <2>3, <4>1
    <3>2. CASE ~IsNode(cop[One])
      <4>1. \A j \in 1 .. N : ~Gives(incl[j], k) /\ ~Keeps(pairs[j], incl[j], cop[j], k)
        BY <2>3, <3>2 DEF Keeps
      <4>2. ~HasKey(root, k)
        BY <1>17, <4>1
      <4> QED
        BY <3>2, <4>2 DEF Lookup, IsNode
    <3> QED
      BY <3>1, <3>2
  <2>5. cop[One] = ProcessNodeCopy(files, pairs[One].value, d)
    BY <1>6, <2>2 DEF N
  <2> QED
    BY <1>11, <1>12, <1>20, <2>4, <2>5 DEF root, P, pairs, n
<1> QED
  BY <1>18, <1>19, <1>20

(* The values that the documents give a key at a depth are those the       *)
(* copies of that depth answer.                                            *)
LEMMA AlwaysPrevails ==
  ASSUME files \in FileSystems, NEW k, NEW g, IsGiven(g, k)
  PROVE  \A d \in 0 .. MaxIncludeDepth : \A f \in File : g[d][f] = Answer(f, k, d)
<1> DEFINE D == MaxIncludeDepth
           Holds(d) == \A f \in File : g[d][f] = Answer(f, k, d)
           T == {n \in Nat : n <= D => Holds(D - n)}
<1>1. D \in Nat /\ D >= D
  BY DepthAssumption
<1>2. \A d \in Nat : g[d] = GivenOf(g, k, d)
  BY DEF IsGiven
<1>3. Holds(D)
  <2>1. ASSUME NEW f \in File PROVE Answer(f, k, D) = NoNode
    <3>1. files[f] \in Tree \cup {NoNode}
      BY DocumentIs, HeightIs, TreeIs
    <3>2. ProcessNodeCopy(files, files[f], D) = NoNode
      BY <1>1, <3>1, CopyAtIs DEF ProcessNodeCopy
    <3> QED
      BY <3>2, NoNodeIs DEF Answer, IsMapping
  <2>2. g[D] = [f \in File |-> NoNode]
    BY <1>1, <1>2 DEF GivenOf
  <2> QED
    BY <2>1, <2>2
<1>4. ASSUME NEW d \in 0 .. D - 1, Holds(d + 1) PROVE Holds(d)
  <2>1. d \in Nat /\ ~(d >= D)
    BY <1>1
  <2>2. g[d] = ValuesAt(g[d + 1], k, d)
    BY <1>2, <2>1 DEF GivenOf
  <2>3. ASSUME NEW f \in File PROVE g[d][f] = Answer(f, k, d)
    <3>1. g[d][f] = IF IsMapping(files[f])
                    THEN ValueIn(files[f].pairs, k, g[d + 1], Loading(d), d)
                    ELSE Answer(f, k, d)
      BY <2>2 DEF ValuesAt, Answer, Loading
    <3>2. CASE IsMapping(files[f])
      <4>1. /\ IsMapping(ProcessNodeCopy(files, files[f], d))
            /\ ValueIn(files[f].pairs, k, g[d + 1], Loading(d), d)
                 = Lookup(ProcessNodeCopy(files, files[f], d), k)
        BY <1>4, <3>2, PrevailStep
      <4> QED
        BY <3>1, <3>2, <4>1 DEF Answer
    <3>3. CASE ~IsMapping(files[f])
      BY <3>1, <3>3
    <3> QED
      BY <3>2, <3>3
  <2> QED
    BY <2>3
<1> HIDE DEF Holds
<1>5. 0 \in T
  <2>1. D - 0 = D
    BY <1>1
  <2> QED
    BY <1>3, <2>1
<1>6. ASSUME NEW n \in Nat, n \in T PROVE n + 1 \in T
  <2> SUFFICES ASSUME n + 1 <= D PROVE Holds(D - (n + 1))
    OBVIOUS
  <2>1. D - (n + 1) \in 0 .. D - 1 /\ (D - (n + 1)) + 1 = D - n /\ n <= D
    BY <1>1
  <2>2. Holds(D - n)
    BY <1>6, <2>1
  <2> QED
    BY <1>4, <2>1, <2>2
<1>7. \A n \in Nat : n \in T
  <2> HIDE DEF T
  <2> QED
    BY <1>5, <1>6, SetInduction
<1>8. ASSUME NEW d \in 0 .. D PROVE Holds(d)
  <2>1. D - d \in Nat /\ D - d <= D /\ D - (D - d) = d
    BY <1>1
  <2> QED
    BY <1>7, <2>1
<1> QED
  BY <1>8 DEF Holds

-----------------------------------------------------------------------------
(* What was opened, and that the copy was made of it.                      *)
IInv == /\ files \in FileSystems
        /\ \/ main = NoFile /\ copied = NoNode
           \/ main \in File /\ copied = ProcessNodeCopy(files, files[main], 0)

(* IInv holds in every reachable state: ut_kvp_open makes its document by  *)
(* one call of process_node_copy at depth 0, and nothing changes it after. *)
THEOREM Inductive == Spec => []IInv
<1>1. Init => IInv
  BY DEF Init, IInv
<1>2. IInv /\ [Next]_vars => IInv'
  <2> SUFFICES ASSUME IInv, [Next]_vars PROVE IInv'
    OBVIOUS
  <2>1. CASE Next
    <3>1. PICK f \in File : Open(f)
      BY <2>1 DEF Next
    <3>2. /\ files' = files /\ main' = f
          /\ copied' = ProcessNodeCopy(files, files[f], 0)
      BY <3>1 DEF Open
    <3>3. copied' = ProcessNodeCopy(files', files'[main'], 0)
      BY <3>2
    <3> QED
      BY <3>2, <3>3 DEF IInv
  <2>2. CASE UNCHANGED vars
    BY <2>2 DEF IInv, vars
  <2> QED
    BY <2>1, <2>2
<1> QED
  BY <1>1, <1>2, PTL DEF Spec

(* The document that was opened is without tags, or there is none.         *)
LEMMA CopiedIs ==
  ASSUME IInv
  PROVE  copied \in Tagless(MaxNesting + Reach(0)) \cup {NoNode}
<1>1. /\ 0 \in 0 .. MaxIncludeDepth /\ MaxNesting \in 0 .. Height
      /\ MaxNesting + Reach(0) <= Height
  BY DepthAssumption, HeightIs, ReachIs
<1>2. CASE main \in File /\ copied = ProcessNodeCopy(files, files[main], 0)
  <2>1. files[main] \in Nested[MaxNesting] \cup {NoNode} /\ CopiesTagless(files, 0)
    BY <1>1, <1>2, DocumentIs, AlwaysTagless DEF IInv
  <2>2. CASE files[main] = NoNode
    BY <1>2, <2>2, CopyAtIs DEF ProcessNodeCopy
  <2>3. CASE files[main] \in Nested[MaxNesting]
    BY <1>1, <1>2, <2>1, <2>3 DEF CopiesTagless, ProcessNodeCopy
  <2> QED
    BY <2>1, <2>2, <2>3
<1> QED
  BY <1>2 DEF IInv

(* The types hold, and the document that was opened holds scalars,         *)
(* mappings and sequences alone: process_node_copy leaves no !include      *)
(* behind, whatever the files include, in a circle or beyond the limit.    *)
THEOREM TypeCorrectness == Spec => []TypeOK
<1>1. IInv => TypeOK
  <2> SUFFICES ASSUME IInv PROVE TypeOK
    OBVIOUS
  <2>1. DOMAIN files = File /\ main \in File \cup {NoFile}
    BY DocumentIs DEF IInv
  <2>2. ASSUME NEW n \in Nodes(copied)
        PROVE  n.kind \in {"none", "scalar", "mapping", "sequence"}
    <3>1. CASE copied = NoNode
      BY <2>2, <3>1, NodesIs, ChildrenIs, NoNodeIs
    <3>2. CASE copied \in Tagless(MaxNesting + Reach(0))
      <4>1. MaxNesting + Reach(0) \in 0 .. Height
        BY DepthAssumption, NestingAssumption, HeightIs, ReachIs
      <4>2. copied \in Tree /\ n.kind # "tagged"
        BY <3>2, <4>1, TreeIs DEF Tagless, Good, Fits
      <4> QED
        BY <4>2, NodesInTree, KindIs
    <3> QED
      BY <3>1, <3>2, CopiedIs
  <2> QED
    BY <2>1, <2>2 DEF TypeOK
<1> QED
  BY <1>1, Inductive, PTL

(* Every query of a key of the document answers the last include of the    *)
(* main file that gives the key, or else the pair of the main file, and so *)
(* on within each include; and no key is in the document twice             *)
(* (merge_nodes, the loop over the pairs in process_node_copy).            *)
THEOREM Prevailing == Spec => []IncludesPrevail
<1>1. IInv => IncludesPrevail
  <2> SUFFICES ASSUME IInv, main # NoFile, IsMapping(files[main])
               PROVE  /\ \A k \in PlainKey \cup IncludeKey : Lookup(copied, k) = Provides(main, k, 0)
                      /\ \A j, h \in DOMAIN copied.pairs :
                           copied.pairs[j].key = copied.pairs[h].key => j = h
    BY DEF IncludesPrevail
  <2>1. /\ files \in FileSystems /\ main \in File
        /\ copied = ProcessNodeCopy(files, files[main], 0)
    BY DEF IInv
  <2>2. 0 \in 0 .. MaxIncludeDepth /\ 0 \in 0 .. MaxIncludeDepth - 1 /\ 0 + 1 \in 0 .. MaxIncludeDepth
    BY DepthAssumption
  <2>3. ASSUME NEW k PROVE Lookup(copied, k) = Provides(main, k, 0) /\ Unique(copied)
    <3>1. PICK g : IsGiven(g, k) /\ \A f, d : Provides(f, k, d) = g[d][f]
      BY GivenExists
    <3>2. \A d \in 0 .. MaxIncludeDepth : \A f \in File : g[d][f] = Answer(f, k, d)
      BY <2>1, <3>1, AlwaysPrevails
    <3>3. Provides(main, k, 0) = Answer(main, k, 0)
      BY <2>1, <2>2, <3>1, <3>2
    <3>4. \A v \in File : g[0 + 1][v] = Answer(v, k, 0 + 1)
      BY <2>2, <3>2
    <3>5. IsMapping(copied) /\ copied \in UniqueMappings(PairSet(Tree))
      BY <2>1, <2>2, <3>4, PrevailStep
    <3> QED
      BY <2>1, <3>3, <3>5 DEF Answer, UniqueMappings
  <2> QED
    BY <2>3 DEF Unique
<1> QED
  BY <1>1, Inductive, PTL

(* When every file within the limit can be read and none is beyond it, the *)
(* document that was opened has nothing left to include, and a second pass *)
(* of process_node_copy over it changes nothing.                           *)
THEOREM Expanding == Spec => []FullyExpanded
<1>1. IInv => FullyExpanded
  <2> SUFFICES ASSUME IInv, main # NoFile, IncludedAfter(main, MaxIncludeDepth) = {},
                      WithinDepth(main) \subseteq {f \in File : IsNode(files[f])}
               PROVE  /\ IsNode(copied) /\ Includes(copied) = {}
                      /\ ProcessNodeCopy(files, copied, 0) = copied
    BY DEF FullyExpanded
  <2>1. Complete /\ copied = CopyAt(files)[0][files[main]]
    BY DEF IInv, Complete, ProcessNodeCopy
  <2>2. 0 \in 0 .. MaxIncludeDepth - 1 /\ 0 < MaxIncludeDepth /\ 0 \in 0 .. MaxIncludeDepth
    BY DepthAssumption
  <2>3. CleanFrom(0) /\ main \in IncludedAfter(main, 0)
    BY <2>1, <2>2, AlwaysClean, IncludedAfterIs
  <2>4. copied \in Clean(MaxNesting + Reach(0))
    BY <2>1, <2>3 DEF CleanFrom
  <2>5. MaxNesting + Reach(0) \in 0 .. Height
    BY <2>2, NestingAssumption, HeightIs, ReachIs
  <2>6. copied \in Tree /\ Includes(copied) = {} /\ copied # NoNode
    BY <2>4, <2>5, CleanIs, NoNodeIs
  <2>7. CopyAt(files)[0] = CopyNode(IncludedAt(files, 0), RecopiedAt(files, 0))
    BY <2>2, CopyAtIs
  <2>8. CopyAt(files)[0][copied] = copied
    BY <2>4, <2>5, <2>7, CleanCopies
  <2> QED
    BY <2>6, <2>8 DEF IsNode, ProcessNodeCopy
<1> QED
  BY <1>1, Inductive, PTL

(* Where no file uses a form of include that is copied a second time (a    *)
(* tag, or an include in a sequence), the document has no key of a file    *)
(* beyond the limit (the check of depth in process_include).               *)
THEOREM KeepingToLimit == Spec => []KeysKeepWithinLimit
<1>1. IInv => KeysKeepWithinLimit
  <2> SUFFICES ASSUME IInv, \A f \in File : ~CopiesTwice(files[f]), main # NoFile,
                      NEW p \in PairsOf(copied), p.key \in File
               PROVE  p.key \in WithinDepth(main)
    BY DEF KeysKeepWithinLimit, WithinLimit
  <2>1. KeyedOnly /\ copied = CopyAt(files)[0][files[main]]
    BY DEF IInv, KeyedOnly, ProcessNodeCopy
  <2>2. main \in IncludedAfter(main, 0) \cap File
    BY <2>1, IncludedAfterIs DEF KeyedOnly
  <2>3. copied \in Good(MaxNesting + Reach(0), {}, Within) \cup {NoNode}
    BY <2>1, <2>2, AlwaysKeyed DEF KeyedFrom
  <2>4. CASE copied = NoNode
    BY <2>4, NodesIs, ChildrenIs, NoNodeIs DEF PairsOf, IsMapping
  <2>5. CASE copied \in Good(MaxNesting + Reach(0), {}, Within)
    <3>1. \A m \in Nodes(copied) : Fits(m, {}, Within)
      BY <2>5 DEF Good
    <3>2. p.key \in Within
      BY <3>1 DEF PairsOf, Fits
    <3> QED
      BY <3>2 DEF Within
  <2> QED
    BY <2>3, <2>4, <2>5
<1> QED
  BY <1>1, Inductive, PTL

=============================================================================
