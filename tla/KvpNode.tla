------------------------------ MODULE KvpNode -------------------------------
(***************************************************************************)
(* The nodes of a libfyaml document, and what the two libfyaml calls that  *)
(* change one do to it, as ut_kvp.c uses them.  A mapping is a sequence of *)
(* pairs, in the order fy_node_mapping_iterate visits them; no mapping has *)
(* a key twice.  Keys and scalar values are atomic.                        *)
(*                                                                         *)
(* A "tagged" scalar is one process_node_copy takes for an include: its    *)
(* tag is !include, or a beginning of it such as !inc, for strncmp         *)
(* compares no more than the tag's length.  Other tags it passes over.     *)
(***************************************************************************)
EXTENDS Integers, Sequences, Functions

NoNode == [kind |-> "none"]                     \* NULL
Scalar(v) == [kind |-> "scalar", value |-> v]
IncludeTag(f) == [kind |-> "tagged", value |-> f]       \* !include f
Pair(k, n) == [key |-> k, value |-> n]
Mapping(pairs) == [kind |-> "mapping", pairs |-> pairs]
Items(items) == [kind |-> "sequence", items |-> items]

IsNode(n) == n # NoNode
IsScalar(n) == n.kind \in {"scalar", "tagged"}
IsMapping(n) == n.kind = "mapping"
IsSequence(n) == n.kind = "sequence"

HasKey(n, k) == \E i \in DOMAIN n.pairs : n.pairs[i].key = k

(* The keys of a mapping are different.                                    *)
WellFormed(n) ==
  IsMapping(n) => /\ n = Mapping(n.pairs)
                  /\ n.pairs \in Seq(Range(n.pairs))
                  /\ \A i, j \in DOMAIN n.pairs : n.pairs[i].key = n.pairs[j].key => i = j

(* The value of a key of a mapping, NoNode when it has none.               *)
Lookup(n, k) ==
  IF HasKey(n, k)
  THEN LET i == CHOOSE i \in DOMAIN n.pairs : n.pairs[i].key = k
       IN n.pairs[i].value
  ELSE NoNode

(* fy_node_mapping_append: a pair goes to the end; a key the mapping has   *)
(* already is an error, which ut_kvp.c logs and forgets.                   *)
MappingAppend(n, pair) ==
  IF HasKey(n, pair.key) THEN n ELSE Mapping(Append(n.pairs, pair))

(* fy_node_insert of a mapping into a mapping: pair by pair, the value of  *)
(* a key it has is replaced, whole, and another pair is appended.          *)
InsertPair(n, pair) ==
  IF HasKey(n, pair.key)
  THEN Mapping([i \in DOMAIN n.pairs |->
                  IF n.pairs[i].key = pair.key THEN pair ELSE n.pairs[i]])
  ELSE Mapping(Append(n.pairs, pair))

NodeInsert(to, from) ==
  LET Inserted[j \in 0 .. Len(from.pairs)] ==
        IF j = 0 THEN to ELSE InsertPair(Inserted[j - 1], from.pairs[j])
  IN Inserted[Len(from.pairs)]

(* Mutant: the pairs of the main node prevail over those of the other.     *)
MergeNodesMainPrevails(mainNode, includeNode) ==
  IF IsMapping(mainNode) /\ IsMapping(includeNode)
  THEN NodeInsert(includeNode, mainNode) ELSE mainNode

(* What merge_nodes leaves in mainNode.  Only two mappings merge: a scalar *)
(* mainNode is replaced in the parameter of the function alone, and        *)
(* everything else is logged as incompatible.                              *)
MergeNodes(mainNode, includeNode) ==
  IF IsMapping(mainNode) /\ IsMapping(includeNode)
  THEN NodeInsert(mainNode, includeNode) ELSE mainNode
=============================================================================
