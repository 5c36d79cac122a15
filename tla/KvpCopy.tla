------------------------------ MODULE KvpCopy -------------------------------
(***************************************************************************)
(* process_node_copy of ut_kvp.c and what it calls: the copy made of the   *)
(* root of a document when it is opened, in which every include gives way  *)
(* to the copy of the document it names, down to UT_KVP_MAX_INCLUDE_DEPTH. *)
(* A file stands for whatever process_include reaches under a name, a      *)
(* local file or a URL, and the ways in which it can fail to give a root   *)
(* are one, NoNode.                                                        *)
(*                                                                         *)
(* The two functions of the code call each other.  Here CopyNode descends  *)
(* into a node, with what the includes of its depth give, and CopyAt goes  *)
(* from a depth to the next, which every include does.                     *)
(***************************************************************************)
EXTENDS KvpNode

CONSTANTS PlainKey,             \* keys that do not contain "include"
          IncludeKey,           \* the keys that contain it
          Value,                \* the scalars, names of files among them
          MaxNesting,           \* how deep nodes are nested in a document
          MaxIncludeDepth       \* UT_KVP_MAX_INCLUDE_DEPTH

ASSUME DepthAssumption == MaxIncludeDepth \in Nat \ {0}
ASSUME NestingAssumption == MaxNesting \in Nat
ASSUME KeyAssumption == "include" \in IncludeKey /\ PlainKey \cap IncludeKey = {}

-----------------------------------------------------------------------------
(* The nodes that are nested at most so deep, with different keys in every *)
(* mapping.                                                                *)
Leaf == [kind : {"scalar", "tagged"}, value : Value]
PairsOver(S) == {pairs \in Seq([key : PlainKey \cup IncludeKey, value : S]) :
                   \A i, j \in DOMAIN pairs : pairs[i].key = pairs[j].key => i = j}
NodesOver(S) == Leaf \cup [kind : {"mapping"}, pairs : PairsOver(S)]
                     \cup [kind : {"sequence"}, items : Seq(S)]

(* What an include puts in the place of a leaf is nested that deep, when   *)
(* so many levels of includes are left: the copy of a copy of a document.  *)
IncludeNesting[levels \in 0 .. MaxIncludeDepth] ==
  IF levels = 0 THEN 0 ELSE MaxNesting + 2 * IncludeNesting[levels - 1]

Height == MaxNesting + IncludeNesting[MaxIncludeDepth]

Nested[h \in 0 .. Height] == IF h = 0 THEN Leaf ELSE NodesOver(Nested[h - 1])

(* The nodes of documents and of their copies.                             *)
Tree == Nested[Height]

-----------------------------------------------------------------------------
(* The key test of the mapping branch, find_pattern_from_buffer: the text  *)
(* "include" anywhere in the key, and a value that is a scalar.            *)
NamesInclude(pair) == pair.key \in IncludeKey /\ IsScalar(pair.value)

(* Mutant: one more level than the limit says.                             *)
TooDeepOffByOne(depth) == depth > MaxIncludeDepth

TooDeep(depth) == depth >= MaxIncludeDepth

(* Mutant: the document is copied two levels down.                         *)
IncludedDepthTwice(depth) == depth + 2

(* The depth the root of an included document is copied at.                *)
IncludedDepth(depth) == depth + 1

(* process_include opens, fetches or parses the document of a name, copies *)
(* its root one level deeper and destroys it; NoNode stands for every      *)
(* failure on the way.                                                     *)
ProcessInclude(At, fs, filename, depth) ==
  IF TooDeep(depth) \/ filename \notin DOMAIN fs THEN NoNode
  ELSE At[IncludedDepth(depth)][fs[filename]]

(* Mutant: the entry falls back to itself, not to a copy of itself.        *)
CopyEntryKeepsEntry(entry, Recopied, copied) ==
  LET incl == IF IsMapping(entry) THEN Lookup(entry, "include") ELSE NoNode
      copied_entry == IF IsScalar(incl) THEN Recopied[incl.value] ELSE NoNode
  IN IF IsNode(copied_entry) THEN copied_entry ELSE entry

(* An entry of a sequence: a mapping with the key "include" gives way to   *)
(* the document it names, copied once more; when that fails, and for every *)
(* other entry, the entry itself is copied.                                *)
CopyEntry(entry, Recopied, copied) ==
  LET incl == IF IsMapping(entry) THEN Lookup(entry, "include") ELSE NoNode
      copied_entry == IF IsScalar(incl) THEN Recopied[incl.value] ELSE NoNode
  IN IF IsNode(copied_entry) THEN copied_entry ELSE copied

(* The entries are appended one after the other, those that are NULL not.  *)
SequenceAppend(items, entry) == IF IsNode(entry) THEN Append(items, entry) ELSE items

CopyEntries(entries) ==
  LET Appended[j \in 0 .. Len(entries)] ==
        IF j = 0 THEN <<>> ELSE SequenceAppend(Appended[j - 1], entries[j])
  IN Items(Appended[Len(entries)])

(* A pair of a mapping: an include that succeeds is merged into the new    *)
(* mapping; every other pair, an include that fails among them, is copied  *)
(* and appended.                                                           *)
CopyPair(new_map, pair, included, copied_val) ==
  IF IsNode(included) THEN MergeNodes(new_map, included)
  ELSE IF IsNode(copied_val) THEN MappingAppend(new_map, Pair(pair.key, copied_val))
  ELSE new_map

(* The pairs of a mapping are copied one after the other.                  *)
CopyPairs(pairs, included, copied) ==
  LET Copied[j \in 0 .. Len(pairs)] ==
        IF j = 0 THEN Mapping(<<>>)
        ELSE CopyPair(Copied[j - 1], pairs[j], included[j], copied[j])
  IN Copied[Len(pairs)]

(* What process_node_copy makes of a node within the limit, when Copy      *)
(* gives the copies of its children, process_include gives Included[f] for *)
(* a name f, and a copy of that is Recopied[f].                            *)
EntryCopies(n, Copy, Recopied) ==
  [j \in 1 .. Len(n.items) |-> CopyEntry(n.items[j], Recopied, Copy[n.items[j]])]
PairIncludes(n, Included) ==
  [j \in 1 .. Len(n.pairs) |->
     IF NamesInclude(n.pairs[j]) THEN Included[n.pairs[j].value.value] ELSE NoNode]
PairCopies(n, Copy) == [j \in 1 .. Len(n.pairs) |-> Copy[n.pairs[j].value]]

CopyOf(n, Copy, Included, Recopied) ==
  CASE n.kind = "none" -> NoNode
    [] n.kind = "tagged" -> Recopied[n.value]
    [] n.kind = "scalar" -> n
    [] n.kind = "sequence" -> CopyEntries(EntryCopies(n, Copy, Recopied))
    [] n.kind = "mapping" ->
         CopyPairs(n.pairs, PairIncludes(n, Included), PairCopies(n, Copy))

CopyNode(Included, Recopied) ==
  LET Copy[n \in Tree \cup {NoNode}] == CopyOf(n, Copy, Included, Recopied)
  IN Copy

(* The copies at a depth, when At gives those at the next one.             *)
CopiesAt(At, fs, depth) ==
  IF TooDeep(depth) THEN [n \in Tree \cup {NoNode} |-> NoNode]
  ELSE LET Included == [f \in Value |-> ProcessInclude(At, fs, f, depth)]
       IN CopyNode(Included, [f \in Value |-> At[depth + 1][Included[f]]])

CopyAt(fs) == LET At[depth \in Nat] == CopiesAt(At, fs, depth) IN At

ProcessNodeCopy(fs, srcNode, depth) == CopyAt(fs)[depth][srcNode]
=============================================================================
