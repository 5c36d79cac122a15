----------------------------- MODULE KvpInclude -----------------------------
(***************************************************************************)
(* Opening documents that include each other.  The state is a file system  *)
(* and the last document that ut_kvp_open copied from it; the properties   *)
(* say what that copy is, in terms of the documents.                       *)
(***************************************************************************)
EXTENDS KvpCopy, FiniteSets

CONSTANTS File,                 \* the names a document can be included by
          NoFile,               \* nothing has been opened yet
          FileSystems           \* bound: the contents of the files, as
                                \* functions from File to a root or NoNode

ASSUME NameAssumption == NoFile \notin File /\ File \subseteq Value
ASSUME DocumentAssumption ==
  \A fs \in FileSystems : /\ DOMAIN fs = File
                         /\ \A f \in File : fs[f] \in Nested[MaxNesting] \cup {NoNode}

VARIABLES files,        \* what each file holds: its root, or NoNode
          main,         \* the file ut_kvp_open was given
          copied        \* what process_node_copy made of its root

vars == <<files, main, copied>>

-----------------------------------------------------------------------------
Init == /\ files \in FileSystems
        /\ main = NoFile
        /\ copied = NoNode

(* A new instance opens a file.                                            *)
Open(f) == /\ main' = f
           /\ copied' = ProcessNodeCopy(files, files[f], 0)
           /\ UNCHANGED files

Next == \E f \in File : Open(f)

Spec == Init /\ [][Next]_vars

-----------------------------------------------------------------------------
(* The nodes below a node, itself included.                                *)
Children(n) == IF IsMapping(n) THEN {n.pairs[j].value : j \in DOMAIN n.pairs}
               ELSE IF IsSequence(n) THEN {n.items[j] : j \in DOMAIN n.items}
               ELSE {}

Nodes(n) ==
  LET Below[m \in Tree \cup {NoNode}] == {m} \cup UNION {Below[c] : c \in Children(m)}
  IN Below[n]

PairsOf(n) == UNION {{m.pairs[j] : j \in DOMAIN m.pairs} :
                       m \in {m \in Nodes(n) : IsMapping(m)}}

(* A document tells by a key with the name of its file where it is from,   *)
(* and by no other such key.                                               *)
ASSUME MarkAssumption ==
  \A fs \in FileSystems : \A f \in File :
    {p.key : p \in PairsOf(fs[f])} \cap File \subseteq {f}

(* The names a document includes, wherever in the document.                *)
Includes(n) == {p.value.value : p \in {p \in PairsOf(n) : NamesInclude(p)}}
               \cup {m.value : m \in {m \in Nodes(n) : m.kind = "tagged"}}

(* The names that are exactly n includes away from a file.                 *)
IncludedAfter(f, n) ==
  LET After[k \in 0 .. MaxIncludeDepth] ==
        IF k = 0 THEN {f}
        ELSE UNION {Includes(files[g]) : g \in After[k - 1] \cap File}
  IN After[n]

(* The files that are fewer than UT_KVP_MAX_INCLUDE_DEPTH includes away.   *)
WithinDepth(f) == UNION {IncludedAfter(f, n) : n \in 0 .. MaxIncludeDepth - 1}

(* The value of key k in the mapping that a name stands for, when its      *)
(* document is copied at a depth where Deeper gives the values of included *)
(* documents, and Loads tells which of them give any. No mapping is built: *)
(* the last include that gives the key a value prevails, wherever it       *)
(* stands in the document; its own pair counts only when none does.        *)
ValueIn(pairs, k, Deeper, Loads, depth) ==
  LET Loaded == {j \in DOMAIN pairs : /\ NamesInclude(pairs[j])
                                      /\ pairs[j].value.value \in Loads}
      Giving == {j \in Loaded : IsNode(Deeper[pairs[j].value.value])}
      Own == {j \in DOMAIN pairs \ Loaded : pairs[j].key = k}
  IN IF Giving # {}
     THEN Deeper[pairs[CHOOSE j \in Giving : \A h \in Giving : h <= j].value.value]
     ELSE IF Own = {} THEN NoNode
     ELSE ProcessNodeCopy(files, pairs[CHOOSE j \in Own : TRUE].value, depth)

(* The value of a key in the document of each file, when it is copied at a *)
(* depth and Deeper gives the values at the next one.                      *)
ValuesAt(Deeper, k, depth) ==
  [f \in File |->
     LET root == ProcessNodeCopy(files, files[f], depth)
         Loads == {h \in File : IsNode(ProcessNodeCopy(files, files[h], depth + 1))}
     IN IF IsMapping(files[f]) THEN ValueIn(files[f].pairs, k, Deeper, Loads, depth)
        ELSE IF IsMapping(root) THEN Lookup(root, k) ELSE NoNode]

Provides(f, k, depth) ==
  LET Given[d \in Nat] == IF d >= MaxIncludeDepth THEN [g \in File |-> NoNode]
                          ELSE ValuesAt(Given[d + 1], k, d)
  IN Given[depth][f]

-----------------------------------------------------------------------------
(* What was opened and what came of it.  A copy never holds an !include    *)
(* tag: process_node_copy replaces it or gives nothing.                    *)
TypeOK == /\ DOMAIN files = File
          /\ main \in File \cup {NoFile}
          /\ \A n \in Nodes(copied) : n.kind \in {"none", "scalar", "mapping",
                                                  "sequence"}

(* The copy of a mapping answers a query of a key as the documents say,    *)
(* whatever the order in which the pairs are appended and the includes     *)
(* merged; and no key is in it twice, so that ut_kvp_openMemory can parse  *)
(* what ut_kvp_getData emits.                                              *)
IncludesPrevail ==
  main # NoFile /\ IsMapping(files[main]) =>
    /\ \A k \in PlainKey \cup IncludeKey : Lookup(copied, k) = Provides(main, k, 0)
    /\ \A j, h \in DOMAIN copied.pairs :
         copied.pairs[j].key = copied.pairs[h].key => j = h

(* When every document that is reached can be read and no chain of         *)
(* includes, no cycle in particular, is longer than the limit, nothing is  *)
(* left to include in the copy; and opening from memory what               *)
(* ut_kvp_getData emits, which copies the copy, gives the same profile     *)
(* (ut_kvp.h: "The returned data can later be parsed").                    *)
FullyExpanded ==
  /\ main # NoFile
  /\ IncludedAfter(main, MaxIncludeDepth) = {}
  /\ WithinDepth(main) \subseteq {f \in File : IsNode(files[f])}
  => /\ IsNode(copied) /\ Includes(copied) = {}
     /\ ProcessNodeCopy(files, copied, 0) = copied

(* The limit of five documents in a chain (ut_test_kvp.c:944: "KVP as now  *)
(* supports UT_KVP_MAX_INCLUDE_DEPTH = 5"): a document further away does   *)
(* not get into the copy.  A file is recognised by a key with its name.    *)
WithinLimit ==
  main # NoFile =>
    {p.key : p \in PairsOf(copied)} \cap File \subseteq WithinDepth(main)

(* The forms of include that copy a document twice: tags, and entries of a *)
(* sequence.                                                               *)
CopiesTwice(n) == \E m \in Nodes(n) : m.kind \in {"tagged", "sequence"}

(* Documents that include each other by the keys of mappings alone keep to *)
(* the limit, however they branch and cycle.                               *)
KeysKeepWithinLimit == (\A f \in File : ~CopiesTwice(files[f])) => WithinLimit
=============================================================================
