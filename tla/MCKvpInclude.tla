---------------------------- MODULE MCKvpInclude ----------------------------
(***************************************************************************)
(* File systems for KvpInclude.  Every document has a key with the name of *)
(* its file, and the key "name" which all of them share; the value of both *)
(* tells who gave it.                                                      *)
(***************************************************************************)
EXTENDS KvpInclude

CONSTANTS f1, f2, f3, f4, f5, f6, f7

Own(f) == Pair(f, Scalar(f))
Name(f) == Pair("name", Scalar(f))
Include(g) == Pair("include", Scalar(g))
SecondInclude(g) == Pair("include_1", Scalar(g))

Plain(f) == Mapping(<<Name(f), Own(f)>>)
IncludeLast(f, g) == Mapping(<<Name(f), Own(f), Include(g)>>)
IncludeFirst(f, g) == Mapping(<<Include(g), Name(f), Own(f)>>)
IncludeTwo(f, g, h) == Mapping(<<Include(g), Own(f), SecondInclude(h)>>)
Inner(f, g) == Mapping(<<Own(f), Pair("name", Mapping(<<Include(g)>>))>>)
Tagged(f, g) == Mapping(<<Own(f), Pair("name", IncludeTag(g))>>)
Listed(f, g, h) ==
  Mapping(<<Own(f), Pair("name", Items(<<IncludeTag(g), Mapping(<<Include(h)>>),
                                         Scalar("item")>>))>>)
List(g) == Items(<<IncludeTag(g), Mapping(<<Include(g)>>)>>)

(* Every kind of document, over three files that may include each other in *)
(* cycles, and one of them missing or unreadable; the third varies less.   *)
Documents(f, F) ==
  {Plain(f), NoNode, IncludeTag(f3)}
    \cup {IncludeLast(f, g) : g \in F} \cup {IncludeFirst(f, g) : g \in F}
    \cup {Inner(f, g) : g \in F} \cup {Tagged(f, g) : g \in F}
    \cup {List(g) : g \in F}
    \cup {IncludeTwo(f, g, f3) : g \in F} \cup {IncludeTwo(f, f3, g) : g \in F}
    \cup {Listed(f, g, f3) : g \in F} \cup {Listed(f, f3, g) : g \in F}

(* With a limit of three, the fourth file can be within it or beyond.      *)
Mixed == LET F == {f1, f2, f3}
         IN {[f \in F \cup {f4} |-> CASE f = f1 -> a [] f = f2 -> b
                                      [] f = f3 -> c [] f = f4 -> Plain(f4)] :
               a \in Documents(f1, F), b \in Documents(f2, F),
               c \in {Plain(f3), NoNode, IncludeFirst(f3, f1), Tagged(f3, f2),
                      List(f1), IncludeLast(f3, f4), IncludeTwo(f3, f1, f4)}}

(* A chain of documents, longer than the limit of five, that is entered    *)
(* through a tag or an entry of a sequence.                                *)
TaggedChain ==
  {[f \in {f1, f2, f3, f4, f5, f6, f7} |->
      CASE f = f1 -> a [] f = f2 -> IncludeLast(f2, f3)
        [] f = f3 -> IncludeLast(f3, f4) [] f = f4 -> IncludeLast(f4, f5)
        [] f = f5 -> IncludeLast(f5, f6) [] f = f6 -> b [] f = f7 -> Plain(f7)] :
     a \in {Tagged(f1, f2), Listed(f1, f2, f2)},
     b \in {Plain(f6), IncludeLast(f6, f7)}}
=============================================================================
