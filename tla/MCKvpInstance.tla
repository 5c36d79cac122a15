--------------------------- MODULE MCKvpInstance ----------------------------
(***************************************************************************)
(* Sources for KvpProfile, with their copies made by process_node_copy:    *)
(* two mappings that share a key, one of them with values to convert, one  *)
(* that includes the first and a file that is not there, documents of      *)
(* other kinds, and every way in which a source can be no use.             *)
(***************************************************************************)
EXTENDS KvpProfile, KvpCopy

Common == Pair("common", Scalar(<<"1">>))
First == Mapping(<<Common, Pair("own", Scalar(<<"t", "R", "u", "e">>))>>)
Including == Mapping(<<Pair("include", Scalar(<<"first.yaml">>)),
                       Pair("other", Scalar(<<>>)),
                       Pair("include_1", Scalar(<<"missing.yaml">>))>>)
Text == Scalar(<<"7">>)
List == Items(<<Scalar(<<"6", "4">>), First>>)

(* Numbers in every notation, at the edge of every range, and texts that   *)
(* only begin like one; lists of bytes with each delimiter, of the size of *)
(* the buffer and one more, and with a token that is no byte; a number as  *)
(* long as the result has room for, and one a character longer.            *)
Texts ==
  << <<"0">>, <<"0", "7">>, <<"8">>, <<"1", "6">>, <<"6", "3">>,
     <<"0", "x", "f">>, <<"0", "X", "f">>, <<"0", "x">>, <<"0", "0", "x", "1">>,
     <<"+", "9">>, <<"-", "1">>, <<"-", "6", "3">>, <<"-", "6", "4">>, <<"-">>,
     <<"1", "2", "x">>, <<"f">>, <<" ", "5", " ", "6">>,
     <<"1", ",", " ", "0", "X", "2">>, <<"1", ",", "2", ",", "3">>,
     <<"1", " ", "2", " ", "3", " ", "4", " ", "5">>,
     <<"1", ",", "8">>, <<"1", ",", "-", "6", "3">>, <<" ", ",">>,
     <<"0", "0", "0", "0", "0", "0", "9">>, <<"0", "0", "0", "0", "0", "0", "0", "9">> >>

Names == <<"n1", "n2", "n3", "n4", "n5", "n6", "n7", "n8", "n9", "n10", "n11",
           "n12", "n13", "n14", "n15", "n16", "n17", "n18", "n19", "n20", "n21",
           "n22", "n23", "n24", "n25">>

Values == Mapping([j \in DOMAIN Texts |-> Pair(Names[j], Scalar(Texts[j]))])

Second == Mapping(<<Pair("other", Items(<<Scalar(<<"a">>), Items(<<>>)>>)),
                    Pair("common", Scalar(<<"4", "2">>)), Pair("values", Values)>>)

(* The parts of these documents, for KvpCopy.                              *)
NodeKeys == {"common", "own", "other", "values"} \cup Range(Names)
NodeValues == Range(Texts) \cup {<<"1">>, <<"t", "R", "u", "e">>, <<"first.yaml">>,
                                 <<>>, <<"missing.yaml">>, <<"7">>, <<"6", "4">>,
                                 <<"a">>, <<"4", "2">>}

Files == [f \in {<<"first.yaml">>} |-> First]

Read(root) == [built |-> TRUE, resolved |-> TRUE, root |-> root,
               copy |-> ProcessNodeCopy(Files, root, 0)]
Unbuilt == [built |-> FALSE, resolved |-> FALSE, root |-> NoNode, copy |-> NoNode]
Unresolved == [Read(First) EXCEPT !.resolved = FALSE]

(* An !include of a file that is not there makes the copy fail.            *)
Sources == {Read(root) : root \in {First, Second, Including, Text, List,
                                   NoNode, IncludeTag(<<"missing.yaml">>),
                                   IncludeTag(<<"first.yaml">>)}}
           \cup {Unbuilt, Unresolved}

RECURSIVE Below(_)
Below(n) == {n} \cup CASE IsMapping(n) -> UNION {Below(n.pairs[j].value) : j \in DOMAIN n.pairs}
                       [] IsSequence(n) -> UNION {Below(n.items[j]) : j \in DOMAIN n.items}
                       [] OTHER -> {}
Nodes == UNION {Below(src.copy) : src \in Sources} \ {NoNode}

(* What a result that did not fit is taken to read as: a number, too.      *)
MCOverrun == <<"3">>

(* One key is as long as a key may be, one is a character longer.          *)
QueryKeys ==
  {<<"common">>, <<"own">>, <<"other">>, <<"include_1">>, <<"absent">>, <<"values">>,
   <<"common", "/", "own">>, <<"other", "/", "0">>, <<"1", "/", "own">>, <<"0">>,
   <<"/", "other", "/", "1">>, <<"/", "1", "/", "own">>,
   <<"1", "/", "own", "/", "a", "/", "b">>,
   <<"other", "/", "1", "/", "0", "/", "0", "/">>}
    \cup {<<"values", "/", Names[j]>> : j \in DOMAIN Names}

Entry(s, v) == [string |-> s, value |-> v]
MCMaps == {<<>>,
           <<Entry(<<"1">>, 3), Entry(<<"7">>, -4), Entry(<<"f">>, 0)>>,
           <<Entry(<<"8">>, -1), Entry(<<"1">>, 1), Entry(<<"4", "2">>, 2)>>}
MCDefaults == {0, 3, -1}
=============================================================================
