----------------------------- MODULE KvpProfile -----------------------------
(***************************************************************************)
(* The instance together with the queries a test makes of it, and with the *)
(* maps by which it reads the answers.  The properties compare the answers *)
(* with each other and with what the profile says, after every sequence of *)
(* calls of KvpInstance.                                                   *)
(***************************************************************************)
EXTENDS KvpInstance, KvpQuery, ControlMaps

CONSTANTS Content,      \* the nodes the copies of the sources are made of
          QueryKey,     \* bound: keys asked for, written with slashes
          Ranges,       \* UINT8_MAX ... UINT64_MAX, in the small word here
          BufferSizes,  \* bound: sizes of a caller's buffer
          Memories,     \* bound: the largest buffer realloc can give
          Maps,         \* bound: conversion maps, see MapAssumption
          Defaults      \* bound: values for what is not in a map

(* No map has a string or a value twice; its values are of int32_t.        *)
Int32 == -(IntMax + 1) .. IntMax
ASSUME MapAssumption ==
  \A map \in Maps : /\ map \in Seq(Range(map))
                    /\ \A j \in DOMAIN map : map[j].value \in Int32
                    /\ \A j, h \in DOMAIN map :
                         map[j].string = map[h].string \/ map[j].value = map[h].value
                           => j = h
ASSUME DefaultAssumption == Defaults \subseteq Int32
ASSUME QueryKeyAssumption ==
  \A key \in QueryKey : key \in Seq(Range(key)) /\ ~HasDot(key)
ASSUME LimitAssumption ==
  /\ Ranges \subseteq Nat /\ Memories \subseteq Nat /\ BufferSizes \subseteq Nat \ {0}
  /\ \E max \in BufferSizes : \A size \in BufferSizes : size <= max

(* What libfyaml gives: texts, lists without holes, no key twice.          *)
ASSUME ContentAssumption ==
  /\ \A src \in Source : src.copy \in Content \cup {NoNode}
  /\ \A n \in Content :
       /\ n.kind \in {"scalar", "tagged", "mapping", "sequence"}
       /\ IsScalar(n) => n.value \in Seq(Range(n.value))
       /\ IsSequence(n) => n.items \in Seq(Content)
       /\ IsMapping(n) => \A j \in DOMAIN n.pairs : n.pairs[j].value \in Content

Dotted(key) == [j \in DOMAIN key |-> IF key[j] = "/" THEN "." ELSE key[j]]

Node(key) == NodeByPath(fy_handle.root, key)

(* Longer keys are cut.                                                    *)
FittingKeys == {key \in QueryKey : Len(key) < MaxElementSize}
ScalarKeys == {key \in FittingKeys : IsScalar(Node(key))}

(* The queries are asked after a call that has opened a profile, and of an *)
(* instance without a document.  A call that fails adds nothing to that:   *)
(* the document it leaves was there or is none (NoHalfOpenedProfile).      *)
Asked == status = "SUCCESS" \/ ~fy_handle.exists

-----------------------------------------------------------------------------
(* What a word means, by numerals written out and without conversion.      *)

Numeral(base) == LET N[v \in 0 .. WordMax] ==
                       IF v < base THEN <<Digits[v + 1]>>
                       ELSE Append(N[v \div base], Digits[(v % base) + 1])
                 IN N
Decimal == Numeral(10)
Hexadecimal == Numeral(16)

IsSigned(word) == word[1] \in {"+", "-"}
Unsigned(word) == IF IsSigned(word) THEN Tail(word) ELSE word
Negative(v) == (WordMax + 1 - v) % (WordMax + 1)

(* The values, one or none, that a word has: decimal, or hexadecimal with  *)
(* one of the marks, zeros in front allowed, a minus modulo the word.      *)
Meaning(word, marks) ==
  LET body == Unsigned(word)
      marked == \E mark \in marks : IsPrefix(mark, body)
      digits == IF marked THEN SubSeq(body, 3, Len(body)) ELSE body
      values == {v \in 0 .. WordMax : \E z \in 0 .. Len(digits) - 1 :
                   /\ \A j \in 1 .. z : digits[j] = "0"
                   /\ SubSeq(digits, z + 1, Len(digits)) =
                        IF marked THEN Hexadecimal[v] ELSE Decimal[v]}
  IN IF word[1] = "-" THEN {Negative(v) : v \in values} ELSE values

Lowercase == {<<"0", "x">>}
EitherCase == {<<"0", "x">>, <<"0", "X">>}

(* A number is returned exactly when the first word of the field has a     *)
(* value and the type can hold it: never a value cut to the width of the   *)
(* type, a number in front of other text, or the clamped value of one that *)
(* is too large.  (An out-of-range negative wraps, as strtoul has it.)     *)
(* That is so of words the result has room for; of a longer one, zeros in  *)
(* front of a small number included, nothing can be said.                  *)
NumbersAreExact ==
  Asked => \A key \in ScalarKeys :
    LET words == Words(Node(key).value, {" "})
        meaning == IF words = <<>> THEN {} ELSE Meaning(words[1], Lowercase)
    IN (words # <<>> => Fits(words[1])) => \A max \in Ranges :
         LET r == getUIntField(fy_handle, key, max)
         IN meaning \cap 1 .. max = {r} \ {0}

(* A list of bytes is returned whole, in order and within the buffer, or   *)
(* not at all: when one of its tokens is no byte, or memory runs out.      *)
BytesAllOrNothing ==
  Asked => \A key \in ScalarKeys :
    LET tokens == Words(Node(key).value, {",", " "})
        bytes == [j \in DOMAIN tokens |-> 0 .. ByteMax \cap
                    Meaning(tokens[j], IF IsSigned(tokens[j]) THEN {} ELSE EitherCase)]
    IN \A memory \in Memories :
         LET out == ut_kvp_getDataBytes(fy_handle, key, memory)
         IN IF out.ok
            THEN /\ Len(out.bytes) = Len(tokens)
                 /\ \A j \in DOMAIN tokens : out.bytes[j] \in bytes[j]
                 /\ Len(out.bytes) <= out.buffer_size /\ out.buffer_size <= memory
            ELSE /\ out.bytes = <<>>
                 /\ \/ \E j \in DOMAIN tokens : bytes[j] = {}
                    \/ memory < Max({InitialBufferSize, 2 * Len(tokens)})

-----------------------------------------------------------------------------
Garbage(size) == [j \in 1 .. size |-> "garbage"]
StringField(key, size) ==
  ut_kvp_getStringField(fy_handle, key, Garbage(Max(BufferSizes)), size)

Answers(key) ==
  [present |-> ut_kvp_fieldPresent(fy_handle, key),
   count |-> ut_kvp_getListCount(fy_handle, key),
   bool |-> ut_kvp_getBoolField(fy_handle, key),
   uint |-> getUIntField(fy_handle, key, WordMax),
   string |-> StringField(key, Max(BufferSizes)),
   bytes |-> ut_kvp_getDataBytes(fy_handle, key, Max(Memories))]

(* A path may be written with dots or with slashes: the answers are the    *)
(* same, and the converted key stays in its buffer, when the key is        *)
(* shorter than UT_KVP_MAX_ELEMENT_SIZE.                                   *)
NotationsAgree ==
  Asked => \A key \in FittingKeys :
    /\ Answers(Dotted(key)) = Answers(key)
    /\ KeyBytesWritten(Dotted(key)) <= MaxElementSize
    /\ KeyBytesWritten(key) <= MaxElementSize

(* The functions agree about one document: a list has as many entries as   *)
(* can be reached by their index (in a mapping an index is a key); what    *)
(* has a number, a truth or bytes has a string; the string is the field's  *)
(* when the buffer can hold it with its terminator, and empty when the     *)
(* call fails.                                                             *)
QueriesAgree ==
  Asked => \A key \in FittingKeys :
    LET a == Answers(key)
    IN /\ IF IsMapping(Node(key)) THEN a.count = 0
          ELSE \A j \in 0 .. 2 :
                 LET entry == key \o <<"/", Digits[j + 1]>>
                 IN Len(entry) < MaxElementSize =>
                      (ut_kvp_fieldPresent(fy_handle, entry) <=> j < a.count)
       /\ a.present <=> a.string.status \in {"SUCCESS", "PARSING_ERROR"}
       /\ a.uint # 0 \/ a.bool \/ a.bytes.ok => a.string.status = "SUCCESS"
       /\ \A size \in BufferSizes :
            LET s == StringField(key, size)
            IN IF s.status # "SUCCESS" THEN s.buffer[1] = "NUL"
               ELSE LET text == Node(key).value
                    IN Len(text) < size =>
                         SubSeq(s.buffer, 1, Len(text) + 1) = Append(text, "NUL")

(* A string of a message and the value a map gives it stand for each       *)
(* other; another string has the value the caller gives, whatever its      *)
(* sign.                                                                   *)
MapsInvert ==
  Asked => \A map \in Maps, d \in Defaults, key \in ScalarKeys :
    LET text == Node(key).value
        value == ToSigned(UT_Control_GetMapValue(map, text, d))
    IN IF \E j \in DOMAIN map : map[j].string = text
       THEN UT_Control_GetMapString(map, value) = text
       ELSE value = d
=============================================================================
