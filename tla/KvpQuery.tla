------------------------------ MODULE KvpQuery ------------------------------
(***************************************************************************)
(* What the query functions of ut_kvp.c answer about the document of an    *)
(* instance.  They change nothing, so each is an operator on a document.   *)
(*                                                                         *)
(* Texts, the values of scalars, are sequences of characters; a key that   *)
(* is asked for is a sequence of names with "." or "/" between them, and a *)
(* name counts as one character of it.  A NULL argument and an instance    *)
(* without its magic number are answered like a missing document.          *)
(***************************************************************************)
EXTENDS KvpNode, Integers, SequencesExt

CONSTANTS MaxElementSize,       \* UT_KVP_MAX_ELEMENT_SIZE
          WordMax,              \* ULONG_MAX, which is ULLONG_MAX here
          ByteMax,              \* 255
          InitialBufferSize,    \* buffer_size in ut_kvp_getDataBytes
          Overrun               \* what is left of a result that did not fit

ASSUME QuerySizeAssumption ==
  /\ MaxElementSize \in Nat \ {0}
  /\ ByteMax \in Nat /\ WordMax \in Nat /\ ByteMax < WordMax
  /\ InitialBufferSize \in Nat \ {0}
  /\ Overrun \in Seq(Range(Overrun))

-----------------------------------------------------------------------------
(* Keys.                                                                   *)

HasDot(key) == \E j \in DOMAIN key : key[j] = "."

(* Mutant: the first dot only.                                             *)
ConvertDotToSlashOnce(key) ==
  [j \in DOMAIN key |->
     IF key[j] = "." /\ \A h \in 1 .. j - 1 : key[h] # "." THEN "/" ELSE key[j]]

(* convert_dot_to_slash.  A key with a dot is copied whole, one without is *)
(* cut to what the output holds.                                           *)
ConvertDotToSlash(key) ==
  IF HasDot(key) THEN [j \in DOMAIN key |-> IF key[j] = "." THEN "/" ELSE key[j]]
  ELSE SubSeq(key, 1, Min({Len(key), MaxElementSize - 1}))

(* The bytes of the output it writes, the terminator included.             *)
KeyBytesWritten(key) == IF HasDot(key) THEN Len(key) + 1
                        ELSE Len(ConvertDotToSlash(key)) + 1

Digits == <<"0", "1", "2", "3", "4", "5", "6", "7", "8", "9",
            "a", "b", "c", "d", "e", "f">>
IsDigit(c, base) == \E d \in 1 .. base : Digits[d] = c
DigitValue(c) == (CHOOSE d \in DOMAIN Digits : Digits[d] = c) - 1

(* fy_node_by_path: a name leads to the value of a key, or to the entry of *)
(* a sequence that has this index.                                         *)
StepInto(n, name) ==
  CASE n.kind = "mapping" -> Lookup(n, name)
    [] n.kind = "sequence" ->
         IF IsDigit(name, 10) /\ DigitValue(name) < Len(n.items)
         THEN n.items[DigitValue(name) + 1] ELSE NoNode
    [] OTHER -> NoNode

NodeByPath(root, path) ==
  LET At[j \in 0 .. Len(path)] ==
        IF j = 0 THEN root
        ELSE IF path[j] = "/" THEN At[j - 1] ELSE StepInto(At[j - 1], path[j])
  IN At[Len(path)]

NodeOf(doc, key) == NodeByPath(doc.root, ConvertDotToSlash(key))

-----------------------------------------------------------------------------
(* Conversions.                                                            *)

(* The runs of characters between delimiters: strtok, and scanf's %s.      *)
AddCharacter(ws, c, begins) ==
  IF begins THEN Append(ws, <<c>>) ELSE [ws EXCEPT ![Len(ws)] = Append(@, c)]

Words(text, delimiters) ==
  LET Found[j \in 0 .. Len(text)] ==
        IF j = 0 THEN <<>>
        ELSE IF text[j] \in delimiters THEN Found[j - 1]
        ELSE AddCharacter(Found[j - 1], text[j], j = 1 \/ text[j - 1] \in delimiters)
  IN Found[Len(text)]

(* The value of the first n digits.                                        *)
Magnitude(digits, n, base) ==
  LET V[j \in 0 .. n] == IF j = 0 THEN 0 ELSE base * V[j - 1] + DigitValue(digits[j])
  IN V[n]

(* strtoul of a word: a sign, "0x" when the base is 16 and a digit comes   *)
(* behind it, digits.  end is the place of the last character it has used, *)
(* 0 when it has found no number; a minus is taken modulo the word.        *)
Strtoul(word, base) ==
  LET sign == IF word[1] \in {"+", "-"} THEN 1 ELSE 0
      marked == /\ base = 16
                /\ Len(word) >= sign + 3
                /\ word[sign + 1] = "0" /\ word[sign + 2] \in {"x", "X"}
                /\ IsDigit(word[sign + 3], 16)
      front == sign + IF marked THEN 2 ELSE 0
      digits == SubSeq(word, front + 1, Len(word))
      used == Max({0} \cup {n \in 1 .. Len(digits) :
                              \A h \in 1 .. n : IsDigit(digits[h], base)})
      magnitude == Magnitude(digits, used, base)
      value == CASE magnitude > WordMax -> WordMax
                 [] magnitude <= WordMax /\ word[1] = "-" ->
                      (WordMax + 1 - magnitude) % (WordMax + 1)
                 [] magnitude <= WordMax /\ word[1] # "-" -> magnitude
  IN IF used = 0 THEN [value |-> 0, end |-> 0, erange |-> FALSE]
     ELSE [value |-> value, end |-> front + used, erange |-> magnitude > WordMax]

-----------------------------------------------------------------------------
(* Scalars.                                                                *)

Failure(status) == [status |-> status, result |-> <<>>]
Success(result) == [status |-> "SUCCESS", result |-> result]

(* The result has UT_KVP_MAX_ELEMENT_SIZE bytes in each of the callers,    *)
(* and scanf's %s is given no bound.                                       *)
Fits(word) == Len(word) < MaxElementSize

(* ut_kvp_getField: fy_document_scanf gives the first word of the scalar.  *)
(* A word with no room for its terminator runs over the caller's other     *)
(* variables: if the program survives that, it reads any text at all.      *)
ut_kvp_getField(doc, key) ==
  LET node == NodeOf(doc, key)
      words == Words(node.value, {" "})
  IN IF ~doc.exists THEN Failure("NO_DATA")
     ELSE IF ~IsScalar(node) \/ words = <<>> THEN Failure("PARSING_ERROR")
     ELSE Success(IF Fits(words[1]) THEN words[1] ELSE Overrun)

(* str_to_bool compares without regard to case.                            *)
IsTrue(word) ==
  /\ Len(word) = 4
  /\ \A j \in 1 .. 4 :
       word[j] \in << {"t", "T"}, {"r", "R"}, {"u", "U"}, {"e", "E"} >>[j]

ut_kvp_getBoolField(doc, key) == IsTrue(ut_kvp_getField(doc, key).result)

HasHexMark(word) == \E j \in 1 .. Len(word) - 1 : word[j] = "0" /\ word[j + 1] = "x"

(* Mutant: the end of the number is not compared with the end of the word. *)
IsWholeNumberPrefix(word, n) == n.end # 0 /\ ~n.erange

(* The error checks of getUIntField.                                       *)
IsWholeNumber(word, n) == n.end = Len(word) /\ ~n.erange

(* getUIntField, for UInt8, UInt16 and UInt32 with their maxRange, and     *)
(* ut_kvp_getUInt64Field, which does the same with maxRange = WordMax.     *)
getUIntField(doc, key, maxRange) ==
  LET field == ut_kvp_getField(doc, key)
      n == Strtoul(field.result, IF HasHexMark(field.result) THEN 16 ELSE 10)
  IN IF /\ field.status = "SUCCESS"
        /\ IsWholeNumber(field.result, n)
        /\ n.value <= maxRange
     THEN n.value ELSE 0

(* ut_kvp_getStringField into a buffer of the caller, of which it is told  *)
(* the size: the status and what the buffer holds after the call.          *)
ut_kvp_getStringField(doc, key, buffer, uStringSize) ==
  LET node == NodeOf(doc, key)
      emptied == [buffer EXCEPT ![1] = "NUL"]
      Fails(status) == [status |-> status, buffer |-> emptied]
  IN CASE ~doc.exists -> Fails("NO_DATA")
       [] doc.exists /\ node = NoNode -> Fails("KEY_NOT_FOUND")
       [] doc.exists /\ node # NoNode /\ ~IsScalar(node) -> Fails("PARSING_ERROR")
       [] doc.exists /\ IsScalar(node) ->       \* strncpy
            [status |-> "SUCCESS",
             buffer |-> [j \in DOMAIN buffer |->
                           CASE j > uStringSize -> emptied[j]
                             [] j <= Min({uStringSize, Len(node.value)}) -> node.value[j]
                             [] OTHER -> "NUL"]]

-----------------------------------------------------------------------------
(* Collections.                                                            *)

ut_kvp_fieldPresent(doc, key) == doc.exists /\ NodeOf(doc, key) # NoNode

(* Mutant: a mapping is counted as well.                                   *)
ut_kvp_getListCountAny(doc, key) ==
  LET node == NodeOf(doc, key)
  IN CASE doc.exists /\ IsSequence(node) -> Len(node.items)
       [] doc.exists /\ IsMapping(node) -> Len(node.pairs)
       [] OTHER -> 0

ut_kvp_getListCount(doc, key) ==
  LET node == NodeOf(doc, key)
  IN IF doc.exists /\ IsSequence(node) THEN Len(node.items) ELSE 0

(* Mutant: the buffer grows one byte too late.                             *)
BufferFullOffByOne(out) == Len(out.bytes) > out.buffer_size

BufferFull(out) == Len(out.bytes) >= out.buffer_size

(* One round of the loop of ut_kvp_getDataBytes, which returns NULL at the *)
(* first token that is no byte, and when realloc does not give the double  *)
(* of the buffer, memory being what it can give.                           *)
PutByte(out, token, memory) ==
  LET n == Strtoul(token, IF Len(token) >= 2 /\ token[1] = "0" /\ token[2] \in {"x", "X"}
                          THEN 16 ELSE 10)
      size == IF BufferFull(out) THEN 2 * out.buffer_size ELSE out.buffer_size
  IN IF \/ ~out.ok
        \/ n.end # Len(token) \/ n.value > ByteMax
        \/ size > memory
     THEN [out EXCEPT !.ok = FALSE]
     ELSE [out EXCEPT !.buffer_size = size, !.bytes = Append(@, n.value)]

NoBytes == [ok |-> FALSE, bytes |-> <<>>, buffer_size |-> 0]

(* ok: it returns a buffer; its size is *size, 0 when it returns NULL.     *)
ut_kvp_getDataBytes(doc, key, memory) ==
  LET node == NodeOf(doc, key)
      tokens == Words(node.value, {",", " "})
      Out[j \in 0 .. Len(tokens)] ==
        IF j = 0
        THEN [ok |-> InitialBufferSize <= memory, bytes |-> <<>>,
              buffer_size |-> InitialBufferSize]
        ELSE PutByte(Out[j - 1], tokens[j], memory)
  IN IF doc.exists /\ IsScalar(node) /\ Out[Len(tokens)].ok THEN Out[Len(tokens)]
     ELSE NoBytes
=============================================================================
