------------------------- MODULE IncludeFetchProofs -------------------------
(***************************************************************************)
(* What TLAPS proves of IncludeFetch, for every depth limit, every size of *)
(* a download and every number of includes in a document: that nothing is  *)
(* freed twice and nothing but one temporary file is left behind, that     *)
(* what is parsed is what was sent, and that calls nest no deeper than the *)
(* limit.  All three follow from the inductive invariant Inv.              *)
(***************************************************************************)
EXTENDS IncludeFetch, SequenceTheorems, TLAPS

-----------------------------------------------------------------------------
(* The inductive invariant.                                                *)

UrlPlaces == {"malloc", "init", "perform", "aborted", "response", "tmpfile",
              "fwrite", "parse", "copy"}
FilePlaces == {"fopen", "parse", "copy"}

Calls == [kind : {"url", "file"}, depth : 0 .. MaxIncludeDepth - 1,
          pc : UrlPlaces \cup FilePlaces,
          owns : SUBSET {"memory", "curl", "tmp", "file", "srcDoc"},
          dangling : BOOLEAN, memory : Seq(Nat), sent : Nat,
          complete : BOOLEAN, code : {0, 200, 404}, left : Nat]

(* What a call for a URL has to release is known from its place, exactly.  *)
UrlOwns(pc, owns) ==
  /\ pc \in UrlPlaces
  /\ pc = "malloc" => owns = {}
  /\ pc = "init" => owns = {"memory"}
  /\ pc \in {"perform", "response", "tmpfile"} => owns = {"memory", "curl"}
  /\ pc = "aborted" => owns = {"curl"}
  /\ pc \in {"fwrite", "parse"} => owns = {"memory", "curl", "tmp"}
  /\ pc = "copy" => owns = {"memory", "curl", "tmp", "srcDoc"}

FileOwns(pc, owns) ==
  /\ pc \in FilePlaces
  /\ pc = "fopen" => owns = {}
  /\ pc = "parse" => owns = {"file"}
  /\ pc = "copy" => owns = {"file", "srcDoc"}

(* The memory holds what was sent, unless realloc has failed; past the     *)
(* transfer it was complete, past the test of the response successful.     *)
Holds(pc, memory, sent, complete, code) ==
  /\ pc # "aborted" => memory = [k \in 1 .. sent |-> k]
  /\ pc \in {"response", "tmpfile", "fwrite", "parse", "copy"} => complete
  /\ pc \in {"tmpfile", "fwrite", "parse", "copy"} => code = 200

Good(call) ==
  /\ call \in Calls
  /\ ~call.dangling
  /\ call.kind = "url" =>
       /\ UrlOwns(call.pc, call.owns)
       /\ Holds(call.pc, call.memory, call.sent, call.complete, call.code)
  /\ call.kind = "file" => FileOwns(call.pc, call.owns)

(* Every call but the last one is copying, with the include that the next  *)
(* one stands for still to do, and is less deep than the next one.         *)
Nested == \A j \in 1 .. Len(stack) :
            /\ stack[j].depth >= j - 1
            /\ j < Len(stack) => stack[j].pc = "copy" /\ stack[j].left > 0

Inv == /\ stack \in Seq(Calls)
       /\ \A j \in 1 .. Len(stack) : Good(stack[j])
       /\ Nested
       /\ OnlyUnparsedTmpLeaks

-----------------------------------------------------------------------------
(* Chunks arrive in order: what has been sent, and the next bytes behind.  *)
LEMMA MemoryGrows ==
  ASSUME NEW n \in Nat, NEW len \in Nat
  PROVE  [k \in 1 .. n |-> k] \o [k \in 1 .. len |-> n + k] = [k \in 1 .. n + len |-> k]
<1> DEFINE s == [k \in 1 .. n |-> k]
           t == [k \in 1 .. len |-> n + k]
           u == [k \in 1 .. n + len |-> k]
<1>1. s \in Seq(Nat) /\ t \in Seq(Nat) /\ u \in Seq(Nat)
  BY SeqDef
<1>2. Len(s) = n /\ Len(t) = len /\ Len(u) = n + len
  BY <1>1, LenProperties
<1>3. s \o t \in Seq(Nat) /\ Len(s \o t) = Len(u)
  BY <1>1, <1>2, ConcatProperties
<1>4. \A k \in 1 .. Len(u) : (s \o t)[k] = u[k]
  BY <1>1, <1>2, ConcatProperties
<1> QED
  BY <1>1, <1>3, <1>4, SeqEqual

(* The last call is one of the calls.                                      *)
LEMMA CallIsGood ==
  ASSUME Inv, stack # <<>>
  PROVE  /\ Len(stack) \in Nat \ {0}
         /\ Call = stack[Len(stack)]
         /\ Good(Call)
         /\ Call.depth >= Len(stack) - 1
<1>1. Len(stack) \in Nat \ {0}
  BY LenProperties, EmptySeq DEF Inv
<1> QED
  BY <1>1 DEF Inv, Nested, Call, Last

(* Front leaves the calls below as they are.                               *)
LEMMA FrontOfStack ==
  ASSUME Inv, stack # <<>>
  PROVE  /\ Front(stack) \in Seq(Calls)
         /\ Len(Front(stack)) = Len(stack) - 1
         /\ \A j \in 1 .. Len(stack) - 1 : Front(stack)[j] = stack[j]
<1>1. \A j \in 1 .. Len(stack) - 1 : stack[j] \in Calls
  BY CallIsGood, ElementOfSeq DEF Inv
<1>2. PICK n \in Nat : n = Len(stack) - 1
  BY CallIsGood
<1>a. 1 \in Int /\ n \in Int /\ \A i \in 1 .. n : stack[i] \in Calls
  BY <1>1, <1>2
<1>3. /\ SubSeq(stack, 1, n) \in Seq(Calls)
      /\ Len(SubSeq(stack, 1, n)) = n
      /\ \A i \in 1 .. n : SubSeq(stack, 1, n)[i] = stack[i]
  BY <1>a, <1>2, SubSeqProperties, SMTT(20)
<1>4. Front(stack) = SubSeq(stack, 1, n)
  BY <1>2 DEF Front
<1> QED
  BY <1>2, <1>3, <1>4

(* The running call goes on, and is good where it comes to.                *)
LEMMA BecomesPreserves ==
  ASSUME Inv, stack # <<>>, NEW next, Good(next), next.depth = Call.depth,
         Becomes(next), UNCHANGED <<leaked, faults>>
  PROVE  Inv'
<1> DEFINE n == Len(stack)
<1>1. next \in Calls
  BY DEF Good
<1>2. /\ stack' \in Seq(Calls) /\ Len(stack') = n
      /\ stack'[n] = next
      /\ \A j \in 1 .. n - 1 : stack'[j] = stack[j]
  BY <1>1, FrontOfStack, CallIsGood, AppendProperties DEF Becomes
<1>3. \A j \in 1 .. n : j = n \/ j \in 1 .. n - 1
  BY CallIsGood
<1>4. \A j \in 1 .. n : Good(stack'[j])
  BY <1>2, <1>3 DEF Inv
<1>5. Nested'
  BY <1>2, <1>3, CallIsGood DEF Inv, Nested
<1>6. OnlyUnparsedTmpLeaks'
  BY DEF Inv, OnlyUnparsedTmpLeaks
<1>7. \A j \in 1 .. Len(stack') : Good(stack[j])'
  BY <1>2, <1>4 DEF Good, UrlOwns, FileOwns, Holds
<1> QED
  BY <1>2, <1>5, <1>6, <1>7 DEF Inv

LEMMA OneIncludeLess ==
  ASSUME NEW c, Good(c), c.left > 0
  PROVE  LET d == [c EXCEPT !.left = @ - 1]
         IN Good(d) /\ d.depth = c.depth /\ d.pc = c.pc
<1> DEFINE d == [c EXCEPT !.left = @ - 1]
<1>1. c \in Calls /\ c.left - 1 \in Nat
  BY DEF Good, Calls
<1>2. d \in Calls
  BY <1>1 DEF Calls
<1>3. /\ d.depth = c.depth /\ d.pc = c.pc /\ d.kind = c.kind /\ d.owns = c.owns
      /\ d.memory = c.memory /\ d.dangling = c.dangling /\ d.sent = c.sent
      /\ d.complete = c.complete /\ d.code = c.code
  BY <1>1 DEF Calls
<1> HIDE DEF d
<1>4. Good(d)
  BY <1>2, <1>3 DEF Good, UrlOwns, FileOwns, Holds
<1> QED
  BY <1>3, <1>4 DEF d

(* The caller goes on to its next include.                                 *)
LEMMA ResumedIsGood ==
  ASSUME NEW calls \in Seq(Calls),
         \A j \in 1 .. Len(calls) : Good(calls[j]) /\ calls[j].left > 0
  PROVE  /\ Resumed(calls) \in Seq(Calls)
         /\ Len(Resumed(calls)) = Len(calls)
         /\ \A j \in 1 .. Len(calls) :
              /\ Good(Resumed(calls)[j])
              /\ Resumed(calls)[j].depth = calls[j].depth
              /\ Resumed(calls)[j].pc = calls[j].pc
         /\ \A j \in 1 .. Len(calls) - 1 : Resumed(calls)[j] = calls[j]
<1>1. CASE calls = <<>>
  BY <1>1, LenProperties DEF Resumed
<1>2. CASE calls # <<>>
  <2> DEFINE n == Len(calls)
             c == calls[n]
             d == [c EXCEPT !.left = @ - 1]
  <2>1. n \in Nat \ {0} /\ Good(c) /\ c.left > 0
    BY <1>2, LenProperties, EmptySeq
  <2>2. d \in Calls /\ d.depth = c.depth /\ d.pc = c.pc
    BY <2>1, OneIncludeLess DEF Good
  <2>3. Good(d)
    BY <2>1, OneIncludeLess
  <2>4. Resumed(calls) = [calls EXCEPT ![n] = d]
    BY <1>2 DEF Resumed
  <2>5. /\ Resumed(calls) \in Seq(Calls) /\ Len(Resumed(calls)) = n
        /\ \A j \in 1 .. n : Resumed(calls)[j] = IF j = n THEN d ELSE calls[j]
    BY <2>1, <2>2, <2>4, ExceptSeq
  <2> HIDE DEF n, c, d
  <2>6. c = calls[n] /\ n = Len(calls)
    BY DEF c, n
  <2> QED
    BY <2>1, <2>2, <2>3, <2>5, <2>6
<1> QED
  BY <1>1, <1>2

(* The running call returns, having released what it holds, but for the    *)
(* temporary file of a document that does not parse.                       *)
LEMMA ReturnsPreserves ==
  ASSUME Inv, stack # <<>>, NEW released, Returns(released),
         Call.owns \ released \subseteq {x \in {"tmp"} : Call.pc = "parse"}
  PROVE  Inv'
<1> DEFINE calls == Front(stack)
           n == Len(stack) - 1
<1>1. calls \in Seq(Calls) /\ Len(calls) = n /\ n \in Nat
      /\ \A j \in 1 .. n : calls[j] = stack[j]
  BY FrontOfStack, CallIsGood
<1>2. \A j \in 1 .. n : /\ Good(calls[j]) /\ calls[j].left > 0
                        /\ calls[j].pc = "copy" /\ calls[j].depth >= j - 1
  BY <1>1, CallIsGood DEF Inv, Nested
<1>3. stack' = Resumed(calls)
  BY DEF Returns
<1>4. /\ stack' \in Seq(Calls) /\ Len(stack') = n
      /\ \A j \in 1 .. n : /\ Good(stack'[j]) /\ stack'[j].pc = "copy"
                           /\ stack'[j].depth >= j - 1
      /\ \A j \in 1 .. n - 1 : stack'[j].left > 0
  BY <1>1, <1>2, <1>3, ResumedIsGood
<1>5. Nested'
  BY <1>1, <1>4 DEF Nested
<1>6. OnlyUnparsedTmpLeaks'
  BY CallIsGood DEF Inv, OnlyUnparsedTmpLeaks, Returns, Good
<1>7. \A j \in 1 .. Len(stack') : Good(stack[j])'
  BY <1>4 DEF Good, UrlOwns, FileOwns, Holds
<1> QED
  BY <1>4, <1>5, <1>6, <1>7 DEF Inv

-----------------------------------------------------------------------------
(* The environment may do anything first: nobody has called yet.           *)
LEMMA InitInv == Init => Inv
<1> SUFFICES ASSUME Init PROVE Inv
  OBVIOUS
<1>1. stack \in Seq(Calls) /\ Len(stack) = 0
  BY EmptySeq DEF Init
<1> QED
  BY <1>1 DEF Init, Inv, Nested, OnlyUnparsedTmpLeaks

(* A call is made: the copy that calls process_include waits for it.       *)
LEMMA ProcessIncludePreserves ==
  ASSUME Inv, NEW kind \in {"url", "file"}, process_include(kind)
  PROVE  Inv'
<1> DEFINE New(depth) == Frame(kind, depth, IF kind = "url" THEN "malloc" ELSE "fopen")
           n == Len(stack)
<1>1. ASSUME NEW depth \in 0 .. MaxIncludeDepth - 1
      PROVE  New(depth) \in Calls /\ Good(New(depth)) /\ New(depth).depth = depth
  <2>1. <<>> \in Seq(Nat) /\ <<>> = [k \in 1 .. 0 |-> k]
    BY EmptySeq
  <2>2. New(depth) \in Calls
    BY <2>1 DEF Frame, Calls, UrlPlaces, FilePlaces
  <2> QED
    BY <2>1, <2>2 DEF Frame, Good, UrlOwns, FileOwns, Holds, UrlPlaces, FilePlaces
<1>2. CASE stack = <<>> /\ stack' = <<New(0)>> /\ UNCHANGED <<leaked, faults>>
  <2>1. Good(New(0)) /\ New(0) \in Calls /\ New(0).depth = 0
    BY <1>1, BoundAssumption
  <2> HIDE DEF New
  <2>2. stack' \in Seq(Calls) /\ Len(stack') = 1 /\ stack'[1] = New(0)
    BY <1>2, <2>1, SeqDef
  <2>3. \A j \in 1 .. Len(stack') : Good(stack'[j])
    BY <2>1, <2>2
  <2>4. \A j \in 1 .. Len(stack') : Good(stack[j])'
    BY <2>3 DEF Good, UrlOwns, FileOwns, Holds
  <2> QED
    BY <1>2, <2>1, <2>2, <2>4 DEF Inv, Nested, OnlyUnparsedTmpLeaks
<1>3. CASE /\ Running("copy") /\ Call.left > 0
           /\ \E depth \in Call.depth + 1 .. MaxIncludeDepth :
                stack' = IF TooDeep(depth) THEN Resumed(stack)
                         ELSE Append(stack, New(depth))
           /\ UNCHANGED <<leaked, faults>>
  <2>1. PICK depth \in Call.depth + 1 .. MaxIncludeDepth :
          stack' = IF TooDeep(depth) THEN Resumed(stack) ELSE Append(stack, New(depth))
    BY <1>3
  <2>2. /\ n \in Nat \ {0} /\ stack \in Seq(Calls)
        /\ stack[n].pc = "copy" /\ stack[n].left > 0 /\ depth > stack[n].depth
        /\ stack[n].depth \in Nat
    <3>1. stack # <<>> /\ Call.pc = "copy" /\ Call.left > 0
      BY <1>3 DEF Running
    <3>2. Call \in Calls
      BY <3>1, CallIsGood DEF Good
    <3>3. Call.depth \in Nat
      BY <3>2 DEF Calls
    <3> QED
      BY <2>1, <3>1, <3>3, CallIsGood DEF Inv
  <2>b. \A j \in 1 .. n : /\ Good(stack[j]) /\ stack[j].depth >= j - 1
                          /\ stack[j].left > 0 /\ stack[j].pc = "copy"
    BY <2>2 DEF Inv, Nested
  <2>3. CASE TooDeep(depth)
    <3>1. /\ stack' \in Seq(Calls) /\ Len(stack') = n
          /\ \A j \in 1 .. n : /\ Good(stack'[j]) /\ stack'[j].pc = "copy"
                              /\ stack'[j].depth >= j - 1
          /\ \A j \in 1 .. n - 1 : stack'[j].left > 0
      <4>1. \A j \in 1 .. Len(stack) : Good(stack[j]) /\ stack[j].left > 0
        BY <2>b
      <4>2. stack' = Resumed(stack)
        BY <2>1, <2>3
      <4>3. /\ Resumed(stack) \in Seq(Calls)
            /\ Len(Resumed(stack)) = Len(stack)
            /\ \A j \in 1 .. Len(stack) :
                 /\ Good(Resumed(stack)[j])
                 /\ Resumed(stack)[j].depth = stack[j].depth
                 /\ Resumed(stack)[j].pc = stack[j].pc
            /\ \A j \in 1 .. Len(stack) - 1 : Resumed(stack)[j] = stack[j]
        BY <2>2, <4>1, ResumedIsGood
      <4> QED
        BY <2>2, <2>b, <4>2, <4>3
    <3>2. \A j \in 1 .. Len(stack') : Good(stack[j])'
      BY <3>1 DEF Good, UrlOwns, FileOwns, Holds
    <3> QED
      BY <1>3, <2>2, <3>1, <3>2 DEF Inv, Nested, OnlyUnparsedTmpLeaks
  <2>4. CASE ~TooDeep(depth)
    <3>1. Good(New(depth)) /\ New(depth) \in Calls /\ New(depth).depth = depth
      <4>1. depth \in 0 .. MaxIncludeDepth - 1
        BY <2>2, <2>4, BoundAssumption DEF TooDeep
      <4> HIDE DEF New
      <4> QED
        BY <1>1, <4>1
    <3> HIDE DEF New
    <3>2. /\ stack' \in Seq(Calls) /\ Len(stack') = n + 1
          /\ stack'[n + 1] = New(depth)
          /\ \A j \in 1 .. n : stack'[j] = stack[j]
      BY <2>1, <2>2, <2>4, <3>1, AppendProperties
    <3>3. \A j \in 1 .. n + 1 : Good(stack'[j])
      BY <2>2, <2>b, <3>1, <3>2
    <3>4. \A j \in 1 .. Len(stack') : Good(stack[j])'
      BY <3>2, <3>3 DEF Good, UrlOwns, FileOwns, Holds
    <3>5. Nested'
      BY <2>2, <2>b, <3>1, <3>2 DEF Nested
    <3> QED
      BY <1>3, <3>2, <3>4, <3>5 DEF Inv, OnlyUnparsedTmpLeaks
  <2> QED
    BY <2>3, <2>4
<1> QED
  BY <1>2, <1>3 DEF process_include

(* The running call is one of a known kind, place and possessions.         *)
LEMMA RunningCall ==
  ASSUME Inv, NEW pc, Running(pc)
  PROVE  stack # <<>> /\ Good(Call) /\ Call \in Calls /\ Call.pc = pc
BY CallIsGood DEF Running, Good

(* A call that keeps its fields but for place and possessions goes on.     *)
LEMMA GoesPreserves ==
  ASSUME Inv, stack # <<>>, NEW call \in Calls, call.depth = Call.depth,
         NEW pc \in UrlPlaces \cup FilePlaces,
         NEW acquired \in SUBSET {"memory", "curl", "tmp", "file", "srcDoc"},
         Goes(call, pc, acquired),
         ~call.dangling,
         call.kind = "url" =>
           /\ UrlOwns(pc, call.owns \cup acquired)
           /\ Holds(pc, call.memory, call.sent, call.complete, call.code),
         call.kind = "file" => FileOwns(pc, call.owns \cup acquired)
  PROVE  Inv'
<1> DEFINE next == [call EXCEPT !.pc = pc, !.owns = @ \cup acquired]
<1>1. /\ next \in Calls
      /\ next.pc = pc /\ next.owns = call.owns \cup acquired
      /\ next.kind = call.kind /\ next.depth = call.depth
      /\ next.dangling = call.dangling /\ next.memory = call.memory
      /\ next.sent = call.sent /\ next.complete = call.complete
      /\ next.code = call.code
  BY DEF Calls
<1>2. Becomes(next) /\ UNCHANGED <<leaked, faults>>
  BY DEF Goes
<1> HIDE DEF next
<1>3. Good(next)
  BY <1>1 DEF Good, UrlOwns, FileOwns, Holds
<1> QED
  BY <1>1, <1>2, <1>3, BecomesPreserves

-----------------------------------------------------------------------------
(* A URL, call by call.                                                    *)

LEMMA MallocPreserves == Inv /\ Malloc => Inv'
<1> SUFFICES ASSUME Inv, Malloc PROVE Inv'
  OBVIOUS
<1>1. stack # <<>> /\ Good(Call) /\ Call \in Calls /\ Call.pc = "malloc"
  BY RunningCall DEF Malloc
<1>2. Call.kind = "url" /\ Call.owns = {}
  BY <1>1 DEF Good, Calls, FileOwns, FilePlaces, UrlOwns
<1>3. CASE Goes(Call, "init", {"memory"})
  BY <1>1, <1>2, <1>3, GoesPreserves
  DEF UrlPlaces, FilePlaces, UrlOwns, Holds, Good
<1>4. CASE Returns({})
  BY <1>1, <1>2, <1>4, ReturnsPreserves
<1> QED
  BY <1>3, <1>4 DEF Malloc

LEMMA CurlInitPreserves == Inv /\ CurlInit => Inv'
<1> SUFFICES ASSUME Inv, CurlInit PROVE Inv'
  OBVIOUS
<1>1. stack # <<>> /\ Good(Call) /\ Call \in Calls /\ Call.pc = "init"
  BY RunningCall DEF CurlInit
<1>2. Call.kind = "url" /\ Call.owns = {"memory"}
  BY <1>1 DEF Good, Calls, FileOwns, FilePlaces, UrlOwns
<1>3. CASE Goes(Call, "perform", {"curl"})
  BY <1>1, <1>2, <1>3, GoesPreserves
  DEF UrlPlaces, FilePlaces, UrlOwns, Holds, Good
<1>4. CASE Returns({"memory"})
  BY <1>1, <1>2, <1>4, ReturnsPreserves
<1> QED
  BY <1>3, <1>4 DEF CurlInit

(* The call at perform, whose transfer is under way.                       *)
LEMMA AtPerform ==
  ASSUME Inv, Running("perform")
  PROVE  /\ stack # <<>> /\ Good(Call) /\ Call \in Calls
         /\ Call.kind = "url" /\ Call.owns = {"memory", "curl"}
         /\ Call.memory = [k \in 1 .. Call.sent |-> k]
         /\ ~Call.dangling
<1>1. stack # <<>> /\ Good(Call) /\ Call \in Calls /\ Call.pc = "perform"
  BY RunningCall
<1>2. Call.kind = "url"
  BY <1>1 DEF Good, Calls, FileOwns, FilePlaces
<1> QED
  BY <1>1, <1>2 DEF Good, UrlOwns, Holds

LEMMA WriteMemoryPreserves ==
  ASSUME Inv, NEW len \in 1 .. MaxBytes, WriteMemory(len)
  PROVE  Inv'
<1> DEFINE call == [Call EXCEPT !.memory = MemoryWith(len), !.sent = @ + len]
<1>1. /\ stack # <<>> /\ Good(Call) /\ Call \in Calls
      /\ Call.kind = "url" /\ Call.owns = {"memory", "curl"}
      /\ Call.memory = [k \in 1 .. Call.sent |-> k]
      /\ ~Call.dangling
  BY AtPerform DEF WriteMemory
<1>2. len \in Nat /\ Call.sent \in Nat
  BY <1>1, BoundAssumption DEF Calls
<1>3. MemoryWith(len) = [k \in 1 .. Call.sent + len |-> k]
  BY <1>1, <1>2, MemoryGrows DEF MemoryWith, Chunk
<1>4. MemoryWith(len) \in Seq(Nat) /\ Call.sent + len \in Nat
  BY <1>2, <1>3, SeqDef
<1>5. /\ call \in Calls
      /\ call.memory = MemoryWith(len) /\ call.sent = Call.sent + len
      /\ call.kind = "url" /\ call.depth = Call.depth
      /\ call.owns = {"memory", "curl"} /\ ~call.dangling
  BY <1>1, <1>4 DEF Calls
<1>6. Goes(call, "perform", {})
  BY DEF WriteMemory
<1> HIDE DEF call
<1>7. "perform" \in UrlPlaces
  BY DEF UrlPlaces
<1> QED
  BY <1>1, <1>3, <1>5, <1>6, <1>7, GoesPreserves
  DEF UrlOwns, Holds

LEMMA WriteNoMemoryPreserves == Inv /\ WriteNoMemory => Inv'
<1> SUFFICES ASSUME Inv, WriteNoMemory PROVE Inv'
  OBVIOUS
<1> DEFINE call == [Call EXCEPT !.memory = <<>>, !.owns = @ \ {"memory"}]
<1>1. /\ stack # <<>> /\ Call \in Calls
      /\ Call.kind = "url" /\ Call.owns = {"memory", "curl"} /\ ~Call.dangling
  BY AtPerform DEF WriteNoMemory
<1>2. <<>> \in Seq(Nat) /\ Call.owns \ {"memory"} = {"curl"}
  BY <1>1, EmptySeq
<1>3. /\ call \in Calls /\ call.kind = "url" /\ call.depth = Call.depth
      /\ call.owns = {"curl"} /\ ~call.dangling
  BY <1>1, <1>2 DEF Calls
<1>4. Goes(call, "aborted", {})
  BY DEF WriteNoMemory
<1> HIDE DEF call
<1>5. "aborted" \in UrlPlaces /\ call.owns \cup {} = {"curl"}
  BY <1>3 DEF UrlPlaces
<1>6. /\ UrlOwns("aborted", call.owns \cup {})
      /\ Holds("aborted", call.memory, call.sent, call.complete, call.code)
  BY <1>5 DEF UrlOwns, Holds
<1> QED
  BY <1>1, <1>3, <1>4, <1>5, <1>6, GoesPreserves

LEMMA PerformedPreserves == Inv /\ Performed => Inv'
<1> SUFFICES ASSUME Inv, Performed PROVE Inv'
  OBVIOUS
<1>1. /\ stack # <<>> /\ Call \in Calls
      /\ Call.kind = "url" /\ Call.owns = {"memory", "curl"} /\ ~Call.dangling
      /\ Call.memory = [k \in 1 .. Call.sent |-> k]
  BY AtPerform DEF Performed
<1>2. PICK code \in {200, 404} :
        Goes([Call EXCEPT !.complete = TRUE, !.code = code], "response", {})
  BY DEF Performed
<1> DEFINE call == [Call EXCEPT !.complete = TRUE, !.code = code]
<1>3. /\ call \in Calls /\ call.kind = "url" /\ call.depth = Call.depth
      /\ call.owns = {"memory", "curl"} /\ ~call.dangling
      /\ call.memory = Call.memory /\ call.sent = Call.sent /\ call.complete
  BY <1>1 DEF Calls
<1>4. Goes(call, "response", {})
  BY <1>2
<1> HIDE DEF call
<1>5. "response" \in UrlPlaces /\ call.owns \cup {} = {"memory", "curl"}
  BY <1>3 DEF UrlPlaces
<1>6. /\ UrlOwns("response", call.owns \cup {})
      /\ Holds("response", call.memory, call.sent, call.complete, call.code)
  BY <1>1, <1>3, <1>5 DEF UrlOwns, Holds
<1> QED
  BY <1>1, <1>3, <1>4, <1>5, <1>6, GoesPreserves

LEMMA PerformFailsPreserves == Inv /\ PerformFails => Inv'
<1> SUFFICES ASSUME Inv, PerformFails PROVE Inv'
  OBVIOUS
<1>1. stack # <<>> /\ Good(Call) /\ Call.pc \in {"perform", "aborted"}
  BY RunningCall DEF PerformFails
<1>2. Call.owns \subseteq {"memory", "curl"}
  BY <1>1 DEF Good, Calls, FileOwns, FilePlaces, UrlOwns
<1> QED
  BY <1>1, <1>2, ReturnsPreserves DEF PerformFails

LEMMA ResponsePreserves == Inv /\ Response => Inv'
<1> SUFFICES ASSUME Inv, Response PROVE Inv'
  OBVIOUS
<1>1. stack # <<>> /\ Good(Call) /\ Call \in Calls /\ Call.pc = "response"
  BY RunningCall DEF Response
<1>2. Call.kind = "url" /\ Call.owns = {"memory", "curl"}
  BY <1>1 DEF Good, Calls, FileOwns, FilePlaces, UrlOwns
<1>3. CASE Call.code = 200 /\ Goes(Call, "tmpfile", {})
  <2>1. UrlOwns("tmpfile", Call.owns \cup {}) /\ "tmpfile" \in UrlPlaces
    BY <1>2 DEF UrlOwns, UrlPlaces
  <2>2. Holds("tmpfile", Call.memory, Call.sent, Call.complete, Call.code)
    BY <1>1, <1>2, <1>3 DEF Good, Holds
  <2> QED
    BY <1>1, <1>2, <1>3, <2>1, <2>2, GoesPreserves DEF Good
<1>4. CASE Returns({"memory", "curl"})
  BY <1>1, <1>2, <1>4, ReturnsPreserves
<1> QED
  BY <1>3, <1>4 DEF Response

LEMMA TmpFilePreserves == Inv /\ TmpFile => Inv'
<1> SUFFICES ASSUME Inv, TmpFile PROVE Inv'
  OBVIOUS
<1>1. stack # <<>> /\ Good(Call) /\ Call \in Calls /\ Call.pc = "tmpfile"
  BY RunningCall DEF TmpFile
<1>2. Call.kind = "url" /\ Call.owns = {"memory", "curl"}
  BY <1>1 DEF Good, Calls, FileOwns, FilePlaces, UrlOwns
<1>3. CASE Goes(Call, "fwrite", {"tmp"})
  BY <1>1, <1>2, <1>3, GoesPreserves
  DEF UrlPlaces, FilePlaces, UrlOwns, Holds, Good
<1>4. CASE Returns({"memory", "curl"})
  BY <1>1, <1>2, <1>4, ReturnsPreserves
<1> QED
  BY <1>3, <1>4 DEF TmpFile

LEMMA FwritePreserves == Inv /\ Fwrite => Inv'
<1> SUFFICES ASSUME Inv, Fwrite PROVE Inv'
  OBVIOUS
<1>1. stack # <<>> /\ Good(Call) /\ Call \in Calls /\ Call.pc = "fwrite"
  BY RunningCall DEF Fwrite
<1>2. Call.kind = "url" /\ Call.owns = {"memory", "curl", "tmp"}
  BY <1>1 DEF Good, Calls, FileOwns, FilePlaces, UrlOwns
<1>3. CASE Goes(Call, "parse", {})
  BY <1>1, <1>2, <1>3, GoesPreserves
  DEF UrlPlaces, FilePlaces, UrlOwns, Holds, Good
<1>4. CASE Returns({"tmp", "memory", "curl"})
  BY <1>1, <1>2, <1>4, ReturnsPreserves
<1> QED
  BY <1>3, <1>4 DEF Fwrite

-----------------------------------------------------------------------------
(* A local file, and what both kinds have in common.                       *)

LEMMA FopenPreserves == Inv /\ Fopen => Inv'
<1> SUFFICES ASSUME Inv, Fopen PROVE Inv'
  OBVIOUS
<1>1. stack # <<>> /\ Good(Call) /\ Call \in Calls /\ Call.pc = "fopen"
  BY RunningCall DEF Fopen
<1>2. Call.kind = "file" /\ Call.owns = {}
  BY <1>1 DEF Good, Calls, UrlOwns, UrlPlaces, FileOwns
<1>3. CASE Goes(Call, "parse", {"file"})
  BY <1>1, <1>2, <1>3, GoesPreserves DEF UrlPlaces, FilePlaces, FileOwns, Good
<1>4. CASE Returns({})
  BY <1>1, <1>2, <1>4, ReturnsPreserves
<1> QED
  BY <1>3, <1>4 DEF Fopen

LEMMA ParsePreserves == Inv /\ Parse => Inv'
<1> SUFFICES ASSUME Inv, Parse PROVE Inv'
  OBVIOUS
<1>1. stack # <<>> /\ Good(Call) /\ Call \in Calls /\ Call.pc = "parse"
  BY RunningCall DEF Parse
<1>2. /\ Call.kind \in {"url", "file"}
      /\ Call.kind = "url" => Call.owns = {"memory", "curl", "tmp"}
      /\ Call.kind = "file" => Call.owns = {"file"}
  BY <1>1 DEF Good, Calls, UrlOwns, FileOwns
<1>3. ASSUME NEW n \in 0 .. MaxIncludes,
             Goes([Call EXCEPT !.left = n], "copy", {"srcDoc"})
      PROVE  Inv'
  <2> DEFINE call == [Call EXCEPT !.left = n]
  <2>1. n \in Nat
    BY BoundAssumption
  <2>2. /\ call \in Calls /\ call.kind = Call.kind /\ call.depth = Call.depth
        /\ call.owns = Call.owns /\ call.dangling = Call.dangling
        /\ call.memory = Call.memory /\ call.sent = Call.sent
        /\ call.complete = Call.complete /\ call.code = Call.code
    BY <1>1, <2>1 DEF Calls
  <2>3. Goes(call, "copy", {"srcDoc"})
    BY <1>3
  <2> HIDE DEF call
  <2>4. "copy" \in UrlPlaces /\ "copy" \in FilePlaces
    BY DEF UrlPlaces, FilePlaces
  <2>5. call.kind = "url" => Call.owns \cup {"srcDoc"} = {"memory", "curl", "tmp", "srcDoc"}
    BY <1>2, <2>2
  <2> QED
    BY <1>1, <1>2, <2>2, <2>3, <2>4, <2>5, GoesPreserves
    DEF UrlOwns, FileOwns, Holds, Good
<1>4. CASE Returns(Unparsed)
  BY <1>1, <1>2, <1>4, ReturnsPreserves DEF Unparsed
<1> QED
  BY <1>3, <1>4 DEF Parse

LEMMA CopiedPreserves == Inv /\ Copied => Inv'
<1> SUFFICES ASSUME Inv, Copied PROVE Inv'
  OBVIOUS
<1>1. stack # <<>> /\ Call \in Calls
  BY RunningCall DEF Copied
<1>2. Call.owns \subseteq {"srcDoc", "tmp", "memory", "curl", "file"}
  BY <1>1 DEF Calls
<1> QED
  BY <1>1, <1>2, ReturnsPreserves DEF Copied

-----------------------------------------------------------------------------
LEMMA NextPreserves == Inv /\ [Next]_vars => Inv'
<1> SUFFICES ASSUME Inv, [Next]_vars PROVE Inv'
  OBVIOUS
<1>1. CASE UNCHANGED vars
  BY <1>1 DEF vars, Inv, Nested, OnlyUnparsedTmpLeaks
<1>2. CASE \E kind \in {"url", "file"} : process_include(kind)
  BY <1>2, ProcessIncludePreserves
<1>3. CASE \E len \in 1 .. MaxBytes : WriteMemory(len)
  BY <1>3, WriteMemoryPreserves
<1> QED
  BY <1>1, <1>2, <1>3, MallocPreserves, CurlInitPreserves, WriteNoMemoryPreserves,
     PerformedPreserves, PerformFailsPreserves, ResponsePreserves, TmpFilePreserves,
     FwritePreserves, FopenPreserves, ParsePreserves, CopiedPreserves
  DEF Next, Step

(* What every reachable stack of calls looks like.                         *)
THEOREM Invariance == Spec => []Inv
BY InitInv, NextPreserves, PTL DEF Spec

(* Whatever fails, at whatever depth, nothing is freed twice and nothing   *)
(* is left behind but the temporary file of a document that does not parse *)
(* (process_include, ut_kvp.c:1102).                                       *)
THEOREM OnlyUnparsedTmpLeaksAlways == Spec => []OnlyUnparsedTmpLeaks
<1>1. Inv => OnlyUnparsedTmpLeaks
  BY DEF Inv
<1> QED
  BY <1>1, Invariance, PTL

(* What is parsed and copied of a URL is all that the server has sent, in  *)
(* order, of a transfer that was complete and successful.                  *)
THEOREM FetchedWholeAlways == Spec => []FetchedWhole
<1>1. Inv => FetchedWhole
  <2> SUFFICES ASSUME Inv, NEW j \in DOMAIN stack, stack[j].kind = "url",
                      stack[j].pc \in {"fwrite", "parse", "copy"}
               PROVE  /\ stack[j].memory = [k \in 1 .. stack[j].sent |-> k]
                      /\ stack[j].complete /\ stack[j].code = 200
                      /\ {"memory", "curl", "tmp"} \subseteq stack[j].owns
    BY DEF FetchedWhole
  <2>1. Good(stack[j])
    BY LenProperties DEF Inv
  <2> QED
    BY <2>1 DEF Good, UrlOwns, Holds
<1> QED
  BY <1>1, Invariance, PTL

(* Calls of process_include never nest deeper than the limit, however the  *)
(* documents include each other: a call is deeper than its caller, and one *)
(* that would reach UT_KVP_MAX_INCLUDE_DEPTH is not made.                  *)
NestingIsBounded == Len(stack) <= MaxIncludeDepth

THEOREM NestingIsBoundedAlways == Spec => []NestingIsBounded
<1>1. Inv => NestingIsBounded
  <2> SUFFICES ASSUME Inv PROVE Len(stack) <= MaxIncludeDepth
    BY DEF NestingIsBounded
  <2>1. CASE stack = <<>>
    BY <2>1, EmptySeq, BoundAssumption
  <2>2. CASE stack # <<>>
    <3>1. Len(stack) \in Nat /\ Call \in Calls /\ Call.depth >= Len(stack) - 1
      BY <2>2, CallIsGood DEF Good
    <3> QED
      BY <3>1, BoundAssumption DEF Calls
  <2> QED
    BY <2>1, <2>2
<1> QED
  BY <1>1, Invariance, PTL
=============================================================================
