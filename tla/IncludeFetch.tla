---------------------------- MODULE IncludeFetch ----------------------------
(***************************************************************************)
(* process_include of ut_kvp.c at the level of what it acquires and        *)
(* releases: the memory a URL is downloaded into, chunk by chunk, the curl *)
(* handle, the temporary file, the parsed document, the local file.  The   *)
(* calls nest, a document that is copied may include others; what the copy *)
(* is, KvpCopy says.                                                       *)
(*                                                                         *)
(* libcurl, libfyaml and the C library are the environment: a call fails   *)
(* or does not.  No timeout is set for a transfer; that it ends is an      *)
(* assumption.                                                             *)
(***************************************************************************)
EXTENDS Integers, SequencesExt

CONSTANTS MaxIncludeDepth,      \* UT_KVP_MAX_INCLUDE_DEPTH
          MaxBytes,             \* bound: bytes of a download
          MaxIncludes           \* bound: includes of a document

ASSUME BoundAssumption ==
  /\ MaxIncludeDepth \in Nat \ {0}
  /\ MaxBytes \in Nat \ {0} /\ MaxIncludes \in Nat

VARIABLES stack,        \* the calls of process_include, the last one running
          leaked,       \* history: what a call left behind, and where
          faults        \* history: memory was freed that had been freed

vars == <<stack, leaked, faults>>

(* A call: its depth, where it stands, what it has to release; whether     *)
(* mChunk.memory points to memory that is freed; what mChunk holds of the  *)
(* bytes sent; how the server answered; the includes left to copy.         *)
Frame(kind, depth, pc) ==
  [kind |-> kind, depth |-> depth, pc |-> pc, owns |-> {}, dangling |-> FALSE,
   memory |-> <<>>, sent |-> 0, complete |-> FALSE, code |-> 0, left |-> 0]

Init == stack = <<>> /\ leaked = {} /\ faults = {}

Call == Last(stack)
Running(pc) == stack # <<>> /\ Call.pc = pc
Becomes(call) == stack' = Append(Front(stack), call)

-----------------------------------------------------------------------------
(* Mutant: the iteration of the caller begins again.                       *)
ResumedAgain(calls) == calls

(* The caller goes on to its next include.                                 *)
Resumed(calls) == IF calls = <<>> THEN calls
                  ELSE [calls EXCEPT ![Len(calls)].left = @ - 1]

(* The call returns, after it has released some of what it holds.          *)
Returns(released) ==
  /\ stack' = Resumed(Front(stack))
  /\ leaked' = leaked \cup {[what |-> x, at |-> Call.pc] : x \in Call.owns \ released}
  /\ faults' = IF Call.dangling /\ "memory" \in released
               THEN faults \cup {Call.pc} ELSE faults

(* The call goes on, with something more to release.                       *)
Goes(call, pc, acquired) ==
  /\ Becomes([call EXCEPT !.pc = pc, !.owns = @ \cup acquired])
  /\ UNCHANGED <<leaked, faults>>

TooDeep(depth) == depth >= MaxIncludeDepth

(* process_include is called: by the copy of the document that was opened, *)
(* or by that of an included one, in which every !include tag around it    *)
(* counts a level more.                                                    *)
process_include(kind) ==
  \/ /\ stack = <<>>
     /\ stack' = <<Frame(kind, 0, IF kind = "url" THEN "malloc" ELSE "fopen")>>
     /\ UNCHANGED <<leaked, faults>>
  \/ /\ Running("copy") /\ Call.left > 0
     /\ \E depth \in Call.depth + 1 .. MaxIncludeDepth :
          stack' = IF TooDeep(depth) THEN Resumed(stack)
                   ELSE Append(stack, Frame(kind, depth, IF kind = "url" THEN "malloc"
                                                         ELSE "fopen"))
     /\ UNCHANGED <<leaked, faults>>

-----------------------------------------------------------------------------
(* A URL.                                                                  *)

Malloc == /\ Running("malloc")
          /\ Goes(Call, "init", {"memory"}) \/ Returns({})

CurlInit == /\ Running("init")
            /\ Goes(Call, "perform", {"curl"}) \/ Returns({"memory"})

Chunk(len) == [k \in 1 .. len |-> Call.sent + k]

(* Mutant: the chunk is copied to the beginning of the memory.             *)
MemoryWithInFront(len) == Chunk(len)

MemoryWith(len) == Call.memory \o Chunk(len)

(* write_memory_callback.                                                  *)
WriteMemory(len) ==
  /\ Running("perform")
  /\ Call.sent + len <= MaxBytes
  /\ Goes([Call EXCEPT !.memory = MemoryWith(len), !.sent = @ + len], "perform", {})

(* Mutant: the pointer to the freed memory stays.                          *)
WriteNoMemoryDangling ==
  /\ Running("perform")
  /\ Goes([Call EXCEPT !.memory = <<>>, !.owns = @ \ {"memory"}, !.dangling = TRUE],
          "aborted", {})

(* realloc returns NULL: the memory is freed, the pointer is NULL, and the *)
(* 0 that is returned makes curl_easy_perform fail.                        *)
WriteNoMemory ==
  /\ Running("perform")
  /\ Goes([Call EXCEPT !.memory = <<>>, !.owns = @ \ {"memory"}], "aborted", {})

Performed == /\ Running("perform")
             /\ \E code \in {200, 404} :
                  Goes([Call EXCEPT !.complete = TRUE, !.code = code], "response", {})

PerformFails == /\ Running("perform") \/ Running("aborted")
                /\ Returns({"memory", "curl"})

Response == /\ Running("response")
            /\ IF Call.code = 200 THEN Goes(Call, "tmpfile", {})
               ELSE Returns({"memory", "curl"})

TmpFile == /\ Running("tmpfile")
           /\ Goes(Call, "fwrite", {"tmp"}) \/ Returns({"memory", "curl"})

Fwrite == /\ Running("fwrite")
          /\ \/ Goes(Call, "parse", {})
             \/ Returns({"tmp", "memory", "curl"})

-----------------------------------------------------------------------------
(* A local file.                                                           *)

Fopen == /\ Running("fopen")
         /\ Goes(Call, "parse", {"file"}) \/ Returns({})

-----------------------------------------------------------------------------
(* Both.                                                                   *)

(* What is released when the content does not parse: not the temporary     *)
(* file.                                                                   *)
Unparsed == IF Call.kind = "url" THEN {"memory", "curl"} ELSE {"file"}

Parse == /\ Running("parse")
         /\ \/ \E n \in 0 .. MaxIncludes : Goes([Call EXCEPT !.left = n], "copy", {"srcDoc"})
            \/ Returns(Unparsed)

(* process_node_copy returns, with a root or without.                      *)
Copied == /\ Running("copy")
          /\ Call.left = 0
          /\ Returns({"srcDoc", "tmp", "memory", "curl", "file"})

Step == \/ \E kind \in {"url", "file"} : Running("copy") /\ process_include(kind)
        \/ Malloc \/ CurlInit \/ WriteNoMemory \/ Performed \/ PerformFails
        \/ \E len \in 1 .. MaxBytes : WriteMemory(len)
        \/ Response \/ TmpFile \/ Fwrite \/ Fopen \/ Parse \/ Copied

Next == Step \/ \E kind \in {"url", "file"} : process_include(kind)

Spec == Init /\ [][Next]_vars

(* The calls the code makes return, and so it goes on.                     *)
FairSpec == Spec /\ WF_vars(Step)

-----------------------------------------------------------------------------
(* Whatever fails, at whatever depth, and though a failing realloc frees   *)
(* the memory that process_include frees again: nothing is freed twice and *)
(* nothing is left behind but the temporary file of a document that does   *)
(* not parse.                                                              *)
OnlyUnparsedTmpLeaks == /\ leaked \subseteq {[what |-> "tmp", at |-> "parse"]}
                        /\ faults = {}

(* What is parsed and copied of a URL is all that the server has sent, in  *)
(* order, of a transfer that was complete and successful.                  *)
FetchedWhole ==
  \A j \in DOMAIN stack :
    LET call == stack[j]
    IN call.kind = "url" /\ call.pc \in {"fwrite", "parse", "copy"} =>
         /\ call.memory = [k \in 1 .. call.sent |-> k]
         /\ call.complete /\ call.code = 200
         /\ {"memory", "curl", "tmp"} \subseteq call.owns

(* An include returns, although documents include each other in a cycle:   *)
(* the depth, which every call adds to, ends it.                           *)
EveryIncludeReturns == stack # <<>> ~> stack = <<>>
=============================================================================
