------------------------------- MODULE UtLog --------------------------------
(***************************************************************************)
(* The logger of ut_log.c: threads that write lines, the first of which    *)
(* names the log file unless a call of UT_log_setLogFilePath has done so,  *)
(* and what goes into a line.  The name and the flag that says it is there *)
(* are shared without a lock, and so is the struct localtime returns; the  *)
(* state machine thread of a control plane logs beside the test.           *)
(*                                                                         *)
(* gLogFileName is a buffer of bytes.  Those of a name and the flag behind *)
(* them land one by one, in any order, while other threads read the buffer *)
(* or store a name of their own; all have landed when the call returns.    *)
(* "ut-log_" and ".log", the same in every name, are left out of it.       *)
(***************************************************************************)
EXTENDS Integers, SequencesExt

CONSTANTS Thread,
          Path,                 \* directories UT_log_setLogFilePath is given
          DefaultPath,          \* UT_LOG_DEFAULT_PATH
          Stamp, StampSize,     \* the time as strftime prints each second
          NUL,                  \* '\0'
          MaxPath,              \* UT_LOG_MAX_PATH
          MaxLineSize,          \* UT_LOG_MAX_LINE_SIZE
          Prefix, Text,         \* bound: what lines begin with and hold
          MaxCalls, MaxClock    \* bounds: calls in all, seconds

ASSUME NameAssumption ==
  /\ DefaultPath \notin Path
  /\ \A dir \in Path \cup {DefaultPath} :
       dir \in Seq(Range(dir)) /\ dir # <<>> /\ NUL \notin Range(dir)
  /\ NUL # "/"
ASSUME StampAssumption ==
  /\ StampSize \in Nat
  /\ \A second \in 0 .. MaxClock :
       /\ Stamp[second] \in Seq(Range(Stamp[second])) /\ Len(Stamp[second]) = StampSize
       /\ NUL \notin Range(Stamp[second])
ASSUME SizeAssumption == /\ MaxPath \in Nat /\ MaxPath > 1
                         /\ MaxLineSize \in Nat \ {0}
ASSUME TextAssumption == \A s \in Prefix \cup Text : s \in Seq(Range(s))
ASSUME BoundAssumption == MaxCalls \in Nat /\ MaxClock \in Nat

VARIABLES
  gLogInit, gLogFileName,
  clock,                \* seconds
  calls,                \* number of calls made
  pc, path, now,        \* of each thread: its place and its variables,
  name, stores,         \*   the name it stores, what of it has not landed,
  fp,                   \*   the name it opens a file by
  alone,                \* history: nobody has named the file meanwhile
  settled,              \* history: the name a call has stored alone
  expects,              \* history: what was settled when a line was begun
  everSet,              \* history: UT_log_setLogFilePath has been called
  overtaken,            \* history: a flag has landed before its name
  written       \* the line written last, by which function, where what

shared == <<gLogInit, gLogFileName>>
locals == <<path, now, name, stores, fp>>
history == <<alone, settled, expects, everSet, overtaken>>
vars == <<shared, clock, calls, pc, locals, history, written>>

NoName == <<>>
FLAG == 0       \* the store of the flag; that of byte n of the name is n

Init == /\ gLogInit = FALSE
        /\ gLogFileName = [n \in 1 .. MaxPath |-> NUL]
        /\ clock = 0
        /\ calls = 0
        /\ pc = [t \in Thread |-> "idle"]
        /\ path = [t \in Thread |-> DefaultPath]
        /\ now = [t \in Thread |-> 0]
        /\ name = [t \in Thread |-> NoName]
        /\ stores = [t \in Thread |-> {}]
        /\ fp = [t \in Thread |-> NoName]
        /\ alone = [t \in Thread |-> FALSE]
        /\ settled = NoName
        /\ expects = [t \in Thread |-> NoName]
        /\ everSet = FALSE
        /\ overtaken = FALSE
        /\ written = [by |-> "UT_log", stdout |-> <<>>, file |-> <<>>]

Goto(t, from, to) == pc[t] = from /\ pc' = [pc EXCEPT ![t] = to]

Tick == /\ clock < MaxClock
        /\ clock' = clock + 1
        /\ UNCHANGED <<shared, calls, pc, locals, history, written>>

(* What snprintf leaves of a string: it keeps a byte of the size for NUL.  *)
Cut(s, size) == SubSeq(s, 1, Min({Len(s), Max({size - 1, 0})}))

-----------------------------------------------------------------------------
(* UT_log_setLogFilePath, called by the test or by the first line.         *)

Naming(t) == pc[t] \in {"localtime", "strftime", "snprintf"}

Begins(t, dir) ==
  /\ path' = [path EXCEPT ![t] = dir]
  /\ LET others == {u \in Thread \ {t} : Naming(u)}
     IN alone' = [u \in Thread |-> IF u = t THEN others = {}
                                    ELSE alone[u] /\ u \notin others]

UT_log_setLogFilePath(t, dir) ==
  /\ Goto(t, "idle", "localtime")
  /\ calls < MaxCalls
  /\ calls' = calls + 1
  /\ Begins(t, dir)
  /\ settled' = NoName
  /\ expects' = [u \in Thread |-> NoName]
  /\ everSet' = TRUE
  /\ UNCHANGED <<shared, clock, now, name, stores, fp, overtaken, written>>

(* Mutant: the flag is set before the name is written.                     *)
LocaltimeSetsFlag(t) == /\ Goto(t, "localtime", "strftime")
                        /\ now' = [now EXCEPT ![t] = clock]
                        /\ gLogInit' = TRUE
                        /\ UNCHANGED <<gLogFileName, clock, calls, path, name, stores, fp,
                                       history, written>>

Localtime(t) == /\ Goto(t, "localtime", "strftime")
                /\ now' = [now EXCEPT ![t] = clock]
                /\ UNCHANGED <<shared, clock, calls, path, name, stores, fp, history,
                               written>>

(* The struct of localtime is one for all threads.  While another is       *)
(* between its localtime and its strftime, for a name or for a line, each  *)
(* digit read from it may be of any second that has passed.                *)
Digits(t) ==
  IF \E u \in Thread \ {t} : pc[u] \in {"strftime", "write"}
  THEN {[n \in 1 .. StampSize |-> Stamp[second[n]][n]] :
          second \in [1 .. StampSize -> 0 .. clock]}
  ELSE {Stamp[now[t]]}

Directory(dir) == IF Last(dir) = "/" THEN dir ELSE Append(dir, "/")

Strftime(t) ==
  /\ Goto(t, "strftime", "snprintf")
  /\ \E digits \in Digits(t) :
       name' = [name EXCEPT ![t] = Cut(Directory(path[t]) \o digits, MaxPath)]
  /\ stores' = [stores EXCEPT ![t] = {FLAG} \cup 1 .. Len(name'[t]) + 1]
  /\ UNCHANGED <<shared, clock, calls, path, now, fp, history, written>>

(* The C library may empty the buffer before it writes the first byte.     *)
SnprintfEmpties(t) ==
  /\ pc[t] = "snprintf" /\ 1 \in stores[t]
  /\ gLogFileName' = [gLogFileName EXCEPT ![1] = NUL]
  /\ UNCHANGED <<gLogInit, clock, calls, pc, locals, history, written>>

Byte(string, n) == IF n <= Len(string) THEN string[n] ELSE NUL

ByteLands(t, n) ==
  /\ pc[t] = "snprintf" /\ n \in stores[t] \ {FLAG}
  /\ stores' = [stores EXCEPT ![t] = @ \ {n}]
  /\ gLogFileName' = [gLogFileName EXCEPT ![n] = Byte(name[t], n)]
  /\ UNCHANGED <<gLogInit, clock, calls, pc, path, now, name, fp, history, written>>

(* Mutant: only the first line sets the flag.                              *)
FlagIfLazy(t) == gLogInit \/ path[t] = DefaultPath

Flag(t) == TRUE

FlagLands(t) ==
  /\ pc[t] = "snprintf" /\ FLAG \in stores[t]
  /\ stores' = [stores EXCEPT ![t] = @ \ {FLAG}]
  /\ gLogInit' = Flag(t)
  /\ overtaken' = (overtaken \/ stores'[t] # {})
  /\ UNCHANGED <<gLogFileName, clock, calls, pc, path, now, name, fp, alone, settled,
                 expects, everSet, written>>

(* The call returns, and its variables are gone.                           *)
NameDone(t) ==
  /\ Goto(t, "snprintf", IF path[t] = DefaultPath THEN "open" ELSE "idle")
  /\ stores[t] = {}
  /\ settled' = IF alone[t] THEN name[t] ELSE NoName
  /\ expects' = [expects EXCEPT ![t] = IF path[t] = DefaultPath THEN settled' ELSE @]
  /\ path' = [path EXCEPT ![t] = DefaultPath]
  /\ now' = [now EXCEPT ![t] = 0]
  /\ name' = [name EXCEPT ![t] = NoName]
  /\ alone' = [alone EXCEPT ![t] = FALSE]
  /\ UNCHANGED <<shared, clock, calls, stores, fp, everSet, overtaken, written>>

-----------------------------------------------------------------------------
(* UT_log and UT_logPrefix.                                                *)

UT_log(t) == /\ Goto(t, "idle", "test")
             /\ calls < MaxCalls
             /\ calls' = calls + 1
             /\ expects' = [expects EXCEPT ![t] = settled]
             /\ UNCHANGED <<shared, clock, locals, alone, settled, everSet, overtaken, written>>

LogTest(t) == /\ Goto(t, "test", IF gLogInit THEN "open" ELSE "localtime")
              /\ IF gLogInit THEN UNCHANGED <<path, alone>>
                 ELSE Begins(t, DefaultPath)
              /\ UNCHANGED <<shared, clock, calls, now, name, stores, fp, settled,
                             expects, everSet, overtaken, written>>

(* fopen reads the name byte by byte, as far as the first NUL.             *)
ByteRead(t) == gLogFileName[Len(fp[t]) + 1]

OpenByte(t) ==
  /\ pc[t] = "open" /\ ByteRead(t) # NUL
  /\ fp' = [fp EXCEPT ![t] = Append(@, ByteRead(t))]
  /\ UNCHANGED <<shared, clock, calls, pc, path, now, name, stores, history, written>>

Opens(t) ==
  /\ Goto(t, "open", "write")
  /\ ByteRead(t) = NUL /\ fp[t] # NoName
  /\ UNCHANGED <<shared, clock, calls, locals, history, written>>

(* fopen returns NULL, as it does when the name is empty: the line is      *)
(* lost.                                                                   *)
OpenFails(t) ==
  /\ Goto(t, "open", "idle")
  /\ ByteRead(t) = NUL
  /\ fp' = [fp EXCEPT ![t] = NoName]
  /\ expects' = [expects EXCEPT ![t] = NoName]
  /\ UNCHANGED <<shared, clock, calls, path, now, name, stores, alone, settled, everSet,
                 overtaken, written>>

(* singleLineBuffer: snprintf cuts what a line begins with, vsnprintf the  *)
(* text behind it.                                                         *)
SingleLine(prefix, text) ==
  LET begin == Cut(prefix, MaxLineSize)
  IN begin \o Cut(text, MaxLineSize - Len(begin) - 1)

(* Mutant: the escape character goes, the rest of the code stays.          *)
UT_stripColorCodeEscapes(line) == SelectSeq(line, LAMBDA c : c # "ESC")

(* One character of the line: from an escape character to the next "m"     *)
(* nothing is kept.                                                        *)
StripCharacter(s, c) == IF s.escape THEN [s EXCEPT !.escape = c # "m"]
                        ELSE IF c = "ESC" THEN [s EXCEPT !.escape = TRUE]
                        ELSE [s EXCEPT !.out = Append(@, c)]

UT_stripColorCode(line) ==
  LET Stripped[n \in 0 .. Len(line)] ==
        IF n = 0 THEN [escape |-> FALSE, out |-> <<>>]
        ELSE StripCharacter(Stripped[n - 1], line[n])
  IN Stripped[Len(line)].out

(* The line goes to stdout and to the file; UT_logPrefix strips it first.  *)
Write(t, by, prefix, text) ==
  /\ Goto(t, "write", "idle")
  /\ LET line == SingleLine(prefix, text)
     IN written' = [by |-> by, stdout |-> line,
                    file |-> IF by = "UT_log" THEN line ELSE UT_stripColorCode(line)]
  /\ fp' = [fp EXCEPT ![t] = NoName]
  /\ expects' = [expects EXCEPT ![t] = NoName]
  /\ UNCHANGED <<shared, clock, calls, path, now, name, stores, alone, settled, everSet,
                 overtaken>>

Next == \/ Tick
        \/ \E t \in Thread :
             \/ \E dir \in Path : UT_log_setLogFilePath(t, dir)
             \/ Localtime(t) \/ Strftime(t) \/ SnprintfEmpties(t)
             \/ \E n \in stores[t] : ByteLands(t, n)
             \/ FlagLands(t) \/ NameDone(t)
             \/ UT_log(t) \/ LogTest(t) \/ OpenByte(t) \/ Opens(t) \/ OpenFails(t)
             \/ \E by \in {"UT_log", "UT_logPrefix"}, prefix \in Prefix, text \in Text :
                  Write(t, by, prefix, text)

Spec == Init /\ [][Next]_vars

-----------------------------------------------------------------------------
(* A name that one thread has stored while no other was storing one is     *)
(* where every line goes that is begun afterwards, in whatever thread,     *)
(* until UT_log_setLogFilePath is called again: a path the test has set    *)
(* is not replaced by the default one, and nothing is left of an earlier   *)
(* and longer name.                                                        *)
SettledNamePrevails ==
  \A t \in Thread : pc[t] = "write" /\ expects[t] # NoName => fp[t] = expects[t]

DefaultName(second) == Cut(Directory(DefaultPath) \o Stamp[second], MaxPath)

(* As long as the test sets no path, every line that is not lost goes to a *)
(* default name, although the first lines of several threads may all store *)
(* one while others read it.  Each digit is of a second that has passed,   *)
(* but not of one for all.  Unless the flag has overtaken the bytes it     *)
(* stands for, none of the name is missing.                                *)
LazyNameIsDefault ==
  ~everSet => \A t \in Thread : pc[t] = "write" =>
    /\ \A n \in DOMAIN fp[t] : \E second \in 0 .. clock :
         n \in DOMAIN DefaultName(second) /\ fp[t][n] = DefaultName(second)[n]
    /\ ~overtaken => \A second \in 0 .. clock : Len(fp[t]) = Len(DefaultName(second))

(* The places of a line that belong to no colour code.                     *)
Shown(line) == {k \in DOMAIN line : \A j \in 1 .. k :
                  line[j] = "ESC" => \E h \in j .. k - 1 : line[h] = "m"}

(* A line stays below the size of its buffer, however long what it begins  *)
(* with is; UT_logPrefix leaves the colours out of the file and everything *)
(* else in it, where the end of the line cuts a code in two as well.       *)
ColoursStayOutOfFile ==
  LET shown == Shown(written.stdout)
  IN /\ Len(written.stdout) < MaxLineSize
     /\ IF written.by = "UT_log" THEN written.file = written.stdout
        ELSE /\ Len(written.file) = Cardinality(shown)
             /\ \A k \in shown : written.file[Cardinality(shown \cap 1 .. k)]
                                  = written.stdout[k]
=============================================================================
