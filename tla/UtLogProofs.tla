---------------------------- MODULE UtLogProofs -----------------------------
(***************************************************************************)
(* What TLAPS proves of UtLog, for any number of threads, calls, paths and *)
(* seconds: where the lines of the threads go.                             *)
(***************************************************************************)
EXTENDS UtLog, LoopFacts, FiniteSetTheorems, SequenceTheorems, TLAPS

Places == {"idle", "test", "localtime", "strftime", "snprintf", "open", "write"}
Dirs == Path \cup {DefaultPath}
Letter == {"/"} \cup (UNION {Range(dir) : dir \in Dirs})
                \cup (UNION {Range(Stamp[second]) : second \in 0 .. MaxClock})
Name == {string \in Seq(Letter) : Len(string) < MaxPath}

(* The types the argument below needs.  The last byte of the buffer is     *)
(* never written, so that a name always ends in it.                        *)
Types == /\ gLogInit \in BOOLEAN
         /\ gLogFileName \in [1 .. MaxPath -> Letter \cup {NUL}]
         /\ gLogFileName[MaxPath] = NUL
         /\ clock \in 0 .. MaxClock
         /\ pc \in [Thread -> Places]
         /\ path \in [Thread -> Dirs]
         /\ now \in [Thread -> 0 .. clock]
         /\ name \in [Thread -> Name]
         /\ stores \in [Thread -> SUBSET (0 .. MaxPath)]
         /\ fp \in [Thread -> Name]
         /\ alone \in [Thread -> BOOLEAN]
         /\ settled \in Name
         /\ expects \in [Thread -> Name]
         /\ everSet \in BOOLEAN
         /\ overtaken \in BOOLEAN

(* What a thread has in hand at its place.                                 *)
Local(t) == /\ pc[t] = "snprintf" => /\ name[t] # NoName
                                     /\ stores[t] \subseteq 0 .. Len(name[t]) + 1
                                     /\ FLAG \notin stores[t] => gLogInit
            /\ pc[t] \in {"open", "write"} => gLogInit
            /\ pc[t] \notin {"open", "write"} => fp[t] = NoName
Locals == \A t \in Thread : Local(t)

(* A thread that names the file alone is the only one that does, and what  *)
(* has landed of its name is there.                                        *)
Alone == \A t \in Thread : Naming(t) /\ alone[t] =>
           /\ \A u \in Thread \ {t} : ~Naming(u)
           /\ pc[t] = "snprintf" => \A n \in 1 .. Len(name[t]) + 1 :
                n \notin stores[t] => gLogFileName[n] = Byte(name[t], n)

(* A settled name is in use, and nobody is storing another.                *)
Settled == settled # NoName =>
             /\ gLogInit
             /\ \A n \in 1 .. Len(settled) + 1 : gLogFileName[n] = Byte(settled, n)
             /\ \A t \in Thread : ~Naming(t)

(* A line that expects a name expects the settled one, and has read what   *)
(* it has read so far from it.                                             *)
Expect(t) == expects[t] # NoName =>
               /\ expects[t] = settled
               /\ pc[t] \in {"open", "write"} =>
                    /\ Len(fp[t]) <= Len(settled)
                    /\ \A n \in 1 .. Len(fp[t]) : fp[t][n] = settled[n]
               /\ pc[t] = "write" => Len(fp[t]) = Len(settled)
Expecting == \A t \in Thread : Expect(t)

(* The byte n of a default name, of some second that has passed.           *)
IsDefault(c, n) == \E second \in 0 .. clock :
                     n \in DOMAIN DefaultName(second) /\ c = DefaultName(second)[n]
DefaultLen == Len(DefaultName(0))

(* With no path set by the test, nothing but bytes of default names is     *)
(* stored or read, each at its place; but for the first, which another     *)
(* thread may empty, those of a name that has landed stay there.           *)
LazyThread(t) ==
  /\ Naming(t) => path[t] = DefaultPath
  /\ pc[t] = "snprintf" =>
       /\ Len(name[t]) = DefaultLen
       /\ \A n \in 1 .. DefaultLen : IsDefault(name[t][n], n)
       /\ \A n \in 2 .. DefaultLen : n \notin stores[t] => gLogFileName[n] # NUL
  /\ \A n \in 1 .. Len(fp[t]) : IsDefault(fp[t][n], n)
  /\ pc[t] = "write" /\ ~overtaken => Len(fp[t]) = DefaultLen
LazyBuffer ==
  /\ \A n \in 1 .. MaxPath : gLogFileName[n] # NUL => IsDefault(gLogFileName[n], n)
  /\ gLogInit /\ ~overtaken => \A n \in 2 .. DefaultLen : gLogFileName[n] # NUL
Lazy == ~everSet => LazyBuffer /\ \A t \in Thread : LazyThread(t)

Inv == Types /\ Locals /\ Alone /\ Settled /\ Expecting /\ Lazy

-----------------------------------------------------------------------------
(* Names.                                                                  *)

(* What snprintf leaves of a string.                                       *)
LEMMA CutFacts ==
  ASSUME NEW S, NEW s \in Seq(S), NEW size \in Int
  PROVE  LET room == IF size >= 1 THEN size - 1 ELSE 0
         IN /\ Cut(s, size) \in Seq(S)
            /\ Len(Cut(s, size)) = IF Len(s) <= room THEN Len(s) ELSE room
            /\ \A n \in 1 .. Len(Cut(s, size)) : Cut(s, size)[n] = s[n]
<1> DEFINE limit == IF size >= 1 THEN size - 1 ELSE 0
           room == Max({size - 1, 0})
           m == Min({Len(s), room})
<1>1. Len(s) \in Nat
  BY LenProperties
<1>2. room = limit
  BY DEF Max
<1>3. limit \in Nat
  OBVIOUS
<1> HIDE DEF room, limit
<1>4. m \in 0 .. Len(s) /\ m = IF Len(s) <= limit THEN Len(s) ELSE limit
  BY <1>1, <1>2, <1>3 DEF Min
<1> HIDE DEF m
<1>5. Cut(s, size) = SubSeq(s, 1, m)
  BY DEF Cut, m, room
<1>6. /\ SubSeq(s, 1, m) \in Seq(S) /\ Len(SubSeq(s, 1, m)) = m
      /\ \A n \in 1 .. m : SubSeq(s, 1, m)[n] = s[n]
  BY <1>1, <1>4, SubSeqProperties
<1> QED
  BY <1>4, <1>5, <1>6 DEF limit

LEMMA LetterFacts ==
  /\ NUL \notin Letter
  /\ \A dir \in Dirs : dir \in Seq(Letter) /\ dir # <<>>
  /\ \A second \in 0 .. MaxClock : Stamp[second] \in Seq(Letter) /\ Len(Stamp[second]) = StampSize
<1>1. NUL \notin Letter
  <2>1. \A dir \in Dirs : NUL \notin Range(dir)
    BY NameAssumption DEF Dirs
  <2>2. \A second \in 0 .. MaxClock : NUL \notin Range(Stamp[second])
    BY StampAssumption
  <2>3. NUL # "/"
    BY NameAssumption
  <2> QED
    BY <2>1, <2>2, <2>3 DEF Letter
<1>2. ASSUME NEW dir \in Dirs PROVE dir \in Seq(Letter) /\ dir # <<>>
  <2>1. dir \in Seq(Range(dir)) /\ Range(dir) \subseteq Letter /\ dir # <<>>
    BY NameAssumption DEF Letter, Dirs
  <2> QED
    BY <2>1, SeqMonotonic
<1>3. ASSUME NEW second \in 0 .. MaxClock
      PROVE  Stamp[second] \in Seq(Letter) /\ Len(Stamp[second]) = StampSize
  <2>1. Stamp[second] \in Seq(Range(Stamp[second])) /\ Len(Stamp[second]) = StampSize
    BY StampAssumption
  <2>2. Range(Stamp[second]) \subseteq Letter
    BY Zenon DEF Letter
  <2> QED
    BY <2>1, <2>2, SeqMonotonic
<1> QED
  BY <1>1, <1>2, <1>3

LEMMA DirectoryFacts ==
  ASSUME NEW dir \in Dirs
  PROVE  Directory(dir) \in Seq(Letter) /\ Len(Directory(dir)) \in Nat \ {0}
<1>1. dir \in Seq(Letter) /\ dir # <<>> /\ "/" \in Letter
  BY LetterFacts DEF Letter
<1>2. Len(dir) \in Nat \ {0}
  BY <1>1, EmptySeq, LenProperties
<1>3. Append(dir, "/") \in Seq(Letter) /\ Len(Append(dir, "/")) = Len(dir) + 1
  BY <1>1, AppendProperties
<1> QED
  BY <1>1, <1>2, <1>3 DEF Directory

(* The name of a directory and some digits.                                *)
LEMMA NameFacts ==
  ASSUME NEW dir \in Dirs, NEW digits \in Seq(Letter), Len(digits) = StampSize
  PROVE  LET string == Cut(Directory(dir) \o digits, MaxPath)
             whole == Len(Directory(dir)) + StampSize
         IN /\ string \in Name /\ string # NoName /\ Len(string) \in Nat \ {0}
            /\ Len(string) = IF whole <= MaxPath - 1 THEN whole ELSE MaxPath - 1
            /\ \A n \in 1 .. Len(string) :
                 string[n] = IF n <= Len(Directory(dir)) THEN Directory(dir)[n]
                             ELSE digits[n - Len(Directory(dir))]
<1> DEFINE D == Directory(dir)
           all == D \o digits
           string == Cut(all, MaxPath)
           whole == Len(D) + StampSize
<1>1. D \in Seq(Letter) /\ Len(D) \in Nat \ {0} /\ StampSize \in Nat
  BY DirectoryFacts, StampAssumption
<1> HIDE DEF D
<1>2. /\ all \in Seq(Letter) /\ Len(all) = whole
      /\ \A n \in 1 .. whole : all[n] = IF n <= Len(D) THEN D[n] ELSE digits[n - Len(D)]
  BY <1>1, ConcatProperties
<1> HIDE DEF all
<1>3. MaxPath \in Int /\ MaxPath > 1
  BY SizeAssumption
<1>4. /\ string \in Seq(Letter)
      /\ Len(string) = IF whole <= MaxPath - 1 THEN whole ELSE MaxPath - 1
      /\ \A n \in 1 .. Len(string) : string[n] = all[n]
  BY <1>2, <1>3, CutFacts
<1> HIDE DEF string
<1>5. Len(string) \in Nat \ {0} /\ Len(string) < MaxPath /\ Len(string) <= whole
  BY <1>1, <1>3, <1>4
<1>6. string # NoName
  BY <1>5, EmptySeq DEF NoName
<1>7. \A n \in 1 .. Len(string) : string[n] = IF n <= Len(D) THEN D[n] ELSE digits[n - Len(D)]
  BY <1>1, <1>2, <1>4, <1>5
<1> QED
  BY <1>4, <1>5, <1>6, <1>7 DEF Name, D, all, string

LEMMA DefaultNameFacts ==
  /\ DefaultLen \in 1 .. MaxPath - 1
  /\ \A second \in 0 .. MaxClock : /\ Len(DefaultName(second)) = DefaultLen
                                  /\ DOMAIN DefaultName(second) = 1 .. DefaultLen
<1>1. DefaultPath \in Dirs /\ 0 \in 0 .. MaxClock
  BY BoundAssumption DEF Dirs
<1>2. ASSUME NEW second \in 0 .. MaxClock
      PROVE  /\ DefaultName(second) \in Name /\ Len(DefaultName(second)) \in Nat \ {0}
             /\ Len(DefaultName(second)) =
                  IF Len(Directory(DefaultPath)) + StampSize <= MaxPath - 1
                  THEN Len(Directory(DefaultPath)) + StampSize ELSE MaxPath - 1
  BY <1>1, LetterFacts, NameFacts DEF DefaultName
<1>3. \A second \in 0 .. MaxClock : Len(DefaultName(second)) = DefaultLen
  BY <1>1, <1>2 DEF DefaultLen
<1>4. \A second \in 0 .. MaxClock : DOMAIN DefaultName(second) = 1 .. Len(DefaultName(second))
  BY <1>2, LenProperties DEF Name
<1>5. DefaultLen \in 1 .. MaxPath - 1
  BY <1>1, <1>2, SizeAssumption DEF DefaultLen, Name
<1> QED
  BY <1>3, <1>4, <1>5

(* What strftime makes of the struct: the digits of one second or several. *)
LEMMA DigitsFacts ==
  ASSUME Types, NEW t \in Thread, NEW digits \in Digits(t)
  PROVE  /\ digits \in Seq(Letter) /\ Len(digits) = StampSize
         /\ \A n \in 1 .. StampSize : \E second \in 0 .. clock : digits[n] = Stamp[second][n]
<1>1. /\ clock \in 0 .. MaxClock /\ now[t] \in 0 .. clock
      /\ StampSize \in Nat /\ MaxClock \in Nat
  BY StampAssumption, BoundAssumption DEF Types
<1>2. \A second \in 0 .. clock : second \in 0 .. MaxClock
  BY <1>1
<1>3. CASE digits = Stamp[now[t]]
  BY <1>1, <1>2, <1>3, LetterFacts
<1>4. ASSUME NEW second \in [1 .. StampSize -> 0 .. clock],
             digits = [n \in 1 .. StampSize |-> Stamp[second[n]][n]]
      PROVE  /\ digits \in Seq(Letter) /\ Len(digits) = StampSize
             /\ \A n \in 1 .. StampSize : \E s \in 0 .. clock : digits[n] = Stamp[s][n]
  <2>1. \A n \in 1 .. StampSize : second[n] \in 0 .. clock /\ digits[n] = Stamp[second[n]][n]
    BY <1>4
  <2>2. \A n \in 1 .. StampSize : digits[n] \in Letter
    BY <1>2, <2>1, LetterFacts, ElementOfSeq
  <2>3. digits \in [1 .. StampSize -> Letter]
    BY <1>4, <2>2
  <2> QED
    BY <1>1, <2>1, <2>3, IsASeq, LenProperties
<1> QED
  BY <1>3, <1>4 DEF Digits

(* The name a thread stores, and when the directory is the default one.    *)
LEMMA StrftimeName ==
  ASSUME Types, NEW t \in Thread, NEW digits \in Digits(t), NEW dir \in Dirs
  PROVE  LET string == Cut(Directory(dir) \o digits, MaxPath)
         IN /\ string \in Name /\ string # NoName /\ Len(string) \in Nat \ {0}
            /\ dir = DefaultPath =>
                 /\ Len(string) = DefaultLen
                 /\ \A n \in 1 .. DefaultLen : IsDefault(string[n], n)
<1> DEFINE string == Cut(Directory(dir) \o digits, MaxPath)
           D == Directory(dir)
<1>1. /\ digits \in Seq(Letter) /\ Len(digits) = StampSize
      /\ \A n \in 1 .. StampSize : \E second \in 0 .. clock : digits[n] = Stamp[second][n]
  BY DigitsFacts
<1>2. /\ string \in Name /\ string # NoName /\ Len(string) \in Nat \ {0}
      /\ Len(string) = IF Len(D) + StampSize <= MaxPath - 1 THEN Len(D) + StampSize ELSE MaxPath - 1
      /\ \A n \in 1 .. Len(string) : string[n] = IF n <= Len(D) THEN D[n] ELSE digits[n - Len(D)]
  BY <1>1, NameFacts
<1> HIDE DEF string
<1>3. ASSUME dir = DefaultPath
      PROVE  Len(string) = DefaultLen /\ \A n \in 1 .. DefaultLen : IsDefault(string[n], n)
  <2>1. ASSUME NEW second \in 0 .. MaxClock
        PROVE  /\ Len(DefaultName(second)) = Len(string)
               /\ \A n \in 1 .. Len(string) :
                    DefaultName(second)[n] = IF n <= Len(D) THEN D[n] ELSE Stamp[second][n - Len(D)]
    BY <1>2, <1>3, LetterFacts, NameFacts DEF DefaultName
  <2>2. Len(string) = DefaultLen
    BY <2>1, BoundAssumption DEF DefaultLen
  <2>3. ASSUME NEW n \in 1 .. DefaultLen PROVE IsDefault(string[n], n)
    <3>1. /\ D \in Seq(Letter) /\ Len(D) \in Nat \ {0} /\ StampSize \in Nat
          /\ MaxPath \in Nat /\ MaxClock \in Nat
          /\ clock \in 0 .. MaxClock /\ DefaultLen \in Nat
      BY DirectoryFacts, StampAssumption, SizeAssumption, BoundAssumption, DefaultNameFacts DEF Types
    <3>2. PICK second \in 0 .. clock :
            string[n] = IF n <= Len(D) THEN D[n] ELSE Stamp[second][n - Len(D)]
      <4>1. CASE n <= Len(D)
        BY <1>2, <2>2, <3>1, <4>1
      <4>2. CASE ~(n <= Len(D))
        <5>1. n - Len(D) \in 1 .. StampSize
          BY <1>2, <2>2, <3>1, <4>2
        <5>2. PICK second \in 0 .. clock : digits[n - Len(D)] = Stamp[second][n - Len(D)]
          BY <1>1, <5>1
        <5>3. string[n] = digits[n - Len(D)]
          BY <1>2, <2>2, <4>2
        <5> QED
          BY <4>2, <5>2, <5>3
      <4> QED
        BY <4>1, <4>2
    <3>3. second \in 0 .. MaxClock
      BY <3>1
    <3>4. string[n] = DefaultName(second)[n]
      BY <2>1, <2>2, <3>2, <3>3
    <3>5. n \in DOMAIN DefaultName(second)
      BY <3>3, DefaultNameFacts
    <3> QED
      BY <3>4, <3>5 DEF IsDefault
  <2> QED
    BY <2>2, <2>3
<1> QED
  BY <1>2, <1>3 DEF string

-----------------------------------------------------------------------------
(* Steps.                                                                  *)

LEMMA InvInit == Init => Inv
<1> SUFFICES ASSUME Init PROVE Inv
  OBVIOUS
<1>1. NoName \in Name /\ Len(NoName) = 0 /\ 0 \in 0 .. MaxClock /\ MaxPath \in 1 .. MaxPath
  BY EmptySeq, SizeAssumption, BoundAssumption DEF Name, NoName
<1>2. Types
  <2>1. gLogFileName \in [1 .. MaxPath -> Letter \cup {NUL}] /\ gLogFileName[MaxPath] = NUL
    BY <1>1 DEF Init
  <2>2. clock \in 0 .. MaxClock /\ now \in [Thread -> 0 .. clock]
    BY <1>1 DEF Init
  <2>3. stores \in [Thread -> SUBSET (0 .. MaxPath)]
    BY DEF Init
  <2>4. pc \in [Thread -> Places] /\ path \in [Thread -> Dirs]
    BY DEF Init, Places, Dirs
  <2> QED
    BY <1>1, <2>1, <2>2, <2>3, <2>4 DEF Init, Types
<1>3. Locals /\ Alone /\ Settled /\ Expecting
  BY DEF Init, Locals, Local, Alone, Settled, Expecting, Expect, Naming
<1>4. Lazy
  BY <1>1 DEF Init, Lazy, LazyBuffer, LazyThread, Naming
<1> QED
  BY <1>2, <1>3, <1>4 DEF Inv

(* The step of one thread from one place to another.                       *)
LEMMA PcStep ==
  ASSUME Types, NEW t \in Thread, NEW from \in Places, NEW to \in Places, Goto(t, from, to)
  PROVE  /\ pc[t] = from
         /\ pc' \in [Thread -> Places]
         /\ \A u \in Thread : pc'[u] = IF u = t THEN to ELSE pc[u]
BY DEF Types, Goto

(* The lengths of names, and that a name is its letters.                   *)
LEMMA NameIs ==
  /\ NoName \in Name /\ Len(NoName) = 0
  /\ \A s \in Name : Len(s) \in 0 .. MaxPath - 1 /\ \A n \in 1 .. Len(s) : s[n] \in Letter
  /\ \A s \in Name : s # NoName <=> Len(s) # 0
  /\ \A r, s \in Name : Len(r) = Len(s) /\ (\A n \in 1 .. Len(r) : r[n] = s[n]) => r = s
<1>1. NoName \in Name /\ Len(NoName) = 0
  BY EmptySeq, SizeAssumption DEF Name, NoName
<1>2. ASSUME NEW s \in Name
      PROVE  Len(s) \in 0 .. MaxPath - 1 /\ \A n \in 1 .. Len(s) : s[n] \in Letter
  BY SizeAssumption, LenProperties, ElementOfSeq DEF Name
<1>3. ASSUME NEW s \in Name PROVE s # NoName <=> Len(s) # 0
  BY EmptySeq DEF Name, NoName
<1>4. ASSUME NEW r \in Name, NEW s \in Name, Len(r) = Len(s), \A n \in 1 .. Len(r) : r[n] = s[n]
      PROVE  r = s
  BY <1>4, SeqEqual DEF Name
<1> QED
  BY <1>1, <1>2, <1>3, <1>4

(* A later clock takes no default name away.                               *)
LEMMA IsDefaultKept ==
  ASSUME Types, clock' \in Nat, clock <= clock', NEW c, NEW n, IsDefault(c, n)
  PROVE  IsDefault(c, n)'
<1>1. clock \in Nat
  BY BoundAssumption DEF Types
<1>2. PICK second \in 0 .. clock : n \in DOMAIN DefaultName(second) /\ c = DefaultName(second)[n]
  BY DEF IsDefault
<1>3. second \in 0 .. clock'
  BY <1>1
<1> QED
  BY <1>2, <1>3 DEF IsDefault

(* Only letters are bytes of default names.                                *)
LEMMA DefaultBytes ==
  ASSUME Types, NEW c, NEW n, IsDefault(c, n)
  PROVE  n \in 1 .. DefaultLen /\ c \in Letter /\ c # NUL
<1>1. PICK second \in 0 .. clock : n \in DOMAIN DefaultName(second) /\ c = DefaultName(second)[n]
  BY DEF IsDefault
<1>2. second \in 0 .. MaxClock
  BY BoundAssumption DEF Types
<1>3. n \in 1 .. DefaultLen /\ DefaultName(second) \in Name
  <2>1. DefaultPath \in Dirs
    BY DEF Dirs
  <2> QED
    BY <1>1, <1>2, <2>1, DefaultNameFacts, NameFacts, LetterFacts DEF DefaultName
<1>4. DefaultName(second)[n] \in Letter
  BY <1>2, <1>3, NameIs, DefaultNameFacts
<1> QED
  BY <1>1, <1>3, <1>4, LetterFacts

(* A step of a thread t that is not storing a name, and that touches       *)
(* neither the buffer nor what other threads have in hand.                 *)
LEMMA OthersKept ==
  ASSUME Inv, NEW t \in Thread, Types',
         \A u \in Thread \ {t} : /\ pc'[u] = pc[u] /\ name'[u] = name[u] /\ fp'[u] = fp[u]
                                 /\ stores'[u] = stores[u] /\ path'[u] = path[u],
         UNCHANGED <<gLogInit, gLogFileName, clock, overtaken, everSet>>,
         Local(t)', ~everSet' => LazyThread(t)'
  PROVE  Locals' /\ Lazy'
<1>1. ASSUME NEW u \in Thread \ {t} PROVE Local(u)'
  BY <1>1 DEF Inv, Locals, Local
<1>2. Locals'
  BY <1>1 DEF Locals
<1>3. ASSUME ~everSet' PROVE LazyBuffer' /\ \A u \in Thread : LazyThread(u)'
  <2>1. LazyBuffer /\ \A u \in Thread : LazyThread(u)
    BY <1>3 DEF Inv, Lazy
  <2>2. LazyBuffer'
    BY <2>1 DEF LazyBuffer, IsDefault
  <2>3. ASSUME NEW u \in Thread \ {t} PROVE LazyThread(u)'
    BY <2>1, <2>3 DEF LazyThread, Naming, IsDefault
  <2> QED
    BY <1>3, <2>2, <2>3
<1> QED
  BY <1>2, <1>3 DEF Lazy

(* A thread begins to name the file.                                       *)
LEMMA BeginsStep ==
  ASSUME Inv, NEW t \in Thread, NEW dir \in Dirs, Begins(t, dir), ~Naming(t),
         \A u \in Thread : pc'[u] = IF u = t THEN "localtime" ELSE pc[u],
         UNCHANGED <<gLogFileName, name, stores>>
  PROVE  /\ Alone'
         /\ path' \in [Thread -> Dirs]
         /\ \A u \in Thread : path'[u] = IF u = t THEN dir ELSE path[u]
         /\ alone' \in [Thread -> BOOLEAN]
<1> DEFINE others == {u \in Thread \ {t} : Naming(u)}
<1>1. /\ path' \in [Thread -> Dirs]
      /\ \A u \in Thread : path'[u] = IF u = t THEN dir ELSE path[u]
  BY DEF Begins, Inv, Types
<1>2. alone' = [u \in Thread |-> IF u = t THEN others = {} ELSE alone[u] /\ u \notin others]
  BY DEF Begins
<1>3. \A u \in Thread : alone'[u] = IF u = t THEN others = {} ELSE alone[u] /\ u \notin others
  BY <1>2, Zenon
<1>4. alone' \in [Thread -> BOOLEAN]
  <2>1. \A u \in Thread : (IF u = t THEN others = {} ELSE alone[u] /\ u \notin others) \in BOOLEAN
    OBVIOUS
  <2> QED
    BY <1>2, <2>1
<1>5. \A u \in Thread \ {t} : Naming(u)' <=> Naming(u)
  BY DEF Naming
<1>6. ASSUME NEW u \in Thread, Naming(u)', alone'[u]
      PROVE  /\ \A v \in Thread \ {u} : ~Naming(v)'
             /\ pc'[u] # "snprintf"
  <2>1. CASE u = t
    BY <1>3, <1>5, <1>6, <2>1 DEF Naming
  <2>2. CASE u # t
    BY <1>3, <1>5, <1>6, <2>2
  <2> QED
    BY <2>1, <2>2
<1> QED
  BY <1>1, <1>4, <1>6 DEF Alone

(* A step after which no other thread names the file than before, and that *)
(* touches neither name, nor what the naming threads have in hand.         *)
LEMMA NamingKept ==
  ASSUME Inv, UNCHANGED <<gLogFileName, name, stores, alone, settled>>,
         gLogInit => gLogInit',
         \A u \in Thread : Naming(u)' => pc'[u] = pc[u]
  PROVE  Alone' /\ Settled'
<1>1. \A u \in Thread : Naming(u)' => Naming(u)
  BY DEF Naming
<1> QED
  BY <1>1 DEF Inv, Alone, Settled, Byte

LEMMA TickStep == Inv /\ Tick => Inv'
<1> SUFFICES ASSUME Inv, Tick PROVE Inv'
  OBVIOUS
<1>1. /\ clock < MaxClock /\ clock' = clock + 1 /\ clock \in Nat /\ MaxClock \in Nat
      /\ UNCHANGED <<gLogInit, gLogFileName, pc, path, now, name, stores, fp, alone, settled,
                     expects, everSet, overtaken>>
  BY BoundAssumption DEF Tick, Inv, Types, shared, locals, history
<1>2. Types'
  <2>1. clock' \in 0 .. MaxClock /\ \A n \in 0 .. clock : n \in 0 .. clock'
    BY <1>1
  <2>2. now' \in [Thread -> 0 .. clock']
    BY <1>1, <2>1 DEF Inv, Types
  <2> QED
    BY <1>1, <2>1, <2>2 DEF Inv, Types
<1>3. Alone' /\ Settled'
  BY <1>1, NamingKept DEF Naming
<1>4. Locals' /\ Expecting'
  BY <1>1 DEF Inv, Locals, Local, Expecting, Expect
<1>5. \A c, n : IsDefault(c, n) => IsDefault(c, n)'
  BY <1>1, IsDefaultKept DEF Inv
<1>6. ASSUME LazyBuffer PROVE LazyBuffer'
  BY <1>1, <1>5, <1>6 DEF LazyBuffer
<1>7. ASSUME NEW t \in Thread, LazyThread(t) PROVE LazyThread(t)'
  BY <1>1, <1>5, <1>7 DEF LazyThread, Naming
<1>8. Lazy'
  BY <1>1, <1>6, <1>7 DEF Inv, Lazy
<1> QED
  BY <1>2, <1>3, <1>4, <1>8 DEF Inv

LEMMA SetLogFilePathStep ==
  Inv /\ (\E t \in Thread, dir \in Path : UT_log_setLogFilePath(t, dir)) => Inv'
<1> SUFFICES ASSUME Inv, NEW t \in Thread, NEW dir \in Path, UT_log_setLogFilePath(t, dir)
             PROVE  Inv'
  OBVIOUS
<1>1. /\ Goto(t, "idle", "localtime") /\ Begins(t, dir) /\ settled' = NoName
      /\ expects' = [u \in Thread |-> NoName] /\ everSet' = TRUE
      /\ UNCHANGED <<gLogInit, gLogFileName, clock, now, name, stores, fp, overtaken>>
  BY DEF UT_log_setLogFilePath, shared
<1>2. /\ pc[t] = "idle" /\ pc' \in [Thread -> Places]
      /\ \A u \in Thread : pc'[u] = IF u = t THEN "localtime" ELSE pc[u]
  BY <1>1, PcStep DEF Inv, Places
<1>3. Alone' /\ path' \in [Thread -> Dirs] /\ alone' \in [Thread -> BOOLEAN]
  BY <1>1, <1>2, BeginsStep DEF Naming, Dirs
<1>4. Types'
  BY <1>1, <1>2, <1>3, NameIs DEF Inv, Types
<1>5. Settled' /\ Expecting' /\ Lazy'
  BY <1>1 DEF Settled, Expecting, Expect, Lazy
<1>6. Locals'
  BY <1>1, <1>2 DEF Inv, Locals, Local
<1> QED
  BY <1>3, <1>4, <1>5, <1>6 DEF Inv

LEMMA LocaltimeStep == Inv /\ (\E t \in Thread : Localtime(t)) => Inv'
<1> SUFFICES ASSUME Inv, NEW t \in Thread, Localtime(t) PROVE Inv'
  OBVIOUS
<1>1. /\ Goto(t, "localtime", "strftime") /\ now' = [now EXCEPT ![t] = clock]
      /\ UNCHANGED <<gLogInit, gLogFileName, clock, path, name, stores, fp, alone, settled,
                     expects, everSet, overtaken>>
  BY DEF Localtime, shared, history
<1>2. /\ pc[t] = "localtime" /\ pc' \in [Thread -> Places]
      /\ \A u \in Thread : pc'[u] = IF u = t THEN "strftime" ELSE pc[u]
  BY <1>1, PcStep DEF Inv, Places
<1>3. now' \in [Thread -> 0 .. clock]
  BY <1>1, BoundAssumption DEF Inv, Types
<1>4. Types'
  BY <1>1, <1>2, <1>3 DEF Inv, Types
<1>5. \A u \in Thread : Naming(u)' <=> Naming(u)
  BY <1>2 DEF Naming
<1>6. Alone'
  BY <1>1, <1>2, <1>5 DEF Inv, Alone, Byte
<1>7. Settled' /\ Expecting'
  BY <1>1, <1>2, <1>5 DEF Inv, Settled, Expecting, Expect, Byte
<1>8. Local(t)'
  BY <1>1, <1>2 DEF Inv, Locals, Local
<1>9. ASSUME ~everSet' PROVE LazyThread(t)'
  BY <1>1, <1>2, <1>5, <1>9 DEF Inv, Lazy, LazyThread, IsDefault
<1>10. Locals' /\ Lazy'
  BY <1>1, <1>2, <1>4, <1>8, <1>9, OthersKept
<1> QED
  BY <1>4, <1>6, <1>7, <1>10 DEF Inv

LEMMA StrftimeStep == Inv /\ (\E t \in Thread : Strftime(t)) => Inv'
<1> SUFFICES ASSUME Inv, NEW t \in Thread, Strftime(t) PROVE Inv'
  OBVIOUS
<1>0. PICK digits \in Digits(t) :
        name' = [name EXCEPT ![t] = Cut(Directory(path[t]) \o digits, MaxPath)]
  BY DEF Strftime
<1> DEFINE string == Cut(Directory(path[t]) \o digits, MaxPath)
<1>1. /\ Goto(t, "strftime", "snprintf")
      /\ stores' = [stores EXCEPT ![t] = {FLAG} \cup 1 .. Len(name'[t]) + 1]
      /\ UNCHANGED <<gLogInit, gLogFileName, clock, path, now, fp, alone, settled,
                     expects, everSet, overtaken>>
  BY DEF Strftime, shared, history
<1>2. /\ pc[t] = "strftime" /\ pc' \in [Thread -> Places]
      /\ \A u \in Thread : pc'[u] = IF u = t THEN "snprintf" ELSE pc[u]
  BY <1>1, PcStep DEF Inv, Places
<1>3. /\ string \in Name /\ string # NoName /\ Len(string) \in Nat \ {0}
      /\ path[t] = DefaultPath => /\ Len(string) = DefaultLen
                                  /\ \A n \in 1 .. DefaultLen : IsDefault(string[n], n)
  BY StrftimeName DEF Inv, Types
<1> HIDE DEF string
<1>4. /\ name' \in [Thread -> Name] /\ name'[t] = string
      /\ \A u \in Thread \ {t} : name'[u] = name[u]
  BY <1>0, <1>3 DEF Inv, Types, string
<1>5. Len(string) + 1 \in 1 .. MaxPath
  BY <1>3, SizeAssumption DEF Name
<1>6. /\ stores' \in [Thread -> SUBSET (0 .. MaxPath)]
      /\ stores'[t] = {FLAG} \cup 1 .. Len(string) + 1
      /\ \A u \in Thread \ {t} : stores'[u] = stores[u]
  <2>1. {FLAG} \cup 1 .. Len(string) + 1 \in SUBSET (0 .. MaxPath)
    BY <1>5, SizeAssumption DEF FLAG
  <2> QED
    BY <1>1, <1>4, <2>1 DEF Inv, Types
<1>7. Types'
  BY <1>1, <1>2, <1>4, <1>6 DEF Inv, Types
<1>8. \A u \in Thread : Naming(u)' <=> Naming(u)
  BY <1>2 DEF Naming
<1>9. Alone'
  <2>1. \A n \in 1 .. Len(name'[t]) + 1 : n \in stores'[t]
    BY <1>4, <1>6
  <2> QED
    BY <1>1, <1>2, <1>4, <1>6, <1>8, <2>1 DEF Inv, Alone, Byte
<1>10. Settled' /\ Expecting'
  BY <1>1, <1>2, <1>8 DEF Inv, Settled, Expecting, Expect, Byte
<1>11. Local(t)'
  <2>1. {FLAG} \cup 1 .. Len(string) + 1 \subseteq 0 .. Len(string) + 1
    BY <1>3 DEF FLAG
  <2> QED
    BY <1>1, <1>2, <1>3, <1>4, <1>6, <2>1 DEF Inv, Locals, Local
<1>12. ASSUME ~everSet' PROVE LazyThread(t)'
  <2>1. LazyThread(t) /\ path[t] = DefaultPath
    BY <1>1, <1>2, <1>12 DEF Inv, Lazy, LazyThread, Naming
  <2>2. \A n \in 2 .. DefaultLen : n \in stores'[t]
    BY <1>3, <1>6, <2>1, DefaultNameFacts, SizeAssumption
  <2> QED
    BY <1>1, <1>2, <1>3, <1>4, <2>1, <2>2 DEF LazyThread, IsDefault
<1>13. Locals' /\ Lazy'
  BY <1>1, <1>2, <1>4, <1>6, <1>7, <1>11, <1>12, OthersKept
<1> QED
  BY <1>7, <1>9, <1>10, <1>13 DEF Inv

(* A byte is written, the first one emptied or one of the name.            *)
LEMMA BufferStep ==
  ASSUME Inv, NEW t \in Thread, pc[t] = "snprintf", NEW n \in 1 .. MaxPath, NEW c,
         gLogFileName' = [gLogFileName EXCEPT ![n] = c],
         \/ n = 1 /\ n \in stores[t] /\ c = NUL /\ UNCHANGED stores
         \/ /\ n \in stores[t] /\ c = Byte(name[t], n)
            /\ stores' = [stores EXCEPT ![t] = @ \ {n}],
         UNCHANGED <<gLogInit, clock, pc, path, now, name, fp, alone, settled, expects, everSet,
                     overtaken>>
  PROVE  Inv'
<1>1. /\ name[t] \in Name /\ name[t] # NoName /\ Len(name[t]) \in 1 .. MaxPath - 1
      /\ stores[t] \subseteq 0 .. Len(name[t]) + 1
      /\ n \in 1 .. Len(name[t]) + 1
  BY NameIs DEF Inv, Types, Locals, Local
<1>2. c \in Letter \cup {NUL} /\ (n = MaxPath => c = NUL)
  BY <1>1, NameIs, SizeAssumption DEF Byte
<1>3. /\ gLogFileName' \in [1 .. MaxPath -> Letter \cup {NUL}] /\ gLogFileName'[n] = c
      /\ \A m \in 1 .. MaxPath : m # n => gLogFileName'[m] = gLogFileName[m]
  BY <1>2 DEF Inv, Types
<1>4. /\ stores' \in [Thread -> SUBSET (0 .. MaxPath)]
      /\ \A u \in Thread \ {t} : stores'[u] = stores[u]
      /\ stores'[t] = stores[t] \/ stores'[t] = stores[t] \ {n}
      /\ n \notin stores'[t] => c = Byte(name[t], n)
  BY DEF Inv, Types
<1>5. MaxPath \in 1 .. MaxPath
  BY SizeAssumption
<1>6. Types'
  BY <1>2, <1>3, <1>4, <1>5 DEF Inv, Types
<1>7. Locals'
  BY <1>1, <1>4 DEF Inv, Locals, Local, FLAG
<1>8. Naming(t) /\ \A u \in Thread : Naming(u)' <=> Naming(u)
  BY DEF Naming
<1>9. settled = NoName /\ settled' = NoName
  BY <1>8 DEF Inv, Settled
<1>10. Settled' /\ Expecting'
  BY <1>9 DEF Inv, Settled, Expecting, Expect
<1>11. Alone'
  <2> SUFFICES ASSUME NEW u \in Thread, Naming(u)', alone'[u]
               PROVE  /\ \A v \in Thread \ {u} : ~Naming(v)'
                      /\ pc'[u] = "snprintf" => \A m \in 1 .. Len(name'[u]) + 1 :
                           m \notin stores'[u] => gLogFileName'[m] = Byte(name'[u], m)
    BY DEF Alone
  <2>1. /\ u = t /\ \A v \in Thread \ {u} : ~Naming(v)
        /\ \A m \in 1 .. Len(name[t]) + 1 : m \notin stores[t] => gLogFileName[m] = Byte(name[t], m)
    BY <1>8 DEF Inv, Alone
  <2>2. ASSUME NEW m \in 1 .. Len(name[t]) + 1, m \notin stores'[t]
        PROVE  gLogFileName'[m] = Byte(name[t], m)
    <3>1. m \in 1 .. MaxPath
      BY <1>1, SizeAssumption
    <3>2. CASE m = n
      BY <1>3, <1>4, <2>2, <3>2
    <3>3. CASE m # n
      BY <1>3, <1>4, <2>1, <2>2, <3>1, <3>3
    <3> QED
      BY <3>2, <3>3
  <2> QED
    BY <1>8, <2>1, <2>2 DEF Byte
<1>12. ASSUME ~everSet' PROVE LazyBuffer' /\ \A u \in Thread : LazyThread(u)'
  <2>1. /\ LazyBuffer /\ \A u \in Thread : LazyThread(u)
        /\ Len(name[t]) = DefaultLen
        /\ \A m \in 1 .. DefaultLen : IsDefault(name[t][m], m)
    BY <1>12 DEF Inv, Lazy, LazyThread
  <2>2. \A b, m : IsDefault(b, m)' <=> IsDefault(b, m)
    BY DEF IsDefault
  <2>3. c # NUL => IsDefault(c, n)
    BY <1>1, <2>1 DEF Byte
  <2>4. n \in 2 .. DefaultLen => c # NUL
    <3> SUFFICES ASSUME n \in 2 .. DefaultLen PROVE c # NUL
      OBVIOUS
    <3>1. n \in 1 .. DefaultLen /\ n # 1 /\ n <= Len(name[t])
      BY <2>1, DefaultNameFacts, SizeAssumption
    <3>2. c = name[t][n]
      BY <3>1 DEF Byte
    <3>3. IsDefault(c, n)
      BY <2>1, <3>1, <3>2
    <3> QED
      BY <3>3, DefaultBytes DEF Inv
  <2>5. DefaultLen \in 1 .. MaxPath - 1 /\ MaxPath \in Nat
    BY DefaultNameFacts, SizeAssumption
  <2>6. \A m \in 2 .. DefaultLen : m \in 1 .. MaxPath /\ (gLogFileName[m] # NUL => gLogFileName'[m] # NUL)
    BY <1>3, <2>4, <2>5
  <2>7. LazyBuffer'
    <3>1. ASSUME NEW m \in 1 .. MaxPath, gLogFileName'[m] # NUL PROVE IsDefault(gLogFileName'[m], m)
      BY <1>3, <2>1, <2>3, <3>1 DEF LazyBuffer
    <3>2. gLogInit /\ ~overtaken => \A m \in 2 .. DefaultLen : gLogFileName'[m] # NUL
      BY <2>1, <2>6 DEF LazyBuffer
    <3> QED
      BY <2>2, <3>1, <3>2 DEF LazyBuffer
  <2>8. ASSUME NEW u \in Thread PROVE LazyThread(u)'
    <3>1. ASSUME pc[u] = "snprintf", NEW m \in 2 .. DefaultLen, m \notin stores'[u]
          PROVE  gLogFileName'[m] # NUL
      <4>1. CASE m \notin stores[u]
        BY <2>1, <2>6, <3>1, <4>1 DEF LazyThread
      <4>2. CASE m \in stores[u]
        BY <1>3, <1>4, <2>4, <3>1, <4>2
      <4> QED
        BY <4>1, <4>2
    <3> QED
      BY <2>1, <2>2, <3>1 DEF LazyThread, Naming
  <2> QED
    BY <2>7, <2>8
<1>13. Lazy'
  BY <1>12 DEF Lazy
<1> QED
  BY <1>6, <1>7, <1>10, <1>11, <1>13 DEF Inv

LEMMA SnprintfEmptiesStep == Inv /\ (\E t \in Thread : SnprintfEmpties(t)) => Inv'
<1> SUFFICES ASSUME Inv, NEW t \in Thread, SnprintfEmpties(t) PROVE Inv'
  OBVIOUS
<1>1. 1 \in 1 .. MaxPath
  BY SizeAssumption
<1> QED
  BY <1>1, BufferStep DEF SnprintfEmpties, locals, history

LEMMA ByteLandsStep ==
  Inv /\ (\E t \in Thread : \E n \in stores[t] : ByteLands(t, n)) => Inv'
<1> SUFFICES ASSUME Inv, NEW t \in Thread, NEW n \in stores[t], ByteLands(t, n) PROVE Inv'
  OBVIOUS
<1>1. n \in 1 .. MaxPath
  BY SizeAssumption DEF ByteLands, FLAG, Inv, Types
<1> QED
  BY <1>1, BufferStep DEF ByteLands, history

(* The flag lands.  Behind the bytes, it finds them there.                 *)
LEMMA FlagLandsStep == Inv /\ (\E t \in Thread : FlagLands(t)) => Inv'
<1> SUFFICES ASSUME Inv, NEW t \in Thread, FlagLands(t) PROVE Inv'
  OBVIOUS
<1>1. /\ pc[t] = "snprintf" /\ FLAG \in stores[t]
      /\ stores' = [stores EXCEPT ![t] = @ \ {FLAG}]
      /\ gLogInit' = TRUE /\ overtaken' = (overtaken \/ stores'[t] # {})
      /\ UNCHANGED <<gLogFileName, clock, pc, path, now, name, fp, alone, settled, expects, everSet>>
  BY DEF FlagLands, Flag
<1>2. /\ stores' \in [Thread -> SUBSET (0 .. MaxPath)]
      /\ stores'[t] = stores[t] \ {FLAG}
      /\ \A u \in Thread \ {t} : stores'[u] = stores[u]
  BY <1>1 DEF Inv, Types
<1>3. \A u \in Thread, n \in Nat \ {0} : n \in stores'[u] <=> n \in stores[u]
  BY <1>2 DEF FLAG
<1>4. Types'
  BY <1>1, <1>2 DEF Inv, Types
<1>5. Locals'
  BY <1>1, <1>2 DEF Inv, Locals, Local
<1>6. Naming(t) /\ \A u \in Thread : Naming(u)' <=> Naming(u)
  BY <1>1 DEF Naming
<1>7. settled = NoName /\ settled' = NoName
  BY <1>1, <1>6 DEF Inv, Settled
<1>8. Settled' /\ Expecting'
  BY <1>1, <1>7 DEF Inv, Settled, Expecting, Expect
<1>9. Alone'
  <2>1. \A u \in Thread : Len(name[u]) \in Nat
    BY NameIs, SizeAssumption DEF Inv, Types
  <2> QED
    BY <1>1, <1>3, <1>6, <2>1 DEF Inv, Alone, Byte
<1>10. ASSUME ~everSet' PROVE LazyBuffer' /\ \A u \in Thread : LazyThread(u)'
  <2>1. LazyBuffer /\ \A u \in Thread : LazyThread(u)
    BY <1>1, <1>10 DEF Inv, Lazy
  <2>2. \A b, m : IsDefault(b, m)' <=> IsDefault(b, m)
    BY <1>1 DEF IsDefault
  <2>3. \A n \in 2 .. DefaultLen : n \in Nat \ {0}
    BY DefaultNameFacts, SizeAssumption
  <2>4. ~overtaken' => /\ ~overtaken
                       /\ \A n \in 2 .. DefaultLen : gLogFileName[n] # NUL
    <3> SUFFICES ASSUME ~overtaken' PROVE ~overtaken /\ \A n \in 2 .. DefaultLen : gLogFileName[n] # NUL
      OBVIOUS
    <3>1. ~overtaken /\ stores'[t] = {}
      BY <1>1
    <3>2. \A n \in 2 .. DefaultLen : n \notin stores[t]
      BY <1>3, <2>3, <3>1
    <3> QED
      BY <1>1, <2>1, <3>1, <3>2 DEF LazyThread
  <2>5. LazyBuffer'
    BY <1>1, <2>1, <2>2, <2>4 DEF LazyBuffer
  <2>6. ASSUME NEW u \in Thread PROVE LazyThread(u)'
    BY <1>1, <1>3, <2>1, <2>2, <2>3, <2>4 DEF LazyThread, Naming
  <2> QED
    BY <2>5, <2>6
<1>11. Lazy'
  BY <1>10 DEF Lazy
<1> QED
  BY <1>4, <1>5, <1>8, <1>9, <1>11 DEF Inv

(* The name is there: alone, the thread has settled it.                    *)
LEMMA NameDoneStep == Inv /\ (\E t \in Thread : NameDone(t)) => Inv'
<1> SUFFICES ASSUME Inv, NEW t \in Thread, NameDone(t) PROVE Inv'
  OBVIOUS
<1> DEFINE to == IF path[t] = DefaultPath THEN "open" ELSE "idle"
<1>1. /\ Goto(t, "snprintf", to) /\ stores[t] = {}
      /\ settled' = IF alone[t] THEN name[t] ELSE NoName
      /\ expects' = [expects EXCEPT ![t] = IF path[t] = DefaultPath THEN settled' ELSE @]
      /\ path' = [path EXCEPT ![t] = DefaultPath]
      /\ now' = [now EXCEPT ![t] = 0]
      /\ name' = [name EXCEPT ![t] = NoName]
      /\ alone' = [alone EXCEPT ![t] = FALSE]
      /\ UNCHANGED <<gLogInit, gLogFileName, clock, stores, fp, everSet, overtaken>>
  BY DEF NameDone, shared
<1>2. /\ pc[t] = "snprintf" /\ pc' \in [Thread -> Places] /\ to \in {"open", "idle"}
      /\ \A u \in Thread : pc'[u] = IF u = t THEN to ELSE pc[u]
  BY <1>1, PcStep DEF Inv, Places
<1>3. name[t] \in Name /\ settled' \in Name /\ NoName \in Name /\ Len(NoName) = 0
  BY <1>1, NameIs DEF Inv, Types
<1>4. Naming(t) /\ \A u \in Thread : Naming(u)' <=> Naming(u) /\ u # t
  BY <1>2 DEF Naming
<1>5. settled = NoName /\ \A u \in Thread : expects[u] = NoName
  BY <1>4 DEF Inv, Settled, Expecting, Expect
<1>6. /\ expects' \in [Thread -> Name]
      /\ \A u \in Thread : expects'[u] = IF u = t /\ to = "open" THEN settled' ELSE NoName
  BY <1>1, <1>3, <1>5 DEF Inv, Types
<1>7. /\ path' \in [Thread -> Dirs] /\ now' \in [Thread -> 0 .. clock]
      /\ name' \in [Thread -> Name] /\ alone' \in [Thread -> BOOLEAN]
      /\ \A u \in Thread \ {t} : /\ path'[u] = path[u] /\ name'[u] = name[u]
                                 /\ alone'[u] = alone[u]
      /\ alone'[t] = FALSE
  <2>1. DefaultPath \in Dirs /\ 0 \in 0 .. clock
    BY BoundAssumption DEF Inv, Types, Dirs
  <2> QED
    BY <1>1, <1>3, <2>1 DEF Inv, Types
<1>8. Types'
  BY <1>1, <1>2, <1>3, <1>6, <1>7 DEF Inv, Types
<1>9. gLogInit /\ fp[t] = NoName
  BY <1>1, <1>2 DEF Inv, Locals, Local
<1>10. Alone'
  <2> SUFFICES ASSUME NEW u \in Thread, Naming(u)', alone'[u]
               PROVE  /\ \A v \in Thread \ {u} : ~Naming(v)'
                      /\ pc'[u] = "snprintf" => \A n \in 1 .. Len(name'[u]) + 1 :
                           n \notin stores'[u] => gLogFileName'[n] = Byte(name'[u], n)
    BY DEF Alone
  <2>1. u # t /\ Naming(u) /\ alone[u]
    BY <1>4, <1>7
  <2> QED
    BY <1>4, <2>1 DEF Inv, Alone
<1>11. Settled'
  <2> SUFFICES ASSUME settled' # NoName PROVE Settled'
    BY DEF Settled
  <2>1. alone[t] /\ settled' = name[t]
    BY <1>1
  <2>2. \A n \in 1 .. Len(name[t]) + 1 : gLogFileName[n] = Byte(name[t], n)
    BY <1>1, <1>2, <1>4, <2>1 DEF Inv, Alone
  <2>3. \A u \in Thread : ~Naming(u)'
    BY <1>4, <2>1 DEF Inv, Alone
  <2>4. \A n \in 1 .. Len(settled') + 1 : gLogFileName'[n] = Byte(settled', n)
    BY <1>1, <2>1, <2>2 DEF Byte
  <2> QED
    BY <1>1, <1>9, <2>3, <2>4 DEF Settled
<1>12. Expecting'
  <2>1. /\ \A n \in 1 .. Len(fp'[t]) : fp'[t][n] = settled'[n]
        /\ Len(fp'[t]) = 0 /\ Len(settled') \in Nat
    BY <1>1, <1>3, <1>9, NameIs, SizeAssumption
  <2>2. Expect(t)'
    BY <1>2, <1>6, <2>1 DEF Expect
  <2>3. ASSUME NEW u \in Thread \ {t} PROVE Expect(u)'
    BY <1>6 DEF Expect
  <2> QED
    BY <2>2, <2>3 DEF Expecting
<1>13. Local(t)'
  BY <1>1, <1>2, <1>9 DEF Local
<1>14. ASSUME ~everSet' PROVE LazyThread(t)'
  BY <1>1, <1>2, <1>4, <1>9, NameIs DEF LazyThread
<1>15. Locals' /\ Lazy'
  BY <1>1, <1>2, <1>7, <1>8, <1>13, <1>14, OthersKept
<1> QED
  BY <1>8, <1>10, <1>11, <1>12, <1>15 DEF Inv

LEMMA LogStep == Inv /\ (\E t \in Thread : UT_log(t)) => Inv'
<1> SUFFICES ASSUME Inv, NEW t \in Thread, UT_log(t) PROVE Inv'
  OBVIOUS
<1>1. /\ Goto(t, "idle", "test") /\ expects' = [expects EXCEPT ![t] = settled]
      /\ UNCHANGED <<gLogInit, gLogFileName, clock, path, now, name, stores, fp, alone, settled,
                     everSet, overtaken>>
  BY DEF UT_log, shared, locals
<1>2. /\ pc[t] = "idle" /\ pc' \in [Thread -> Places]
      /\ \A u \in Thread : pc'[u] = IF u = t THEN "test" ELSE pc[u]
  BY <1>1, PcStep DEF Inv, Places
<1>3. /\ expects' \in [Thread -> Name]
      /\ \A u \in Thread : expects'[u] = IF u = t THEN settled ELSE expects[u]
  BY <1>1 DEF Inv, Types
<1>4. Types'
  BY <1>1, <1>2, <1>3 DEF Inv, Types
<1>5. Alone' /\ Settled'
  BY <1>1, <1>2, NamingKept DEF Naming
<1>6. Expecting'
  BY <1>1, <1>2, <1>3 DEF Inv, Expecting, Expect
<1>7. Local(t)'
  BY <1>1, <1>2 DEF Inv, Locals, Local
<1>8. ASSUME ~everSet' PROVE LazyThread(t)'
  BY <1>1, <1>2, <1>8 DEF Inv, Lazy, LazyThread, Naming, IsDefault
<1>9. Locals' /\ Lazy'
  BY <1>1, <1>2, <1>4, <1>7, <1>8, OthersKept
<1> QED
  BY <1>4, <1>5, <1>6, <1>9 DEF Inv

(* A line names the file unless the flag is set; a settled name is not     *)
(* touched, because the flag is set with it.                               *)
LEMMA LogTestStep == Inv /\ (\E t \in Thread : LogTest(t)) => Inv'
<1> SUFFICES ASSUME Inv, NEW t \in Thread, LogTest(t) PROVE Inv'
  OBVIOUS
<1>1. UNCHANGED <<gLogInit, gLogFileName, clock, now, name, stores, fp, settled, expects, everSet,
                  overtaken>>
  BY DEF LogTest, shared
<1>2. CASE gLogInit
  <2>1. Goto(t, "test", "open") /\ UNCHANGED <<path, alone>>
    BY <1>2 DEF LogTest
  <2>2. /\ pc[t] = "test" /\ pc' \in [Thread -> Places]
        /\ \A u \in Thread : pc'[u] = IF u = t THEN "open" ELSE pc[u]
    BY <2>1, PcStep DEF Inv, Places
  <2>3. Types'
    BY <1>1, <2>1, <2>2 DEF Inv, Types
  <2>4. Alone' /\ Settled'
    BY <1>1, <2>1, <2>2, NamingKept DEF Naming
  <2>5. fp[t] = NoName /\ Len(fp[t]) = 0 /\ Len(settled) \in Nat
    <3>1. fp[t] = NoName
      BY <2>2 DEF Inv, Locals, Local
    <3>2. Len(settled) \in 0 .. MaxPath - 1 /\ MaxPath \in Nat
      BY NameIs, SizeAssumption DEF Inv, Types
    <3> QED
      BY <3>1, <3>2, NameIs
  <2>6. Expecting'
    BY <1>1, <2>2, <2>5 DEF Inv, Expecting, Expect
  <2>7. Local(t)'
    BY <1>1, <1>2, <2>2 DEF Local
  <2>8. ASSUME ~everSet' PROVE LazyThread(t)'
    BY <1>1, <2>1, <2>2, <2>5, <2>8 DEF Inv, Lazy, LazyThread, Naming
  <2>9. Locals' /\ Lazy'
    BY <1>1, <2>1, <2>2, <2>3, <2>7, <2>8, OthersKept
  <2> QED
    BY <2>3, <2>4, <2>6, <2>9 DEF Inv
<1>3. CASE ~gLogInit
  <2>1. Goto(t, "test", "localtime") /\ Begins(t, DefaultPath)
    BY <1>3 DEF LogTest
  <2>2. /\ pc[t] = "test" /\ pc' \in [Thread -> Places]
        /\ \A u \in Thread : pc'[u] = IF u = t THEN "localtime" ELSE pc[u]
    BY <2>1, PcStep DEF Inv, Places
  <2>3. /\ Alone' /\ path' \in [Thread -> Dirs] /\ alone' \in [Thread -> BOOLEAN]
        /\ \A u \in Thread : path'[u] = IF u = t THEN DefaultPath ELSE path[u]
    BY <1>1, <2>1, <2>2, BeginsStep DEF Naming, Dirs
  <2>4. Types'
    BY <1>1, <2>2, <2>3 DEF Inv, Types
  <2>5. settled = NoName /\ settled' = NoName
    BY <1>1, <1>3 DEF Inv, Settled
  <2>6. Settled' /\ Expecting'
    BY <1>1, <2>5 DEF Inv, Settled, Expecting, Expect
  <2>7. Local(t)'
    BY <1>1, <2>2 DEF Inv, Locals, Local
  <2>8. ASSUME ~everSet' PROVE LazyThread(t)'
    BY <1>1, <2>2, <2>3, <2>8 DEF Inv, Lazy, LazyThread, Naming, IsDefault
  <2>9. Locals' /\ Lazy'
    BY <1>1, <2>2, <2>3, <2>4, <2>7, <2>8, OthersKept
  <2> QED
    BY <2>3, <2>4, <2>6, <2>9 DEF Inv
<1> QED
  BY <1>2, <1>3

(* The next byte of the name is read.                                      *)
LEMMA OpenByteStep == Inv /\ (\E t \in Thread : OpenByte(t)) => Inv'
<1> SUFFICES ASSUME Inv, NEW t \in Thread, OpenByte(t) PROVE Inv'
  OBVIOUS
<1> DEFINE n == Len(fp[t]) + 1
           c == gLogFileName[n]
<1>1. /\ pc[t] = "open" /\ c # NUL /\ fp' = [fp EXCEPT ![t] = Append(fp[t], c)]
      /\ UNCHANGED <<gLogInit, gLogFileName, clock, pc, path, now, name, stores, alone, settled,
                     expects, everSet, overtaken>>
  BY DEF OpenByte, ByteRead, shared, history
<1>2. fp[t] \in Seq(Letter) /\ Len(fp[t]) \in 0 .. MaxPath - 1 /\ MaxPath \in Nat
  BY NameIs, SizeAssumption DEF Inv, Types, Name
<1>3. n \in 1 .. MaxPath - 1
  BY <1>1, <1>2 DEF Inv, Types
<1>4. c \in Letter /\ n \in 1 .. MaxPath
  BY <1>1, <1>2, <1>3 DEF Inv, Types
<1> HIDE DEF c
<1>5. /\ Append(fp[t], c) \in Seq(Letter) /\ Len(Append(fp[t], c)) = n
      /\ Append(fp[t], c)[n] = c
      /\ \A m \in 1 .. Len(fp[t]) : Append(fp[t], c)[m] = fp[t][m]
  BY <1>2, <1>4, AppendProperties
<1>6. /\ fp' \in [Thread -> Name]
      /\ Len(fp'[t]) = n /\ fp'[t][n] = c
      /\ \A m \in 1 .. Len(fp[t]) : fp'[t][m] = fp[t][m]
      /\ \A u \in Thread \ {t} : fp'[u] = fp[u]
  <2>1. Append(fp[t], c) \in Name
    BY <1>2, <1>3, <1>5 DEF Name
  <2> QED
    BY <1>1, <1>5, <2>1 DEF Inv, Types
<1>7. \A m \in 1 .. n : m = n \/ m \in 1 .. Len(fp[t])
  BY <1>2
<1>8. Types'
  BY <1>1, <1>6 DEF Inv, Types
<1>9. Alone' /\ Settled'
  BY <1>1, NamingKept DEF Naming
<1>10. Expect(t)'
  <2> SUFFICES ASSUME expects[t] # NoName PROVE Expect(t)'
    BY <1>1 DEF Expect
  <2>1. /\ expects[t] = settled /\ Len(fp[t]) <= Len(settled)
        /\ \A m \in 1 .. Len(fp[t]) : fp[t][m] = settled[m]
        /\ \A m \in 1 .. Len(settled) + 1 : gLogFileName[m] = Byte(settled, m)
    BY <1>1 DEF Inv, Expecting, Expect, Settled
  <2>2. Len(settled) \in Nat
    BY NameIs, SizeAssumption DEF Inv, Types
  <2>3. c = Byte(settled, n)
    BY <1>2, <2>1, <2>2 DEF c
  <2>4. n <= Len(settled) /\ c = settled[n]
    BY <1>1, <2>3 DEF Byte
  <2> QED
    BY <1>1, <1>6, <1>7, <2>1, <2>4 DEF Expect
<1>11. Expecting'
  <2>1. ASSUME NEW u \in Thread \ {t} PROVE Expect(u)'
    BY <1>1, <1>6 DEF Inv, Expecting, Expect
  <2> QED
    BY <1>10, <2>1 DEF Expecting
<1>12. Local(t)'
  BY <1>1 DEF Inv, Locals, Local
<1>13. ASSUME ~everSet' PROVE LazyThread(t)'
  <2>1. LazyBuffer /\ LazyThread(t)
    BY <1>1, <1>13 DEF Inv, Lazy
  <2>2. IsDefault(c, n)
    BY <1>1, <1>4, <2>1 DEF LazyBuffer, c
  <2> QED
    BY <1>1, <1>6, <1>7, <2>1, <2>2 DEF LazyThread, Naming, IsDefault
<1>14. Locals' /\ Lazy'
  BY <1>1, <1>6, <1>8, <1>12, <1>13, OthersKept
<1> QED
  BY <1>8, <1>9, <1>11, <1>14 DEF Inv

(* The file opens by the name that was read: all of the settled one, and   *)
(* all of a default one.                                                   *)
LEMMA OpensStep == Inv /\ (\E t \in Thread : Opens(t)) => Inv'
<1> SUFFICES ASSUME Inv, NEW t \in Thread, Opens(t) PROVE Inv'
  OBVIOUS
<1> DEFINE n == Len(fp[t]) + 1
<1>1. /\ Goto(t, "open", "write") /\ gLogFileName[n] = NUL /\ fp[t] # NoName
      /\ UNCHANGED <<gLogInit, gLogFileName, clock, path, now, name, stores, fp, alone, settled,
                     expects, everSet, overtaken>>
  BY DEF Opens, ByteRead, shared, locals, history
<1>2. /\ pc[t] = "open" /\ pc' \in [Thread -> Places]
      /\ \A u \in Thread : pc'[u] = IF u = t THEN "write" ELSE pc[u]
  BY <1>1, PcStep DEF Inv, Places
<1>3. Len(fp[t]) \in 1 .. MaxPath - 1 /\ MaxPath \in Nat /\ n \in 2 .. MaxPath
  BY <1>1, NameIs, SizeAssumption DEF Inv, Types
<1>4. Types'
  BY <1>1, <1>2 DEF Inv, Types
<1>5. Alone' /\ Settled'
  BY <1>1, <1>2, NamingKept DEF Naming
<1>6. Expect(t)'
  <2> SUFFICES ASSUME expects[t] # NoName PROVE Expect(t)'
    BY <1>1 DEF Expect
  <2>1. /\ expects[t] = settled /\ Len(fp[t]) <= Len(settled)
        /\ \A m \in 1 .. Len(fp[t]) : fp[t][m] = settled[m]
        /\ \A m \in 1 .. Len(settled) + 1 : gLogFileName[m] = Byte(settled, m)
    BY <1>2 DEF Inv, Expecting, Expect, Settled
  <2>2. settled \in Name /\ Len(settled) \in 0 .. MaxPath - 1
    BY NameIs DEF Inv, Types
  <2>3. n <= Len(settled) => settled[n] \in Letter
    BY <1>3, <2>2, NameIs
  <2>4. Len(fp[t]) = Len(settled)
    <3>1. CASE n <= Len(settled)
      <4>1. gLogFileName[n] = settled[n]
        BY <1>3, <2>1, <2>2, <3>1 DEF Byte
      <4> QED
        BY <1>1, <2>3, <3>1, <4>1, LetterFacts
    <3>2. CASE ~(n <= Len(settled))
      BY <1>3, <2>1, <2>2, <3>2
    <3> QED
      BY <3>1, <3>2
  <2> QED
    BY <1>1, <2>1, <2>4 DEF Expect
<1>7. Expecting'
  <2>1. ASSUME NEW u \in Thread \ {t} PROVE Expect(u)'
    BY <1>1, <1>2 DEF Inv, Expecting, Expect
  <2> QED
    BY <1>6, <2>1 DEF Expecting
<1>8. Local(t)'
  BY <1>1, <1>2 DEF Inv, Locals, Local
<1>9. ASSUME ~everSet' PROVE LazyThread(t)'
  <2>1. LazyBuffer /\ LazyThread(t)
    BY <1>1, <1>9 DEF Inv, Lazy
  <2>2. ~overtaken => Len(fp[t]) = DefaultLen
    <3> SUFFICES ASSUME ~overtaken PROVE Len(fp[t]) = DefaultLen
      OBVIOUS
    <3>1. gLogInit
      BY <1>2 DEF Inv, Locals, Local
    <3>2. DefaultLen \in 1 .. MaxPath - 1
      BY DefaultNameFacts
    <3>3. ~(n <= DefaultLen)
      <4>1. n \notin 2 .. DefaultLen
        BY <1>1, <2>1, <3>1 DEF LazyBuffer
      <4> QED
        BY <1>3, <3>2, <4>1
    <3>4. Len(fp[t]) \in 1 .. DefaultLen
      <4>1. IsDefault(fp[t][Len(fp[t])], Len(fp[t]))
        BY <1>3, <2>1 DEF LazyThread
      <4> QED
        BY <4>1, DefaultBytes DEF Inv
    <3> QED
      BY <1>3, <3>2, <3>3, <3>4
  <2> QED
    BY <1>1, <1>2, <2>1, <2>2 DEF LazyThread, Naming, IsDefault
<1>10. Locals' /\ Lazy'
  BY <1>1, <1>2, <1>4, <1>8, <1>9, OthersKept
<1> QED
  BY <1>4, <1>5, <1>7, <1>10 DEF Inv

(* The line is written, or its file did not open.                          *)
LEMMA LineDoneStep ==
  ASSUME Inv, NEW t \in Thread, NEW from \in {"open", "write"}, Goto(t, from, "idle"),
         fp' = [fp EXCEPT ![t] = NoName], expects' = [expects EXCEPT ![t] = NoName],
         UNCHANGED <<gLogInit, gLogFileName, clock, path, now, name, stores, alone, settled,
                     everSet, overtaken>>
  PROVE  Inv'
<1>1. /\ pc[t] = from /\ pc' \in [Thread -> Places]
      /\ \A u \in Thread : pc'[u] = IF u = t THEN "idle" ELSE pc[u]
  BY PcStep DEF Inv, Places
<1>2. /\ fp' \in [Thread -> Name] /\ expects' \in [Thread -> Name]
      /\ \A u \in Thread : /\ fp'[u] = IF u = t THEN NoName ELSE fp[u]
                           /\ expects'[u] = IF u = t THEN NoName ELSE expects[u]
  BY NameIs DEF Inv, Types
<1>3. Types'
  BY <1>1, <1>2 DEF Inv, Types
<1>4. Alone' /\ Settled'
  BY <1>1, NamingKept DEF Naming
<1>5. Expecting'
  BY <1>1, <1>2 DEF Inv, Expecting, Expect
<1>6. Local(t)'
  BY <1>1, <1>2 DEF Local
<1>7. ASSUME ~everSet' PROVE LazyThread(t)'
  BY <1>1, <1>2, NameIs DEF LazyThread, Naming
<1>8. Locals' /\ Lazy'
  BY <1>1, <1>2, <1>3, <1>6, <1>7, OthersKept
<1> QED
  BY <1>3, <1>4, <1>5, <1>8 DEF Inv

LEMMA InvStep == Inv /\ [Next]_vars => Inv'
<1> SUFFICES ASSUME Inv, [Next]_vars PROVE Inv'
  OBVIOUS
<1>1. ASSUME NEW t \in Thread, NEW by \in {"UT_log", "UT_logPrefix"}, NEW prefix \in Prefix,
             NEW text \in Text, Write(t, by, prefix, text)
      PROVE  Inv'
  BY <1>1, LineDoneStep DEF Write, shared
<1>2. ASSUME NEW t \in Thread, OpenFails(t) PROVE Inv'
  BY <1>2, LineDoneStep DEF OpenFails, shared
<1>3. CASE UNCHANGED vars
  <2>1. UNCHANGED <<gLogInit, gLogFileName, clock, pc, path, now, name, stores, fp, alone,
                    settled, expects, everSet, overtaken>>
    BY <1>3 DEF vars, shared, locals, history
  <2> QED
    BY <2>1 DEF Inv, Types, Locals, Local, Alone, Settled, Expecting, Expect, Lazy, LazyBuffer,
                LazyThread, Naming, IsDefault, Byte
<1> QED
  BY <1>1, <1>2, <1>3, TickStep, SetLogFilePathStep, LocaltimeStep, StrftimeStep,
     SnprintfEmptiesStep, ByteLandsStep, FlagLandsStep, NameDoneStep, LogStep, LogTestStep,
     OpenByteStep, OpensStep DEF Next

THEOREM Invariance == Spec => []Inv
BY InvInit, InvStep, PTL DEF Spec

-----------------------------------------------------------------------------
(* A line begun after a thread has named the file alone goes to that name, *)
(* whichever thread writes it, until UT_log_setLogFilePath is called again *)
(* (UT_log and UT_log_setLogFilePath, ut_log.c:38 and :67).                *)
THEOREM SettledNamePrevailsAlways == Spec => []SettledNamePrevails
<1>1. Inv => SettledNamePrevails
  <2> SUFFICES ASSUME Inv, NEW t \in Thread, pc[t] = "write", expects[t] # NoName
               PROVE  fp[t] = expects[t]
    BY DEF SettledNamePrevails
  <2>1. /\ expects[t] = settled /\ Len(fp[t]) = Len(settled)
        /\ \A n \in 1 .. Len(fp[t]) : fp[t][n] = settled[n]
    BY DEF Inv, Expecting, Expect
  <2> QED
    BY <2>1, NameIs DEF Inv, Types
<1> QED
  BY <1>1, Invariance, PTL

(* While the test sets no path, every line goes to a default name, whose   *)
(* digits may be of several seconds, however many threads store it at once *)
(* and in whatever order their bytes land; it is whole unless the flag has *)
(* come before them (ut_log.c:52 and :59).                                 *)
THEOREM LazyNameIsDefaultAlways == Spec => []LazyNameIsDefault
<1>1. Inv => LazyNameIsDefault
  <2> SUFFICES ASSUME Inv, ~everSet, NEW t \in Thread, pc[t] = "write"
               PROVE  /\ \A n \in DOMAIN fp[t] : IsDefault(fp[t][n], n)
                      /\ ~overtaken => \A second \in 0 .. clock :
                                         Len(fp[t]) = Len(DefaultName(second))
    BY DEF LazyNameIsDefault, IsDefault
  <2>1. LazyThread(t)
    BY DEF Inv, Lazy
  <2>2. DOMAIN fp[t] = 1 .. Len(fp[t])
    BY LenProperties DEF Inv, Types, Name
  <2>3. \A second \in 0 .. clock : second \in 0 .. MaxClock
    BY BoundAssumption DEF Inv, Types
  <2>4. \A second \in 0 .. clock : Len(DefaultName(second)) = DefaultLen
    BY <2>3, DefaultNameFacts
  <2> QED
    BY <2>1, <2>2, <2>4 DEF LazyThread
<1> QED
  BY <1>1, Invariance, PTL

-----------------------------------------------------------------------------
(* The lines.  What the loop of UT_stripColorCode has after n characters.  *)

Start == [escape |-> FALSE, out |-> <<>>]
IsStripped(f, line) == f = [n \in 0 .. Len(line) |->
                              IF n = 0 THEN Start ELSE StripCharacter(f[n - 1], line[n])]
Stripped(line) == CHOOSE f : IsStripped(f, line)
Loop(S) == [escape : BOOLEAN, out : Seq(S)]

LEMMA StripCharacterFacts ==
  ASSUME NEW S, NEW s \in Loop(S), NEW c \in S
  PROVE  /\ StripCharacter(s, c) \in Loop(S)
         /\ s.escape => /\ StripCharacter(s, c).escape = (c # "m")
                        /\ StripCharacter(s, c).out = s.out
         /\ ~s.escape /\ c = "ESC" => /\ StripCharacter(s, c).escape
                                      /\ StripCharacter(s, c).out = s.out
         /\ ~s.escape /\ c # "ESC" => /\ ~StripCharacter(s, c).escape
                                      /\ StripCharacter(s, c).out = Append(s.out, c)
<1>1. s.escape \in BOOLEAN /\ s.out \in Seq(S) /\ Append(s.out, c) \in Seq(S)
  BY AppendProperties DEF Loop
<1>2. CASE s.escape
  BY <1>1, <1>2 DEF StripCharacter, Loop
<1>3. CASE ~s.escape /\ c = "ESC"
  BY <1>1, <1>3 DEF StripCharacter, Loop
<1>4. CASE ~s.escape /\ c # "ESC"
  BY <1>1, <1>4 DEF StripCharacter, Loop
<1> QED
  BY <1>2, <1>3, <1>4

LEMMA StrippedRounds ==
  ASSUME NEW S, NEW line \in Seq(S)
  PROVE  IsStripped(Stripped(line), line)
<1> DEFINE N == Len(line)
           g == [n \in 1 .. N |-> [s \in Loop(S) |-> StripCharacter(s, line[n])]]
<1>1. N \in Nat /\ Start \in Loop(S) /\ \A n \in 1 .. N : line[n] \in S
  BY LenProperties, ElementOfSeq, EmptySeq DEF Start, Loop
<1>2. \A s \in Loop(S), n \in 1 .. N : StripCharacter(s, line[n]) \in Loop(S)
  BY <1>1, StripCharacterFacts
<1>3. g \in [1 .. N -> [Loop(S) -> Loop(S)]]
  BY <1>2
<1>4. \A s \in Loop(S), n \in 1 .. N : g[n][s] = StripCharacter(s, line[n])
  OBVIOUS
<1> HIDE DEF g
<1>5. PICK f : IsRounds(f, g, N, Loop(S), Start)
  <2>1. IsRound(g, N, Loop(S))
    BY <1>3 DEF IsRound
  <2> HIDE DEF N
  <2> QED
    BY <1>1, <2>1, RoundsExist
<1>6. f \in [0 .. N -> Loop(S)] /\ f[0] = Start /\ \A n \in 1 .. N : f[n] = g[n][f[n - 1]]
  BY <1>5 DEF IsRounds
<1>7. \A n \in 0 .. N : f[n] = IF n = 0 THEN Start ELSE StripCharacter(f[n - 1], line[n])
  <2> SUFFICES ASSUME NEW n \in 0 .. N, n # 0 PROVE f[n] = StripCharacter(f[n - 1], line[n])
    BY <1>6
  <2>1. n \in 1 .. N /\ f[n - 1] \in Loop(S)
    BY <1>1, <1>6
  <2> QED
    BY <1>4, <1>6, <2>1
<1>8. IsStripped(f, line)
  BY <1>6, <1>7 DEF IsStripped
<1> QED
  BY <1>8 DEF Stripped

(* The place n is inside a colour code: an escape character has come, and  *)
(* no "m" since.                                                           *)
Inside(line, n) == \E j \in 1 .. n : line[j] = "ESC" /\ \A h \in j .. n : line[h] # "m"

LEMMA ShownNext ==
  ASSUME NEW S, NEW line \in Seq(S), NEW n \in Nat, n + 1 <= Len(line)
  PROVE  /\ n + 1 \in Shown(line) <=> ~Inside(line, n) /\ line[n + 1] # "ESC"
         /\ Inside(line, n) => (Inside(line, n + 1) <=> line[n + 1] # "m")
         /\ ~Inside(line, n) => (Inside(line, n + 1) <=> line[n + 1] = "ESC")
<1>1. n + 1 \in DOMAIN line
  BY LenProperties
<1>2. ASSUME NEW j \in 1 .. n + 1 PROVE j = n + 1 \/ j \in 1 .. n
  OBVIOUS
<1>3. n + 1 \in Shown(line) <=>
        \A j \in 1 .. n + 1 : line[j] = "ESC" => \E h \in j .. n : line[h] = "m"
  BY <1>1 DEF Shown
<1>4. ~\E h \in n + 1 .. n : line[h] = "m"
  OBVIOUS
<1>5. n + 1 \in Shown(line) <=> ~Inside(line, n) /\ line[n + 1] # "ESC"
  BY <1>2, <1>3, <1>4 DEF Inside
<1>6. ASSUME NEW j \in 1 .. n
      PROVE  (\A h \in j .. n + 1 : line[h] # "m") <=>
                (\A h \in j .. n : line[h] # "m") /\ line[n + 1] # "m"
  BY <1>2
<1>7. (\A h \in n + 1 .. n + 1 : line[h] # "m") <=> line[n + 1] # "m"
  OBVIOUS
<1>8. Inside(line, n + 1) <=> \/ Inside(line, n) /\ line[n + 1] # "m"
                             \/ line[n + 1] = "ESC"
  BY <1>2, <1>6, <1>7 DEF Inside
<1> QED
  BY <1>5, <1>8

(* How many of the first n characters are shown.                           *)
Count(line, n) == Cardinality(Shown(line) \cap 1 .. n)

LEMMA CountFacts ==
  ASSUME NEW S, NEW line \in Seq(S), NEW n \in Nat
  PROVE  /\ Count(line, n) \in Nat /\ Count(line, 0) = 0
         /\ n + 1 \in Shown(line) => Count(line, n + 1) = Count(line, n) + 1
         /\ n + 1 \notin Shown(line) => Count(line, n + 1) = Count(line, n)
         /\ \A k \in Shown(line) \cap 1 .. n : Count(line, k) \in 1 .. Count(line, n)
<1> DEFINE Sh(k) == Shown(line) \cap 1 .. k
<1>1. ASSUME NEW k \in Nat PROVE IsFiniteSet(Sh(k)) /\ Cardinality(Sh(k)) \in Nat
  <2>1. IsFiniteSet(1 .. k)
    BY FS_Interval
  <2>2. IsFiniteSet(Sh(k))
    BY <2>1, FS_Subset
  <2> QED
    BY <2>2, FS_CardinalityType
<1>2. Count(line, 0) = 0
  <2>1. Sh(0) = {}
    OBVIOUS
  <2> QED
    BY <2>1, FS_EmptySet DEF Count
<1>3. ASSUME n + 1 \in Shown(line)
      PROVE  Count(line, n + 1) = Count(line, n) + 1
  <2>1. Sh(n + 1) = Sh(n) \cup {n + 1} /\ n + 1 \notin Sh(n)
    BY <1>3
  <2> QED
    BY <1>1, <2>1, FS_AddElement DEF Count
<1>4. ASSUME n + 1 \notin Shown(line)
      PROVE  Count(line, n + 1) = Count(line, n)
  <2>1. Sh(n + 1) = Sh(n)
    BY <1>4
  <2> QED
    BY <2>1 DEF Count
<1>5. ASSUME NEW k \in Shown(line) \cap 1 .. n
      PROVE  Count(line, k) \in 1 .. Count(line, n)
  <2>1. k \in Nat /\ k \in Sh(k) /\ Sh(k) \subseteq Sh(n)
    BY <1>5
  <2>2. Cardinality(Sh(k)) <= Cardinality(Sh(n))
    BY <1>1, <2>1, FS_Subset
  <2>3. Cardinality(Sh(k)) # 0
    BY <1>1, <2>1, FS_EmptySet
  <2>4. Cardinality(Sh(k)) \in Nat /\ Cardinality(Sh(n)) \in Nat
    BY <1>1, <2>1
  <2> HIDE DEF Sh
  <2>5. Cardinality(Sh(k)) \in 1 .. Cardinality(Sh(n))
    BY <2>2, <2>3, <2>4
  <2> QED
    BY <2>5 DEF Count, Sh
<1>6. Count(line, n) \in Nat
  BY <1>1 DEF Count
<1> QED
  BY <1>2, <1>3, <1>4, <1>5, <1>6

(* After n rounds, what is kept are the characters shown among the first   *)
(* n, each at its place.                                                   *)
Keeps(s, line, n, S) ==
  /\ s \in Loop(S)
  /\ s.escape <=> Inside(line, n)
  /\ Len(s.out) = Count(line, n)
  /\ \A k \in Shown(line) \cap 1 .. n : s.out[Count(line, k)] = line[k]

LEMMA KeepsNext ==
  ASSUME NEW S, NEW line \in Seq(S), NEW n \in Nat, n + 1 <= Len(line), NEW s,
         Keeps(s, line, n, S)
  PROVE  Keeps(StripCharacter(s, line[n + 1]), line, n + 1, S)
<1> DEFINE c == line[n + 1]
           r == StripCharacter(s, c)
<1>1. c \in S /\ s \in Loop(S) /\ s.out \in Seq(S)
  BY ElementOfSeq DEF Keeps, Loop
<1>2. /\ r \in Loop(S)
      /\ s.escape => r.escape = (c # "m") /\ r.out = s.out
      /\ ~s.escape /\ c = "ESC" => r.escape /\ r.out = s.out
      /\ ~s.escape /\ c # "ESC" => ~r.escape /\ r.out = Append(s.out, c)
  BY <1>1, StripCharacterFacts
<1>3. r.escape <=> Inside(line, n + 1)
  BY <1>2, ShownNext DEF Keeps
<1> HIDE DEF r
<1>4. ASSUME NEW k \in Shown(line) \cap 1 .. n + 1
      PROVE  k = n + 1 \/ k \in Shown(line) \cap 1 .. n
  OBVIOUS
<1>5. CASE n + 1 \notin Shown(line)
  <2>1. r.out = s.out
    BY <1>2, <1>5, ShownNext DEF Keeps
  <2>2. Count(line, n + 1) = Count(line, n)
    BY <1>5, CountFacts
  <2>3. \A k \in Shown(line) \cap 1 .. n + 1 : r.out[Count(line, k)] = line[k]
    BY <1>4, <1>5, <2>1 DEF Keeps
  <2> QED
    BY <1>2, <1>3, <2>1, <2>2, <2>3 DEF Keeps, r
<1>6. CASE n + 1 \in Shown(line)
  <2>1. r.out = Append(s.out, c)
    BY <1>2, <1>6, ShownNext DEF Keeps
  <2>2. Count(line, n + 1) = Count(line, n) + 1 /\ Len(s.out) = Count(line, n)
    BY <1>6, CountFacts DEF Keeps
  <2>3. /\ Len(r.out) = Len(s.out) + 1
        /\ r.out[Len(s.out) + 1] = c
        /\ \A i \in 1 .. Len(s.out) : r.out[i] = s.out[i]
    BY <1>1, <2>1, AppendProperties
  <2>4. ASSUME NEW k \in Shown(line) \cap 1 .. n
        PROVE  r.out[Count(line, k)] = line[k]
    <3>1. Count(line, k) \in 1 .. Len(s.out)
      BY <2>2, <2>4, CountFacts
    <3> QED
      BY <2>3, <2>4, <3>1 DEF Keeps
  <2>5. \A k \in Shown(line) \cap 1 .. n + 1 : r.out[Count(line, k)] = line[k]
    BY <1>4, <2>2, <2>3, <2>4
  <2> QED
    BY <1>2, <1>3, <2>2, <2>3, <2>5 DEF Keeps, r
<1> QED
  BY <1>5, <1>6

LEMMA StrippedKeeps ==
  ASSUME NEW S, NEW line \in Seq(S)
  PROVE  Keeps(Stripped(line)[Len(line)], line, Len(line), S)
<1> DEFINE N == Len(line)
           f == Stripped(line)
           T == {n \in Nat : n <= N => Keeps(f[n], line, n, S)}
<1>1. N \in Nat
  BY LenProperties
<1>2. f = [n \in 0 .. N |-> IF n = 0 THEN Start ELSE StripCharacter(f[n - 1], line[n])]
  BY StrippedRounds DEF IsStripped
<1> HIDE DEF f
<1>3. 0 \in T
  <2>1. f[0] = Start
    BY <1>1, <1>2
  <2>2. Start \in Loop(S) /\ Start.escape = FALSE /\ Len(Start.out) = 0
    BY EmptySeq DEF Start, Loop
  <2>3. ~Inside(line, 0) /\ Count(line, 0) = 0
    BY CountFacts DEF Inside
  <2> QED
    BY <2>1, <2>2, <2>3 DEF Keeps
<1>4. ASSUME NEW n \in Nat, n \in T PROVE n + 1 \in T
  <2> SUFFICES ASSUME n + 1 <= N PROVE Keeps(f[n + 1], line, n + 1, S)
    OBVIOUS
  <2>1. Keeps(f[n], line, n, S)
    BY <1>1, <1>4
  <2>2. f[n + 1] = StripCharacter(f[n], line[n + 1])
    BY <1>1, <1>2
  <2> QED
    BY <2>1, <2>2, KeepsNext
<1>5. N \in T
  <2> HIDE DEF T
  <2> QED
    BY <1>1, <1>3, <1>4, SetInduction
<1> QED
  BY <1>1, <1>5 DEF f

LEMMA SingleLineFacts ==
  ASSUME NEW prefix \in Prefix, NEW text \in Text
  PROVE  /\ SingleLine(prefix, text) \in Seq(Range(prefix) \cup Range(text))
         /\ Len(SingleLine(prefix, text)) < MaxLineSize
<1> DEFINE S == Range(prefix) \cup Range(text)
           begin == Cut(prefix, MaxLineSize)
           rest == Cut(text, MaxLineSize - Len(begin) - 1)
<1>1. prefix \in Seq(Range(prefix)) /\ text \in Seq(Range(text))
  BY TextAssumption
<1>2. prefix \in Seq(S) /\ text \in Seq(S)
  BY <1>1, SeqMonotonic
<1> HIDE DEF S
<1>3. begin \in Seq(S) /\ Len(begin) \in Nat /\ Len(begin) <= MaxLineSize - 1
  BY <1>2, CutFacts, LenProperties, SizeAssumption
<1> HIDE DEF begin
<1>4. MaxLineSize - Len(begin) - 1 \in Int
  BY <1>3, SizeAssumption
<1>5. /\ rest \in Seq(S) /\ Len(rest) \in Nat
      /\ Len(rest) <= IF MaxLineSize - Len(begin) - 1 >= 1
                      THEN MaxLineSize - Len(begin) - 1 - 1 ELSE 0
  BY <1>2, <1>4, CutFacts, LenProperties
<1> HIDE DEF rest
<1>6. SingleLine(prefix, text) = begin \o rest
  BY DEF SingleLine, begin, rest
<1>7. begin \o rest \in Seq(S) /\ Len(begin \o rest) = Len(begin) + Len(rest)
  BY <1>3, <1>5, ConcatProperties
<1>8. Len(begin) + Len(rest) < MaxLineSize
  BY <1>3, <1>5, SizeAssumption
<1> QED
  BY <1>6, <1>7, <1>8 DEF S

(* UT_stripColorCode returns the shown characters, each at its place.      *)
THEOREM StripColorCodeCorrect ==
  ASSUME NEW S, NEW line \in Seq(S)
  PROVE  LET shown == Shown(line)
             file == UT_stripColorCode(line)
         IN /\ Len(file) = Cardinality(shown)
            /\ \A k \in shown : file[Cardinality(shown \cap 1 .. k)] = line[k]
<1>1. UT_stripColorCode(line) = Stripped(line)[Len(line)].out
  BY DEF UT_stripColorCode, Stripped, IsStripped, Start
<1>2. Shown(line) \cap 1 .. Len(line) = Shown(line)
  BY LenProperties DEF Shown
<1> QED
  BY <1>1, <1>2, StrippedKeeps DEF Keeps, Count

(* Every line fits its buffer, and the file gets all of it, but for        *)
(* UT_logPrefix the colour codes: nothing of them, and nothing more        *)
(* (UT_stripColorCode, ut_log.c:162).                                      *)
THEOREM ColoursStayOutOfFileAlways == Spec => []ColoursStayOutOfFile
<1>1. Init => ColoursStayOutOfFile
  <2> SUFFICES ASSUME Init PROVE ColoursStayOutOfFile
    OBVIOUS
  <2>1. written.by = "UT_log" /\ written.stdout = <<>> /\ written.file = <<>>
    BY DEF Init
  <2>2. Len(<<>>) = 0
    OBVIOUS
  <2> QED
    BY <2>1, <2>2, SizeAssumption DEF ColoursStayOutOfFile
<1>2. ColoursStayOutOfFile /\ [Next]_vars => ColoursStayOutOfFile'
  <2> SUFFICES ASSUME ColoursStayOutOfFile, [Next]_vars PROVE ColoursStayOutOfFile'
    OBVIOUS
  <2>1. ASSUME NEW t \in Thread, NEW by \in {"UT_log", "UT_logPrefix"}, NEW prefix \in Prefix,
               NEW text \in Text, Write(t, by, prefix, text)
        PROVE  ColoursStayOutOfFile'
    <3> DEFINE line == SingleLine(prefix, text)
    <3>1. line \in Seq(Range(prefix) \cup Range(text)) /\ Len(line) < MaxLineSize
      BY SingleLineFacts
    <3> HIDE DEF line
    <3>2. /\ written'.by = by /\ written'.stdout = line
          /\ written'.file = IF by = "UT_log" THEN line ELSE UT_stripColorCode(line)
      BY <2>1 DEF Write, line
    <3>3. /\ Len(UT_stripColorCode(line)) = Cardinality(Shown(line))
          /\ \A k \in Shown(line) :
               UT_stripColorCode(line)[Cardinality(Shown(line) \cap 1 .. k)] = line[k]
      BY <3>1, StripColorCodeCorrect
    <3> QED
      BY <3>1, <3>2, <3>3 DEF ColoursStayOutOfFile
  <2>2. CASE UNCHANGED written
    BY <2>2 DEF ColoursStayOutOfFile
  <2> QED
    BY <2>1, <2>2 DEF Next, vars, history, Tick, UT_log_setLogFilePath, Localtime, Strftime,
       SnprintfEmpties, ByteLands, FlagLands, NameDone, UT_log, LogTest, OpenByte, Opens,
       OpenFails
<1> QED
  BY <1>1, <1>2, PTL DEF Spec
=============================================================================
