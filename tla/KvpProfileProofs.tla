-------------------------- MODULE KvpProfileProofs --------------------------
(***************************************************************************)
(* What TLAPS proves of an instance and of its queries.                    *)
(*                                                                         *)
(* Of KvpInstance, for every set of sources and any number of profiles:    *)
(* the inductive invariant is the conjunction of the type, of              *)
(* HandleHasRoot, without which the empty document that the first call     *)
(* creates could stay behind, of OnlyUnresolvedLeak, of Document: no key   *)
(* twice in the root, on which the merge of the next profile relies, and   *)
(* of Layered, LatestProfileWins without the choice of a latest profile.   *)
(*                                                                         *)
(* Of the queries and the maps, for every profile, key, text, width and    *)
(* map: a map inverts, the two notations of a path mean the same, numbers  *)
(* and lists of bytes are exact or refused, and the answers about one key  *)
(* fit together.  The loops (fy_node_by_path, strtok, strtoul,             *)
(* ut_kvp_getDataBytes) are recursive functions here.  Of each the proof   *)
(* shows that there is one (LoopExists), and what it computes by           *)
(* induction (SetInduction).                                               *)
(***************************************************************************)
EXTENDS KvpProfile, LoopFacts

-----------------------------------------------------------------------------
(* The instance: ut_kvp_open and ut_kvp_close.                             *)

(* LatestProfileWins, of a root and of the profiles that make it up.       *)
Having(C, k) == {j \in DOMAIN C : IsMapping(C[j].root) /\ HasKey(C[j].root, k)}

IsLayered(root, C) ==
  C # <<>> =>
    IF IsMapping(C[1].root)
    THEN /\ IsMapping(root)
         /\ \A k : Having(C, k) = {} => ~HasKey(root, k)
         /\ \A k : \A j \in Having(C, k) :
              (\A h \in Having(C, k) : h <= j) => Lookup(root, k) = Lookup(C[j].root, k)
    ELSE root = C[1].root

(* Current, of any sequence of profiles.                                   *)
InMemory(s) == {j \in DOMAIN s : s[j].how = "memory"}
FirstOf(s) == IF InMemory(s) = {} THEN 1
              ELSE CHOOSE j \in InMemory(s) : \A h \in InMemory(s) : h <= j
CurrentOf(s) == SubSeq(s, FirstOf(s), Len(s))

LEMMA CurrentIs == Current = CurrentOf(profiles)
  BY DEF Current, CurrentOf, FirstOf, InMemory

(* The first current profile is the last one from memory, if there is one. *)
LEMMA FirstIs ==
  ASSUME NEW S, NEW s \in Seq(S)
  PROVE  /\ FirstOf(s) \in Nat /\ 1 <= FirstOf(s)
         /\ s # <<>> => FirstOf(s) <= Len(s)
         /\ s = <<>> => FirstOf(s) = 1
         /\ \A j \in InMemory(s) : (\A h \in InMemory(s) : h <= j) => FirstOf(s) = j
<1>1. Len(s) \in Nat /\ DOMAIN s = 1 .. Len(s) /\ (s = <<>> <=> Len(s) = 0)
  BY LenProperties, EmptySeq
<1>2. InMemory(s) \subseteq 1 .. Len(s)
  BY <1>1 DEF InMemory
<1>3. CASE InMemory(s) = {}
  BY <1>1, <1>3 DEF FirstOf
<1>4. CASE InMemory(s) # {}
  <2>1. /\ FirstOf(s) \in InMemory(s)
        /\ \A h \in InMemory(s) : h <= FirstOf(s)
    BY <1>1, <1>2, <1>4, Greatest DEF FirstOf
  <2>2. FirstOf(s) \in 1 .. Len(s) /\ Len(s) # 0
    BY <1>1, <1>2, <2>1
  <2>3. ASSUME NEW j \in InMemory(s), \A h \in InMemory(s) : h <= j
        PROVE  FirstOf(s) = j
    <3>1. j <= FirstOf(s) /\ FirstOf(s) <= j /\ j \in 1 .. Len(s)
      BY <1>2, <2>1, <2>3
    <3> QED
      BY <1>1, <2>2, <3>1
  <2> QED
    BY <1>1, <2>2, <2>3
<1> QED
  BY <1>3, <1>4

LEMMA CurrentType ==
  ASSUME NEW S, NEW s \in Seq(S)
  PROVE  /\ CurrentOf(s) \in Seq(S)
         /\ s # <<>> => CurrentOf(s) # <<>>
         /\ s = <<>> => CurrentOf(s) = <<>>
<1>1. Len(s) \in Nat /\ (s = <<>> <=> Len(s) = 0)
  BY LenProperties, EmptySeq
<1>2. /\ FirstOf(s) \in 1 .. Len(s) + 1 /\ FirstOf(s) \in Int
      /\ s # <<>> => FirstOf(s) <= Len(s)
      /\ s = <<>> => FirstOf(s) = 1
  BY <1>1, FirstIs
<1>3. /\ CurrentOf(s) \in Seq(S)
      /\ Len(CurrentOf(s)) = IF FirstOf(s) <= Len(s) THEN Len(s) - FirstOf(s) + 1 ELSE 0
  BY <1>1, <1>2, SubSeqProperties DEF CurrentOf
<1> QED
  BY <1>1, <1>2, <1>3, EmptySeq, LenProperties

(* A profile from memory is the only current one; one from a file is the   *)
(* last.                                                                   *)
LEMMA CurrentAfterMemory ==
  ASSUME NEW S, NEW s \in Seq(S), NEW p \in S, p.how = "memory"
  PROVE  CurrentOf(Append(s, p)) = <<p>>
<1> DEFINE t == Append(s, p)
           n == Len(s) + 1
<1>1. /\ t \in Seq(S) /\ Len(t) = n /\ n \in Nat /\ n >= 1 /\ DOMAIN t = 1 .. n /\ t[n] = p
  BY AppendProperties, LenProperties
<1> HIDE DEF t, n
<1>2. n \in InMemory(t) /\ \A h \in InMemory(t) : h <= n
  BY <1>1 DEF InMemory
<1>3. FirstOf(t) = n
  BY <1>1, <1>2, FirstIs
<1>4. /\ CurrentOf(t) \in Seq(S) /\ Len(CurrentOf(t)) = 1
      /\ CurrentOf(t)[1] = t[n]
  <2>1. /\ SubSeq(t, n, n) \in Seq(S)
        /\ Len(SubSeq(t, n, n)) = IF n <= n THEN n - n + 1 ELSE 0
        /\ \A i \in 1 .. n - n + 1 : SubSeq(t, n, n)[i] = t[n + i - 1]
    BY <1>1, SubSeqProperties
  <2>2. 1 \in 1 .. n - n + 1 /\ n + 1 - 1 = n
    BY <1>1
  <2> QED
    BY <1>1, <1>3, <2>1, <2>2 DEF CurrentOf
<1>5. <<p>> \in Seq(S) /\ Len(<<p>>) = 1 /\ <<p>>[1] = p
  OBVIOUS
<1>6. \A i \in 1 .. 1 : i = 1
  OBVIOUS
<1>7. CurrentOf(t) = <<p>>
  <2> HIDE DEF t
  <2> QED
    BY <1>1, <1>4, <1>5, <1>6, SeqEqual
<1> QED
  BY <1>7 DEF t

LEMMA CurrentAfterFile ==
  ASSUME NEW S, NEW s \in Seq(S), NEW p \in S, p.how = "file"
  PROVE  CurrentOf(Append(s, p)) = Append(CurrentOf(s), p)
<1> DEFINE t == Append(s, p)
           n == Len(s)
           f == FirstOf(s)
           C == CurrentOf(s)
<1>1. /\ t \in Seq(S) /\ Len(t) = n + 1 /\ n \in Nat /\ DOMAIN t = 1 .. n + 1 /\ DOMAIN s = 1 .. n
      /\ t[n + 1] = p /\ \A i \in 1 .. n : t[i] = s[i]
  BY AppendProperties, LenProperties
<1>2. f \in Nat /\ 1 <= f /\ f <= n + 1
  <2>1. s = <<>> <=> n = 0
    BY EmptySeq, LenProperties
  <2> QED
    BY <1>1, <2>1, FirstIs
<1> HIDE DEF t, n
<1>3. InMemory(t) = InMemory(s)
  <2>1. \A i \in 1 .. n + 1 : i = n + 1 \/ i \in 1 .. n
    BY <1>1
  <2>2. \A i \in 1 .. n : i \in 1 .. n + 1
    BY <1>1
  <2> QED
    BY <1>1, <2>1, <2>2 DEF InMemory
<1>4. FirstOf(t) = f
  BY <1>3 DEF FirstOf
<1> HIDE DEF f
<1>5. /\ C \in Seq(S) /\ Len(C) = n - f + 1
      /\ \A i \in 1 .. n - f + 1 : C[i] = s[f + i - 1]
  BY <1>1, <1>2, SubSeqProperties DEF CurrentOf, n, f
<1>6. /\ CurrentOf(t) \in Seq(S) /\ Len(CurrentOf(t)) = n - f + 2
      /\ \A i \in 1 .. n - f + 2 : CurrentOf(t)[i] = t[f + i - 1]
  BY <1>1, <1>2, <1>4, SubSeqProperties DEF CurrentOf
<1> HIDE DEF C
<1>7. /\ Append(C, p) \in Seq(S) /\ Len(Append(C, p)) = n - f + 2
      /\ Append(C, p)[n - f + 2] = p
      /\ \A i \in 1 .. n - f + 1 : Append(C, p)[i] = C[i]
  BY <1>1, <1>2, <1>5, AppendProperties
<1>8. ASSUME NEW i \in 1 .. n - f + 2 PROVE CurrentOf(t)[i] = Append(C, p)[i]
  <2>1. CASE i = n - f + 2
    <3>1. f + i - 1 = n + 1
      BY <1>1, <1>2, <2>1
    <3> QED
      BY <1>1, <1>6, <1>7, <2>1, <3>1
  <2>2. CASE i \in 1 .. n - f + 1
    <3>1. f + i - 1 \in 1 .. n
      BY <1>1, <1>2, <2>2
    <3> QED
      BY <1>1, <1>5, <1>6, <1>7, <2>2, <3>1
  <2>3. i = n - f + 2 \/ i \in 1 .. n - f + 1
    BY <1>1, <1>2
  <2> QED
    BY <2>1, <2>2, <2>3
<1>9. CurrentOf(t) = Append(C, p)
  BY <1>6, <1>7, <1>8, SeqEqual
<1> QED
  BY <1>9 DEF t, C

(* One profile alone, and one more merged into those that are there.       *)
LEMMA LayeredAlone ==
  ASSUME NEW p
  PROVE  IsLayered(p.root, <<p>>)
<1>1. <<p>>[1] = p /\ DOMAIN <<p>> = {1}
  OBVIOUS
<1>2. \A k : \A j \in Having(<<p>>, k) : <<p>>[j] = p
  BY <1>1 DEF Having
<1>3. \A k : HasKey(p.root, k) /\ IsMapping(p.root) => 1 \in Having(<<p>>, k)
  BY <1>1 DEF Having
<1> HIDE DEF Having
<1> QED
  BY <1>1, <1>2, <1>3 DEF IsLayered

LEMMA LayeredMerge ==
  ASSUME NEW S, NEW C \in Seq(S), C # <<>>, NEW p \in S, NEW root,
         WellFormed(root), WellFormed(p.root), IsLayered(root, C)
  PROVE  /\ IsLayered(MergeNodes(root, p.root), Append(C, p))
         /\ WellFormed(MergeNodes(root, p.root))
<1> DEFINE D == Append(C, p)
           n == Len(C)
           r == MergeNodes(root, p.root)
<1>1. /\ n \in Nat /\ n >= 1 /\ DOMAIN C = 1 .. n /\ DOMAIN D = 1 .. n + 1
      /\ D[n + 1] = p /\ \A i \in 1 .. n : D[i] = C[i]
  BY AppendProperties, LenProperties, EmptySeq
<1>2. D # <<>> /\ D[1] = C[1]
  <2>1. Append(C, p) \in Seq(S) /\ Len(Append(C, p)) = n + 1
    BY AppendProperties
  <2> QED
    BY <1>1, <2>1, EmptySeq
<1> HIDE DEF D, n, r
<1>3. \A i : i \in 1 .. n + 1 <=> i = n + 1 \/ i \in 1 .. n
  BY <1>1
<1>4. ASSUME NEW k
      PROVE  Having(D, k) = Having(C, k) \cup
               (IF IsMapping(p.root) /\ HasKey(p.root, k) THEN {n + 1} ELSE {})
  BY <1>1, <1>3 DEF Having
<1>5. \A k : Having(C, k) \subseteq 1 .. n
  BY <1>1 DEF Having
<1>6. CASE ~IsMapping(C[1].root)
  <2>1. root = C[1].root /\ r = root
    BY <1>6 DEF IsLayered, MergeNodes, r
  <2> QED
    BY <1>2, <1>6, <2>1 DEF IsLayered, D, r
<1>7. CASE IsMapping(C[1].root) /\ ~IsMapping(p.root)
  <2>1. r = root
    BY <1>7 DEF MergeNodes, r
  <2>2. \A k : Having(D, k) = Having(C, k)
    BY <1>4, <1>7
  <2>3. \A k : \A j \in Having(C, k) : D[j] = C[j]
    BY <1>1, <1>5
  <2>4. WellFormed(r) /\ IsLayered(r, C)
    BY <2>1
  <2>5. IsLayered(r, D)
    BY <1>2, <1>7, <2>2, <2>3, <2>4 DEF IsLayered
  <2> QED
    BY <2>4, <2>5 DEF D, r
<1>8. CASE IsMapping(C[1].root) /\ IsMapping(p.root)
  <2>1. IsMapping(root)
    BY <1>8 DEF IsLayered
  <2>2. /\ IsMapping(r) /\ WellFormed(r)
        /\ \A k : HasKey(r, k) <=> HasKey(root, k) \/ HasKey(p.root, k)
        /\ \A k : Lookup(r, k) = IF HasKey(p.root, k) THEN Lookup(p.root, k)
                                                       ELSE Lookup(root, k)
    BY <1>8, <2>1, NodeInsertFacts DEF MergeNodes, r
  <2>3. ASSUME NEW k, Having(D, k) = {} PROVE ~HasKey(r, k)
    <3>1. Having(C, k) = {} /\ ~HasKey(p.root, k)
      BY <1>4, <1>8, <2>3
    <3> QED
      BY <1>8, <2>2, <3>1 DEF IsLayered
  <2>4. ASSUME NEW k, NEW j \in Having(D, k), \A h \in Having(D, k) : h <= j
        PROVE  Lookup(r, k) = Lookup(D[j].root, k)
    <3>1. CASE HasKey(p.root, k)
      <4>1. n + 1 \in Having(D, k) /\ (j = n + 1 \/ j \in 1 .. n)
        BY <1>4, <1>5, <1>8, <3>1
      <4>2. j = n + 1
        BY <1>1, <2>4, <4>1
      <4> QED
        BY <1>1, <2>2, <3>1, <4>2
    <3>2. CASE ~HasKey(p.root, k)
      <4>1. Having(D, k) = Having(C, k)
        BY <1>4, <3>2
      <4>2. D[j] = C[j] /\ Lookup(root, k) = Lookup(C[j].root, k)
        BY <1>1, <1>5, <1>8, <2>4, <4>1 DEF IsLayered
      <4> QED
        BY <2>2, <3>2, <4>2
    <3> QED
      BY <3>1, <3>2
  <2>5. IsLayered(r, D)
    BY <1>2, <1>8, <2>2, <2>3, <2>4 DEF IsLayered
  <2> QED
    BY <2>2, <2>5 DEF D, r
<1> QED
  BY <1>6, <1>7, <1>8

-----------------------------------------------------------------------------
Document == /\ fy_handle = [root |-> fy_handle.root, exists |-> fy_handle.exists]
            /\ WellFormed(fy_handle.root)

Layered == IsLayered(fy_handle.root, Current)

Inv == TypeOK /\ HandleHasRoot /\ OnlyUnresolvedLeak /\ Document /\ Layered

(* Nothing opened: nothing to be layered.                                  *)
LEMMA EmptyLayered ==
  ASSUME fy_handle = NoDocument, profiles = <<>>
  PROVE  Document /\ Layered
<1>1. Current = <<>>
  <2>1. profiles \in Seq({})
    BY EmptySeq
  <2> QED
    BY <2>1, CurrentIs, CurrentType
<1> QED
  BY <1>1 DEF Document, Layered, IsLayered, NoDocument, WellFormed, IsMapping, NoNode

LEMMA InvInit == Init => Inv
  <1> SUFFICES ASSUME Init PROVE Inv
    OBVIOUS
  <1>1. profiles \in Seq(Profile) /\ Len(profiles) = 0
    BY EmptySeq DEF Init
  <1>2. Document /\ Layered
    BY EmptyLayered DEF Init
  <1> QED
    BY <1>1, <1>2, BoundAssumption
    DEF Init, Inv, TypeOK, HandleHasRoot, OnlyUnresolvedLeak, NoDocument, Statuses

(* A step that leaves the document and its profiles alone.                 *)
LEMMA StillLayered ==
  ASSUME Inv, UNCHANGED <<fy_handle, profiles>>
  PROVE  Document' /\ Layered'
<1>1. Current' = Current
  BY DEF Current
<1> QED
  BY <1>1 DEF Inv, Document, Layered

(* The three ways in which a call on a live instance ends.                 *)
LEMMA RefusedInv ==
  ASSUME NEW s \in Statuses, Inv, Refused(s)
  PROVE  Inv'
  BY StillLayered DEF Refused, Inv, TypeOK, HandleHasRoot, OnlyUnresolvedLeak

LEMMA ClosedInv ==
  ASSUME Inv, Closes, status' \in Statuses, pInstance' \in {"null", "live"},
         leaked' \subseteq [how : {"file", "memory"}, src : Source],
         OnlyUnresolvedLeak'
  PROVE  Inv'
  <1>1. profiles' \in Seq(Profile) /\ Len(profiles') = 0
    BY EmptySeq DEF Closes
  <1>2. Current' = <<>>
    <2>1. Current' = CurrentOf(profiles')
      BY DEF Current, CurrentOf, FirstOf, InMemory
    <2> QED
      BY <1>1, <2>1, CurrentType DEF Closes
  <1>3. Document' /\ Layered'
    BY <1>2 DEF Closes, Document, Layered, IsLayered, NoDocument, WellFormed,
                IsMapping, NoNode
  <1> QED
    BY <1>1, <1>3, BoundAssumption
    DEF Closes, Inv, TypeOK, HandleHasRoot, OnlyUnresolvedLeak, NoDocument

(* A path that destroys its source's document, or has none to destroy,     *)
(* leaves nothing behind.                                                  *)
LEMMA NothingLeft ==
  ASSUME NEW how, NEW src, NEW destroyed \in BOOLEAN, destroyed \/ ~src.built
  PROVE  Left(how, src, destroyed) = {}
  BY DEF Left

LEMMA OpenedInv ==
  ASSUME Inv, pInstance = "live",
         NEW src \in Source, NEW how \in {"file", "memory"}, NEW doc,
         doc = [root |-> doc.root, exists |-> TRUE], doc.root # NoNode,
         WellFormed(doc.root),
         IsLayered(doc.root, CurrentOf(Append(profiles, [how |-> how, root |-> src.copy]))),
         Len(profiles) < MaxProfiles, Opened(how, doc, src, TRUE)
  PROVE  Inv'
  <1> DEFINE p == [how |-> how, root |-> src.copy]
  <1>1. p \in Profile
    BY DEF Profile
  <1>2. profiles \in Seq(Profile) /\ Len(profiles) \in Nat
    BY LenProperties DEF Inv, TypeOK
  <1>3. /\ profiles' = Append(profiles, p)
        /\ profiles' \in Seq(Profile)
        /\ Len(profiles') = Len(profiles) + 1
    BY <1>1, <1>2, AppendProperties DEF Opened
  <1>4. profiles' # <<>> /\ Len(profiles') <= MaxProfiles
    BY <1>2, <1>3, BoundAssumption, EmptySeq
  <1>5. fy_handle' = doc
    BY DEF Opened
  <1>6. Document'
    BY <1>5 DEF Document
  <1>7. Layered'
    <2>1. Current' = CurrentOf(profiles')
      BY DEF Current, CurrentOf, FirstOf, InMemory
    <2> QED
      BY <1>3, <1>5, <2>1 DEF Layered
  <1>8. doc.exists
    OBVIOUS
  <1>9. leaked' = leaked
    BY NothingLeft DEF Opened
  <1> QED
    BY <1>3, <1>4, <1>6, <1>7, <1>8, <1>9
    DEF Opened, Inv, TypeOK, HandleHasRoot, OnlyUnresolvedLeak, Statuses

(* fy_document_set_root changes nothing else of a document.                *)
LEMMA RootSet ==
  ASSUME NEW old, NEW exists, NEW new
  PROVE  [[root |-> old, exists |-> exists] EXCEPT !.root = new]
           = [root |-> new, exists |-> exists]
  OBVIOUS

LEMMA DocumentRootSet ==
  ASSUME NEW doc, NEW old, doc = [root |-> old, exists |-> TRUE], NEW new
  PROVE  [doc EXCEPT !.root = new] = [root |-> new, exists |-> TRUE]
  BY RootSet

(* ut_kvp_open: the document is a copy, or the old one with it merged in.  *)
LEMMA WithProfileLayered ==
  ASSUME Inv, NEW src \in Source, src.copy # NoNode
  PROVE  LET doc == WithProfile(Target, src.copy)
             p == [how |-> "file", root |-> src.copy]
         IN /\ doc = [root |-> doc.root, exists |-> TRUE]
            /\ doc.root # NoNode /\ WellFormed(doc.root)
            /\ IsLayered(doc.root, CurrentOf(Append(profiles, p)))
<1> DEFINE doc == WithProfile(Target, src.copy)
           p == [how |-> "file", root |-> src.copy]
           C == CurrentOf(profiles)
<1>1. /\ profiles \in Seq(Profile) /\ p \in Profile /\ p.how = "file" /\ p.root = src.copy
      /\ WellFormed(src.copy)
  BY SourceAssumption DEF Profile, Inv, TypeOK
<1>2. C \in Seq(Profile) /\ CurrentOf(Append(profiles, p)) = Append(C, p)
  BY <1>1, CurrentAfterFile, CurrentType
<1> HIDE DEF C
<1>3. CASE fy_handle.exists
  <2>1. profiles # <<>> /\ fy_handle.root # NoNode
    BY <1>3 DEF Inv, TypeOK, HandleHasRoot
  <2>2. C # <<>>
    BY <1>1, <2>1, CurrentType DEF C
  <2>3. IsLayered(fy_handle.root, C) /\ WellFormed(fy_handle.root)
    BY CurrentIs DEF Inv, Layered, Document, C
  <2>4. doc = [root |-> MergeNodes(fy_handle.root, src.copy), exists |-> TRUE]
    <3>1. Target = fy_handle /\ fy_handle = [root |-> fy_handle.root, exists |-> TRUE]
      <4>1. fy_handle.exists = TRUE
        BY <1>3, <2>1 DEF Inv, TypeOK
      <4> QED
        BY <1>3, <4>1 DEF Target, Inv, Document
    <3> QED
      BY <2>1, <3>1, DocumentRootSet DEF WithProfile
  <2>5. /\ IsLayered(MergeNodes(fy_handle.root, src.copy), Append(C, p))
        /\ WellFormed(MergeNodes(fy_handle.root, src.copy))
    <3> HIDE DEF p
    <3> QED
      BY <1>1, <1>2, <2>2, <2>3, LayeredMerge
  <2>6. MergeNodes(fy_handle.root, src.copy) # NoNode
    <3>1. CASE IsMapping(fy_handle.root) /\ IsMapping(src.copy)
      <4>1. IsMapping(MergeNodes(fy_handle.root, src.copy))
        BY <1>1, <2>3, <3>1, NodeInsertFacts DEF MergeNodes
      <4> QED
        BY <4>1 DEF IsMapping, NoNode
    <3>2. CASE ~(IsMapping(fy_handle.root) /\ IsMapping(src.copy))
      BY <2>1, <3>2 DEF MergeNodes
    <3> QED
      BY <3>1, <3>2
  <2>7. doc = [root |-> doc.root, exists |-> TRUE] /\ doc.root = MergeNodes(fy_handle.root, src.copy)
    <3> HIDE DEF doc
    <3> QED
      BY <2>4
  <2> HIDE DEF doc
  <2>8. doc.root # NoNode /\ WellFormed(doc.root) /\ IsLayered(doc.root, Append(C, p))
    BY <2>5, <2>6, <2>7
  <2> QED
    BY <1>2, <2>7, <2>8 DEF doc
<1>4. CASE ~fy_handle.exists
  <2>1. profiles = <<>> /\ C = <<>>
    BY <1>1, <1>4, CurrentType DEF Inv, TypeOK, C
  <2>2. Append(C, p) = <<p>>
    BY <2>1
  <2>3. doc = [root |-> src.copy, exists |-> TRUE]
    BY <1>4, RootSet DEF WithProfile, Target, EmptyDocument
  <2>4. IsLayered(src.copy, <<p>>)
    BY <1>1, LayeredAlone
  <2> QED
    BY <1>1, <1>2, <2>2, <2>3, <2>4
<1> QED
  BY <1>3, <1>4

(* ut_kvp_openMemory: the document is a copy of this source's root.        *)
LEMMA WithMemoryLayered ==
  ASSUME Inv, NEW src \in Source, src.copy # NoNode
  PROVE  LET doc == WithMemory(Merged(src), src.copy)
             p == [how |-> "memory", root |-> src.copy]
         IN /\ doc = [root |-> doc.root, exists |-> TRUE]
            /\ doc.root # NoNode /\ WellFormed(doc.root)
            /\ IsLayered(doc.root, CurrentOf(Append(profiles, p)))
<1> DEFINE doc == WithMemory(Merged(src), src.copy)
           p == [how |-> "memory", root |-> src.copy]
<1>1. /\ profiles \in Seq(Profile) /\ p \in Profile /\ p.how = "memory" /\ p.root = src.copy
      /\ WellFormed(src.copy)
  BY SourceAssumption DEF Profile, Inv, TypeOK
<1>2. CurrentOf(Append(profiles, p)) = <<p>>
  BY <1>1, CurrentAfterMemory
<1>3. doc = [root |-> src.copy, exists |-> TRUE]
  <2>1. CASE fy_handle.exists
    <3>1. fy_handle.exists = TRUE
      BY <2>1 DEF Inv, TypeOK
    <3>2. fy_handle = [root |-> fy_handle.root, exists |-> TRUE]
      BY <3>1 DEF Inv, Document
    <3> QED
      <4>1. Merged(src) = [root |-> MergeNodes(fy_handle.root, src.root), exists |-> TRUE]
        BY <2>1, <3>2, DocumentRootSet DEF Merged
      <4> QED
        BY <4>1, DocumentRootSet DEF WithMemory
  <2>2. CASE ~fy_handle.exists
    BY <2>2, RootSet DEF WithMemory, Merged, EmptyDocument
  <2> QED
    BY <2>1, <2>2
<1>4. IsLayered(src.copy, <<p>>)
  BY <1>1, LayeredAlone
<1> QED
  BY <1>1, <1>2, <1>3, <1>4

(* A call that fails has closed the instance, and leaves its source's      *)
(* document behind on one path only.                                       *)
LEMMA FailsInv ==
  ASSUME Inv, pInstance = "live", NEW src \in Source, NEW how \in {"file", "memory"},
         NEW destroyed \in BOOLEAN, Fails(how, src, destroyed),
         \/ destroyed
         \/ ~src.built
         \/ how = "memory" /\ ~src.resolved
  PROVE  Inv'
  <1> DEFINE left == [how |-> how, src |-> src]
  <1>1. Left(how, src, destroyed) \subseteq {left}
    BY DEF Left
  <1>2. Left(how, src, destroyed) # {} => how = "memory" /\ src.built /\ ~src.resolved
    BY DEF Left
  <1>3. leaked' = leaked \cup Left(how, src, destroyed)
    BY DEF Fails
  <1>4. leaked' \subseteq [how : {"file", "memory"}, src : Source]
    BY <1>1, <1>3 DEF Inv, TypeOK
  <1>5. OnlyUnresolvedLeak'
    <2> SUFFICES ASSUME NEW x \in leaked'
                 PROVE  x.how = "memory" /\ x.src.built /\ ~x.src.resolved
      BY DEF OnlyUnresolvedLeak
    <2>1. CASE x \in leaked
      BY <2>1 DEF Inv, OnlyUnresolvedLeak
    <2>2. CASE x \notin leaked
      <3>1. x = left /\ Left(how, src, destroyed) # {}
        BY <1>1, <1>3, <2>2
      <3> QED BY <1>2, <3>1
    <2> QED BY <2>1, <2>2
  <1> QED
    BY <1>4, <1>5, ClosedInv DEF Fails, Statuses, Inv, TypeOK

LEMMA OpenInv ==
  ASSUME Inv, ut_kvp_open
  PROVE  Inv'
  <1>1. CASE OpenRefused
    BY <1>1, RefusedInv DEF OpenRefused, Statuses
  <1>2. ASSUME NEW src \in Source, OpenFails(src)
        PROVE  Inv'
    BY <1>2, FailsInv DEF OpenFails
  <1>3. ASSUME NEW src \in Source, OpenSucceeds(src)
        PROVE  Inv'
    <2> DEFINE doc == WithProfile(Target, src.copy)
    <2>1. /\ doc = [root |-> doc.root, exists |-> TRUE]
          /\ doc.root # NoNode /\ WellFormed(doc.root)
          /\ IsLayered(doc.root, CurrentOf(Append(profiles, [how |-> "file", root |-> src.copy])))
      BY <1>3, WithProfileLayered DEF OpenSucceeds
    <2>2. /\ pInstance = "live" /\ Len(profiles) < MaxProfiles
          /\ Opened("file", doc, src, TRUE)
      BY <1>3 DEF OpenSucceeds
    <2> HIDE DEF doc
    <2> QED
      BY <2>1, <2>2, OpenedInv
  <1> QED
    BY <1>1, <1>2, <1>3 DEF ut_kvp_open

LEMMA OpenMemoryInv ==
  ASSUME Inv, ut_kvp_openMemory
  PROVE  Inv'
  <1>1. CASE OpenMemoryRefused
    BY <1>1, RefusedInv DEF OpenMemoryRefused, Statuses
  <1>2. ASSUME NEW src \in Source, OpenMemoryUnresolved(src)
        PROVE  Inv'
    BY <1>2, FailsInv DEF OpenMemoryUnresolved
  <1>3. ASSUME NEW src \in Source, OpenMemoryNoDocument(src) \/ OpenMemoryFails(src)
        PROVE  Inv'
    BY <1>3, FailsInv DEF OpenMemoryNoDocument, OpenMemoryFails
  <1>4. ASSUME NEW src \in Source, OpenMemorySucceeds(src)
        PROVE  Inv'
    <2> DEFINE doc == WithMemory(Merged(src), src.copy)
    <2>1. /\ doc = [root |-> doc.root, exists |-> TRUE]
          /\ doc.root # NoNode /\ WellFormed(doc.root)
          /\ IsLayered(doc.root, CurrentOf(Append(profiles, [how |-> "memory", root |-> src.copy])))
      BY <1>4, WithMemoryLayered DEF OpenMemorySucceeds
    <2>2. /\ pInstance = "live" /\ Len(profiles) < MaxProfiles
          /\ Opened("memory", doc, src, TRUE)
      BY <1>4 DEF OpenMemorySucceeds
    <2> HIDE DEF doc
    <2> QED
      BY <2>1, <2>2, OpenedInv
  <1> QED
    BY <1>1, <1>2, <1>3, <1>4 DEF ut_kvp_openMemory

LEMMA InvNext == Inv /\ [Next]_vars => Inv'
  <1> SUFFICES ASSUME Inv, [Next]_vars PROVE Inv'
    OBVIOUS
  <1>1. CASE ut_kvp_createInstance
    BY <1>1, StillLayered DEF ut_kvp_createInstance, Inv, TypeOK, HandleHasRoot,
                              OnlyUnresolvedLeak
  <1>2. CASE ut_kvp_open
    BY <1>2, OpenInv
  <1>3. CASE ut_kvp_openMemory
    BY <1>3, OpenMemoryInv
  <1>4. CASE ut_kvp_close
    BY <1>4, ClosedInv DEF ut_kvp_close, Inv, TypeOK, OnlyUnresolvedLeak
  <1>5. CASE ut_kvp_destroyInstance
    BY <1>5, ClosedInv DEF ut_kvp_destroyInstance, Inv, TypeOK, OnlyUnresolvedLeak
  <1>6. CASE UNCHANGED vars
    BY <1>6, StillLayered DEF vars, Inv, TypeOK, HandleHasRoot, OnlyUnresolvedLeak
  <1> QED
    BY <1>1, <1>2, <1>3, <1>4, <1>5, <1>6 DEF Next

(* The instance, its document and the profiles in it keep their types, and *)
(* there is a document exactly while a profile is open.                    *)
THEOREM TypeCorrectness == Spec => []TypeOK
  <1>1. Inv => TypeOK
    BY DEF Inv
  <1> QED
    BY InvInit, InvNext, <1>1, PTL DEF Spec

(* No sequence of calls leaves an instance with a document without a root. *)
THEOREM AlwaysRooted == Spec => []HandleHasRoot
  <1>1. Inv => HandleHasRoot
    BY DEF Inv
  <1> QED
    BY InvInit, InvNext, <1>1, PTL DEF Spec

(* Of the paths through ut_kvp_open and ut_kvp_openMemory, in every order  *)
(* of calls, one only returns without having destroyed the document it     *)
(* built: that of a buffer whose anchors do not resolve.                   *)
THEOREM LeaksAreUnresolved == Spec => []OnlyUnresolvedLeak
  <1>1. Inv => OnlyUnresolvedLeak
    BY DEF Inv
  <1> QED
    BY InvInit, InvNext, <1>1, PTL DEF Spec

(* A root that is layered has, for every key, the value of the latest of   *)
(* the current profiles with the key.                                      *)
LEMMA LayeredWins == Inv => LatestProfileWins
<1> SUFFICES ASSUME Inv, Current # <<>> PROVE LatestProfileWins
  BY DEF LatestProfileWins
<1>1. Len(Current) \in Nat /\ DOMAIN Current = 1 .. Len(Current)
  <2>1. Current \in Seq(Profile)
    BY CurrentIs, CurrentType DEF Inv, TypeOK
  <2> QED
    BY <2>1, LenProperties
<1>2. CASE ~IsMapping(Current[1].root)
  BY <1>2 DEF Inv, Layered, IsLayered, LatestProfileWins
<1>3. CASE IsMapping(Current[1].root)
  <2>1. /\ IsMapping(fy_handle.root)
        /\ \A k : Having(Current, k) = {} => ~HasKey(fy_handle.root, k)
        /\ \A k : \A j \in Having(Current, k) :
             (\A h \in Having(Current, k) : h <= j)
               => Lookup(fy_handle.root, k) = Lookup(Current[j].root, k)
    BY <1>3 DEF Inv, Layered, IsLayered
  <2>2. ASSUME NEW k \in Key
        PROVE  LET H == Having(Current, k)
               IN IF H = {} THEN ~HasKey(fy_handle.root, k)
                  ELSE LET last == CHOOSE j \in H : \A h \in H : h <= j
                       IN Lookup(fy_handle.root, k) = Lookup(Current[last].root, k)
    <3> DEFINE H == Having(Current, k)
               last == CHOOSE j \in H : \A h \in H : h <= j
    <3>1. H \subseteq 1 .. Len(Current)
      BY <1>1 DEF Having
    <3> HIDE DEF H
    <3>2. CASE H # {}
      <4>1. last \in H /\ \A h \in H : h <= last
        BY <1>1, <3>1, <3>2, Greatest
      <4> HIDE DEF last
      <4>2. Lookup(fy_handle.root, k) = Lookup(Current[last].root, k)
        BY <2>1, <4>1 DEF H
      <4> QED
        BY <3>2, <4>2 DEF H, last
    <3> QED
      BY <2>1, <3>2 DEF H
  <2> QED
    BY <1>3, <2>1, <2>2 DEF LatestProfileWins, Having
<1> QED
  BY <1>2, <1>3

(* A key has the value of the latest profile with the key, whatever number *)
(* of profiles was opened, in whatever order, from files or from memory.   *)
THEOREM LatestProfileWinsAlways == Spec => []LatestProfileWins
  <1> QED
    BY InvInit, InvNext, LayeredWins, PTL DEF Spec

(* Whatever fails, no part of a source stays in the instance: a call that  *)
(* changes the document without success has emptied it.                    *)
THEOREM AllOrNothing == Spec => NoHalfOpenedProfile
  <1>1. [Next]_vars => [status' # "SUCCESS" => fy_handle' \in {fy_handle, NoDocument}]_vars
    BY DEF Next, vars, ut_kvp_createInstance, ut_kvp_close, ut_kvp_destroyInstance,
           ut_kvp_open, OpenRefused, OpenFails, OpenSucceeds, ut_kvp_openMemory,
           OpenMemoryRefused, OpenMemoryUnresolved, OpenMemoryNoDocument, OpenMemoryFails,
           OpenMemorySucceeds, Refused, Fails, Opened, Closes
  <1> QED
    BY <1>1, PTL DEF Spec, NoHalfOpenedProfile

-----------------------------------------------------------------------------
(* The queries and the maps.                                               *)

(* An int survives the way through the uint32_t of UT_Control_GetMapValue. *)
LEMMA SignedUnsigned ==
  ASSUME NEW v \in Int32
  PROVE  ToSigned(ToUnsigned(v)) = v
<1> DEFINE M == 2 * (IntMax + 1)
<1>1. IntMax \in Nat /\ v \in Int /\ M \in Nat /\ M > 0
  BY IntAssumption DEF Int32
<1>2. ASSUME v >= 0 PROVE v % M = v
  <2>1. v < M /\ v \in Nat
    BY <1>1, <1>2 DEF Int32
  <2> HIDE DEF M
  <2> QED
    BY <1>1, <2>1
<1>3. ASSUME v < 0 PROVE v % M = v + M
  <2>1. v + M < M /\ v + M >= 0
    BY <1>1, <1>3 DEF Int32
  <2> HIDE DEF M
  <2> QED
    BY <1>1, <2>1
<1> QED
  BY <1>1, <1>2, <1>3 DEF ToSigned, ToUnsigned, Int32

LEMMA OneIsLeast == \A j \in Int : Min({j}) = j
BY DEF Min

(* A map gives back the string its value came from; a string it does not   *)
(* have becomes the default.                                               *)
LEMMA MapInverts ==
  ASSUME NEW map \in Maps, NEW text, NEW d \in Int32
  PROVE  LET value == ToSigned(UT_Control_GetMapValue(map, text, d))
         IN IF \E j \in DOMAIN map : map[j].string = text
            THEN UT_Control_GetMapString(map, value) = text
            ELSE value = d
<1> DEFINE found == {j \in DOMAIN map : map[j].string = text}
           value == ToSigned(UT_Control_GetMapValue(map, text, d))
<1>1. CASE \E j \in DOMAIN map : map[j].string = text
  <2>1. PICK j \in DOMAIN map : map[j].string = text
    BY <1>1
  <2>2. found = {j} /\ {h \in DOMAIN map : map[h].value = map[j].value} = {j}
    BY <2>1, MapAssumption
  <2>3. map[j].value \in Int32 /\ Min({j}) = j
    <3>1. j \in 1 .. Len(map) /\ Len(map) \in Nat
      BY MapAssumption, LenProperties
    <3> QED
      BY <3>1, MapAssumption, OneIsLeast
  <2>4. UT_Control_GetMapValue(map, text, d) = ToUnsigned(map[j].value)
    BY <2>2, <2>3 DEF UT_Control_GetMapValue
  <2>5. value = map[j].value
    BY <2>3, <2>4, SignedUnsigned
  <2>6. UT_Control_GetMapString(map, map[j].value) = text
    BY <2>1, <2>2, <2>3 DEF UT_Control_GetMapString
  <2> QED
    BY <1>1, <2>5, <2>6
<1>2. CASE ~\E j \in DOMAIN map : map[j].string = text
  <2>1. UT_Control_GetMapValue(map, text, d) = ToUnsigned(d)
    <3>1. found = {}
      BY <1>2
    <3> QED
      BY <3>1 DEF UT_Control_GetMapValue
  <2> QED
    BY <1>2, <2>1, SignedUnsigned
<1> QED
  BY <1>1, <1>2

(* A string of a message and the value a map gives it stand for each other *)
(* in every map that has no string and no value twice; the cast to         *)
(* uint32_t and back loses no negative value (UT_Control_GetMapValue and   *)
(* UT_Control_GetMapString, ut_control_plane.c:542).                       *)
THEOREM MapsInvertAlways == Spec => []MapsInvert
<1>1. MapsInvert
  BY MapInverts, DefaultAssumption DEF MapsInvert
<1> QED
  BY <1>1, PTL

-----------------------------------------------------------------------------
(* A key that fits its buffer and has no dot is copied.                    *)
LEMMA Unconverted ==
  ASSUME NEW S, NEW key \in Seq(S), Len(key) < MaxElementSize, ~HasDot(key)
  PROVE  ConvertDotToSlash(key) = key
<1>1. Len(key) \in Nat /\ MaxElementSize \in Nat
  BY LenProperties, QuerySizeAssumption
<1>2. Min({Len(key), MaxElementSize - 1}) = Len(key)
  BY <1>1 DEF Min
<1>3. SubSeq(key, 1, Len(key)) = key
  BY SubSeqFull
<1> QED
  BY <1>2, <1>3 DEF ConvertDotToSlash

(* What a key that fits is converted to, with dots or without.             *)
LEMMA Converted ==
  ASSUME NEW S, NEW key \in Seq(S), Len(key) < MaxElementSize
  PROVE  /\ ConvertDotToSlash(key) = [j \in 1 .. Len(key) |->
                                        IF key[j] = "." THEN "/" ELSE key[j]]
         /\ KeyBytesWritten(key) = Len(key) + 1
<1>1. Len(key) \in Nat /\ DOMAIN key = 1 .. Len(key) /\ MaxElementSize \in Nat
  BY LenProperties, QuerySizeAssumption
<1>2. CASE HasDot(key)
  BY <1>1, <1>2 DEF ConvertDotToSlash, KeyBytesWritten
<1>3. CASE ~HasDot(key)
  <2>1. ConvertDotToSlash(key) = key
    BY <1>3, Unconverted
  <2>2. key = [j \in 1 .. Len(key) |-> key[j]]
    BY <1>1
  <2>3. [j \in 1 .. Len(key) |-> IF key[j] = "." THEN "/" ELSE key[j]]
          = [j \in 1 .. Len(key) |-> key[j]]
    BY <1>1, <1>3 DEF HasDot
  <2> QED
    BY <1>3, <2>1, <2>2, <2>3 DEF KeyBytesWritten
<1> QED
  BY <1>2, <1>3

(* The dotted key is converted to the same path as the key with slashes.   *)
LEMMA DottedConverted ==
  ASSUME NEW S, NEW key \in Seq(S), Len(key) < MaxElementSize
  PROVE  /\ ConvertDotToSlash(Dotted(key)) = ConvertDotToSlash(key)
         /\ KeyBytesWritten(Dotted(key)) = KeyBytesWritten(key)
<1>1. Len(key) \in Nat /\ DOMAIN key = 1 .. Len(key) /\ \A j \in 1 .. Len(key) : key[j] \in S
  BY LenProperties, ElementOfSeq
<1>2. Dotted(key) = [j \in 1 .. Len(key) |-> IF key[j] = "/" THEN "." ELSE key[j]]
  BY <1>1 DEF Dotted
<1>3. Dotted(key) \in Seq(S \cup {"."}) /\ Len(Dotted(key)) = Len(key)
  <2>1. \A j \in 1 .. Len(key) : (IF key[j] = "/" THEN "." ELSE key[j]) \in S \cup {"."}
    BY <1>1
  <2>2. Dotted(key) \in [1 .. Len(key) -> S \cup {"."}]
    BY <1>2, <2>1
  <2>3. Dotted(key) \in Seq(S \cup {"."})
    BY <1>1, <2>2, IsASeq
  <2> QED
    BY <1>1, <1>2, <2>3, LenProperties
<1>4. /\ ConvertDotToSlash(Dotted(key)) =
           [j \in 1 .. Len(key) |-> IF Dotted(key)[j] = "." THEN "/" ELSE Dotted(key)[j]]
      /\ KeyBytesWritten(Dotted(key)) = Len(key) + 1
  BY <1>3, Converted
<1>5. \A j \in 1 .. Len(key) : (IF Dotted(key)[j] = "." THEN "/" ELSE Dotted(key)[j])
                               = IF key[j] = "." THEN "/" ELSE key[j]
  BY <1>2
<1> QED
  BY <1>4, <1>5, Converted

(* What ut_kvp_getDataBytes has read of a list of tokens.                  *)
OutAt(tokens, memory) ==
  LET Out[j \in 0 .. Len(tokens)] ==
        IF j = 0
        THEN [ok |-> InitialBufferSize <= memory, bytes |-> <<>>,
              buffer_size |-> InitialBufferSize]
        ELSE PutByte(Out[j - 1], tokens[j], memory)
  IN Out[Len(tokens)]

LEMMA BytesAre ==
  \A doc, key, memory :
    ut_kvp_getDataBytes(doc, key, memory) =
      LET node == NodeOf(doc, key)
          read == OutAt(Words(node.value, {",", " "}), memory)
      IN IF doc.exists /\ IsScalar(node) /\ read.ok THEN read ELSE NoBytes
BY Zenon DEF ut_kvp_getDataBytes, OutAt

(* Every query finds the same node, and has the same answer.               *)
LEMMA SameAnswers ==
  ASSUME NEW key, NEW other, ConvertDotToSlash(other) = ConvertDotToSlash(key)
  PROVE  Answers(other) = Answers(key)
<1>1. NodeOf(fy_handle, other) = NodeOf(fy_handle, key)
  BY DEF NodeOf
<1>2. ut_kvp_fieldPresent(fy_handle, other) = ut_kvp_fieldPresent(fy_handle, key)
  BY <1>1 DEF ut_kvp_fieldPresent
<1>3. ut_kvp_getListCount(fy_handle, other) = ut_kvp_getListCount(fy_handle, key)
  BY <1>1 DEF ut_kvp_getListCount
<1>4. ut_kvp_getField(fy_handle, other) = ut_kvp_getField(fy_handle, key)
  BY <1>1, Zenon DEF ut_kvp_getField
<1>5. ut_kvp_getBoolField(fy_handle, other) = ut_kvp_getBoolField(fy_handle, key)
  BY <1>4, Zenon DEF ut_kvp_getBoolField
<1>6. getUIntField(fy_handle, other, WordMax) = getUIntField(fy_handle, key, WordMax)
  BY <1>4, Zenon DEF getUIntField
<1>7. StringField(other, Max(BufferSizes)) = StringField(key, Max(BufferSizes))
  <2> DEFINE buffer == Garbage(Max(BufferSizes))
             size == Max(BufferSizes)
  <2> HIDE DEF buffer, size
  <2>1. ut_kvp_getStringField(fy_handle, other, buffer, size)
          = ut_kvp_getStringField(fy_handle, key, buffer, size)
    BY <1>1, SMT DEF ut_kvp_getStringField
  <2> QED
    BY <2>1 DEF StringField, buffer, size
<1>8. ut_kvp_getDataBytes(fy_handle, other, Max(Memories))
        = ut_kvp_getDataBytes(fy_handle, key, Max(Memories))
  BY <1>1, BytesAre, Zenon
<1> QED
  BY <1>2, <1>3, <1>5, <1>6, <1>7, <1>8, Zenon DEF Answers

(* A path written with dots asks for what the path with slashes asks for,  *)
(* whichever query function is called, and neither leaves the buffer the   *)
(* converted path is written to (convert_dot_to_slash, ut_kvp.c:853).      *)
THEOREM NotationsAgreeAlways == Spec => []NotationsAgree
<1>1. ASSUME NEW key \in QueryKey, Len(key) < MaxElementSize
      PROVE  /\ Answers(Dotted(key)) = Answers(key)
             /\ KeyBytesWritten(Dotted(key)) <= MaxElementSize
             /\ KeyBytesWritten(key) <= MaxElementSize
  <2>1. key \in Seq(Range(key)) /\ Len(key) \in Nat /\ MaxElementSize \in Nat
    BY QueryKeyAssumption, QuerySizeAssumption, LenProperties
  <2>2. /\ ConvertDotToSlash(Dotted(key)) = ConvertDotToSlash(key)
        /\ KeyBytesWritten(Dotted(key)) = KeyBytesWritten(key)
    BY <1>1, <2>1, DottedConverted
  <2>3. KeyBytesWritten(key) = Len(key) + 1
    BY <1>1, <2>1, Converted
  <2>4. Answers(Dotted(key)) = Answers(key)
    BY <2>2, SameAnswers
  <2> QED
    BY <1>1, <2>1, <2>2, <2>3, <2>4
<1>2. NotationsAgree
  BY <1>1, Zenon DEF NotationsAgree, FittingKeys
<1> QED
  BY <1>2, PTL

-----------------------------------------------------------------------------
(* Loops.                                                                  *)
IsLoop(f, g, N, A, a) ==
  /\ f \in [0 .. N -> A]
  /\ f = [j \in 0 .. N |-> IF j = 0 THEN a ELSE g[j][f[j - 1]]]

(* The same, as a function defined by its own values.                      *)
LEMMA LoopExists ==
  ASSUME NEW N \in Nat, NEW A, NEW a \in A, NEW g, IsRound(g, N, A)
  PROVE  \E f : IsLoop(f, g, N, A, a)
<1>1. PICK f : IsRounds(f, g, N, A, a)
  BY RoundsExist
<1>2. f \in [0 .. N -> A] /\ f[0] = a /\ \A j \in 1 .. N : f[j] = g[j][f[j - 1]]
  BY <1>1 DEF IsRounds
<1>3. \A j \in 0 .. N : j = 0 \/ j \in 1 .. N
  OBVIOUS
<1>4. \A j \in 0 .. N : f[j] = IF j = 0 THEN a ELSE g[j][f[j - 1]]
  BY <1>2, <1>3
<1>5. f = [j \in 0 .. N |-> f[j]]
  BY <1>2
<1> HIDE DEF IsRound
<1>6. [j \in 0 .. N |-> f[j]] = [j \in 0 .. N |-> IF j = 0 THEN a ELSE g[j][f[j - 1]]]
  BY <1>4
<1> QED
  BY <1>2, <1>5, <1>6 DEF IsLoop

-----------------------------------------------------------------------------
(* Digits.                                                                 *)
LEMMA DigitsAre ==
  /\ DOMAIN Digits = 1 .. 16
  /\ \A d, e \in 1 .. 16 : Digits[d] = Digits[e] => d = e
  /\ \A d \in 1 .. 16 : Digits[d] \notin {"+", "-", "x", "X", ".", "/", " ", ","}
  /\ Digits[1] = "0"
BY DEF Digits

(* A digit of a base, and its value.                                       *)
LEMMA DigitIs ==
  ASSUME NEW base \in {10, 16}, NEW c
  PROVE  /\ \A d \in 1 .. base : Digits[d] = c => IsDigit(c, base) /\ DigitValue(c) = d - 1
         /\ IsDigit(c, base) => /\ DigitValue(c) \in 0 .. base - 1
                                /\ Digits[DigitValue(c) + 1] = c
<1>1. \A d \in 1 .. base : d \in 1 .. 16
  OBVIOUS
<1>2. ASSUME NEW d \in 1 .. base, Digits[d] = c
      PROVE  IsDigit(c, base) /\ DigitValue(c) = d - 1
  <2>1. (CHOOSE e \in DOMAIN Digits : Digits[e] = c) = d
    BY <1>1, <1>2, DigitsAre
  <2> QED
    BY <1>2, <2>1 DEF IsDigit, DigitValue
<1>3. ASSUME IsDigit(c, base)
      PROVE  DigitValue(c) \in 0 .. base - 1 /\ Digits[DigitValue(c) + 1] = c
  <2>1. PICK d \in 1 .. base : Digits[d] = c
    BY <1>3 DEF IsDigit
  <2>2. DigitValue(c) = d - 1
    BY <1>2, <2>1
  <2> QED
    BY <2>1, <2>2
<1> QED
  BY <1>2, <1>3

-----------------------------------------------------------------------------
(* Paths.  What a document is made of.                                     *)
IsDocument(root) ==
  \/ root \in Content \cup {NoNode}
  \/ IsMapping(root) /\ \A k : Lookup(root, k) \in Content \cup {NoNode}

(* A step leads from a node of the document to one of a source.            *)
LEMMA StepType ==
  ASSUME NEW n, IsDocument(n), NEW name
  PROVE  StepInto(n, name) \in Content \cup {NoNode}
<1>1. CASE n = NoNode
  BY <1>1 DEF StepInto, NoNode
<1>2. CASE n \in Content /\ IsMapping(n)
  BY <1>2, ContentAssumption DEF StepInto, IsMapping, Lookup, HasKey
<1>3. CASE n \in Content /\ IsSequence(n)
  <2>1. n.items \in Seq(Content) /\ Len(n.items) \in Nat /\ n.kind = "sequence"
    BY <1>3, ContentAssumption, LenProperties DEF IsSequence
  <2>2. ASSUME IsDigit(name, 10), DigitValue(name) < Len(n.items)
        PROVE  n.items[DigitValue(name) + 1] \in Content
    <3>1. DigitValue(name) \in 0 .. 10 - 1
      BY <2>2, DigitIs
    <3>2. DigitValue(name) + 1 \in 1 .. Len(n.items)
      BY <2>1, <2>2, <3>1
    <3> QED
      BY <2>1, <3>2, ElementOfSeq
  <2> QED
    BY <2>1, <2>2 DEF StepInto
<1>4. CASE n \in Content /\ IsScalar(n)
  BY <1>4 DEF StepInto, IsScalar
<1>5. CASE IsMapping(n) /\ \A k : Lookup(n, k) \in Content \cup {NoNode}
  BY <1>5 DEF StepInto, IsMapping
<1> QED
  BY <1>1, <1>2, <1>3, <1>4, <1>5, ContentAssumption DEF IsDocument, IsMapping, IsSequence, IsScalar

IsPath(f, root, path) ==
  f = [j \in 0 .. Len(path) |->
         IF j = 0 THEN root
         ELSE IF path[j] = "/" THEN f[j - 1] ELSE StepInto(f[j - 1], path[j])]

(* The nodes a path passes.                                                *)
LEMMA PathExists ==
  ASSUME NEW S, NEW path \in Seq(S), NEW root, IsDocument(root)
  PROVE  \E f : /\ IsPath(f, root, path)
                /\ \A j \in 0 .. Len(path) : f[j] \in Content \cup {NoNode, root}
<1> DEFINE N == Len(path)
           A == Content \cup {NoNode, root}
           g == [j \in 1 .. N |-> [n \in A |-> IF path[j] = "/" THEN n
                                               ELSE StepInto(n, path[j])]]
<1>1. N \in Nat
  BY LenProperties
<1>2. \A n \in A : IsDocument(n)
  BY DEF IsDocument
<1>3. IsRound(g, N, A)
  BY <1>2, StepType DEF IsRound
<1>4. \A j \in 1 .. N, n \in A : g[j][n] = IF path[j] = "/" THEN n ELSE StepInto(n, path[j])
  OBVIOUS
<1> HIDE DEF g, A, N
<1>5. PICK f : /\ f \in [0 .. N -> A]
               /\ f = [j \in 0 .. N |-> IF j = 0 THEN root ELSE g[j][f[j - 1]]]
  <2>1. root \in A
    BY DEF A
  <2>2. \E f : IsLoop(f, g, N, A, root)
    BY <1>1, <1>3, <2>1, LoopExists
  <2> QED
    BY <2>2 DEF IsLoop
<1>6. \A j \in 0 .. N : f[j] = 
           IF j = 0 THEN root
           ELSE IF path[j] = "/" THEN f[j - 1] ELSE StepInto(f[j - 1], path[j])
  <2> SUFFICES ASSUME NEW j \in 0 .. N, j # 0
               PROVE  f[j] = IF path[j] = "/" THEN f[j - 1] ELSE StepInto(f[j - 1], path[j])
    BY <1>1, <1>5
  <2>1. j \in 1 .. N /\ f[j - 1] \in A
    BY <1>1, <1>5
  <2> QED
    BY <1>4, <1>5, <2>1
<1>7. f = [j \in 0 .. N |-> f[j]]
  BY <1>5
<1>8. IsPath(f, root, path)
  BY <1>6, <1>7 DEF IsPath, N
<1> QED
  BY <1>5, <1>8 DEF A, N

(* The node a path leads to is one of the document's.                      *)
LEMMA PathLeads ==
  ASSUME NEW S, NEW path \in Seq(S), NEW root, IsDocument(root)
  PROVE  \E f : /\ IsPath(f, root, path)
                /\ NodeByPath(root, path) = f[Len(path)]
                /\ f[Len(path)] \in Content \cup {NoNode, root}
<1> DEFINE f == CHOOSE f : IsPath(f, root, path)
<1>1. Len(path) \in Nat
  BY LenProperties
<1>2. IsPath(f, root, path)
  BY PathExists
<1>3. NodeByPath(root, path) = f[Len(path)]
  BY DEF NodeByPath, IsPath, f
<1> HIDE DEF f
<1>4. PICK h : /\ IsPath(h, root, path)
               /\ \A j \in 0 .. Len(path) : h[j] \in Content \cup {NoNode, root}
  BY PathExists
<1>5. f[Len(path)] = h[Len(path)]
  <2> DEFINE T == {j \in Nat : j <= Len(path) => f[j] = h[j]}
  <2>1. 0 \in T
    BY <1>1, <1>2, <1>4 DEF IsPath
  <2>2. ASSUME NEW j \in Nat, j \in T PROVE j + 1 \in T
    BY <1>1, <1>2, <1>4, <2>2 DEF IsPath
  <2> HIDE DEF T
  <2>3. Len(path) \in T
    BY <1>1, <2>1, <2>2, SetInduction
  <2> QED
    BY <2>3 DEF T
<1> QED
  BY <1>1, <1>2, <1>3, <1>4, <1>5

(* One more step leads from the node of a path to the node of the longer   *)
(* path.                                                                   *)
LEMMA PathAppended ==
  ASSUME NEW S, NEW path \in Seq(S), NEW name \in S, name # "/", "/" \in S,
         NEW root, IsDocument(root)
  PROVE  NodeByPath(root, path \o <<"/", name>>) = StepInto(NodeByPath(root, path), name)
<1> DEFINE longer == path \o <<"/", name>>
           N == Len(path)
<1>1. /\ longer \in Seq(S) /\ Len(longer) = N + 2 /\ N \in Nat
      /\ longer[N + 1] = "/" /\ longer[N + 2] = name
      /\ \A j \in 1 .. N : longer[j] = path[j]
  <2>1. <<"/", name>> \in Seq(S) /\ Len(<<"/", name>>) = 2
    OBVIOUS
  <2> QED
    BY <2>1, ConcatProperties, LenProperties
<1> HIDE DEF longer
<1>2. PICK f : IsPath(f, root, path) /\ NodeByPath(root, path) = f[N]
  BY PathLeads
<1>3. PICK h : IsPath(h, root, longer) /\ NodeByPath(root, longer) = h[N + 2]
  BY <1>1, PathLeads
<1>4. f[N] = h[N]
  <2> DEFINE T == {j \in Nat : j <= N => f[j] = h[j]}
  <2>1. 0 \in T
    BY <1>1, <1>2, <1>3 DEF IsPath
  <2>2. ASSUME NEW j \in Nat, j \in T PROVE j + 1 \in T
    BY <1>1, <1>2, <1>3, <2>2 DEF IsPath
  <2> HIDE DEF T
  <2>3. N \in T
    BY <1>1, <2>1, <2>2, SetInduction
  <2> QED
    BY <2>3 DEF T
<1>5. h[N + 1] = h[N] /\ h[N + 2] = StepInto(h[N + 1], name)
  BY <1>1, <1>3 DEF IsPath
<1> QED
  BY <1>2, <1>3, <1>4, <1>5 DEF longer

-----------------------------------------------------------------------------
(* Words.                                                                  *)
IsFound(f, text, delimiters) ==
  f = [j \in 0 .. Len(text) |->
         IF j = 0 THEN <<>>
         ELSE IF text[j] \in delimiters THEN f[j - 1]
         ELSE AddCharacter(f[j - 1], text[j], j = 1 \/ text[j - 1] \in delimiters)]

Word(C) == Seq(C) \ {<<>>}

(* No word is empty.                                                       *)
LEMMA AddCharacterType ==
  ASSUME NEW C, NEW ws \in Seq(Word(C)), NEW c \in C, NEW begins
  PROVE  AddCharacter(ws, c, begins) \in Seq(Word(C))
<1>1. CASE begins
  <2>1. <<c>> \in Word(C)
    BY DEF Word
  <2> QED
    BY <1>1, <2>1, AppendProperties DEF AddCharacter
<1>2. CASE ~begins /\ ws # <<>>
  <2>1. Len(ws) \in 1 .. Len(ws) /\ ws[Len(ws)] \in Word(C)
    <3>1. Len(ws) \in Nat \ {0}
      BY <1>2, EmptySeq
    <3> QED
      BY <3>1, ElementOfSeq
  <2>2. Append(ws[Len(ws)], c) \in Word(C)
    BY <2>1, AppendProperties DEF Word
  <2> DEFINE w == Append(ws[Len(ws)], c)
  <2> HIDE DEF w
  <2>3. [ws EXCEPT ![Len(ws)] = w] \in Seq(Word(C))
    BY <2>1, <2>2, ExceptSeq DEF w
  <2> QED
    BY <1>2, <2>3 DEF AddCharacter, w
<1>3. CASE ~begins /\ ws = <<>>
  <2>1. [ws EXCEPT ![Len(ws)] = Append(@, c)] = ws
    BY <1>3
  <2> QED
    BY <1>3, <2>1 DEF AddCharacter
<1> QED
  BY <1>1, <1>2, <1>3

(* A text falls into words that have a character each.                     *)
LEMMA WordsType ==
  ASSUME NEW C, NEW text \in Seq(C), NEW delimiters
  PROVE  Words(text, delimiters) \in Seq(Word(C))
<1> DEFINE N == Len(text)
           A == Seq(Word(C))
           begins(j) == j = 1 \/ text[j - 1] \in delimiters
           g == [j \in 1 .. N |-> [ws \in A |-> IF text[j] \in delimiters THEN ws
                                                ELSE AddCharacter(ws, text[j], begins(j))]]
           f == CHOOSE f : IsFound(f, text, delimiters)
<1>1. N \in Nat /\ \A j \in 1 .. N : text[j] \in C
  BY LenProperties, ElementOfSeq
<1>2. ASSUME NEW j \in 1 .. N, NEW ws \in A
      PROVE  /\ g[j][ws] = IF text[j] \in delimiters THEN ws
                           ELSE AddCharacter(ws, text[j], begins(j))
             /\ g[j][ws] \in A
  <2>1. AddCharacter(ws, text[j], begins(j)) \in A
    BY <1>1, AddCharacterType
  <2> HIDE DEF A, begins
  <2> QED
    BY <2>1
<1>3. g = [j \in 1 .. N |-> g[j]] /\ \A j \in 1 .. N : g[j] = [ws \in A |-> g[j][ws]]
  OBVIOUS
<1> HIDE DEF g, A, N
<1>4. IsRound(g, N, A)
  BY <1>2, <1>3 DEF IsRound
<1>5. PICK h : h \in [0 .. N -> A] /\ h = [j \in 0 .. N |-> IF j = 0 THEN <<>> ELSE g[j][h[j - 1]]]
  <2>1. <<>> \in A
    BY EmptySeq DEF A
  <2>2. \E h : IsLoop(h, g, N, A, <<>>)
    BY <1>1, <1>4, <2>1, LoopExists
  <2> QED
    BY <2>2 DEF IsLoop
<1>6. \A j \in 0 .. N : h[j] = IF j = 0 THEN <<>>
                               ELSE IF text[j] \in delimiters THEN h[j - 1]
                               ELSE AddCharacter(h[j - 1], text[j], begins(j))
  <2> SUFFICES ASSUME NEW j \in 0 .. N, j # 0
               PROVE  h[j] = IF text[j] \in delimiters THEN h[j - 1]
                             ELSE AddCharacter(h[j - 1], text[j], begins(j))
    BY <1>1, <1>5
  <2>1. j \in 1 .. N /\ h[j - 1] \in A
    BY <1>1, <1>5
  <2> HIDE DEF begins
  <2> QED
    BY <1>2, <1>5, <2>1
<1>7. h = [j \in 0 .. N |-> h[j]]
  BY <1>5
<1>8. IsFound(h, text, delimiters)
  BY <1>6, <1>7 DEF IsFound, N
<1>9. IsFound(f, text, delimiters)
  BY <1>8
<1>10. Words(text, delimiters) = f[N]
  BY DEF Words, IsFound, f, N
<1> HIDE DEF f, begins
<1>11. f[N] = h[N]
  <2> DEFINE T == {j \in Nat : j <= N => f[j] = h[j]}
  <2>1. 0 \in T
    BY <1>1, <1>8, <1>9 DEF IsFound, N
  <2>2. ASSUME NEW j \in Nat, j \in T PROVE j + 1 \in T
    <3> SUFFICES ASSUME j + 1 <= N PROVE f[j + 1] = h[j + 1]
      OBVIOUS
    <3>1. f[j] = h[j] /\ j + 1 # 0 /\ (j + 1) - 1 = j /\ j + 1 \in 0 .. N
      BY <1>1, <2>2
    <3> QED
      BY <1>8, <1>9, <3>1 DEF IsFound, N
  <2> HIDE DEF T
  <2>3. N \in T
    BY <1>1, <2>1, <2>2, SetInduction
  <2> QED
    BY <2>3 DEF T
<1> QED
  BY <1>1, <1>5, <1>10, <1>11 DEF A

-----------------------------------------------------------------------------
(* Numerals.                                                               *)
Base == {10, 16}

(* Quotient and remainder, which the provers know for a literal only.      *)
LEMMA DivisionBy10 ==
  ASSUME NEW v \in Nat
  PROVE  /\ v \div 10 \in Nat /\ v % 10 \in 0 .. 10 - 1
         /\ v = 10 * (v \div 10) + (v % 10)
         /\ v \div 10 <= v
         /\ v >= 10 => v \div 10 >= 1 /\ v \div 10 < v
         /\ \A q \in Nat, c \in 0 .. 10 - 1 :
              v = 10 * q + c => q = v \div 10 /\ c = v % 10
<1>1. v \div 10 \in Nat /\ v % 10 \in 0 .. 10 - 1
  OBVIOUS
<1>2. v = 10 * (v \div 10) + (v % 10)
  OBVIOUS
<1>3. v \div 10 <= v /\ (v >= 10 => v \div 10 >= 1 /\ v \div 10 < v)
  BY <1>1, <1>2
<1>4. ASSUME NEW q \in Nat, NEW c \in 0 .. 10 - 1, v = 10 * q + c
      PROVE  q = v \div 10 /\ c = v % 10
  BY <1>4
<1> QED
  BY <1>1, <1>2, <1>3, <1>4

LEMMA DivisionBy16 ==
  ASSUME NEW v \in Nat
  PROVE  /\ v \div 16 \in Nat /\ v % 16 \in 0 .. 16 - 1
         /\ v = 16 * (v \div 16) + (v % 16)
         /\ v \div 16 <= v
         /\ v >= 16 => v \div 16 >= 1 /\ v \div 16 < v
         /\ \A q \in Nat, c \in 0 .. 16 - 1 :
              v = 16 * q + c => q = v \div 16 /\ c = v % 16
<1>1. v \div 16 \in Nat /\ v % 16 \in 0 .. 16 - 1
  OBVIOUS
<1>2. v = 16 * (v \div 16) + (v % 16)
  OBVIOUS
<1>3. v \div 16 <= v /\ (v >= 16 => v \div 16 >= 1 /\ v \div 16 < v)
  BY <1>1, <1>2
<1>4. ASSUME NEW q \in Nat, NEW c \in 0 .. 16 - 1, v = 16 * q + c
      PROVE  q = v \div 16 /\ c = v % 16
  BY <1>4
<1> QED
  BY <1>1, <1>2, <1>3, <1>4

(* Both bases.                                                             *)
LEMMA Division ==
  ASSUME NEW base \in Base, NEW v \in Nat
  PROVE  /\ v \div base \in Nat /\ v % base \in 0 .. base - 1
         /\ v = base * (v \div base) + (v % base)
         /\ v \div base <= v
         /\ v >= base => v \div base >= 1 /\ v \div base < v
         /\ \A q \in Nat, c \in 0 .. base - 1 :
              v = base * q + c => q = v \div base /\ c = v % base
<1>1. CASE base = 10
  BY <1>1, DivisionBy10
<1>2. CASE base = 16
  BY <1>2, DivisionBy16
<1> QED
  BY <1>1, <1>2 DEF Base

(* The digits of a base, and the numerals made of them.                    *)
DigitsOf(base) == {Digits[d] : d \in 1 .. base}

LEMMA DigitsOfBase ==
  ASSUME NEW base \in Base
  PROVE  /\ \A c : c \in DigitsOf(base) <=> IsDigit(c, base)
         /\ "0" \in DigitsOf(base) /\ DigitValue("0") = 0
         /\ \A d \in 0 .. base - 1 : Digits[d + 1] \in DigitsOf(base)
<1>1. base \in {10, 16} /\ 1 \in 1 .. base /\ \A d \in 0 .. base - 1 : d + 1 \in 1 .. base
  BY DEF Base
<1>2. Digits[1] = "0"
  BY DigitsAre
<1> QED
  BY <1>1, <1>2, DigitIs DEF DigitsOf, IsDigit

IsNumeral(N, base) ==
  N = [v \in 0 .. WordMax |->
         IF v < base THEN <<Digits[v + 1]>>
         ELSE Append(N[v \div base], Digits[(v % base) + 1])]

(* The numerals of all words exist, a numeral being made of a shorter one. *)
LEMMA NumeralExists ==
  ASSUME NEW base \in Base
  PROVE  IsNumeral(Numeral(base), base)
<1> DEFINE A == [0 .. WordMax -> Seq(DigitsOf(base))]
           F(N) == [v \in 0 .. WordMax |->
                      IF v < base THEN <<Digits[v + 1]>>
                      ELSE Append(N[v \div base], Digits[(v % base) + 1])]
           K == WordMax + 2
           g == [j \in 1 .. K |-> [N \in A |-> F(N)]]
           a == [v \in 0 .. WordMax |-> <<>>]
<1>1. WordMax \in Nat /\ K \in Nat /\ base \in Nat /\ base >= 1
  BY QuerySizeAssumption DEF Base
<1>2. ASSUME NEW v \in 0 .. WordMax
      PROVE  /\ v \in Nat /\ v \div base \in 0 .. WordMax
             /\ Digits[(v % base) + 1] \in DigitsOf(base)
             /\ v < base => Digits[v + 1] \in DigitsOf(base)
             /\ v >= base => v \div base < v
  <2>1. v < base => v \in 0 .. base - 1
    BY <1>1
  <2>2. v \div base \in Nat /\ v \div base <= v /\ v <= WordMax /\ v \in Nat
    BY <1>1, Division
  <2> QED
    BY <1>1, <2>1, <2>2, Division, DigitsOfBase
<1>3. ASSUME NEW N \in A PROVE F(N) \in A
  <2> SUFFICES ASSUME NEW v \in 0 .. WordMax
               PROVE  (IF v < base THEN <<Digits[v + 1]>>
                       ELSE Append(N[v \div base], Digits[(v % base) + 1])) \in Seq(DigitsOf(base))
    OBVIOUS
  <2>1. CASE v < base
    BY <1>2, <2>1
  <2>2. CASE ~(v < base)
    <3>1. N[v \div base] \in Seq(DigitsOf(base))
      BY <1>2
    <3> QED
      BY <1>2, <2>2, <3>1, AppendProperties
  <2> QED
    BY <2>1, <2>2
<1>4. a \in A
  <2>1. <<>> \in Seq(DigitsOf(base))
    BY EmptySeq
  <2> QED
    BY <2>1
<1>5. IsRound(g, K, A) /\ \A j \in 1 .. K, N \in A : g[j][N] = F(N)
  BY <1>3 DEF IsRound
<1> HIDE DEF g, a
<1>6. PICK h : h \in [0 .. K -> A] /\ h = [j \in 0 .. K |-> IF j = 0 THEN a ELSE g[j][h[j - 1]]]
  <2> HIDE DEF K, A
  <2>1. \E h : IsLoop(h, g, K, A, a)
    BY <1>1, <1>4, <1>5, LoopExists
  <2> QED
    BY <2>1 DEF IsLoop
<1>7. ASSUME NEW j \in Nat, j + 1 <= K PROVE h[j + 1] = F(h[j]) /\ h[j] \in A /\ h[j + 1] \in A
  <2>1. j + 1 \in 0 .. K /\ j + 1 # 0 /\ (j + 1) - 1 = j /\ j + 1 \in 1 .. K /\ j \in 0 .. K
    BY <1>1, <1>7
  <2> HIDE DEF A, F, K
  <2> QED
    BY <1>5, <1>6, <2>1
<1> DEFINE T == {k \in Nat : k + 1 <= K => \A v \in 0 .. WordMax : v < k => h[k + 1][v] = h[k][v]}
<1>8. 0 \in T
  OBVIOUS
<1>9. ASSUME NEW k \in Nat, k \in T PROVE k + 1 \in T
  <2> SUFFICES ASSUME (k + 1) + 1 <= K, NEW v \in 0 .. WordMax, v < k + 1
               PROVE  h[(k + 1) + 1][v] = h[k + 1][v]
    OBVIOUS
  <2>1. k + 1 <= K /\ k + 1 \in Nat
    BY <1>1
  <2>2. h[(k + 1) + 1] = F(h[k + 1]) /\ h[k + 1] = F(h[k])
    BY <1>7, <2>1
  <2>3. v >= base => h[k + 1][v \div base] = h[k][v \div base]
    <3>1. v >= base => v \div base < k /\ v \div base \in 0 .. WordMax
      <4> SUFFICES ASSUME v >= base PROVE v \div base < k
        BY <1>2
      <4>1. v \div base < v /\ v \div base \in Int /\ v \in Int /\ k \in Int
        BY <1>2
      <4> DEFINE q == v \div base
      <4> HIDE DEF q
      <4> QED
        BY <4>1 DEF q
    <3> QED
      BY <1>9, <2>1, <3>1
  <2>4. /\ F(h[k + 1])[v] = IF v < base THEN <<Digits[v + 1]>>
                            ELSE Append(h[k + 1][v \div base], Digits[(v % base) + 1])
        /\ F(h[k])[v] = IF v < base THEN <<Digits[v + 1]>>
                        ELSE Append(h[k][v \div base], Digits[(v % base) + 1])
    OBVIOUS
  <2>5. v < base \/ v >= base
    BY <1>1, <1>2
  <2> HIDE DEF F
  <2> QED
    BY <2>2, <2>3, <2>4, <2>5
<1> DEFINE M == WordMax + 1
<1>10. M \in T
  <2> HIDE DEF T
  <2>1. M \in Nat
    BY <1>1
  <2> QED
    BY <1>8, <1>9, <2>1, SetInduction
<1>11. h[M] = F(h[M])
  <2>1. M \in Nat /\ M + 1 <= K /\ \A v \in 0 .. WordMax : v < M
    BY <1>1
  <2>2. \A v \in 0 .. WordMax : h[M + 1][v] = h[M][v]
    BY <1>10, <2>1
  <2>3. h[M + 1] = F(h[M]) /\ h[M] \in A /\ h[M + 1] \in A
    BY <1>7, <2>1
  <2>4. h[M + 1] = h[M]
    <3> HIDE DEF M
    <3> QED
      BY <2>2, <2>3
  <2> QED
    BY <2>3, <2>4
<1>12. IsNumeral(h[M], base)
  BY <1>11 DEF IsNumeral
<1>13. Numeral(base) = CHOOSE N : IsNumeral(N, base)
  BY DEF Numeral, IsNumeral
<1> QED
  BY <1>12, <1>13

(* A numeral is made of digits, and which digits these are.                *)
LEMMA NumeralFacts ==
  ASSUME NEW base \in Base, NEW v \in 0 .. WordMax
  PROVE  /\ Numeral(base)[v] \in Word(DigitsOf(base))
         /\ v < base => Numeral(base)[v] = <<Digits[v + 1]>>
         /\ v >= base => /\ v \div base \in 0 .. WordMax
                         /\ Numeral(base)[v] =
                              Append(Numeral(base)[v \div base], Digits[(v % base) + 1])
<1> DEFINE N == Numeral(base)
<1>1. N = [u \in 0 .. WordMax |-> IF u < base THEN <<Digits[u + 1]>>
                                  ELSE Append(N[u \div base], Digits[(u % base) + 1])]
  BY NumeralExists DEF IsNumeral
<1> HIDE DEF N
<1>2. WordMax \in Nat /\ base \in Nat
  BY QuerySizeAssumption DEF Base
<1>3. ASSUME NEW u \in 0 .. WordMax
      PROVE  /\ u \in Nat
             /\ u < base => N[u] = <<Digits[u + 1]>> /\ Digits[u + 1] \in DigitsOf(base)
             /\ u >= base => /\ N[u] = Append(N[u \div base], Digits[(u % base) + 1])
                             /\ u \div base \in 0 .. WordMax /\ u \div base < u
                             /\ Digits[(u % base) + 1] \in DigitsOf(base)
  <2>1. u \in Nat /\ (u < base => u \in 0 .. base - 1) /\ ~(u < base /\ u >= base)
    BY <1>2
  <2>2. u >= base => u \div base \in 0 .. WordMax /\ u \div base < u
    BY <1>2, <2>1, Division
  <2>3. u % base \in 0 .. base - 1
    BY <2>1, Division
  <2> QED
    BY <1>1, <2>1, <2>2, <2>3, DigitsOfBase
<1> DEFINE T == {k \in Nat : \A u \in 0 .. WordMax : u < k => N[u] \in Word(DigitsOf(base))}
<1>4. 0 \in T
  OBVIOUS
<1>5. ASSUME NEW k \in Nat, k \in T PROVE k + 1 \in T
  <2> SUFFICES ASSUME NEW u \in 0 .. WordMax, u < k + 1 PROVE N[u] \in Word(DigitsOf(base))
    OBVIOUS
  <2>1. CASE u < base
    <3>1. N[u] = <<Digits[u + 1]>> /\ Digits[u + 1] \in DigitsOf(base)
      BY <1>3, <2>1
    <3> HIDE DEF N
    <3> QED
      BY <3>1 DEF Word
  <2>2. CASE u >= base
    <3>1. N[u \div base] \in Word(DigitsOf(base))
      <4> DEFINE q == u \div base
      <4>0. q < u /\ q \in Int /\ u \in Int
        <5>1. q \in 0 .. WordMax /\ q < u
          BY <1>3, <2>2
        <5> HIDE DEF q
        <5> QED
          BY <1>2, <5>1
      <4> HIDE DEF q
      <4>1. q < k
        BY <4>0
      <4>2. u \div base < k
        BY <4>1 DEF q
      <4> QED
        BY <1>3, <1>5, <2>2, <4>2
    <3> QED
      <4>1. /\ N[u \div base] \in Seq(DigitsOf(base))
            /\ Digits[(u % base) + 1] \in DigitsOf(base)
            /\ N[u] = Append(N[u \div base], Digits[(u % base) + 1])
        BY <1>3, <2>2, <3>1 DEF Word
      <4> QED
        BY <4>1, AppendProperties DEF Word
  <2> QED
    BY <1>2, <2>1, <2>2
<1>6. WordMax + 1 \in T
  <2> HIDE DEF T
  <2>1. WordMax + 1 \in Nat
    BY <1>2
  <2> QED
    BY <1>4, <1>5, <2>1, SetInduction
<1>7. N[v] \in Word(DigitsOf(base))
  BY <1>2, <1>6
<1> QED
  BY <1>3, <1>7 DEF N

-----------------------------------------------------------------------------
(* Values of digits.                                                       *)
LEMMA OneMoreDigit ==
  ASSUME NEW base \in Base, NEW x \in Nat, NEW c \in 0 .. base - 1
  PROVE  /\ base * x + c \in Nat /\ base * x + c >= x
         /\ x >= 1 => base * x + c >= base
         /\ base * 0 + c = c
<1>1. CASE base = 10
  BY <1>1
<1>2. CASE base = 16
  BY <1>2
<1> QED
  BY <1>1, <1>2 DEF Base

(* Magnitude, digit by digit.                                              *)
IsMagnitude(V, digits, n, base) ==
  V = [j \in 0 .. n |-> IF j = 0 THEN 0 ELSE base * V[j - 1] + DigitValue(digits[j])]

IsValue(V, digits, n, base) ==
  /\ V \in [0 .. n -> Nat] /\ V[0] = 0
  /\ \A j \in 1 .. n : V[j] = base * V[j - 1] + DigitValue(digits[j])
  /\ Magnitude(digits, n, base) = V[n]

(* The value of a run of digits is a number.                               *)
LEMMA MagnitudeFacts ==
  ASSUME NEW base \in Base, NEW n \in Nat, NEW digits,
         \A j \in 1 .. n : IsDigit(digits[j], base)
  PROVE  \E V : IsValue(V, digits, n, base)
<1> DEFINE g == [j \in 1 .. n |-> [x \in Nat |-> base * x + DigitValue(digits[j])]]
           f == CHOOSE V : IsMagnitude(V, digits, n, base)
<1>1. \A j \in 1 .. n : DigitValue(digits[j]) \in 0 .. base - 1
  BY DigitIs DEF Base
<1>2. \A j \in 1 .. n, x \in Nat :
        g[j][x] = base * x + DigitValue(digits[j]) /\ g[j][x] \in Nat
  BY <1>1, OneMoreDigit
<1>3. g = [j \in 1 .. n |-> g[j]] /\ \A j \in 1 .. n : g[j] = [x \in Nat |-> g[j][x]]
  OBVIOUS
<1> HIDE DEF g
<1>4. IsRound(g, n, Nat)
  BY <1>2, <1>3 DEF IsRound
<1>5. PICK V : /\ V \in [0 .. n -> Nat]
               /\ V = [j \in 0 .. n |-> IF j = 0 THEN 0 ELSE g[j][V[j - 1]]]
  <2>1. \E V : IsLoop(V, g, n, Nat, 0)
    BY <1>4, LoopExists
  <2> QED
    BY <2>1 DEF IsLoop
<1>6. \A j \in 1 .. n : V[j] = base * V[j - 1] + DigitValue(digits[j])
  <2> SUFFICES ASSUME NEW j \in 1 .. n
               PROVE  V[j] = base * V[j - 1] + DigitValue(digits[j])
    OBVIOUS
  <2>1. V[j] = g[j][V[j - 1]] /\ V[j - 1] \in Nat
    BY <1>5
  <2> QED
    BY <1>2, <2>1
<1>7. IsMagnitude(V, digits, n, base)
  <2>1. \A j \in 0 .. n : V[j] = IF j = 0 THEN 0 ELSE base * V[j - 1] + DigitValue(digits[j])
    <3>1. \A j \in 0 .. n : j = 0 \/ j \in 1 .. n
      OBVIOUS
    <3> QED
      BY <1>5, <1>6, <3>1
  <2>2. V = [j \in 0 .. n |-> V[j]]
    BY <1>5
  <2> QED
    BY <2>1, <2>2 DEF IsMagnitude
<1>8. IsMagnitude(f, digits, n, base)
  BY <1>7
<1>9. Magnitude(digits, n, base) = f[n]
  BY DEF Magnitude, IsMagnitude, f
<1> HIDE DEF f
<1>10. f[n] = V[n]
  <2> DEFINE T == {j \in Nat : j <= n => f[j] = V[j]}
  <2>1. 0 \in T
    BY <1>7, <1>8 DEF IsMagnitude
  <2>2. ASSUME NEW j \in Nat, j \in T PROVE j + 1 \in T
    <3> SUFFICES ASSUME j + 1 <= n PROVE f[j + 1] = V[j + 1]
      OBVIOUS
    <3>1. f[j] = V[j] /\ j + 1 # 0 /\ (j + 1) - 1 = j /\ j + 1 \in 0 .. n
      BY <2>2
    <3> QED
      BY <1>7, <1>8, <3>1 DEF IsMagnitude
  <2> HIDE DEF T
  <2>3. n \in T
    BY <2>1, <2>2, SetInduction
  <2> QED
    BY <2>3 DEF T
<1>11. V[0] = 0
  BY <1>5
<1> QED
  BY <1>5, <1>6, <1>9, <1>10, <1>11 DEF IsValue

-----------------------------------------------------------------------------
(* The first j digits are a numeral, with zeros in front or without.       *)
Spelled(digits, j, v, base) ==
  \E z \in 0 .. j - 1 : /\ \A i \in 1 .. z : digits[i] = "0"
                        /\ SubSeq(digits, z + 1, j) = Numeral(base)[v]

(* What a run of digits has one more of.                                   *)
LEMMA RunOfDigits ==
  ASSUME NEW S, NEW s \in Seq(S), NEW j \in Nat, j + 1 <= Len(s), NEW z \in 0 .. j
  PROVE  /\ z = j => SubSeq(s, z + 1, j + 1) = <<s[j + 1]>>
         /\ z < j => /\ SubSeq(s, z + 1, j) \in Word(S)
                     /\ Len(SubSeq(s, z + 1, j)) = j - z
                     /\ SubSeq(s, z + 1, j + 1) = Append(SubSeq(s, z + 1, j), s[j + 1])
         /\ s[j + 1] \in S
<1>1. Len(s) \in Nat /\ j + 1 \in 1 .. Len(s) /\ s[j + 1] \in S
  <2>1. Len(s) \in Nat /\ j + 1 \in 1 .. Len(s)
    BY LenProperties
  <2> QED
    BY <2>1, ElementOfSeq
<1>2. \A i \in z + 1 .. j + 1 : s[i] \in S
  BY <1>1, ElementOfSeq
<1>3. /\ SubSeq(s, z + 1, j + 1) \in Seq(S) /\ Len(SubSeq(s, z + 1, j + 1)) = j - z + 1
      /\ \A i \in 1 .. j - z + 1 : SubSeq(s, z + 1, j + 1)[i] = s[z + i]
  <2>1. z + 1 \in Int /\ j + 1 \in Int /\ z + 1 <= j + 1
        /\ (j + 1) - (z + 1) + 1 = j - z + 1
        /\ \A i \in 1 .. j - z + 1 : (z + 1) + i - 1 = z + i
    OBVIOUS
  <2> QED
    BY <1>2, <2>1, SubSeqProperties
<1>4. /\ SubSeq(s, z + 1, j) \in Seq(S) /\ Len(SubSeq(s, z + 1, j)) = j - z
      /\ \A i \in 1 .. j - z : SubSeq(s, z + 1, j)[i] = s[z + i]
  <2>1. z + 1 \in Int /\ j \in Int
        /\ j - (z + 1) + 1 = j - z /\ (~(z + 1 <= j) => j - z = 0)
        /\ \A i \in 1 .. j - z : (z + 1) + i - 1 = z + i
        /\ \A k \in z + 1 .. j : k \in z + 1 .. j + 1
    OBVIOUS
  <2>2. \A i \in z + 1 .. j : s[i] \in S
    BY <1>2, <2>1
  <2> QED
    BY <2>1, <2>2, SubSeqProperties
<1>5. ASSUME z = j PROVE SubSeq(s, z + 1, j + 1) = <<s[j + 1]>>
  <2>1. <<s[j + 1]>> \in Seq(S) /\ Len(<<s[j + 1]>>) = 1 /\ <<s[j + 1]>>[1] = s[j + 1]
    BY <1>1
  <2>2. \A i \in 1 .. 1 : i = 1
    OBVIOUS
  <2>3. Len(SubSeq(s, z + 1, j + 1)) = 1 /\ SubSeq(s, z + 1, j + 1)[1] = s[j + 1]
    BY <1>3, <1>5
  <2> DEFINE t == SubSeq(s, z + 1, j + 1)
             u == <<s[j + 1]>>
  <2>4. t \in Seq(S) /\ Len(t) = Len(u) /\ \A i \in 1 .. Len(t) : t[i] = u[i]
    BY <1>3, <2>1, <2>2, <2>3
  <2> HIDE DEF t, u
  <2>5. t = u
    BY <2>1, <2>4, SeqEqual DEF u
  <2> QED
    BY <2>5 DEF t, u
<1>6. ASSUME z < j
      PROVE  SubSeq(s, z + 1, j + 1) = Append(SubSeq(s, z + 1, j), s[j + 1])
  <2> DEFINE w == SubSeq(s, z + 1, j)
             t == SubSeq(s, z + 1, j + 1)
  <2>1. /\ Append(w, s[j + 1]) \in Seq(S) /\ Len(Append(w, s[j + 1])) = j - z + 1
        /\ \A i \in 1 .. j - z : Append(w, s[j + 1])[i] = w[i]
        /\ Append(w, s[j + 1])[j - z + 1] = s[j + 1]
    BY <1>1, <1>4, AppendProperties
  <2>2. ASSUME NEW i \in 1 .. j - z + 1 PROVE t[i] = Append(w, s[j + 1])[i]
    <3>1. i \in 1 .. j - z \/ i = j - z + 1
      OBVIOUS
    <3>2. CASE i = j - z + 1
      <4>1. z + i = j + 1
        BY <3>2
      <4> QED
        BY <1>3, <2>1, <3>2, <4>1
    <3> QED
      BY <1>3, <1>4, <2>1, <3>1, <3>2
  <2> HIDE DEF w, t
  <2> QED
    BY <1>3, <2>1, <2>2, SeqEqual DEF w, t
<1>7. z < j => SubSeq(s, z + 1, j) # <<>>
  BY <1>4, EmptySeq
<1> QED
  BY <1>1, <1>4, <1>5, <1>6, <1>7 DEF Word

(* The numerals of one digit and the longer ones.                          *)
LEMMA NumeralForms ==
  ASSUME NEW base \in Base, NEW v \in 0 .. WordMax, NEW d \in DigitsOf(base)
  PROVE  /\ <<d>> = Numeral(base)[v] <=> v = DigitValue(d)
         /\ \A w \in Word(DigitsOf(base)) : Append(w, d) = Numeral(base)[v] <=>
               /\ v \div base \in 0 .. WordMax /\ w = Numeral(base)[v \div base]
               /\ v >= base /\ DigitValue(d) = v % base
<1> DEFINE D == DigitsOf(base)
           N == Numeral(base)
<1>1. /\ base \in Nat /\ v \in Nat /\ v % base \in 0 .. base - 1
      /\ (v < base => v \in 0 .. base - 1) /\ (v < base \/ v >= base)
      /\ ~(v < base /\ v >= base)
  BY QuerySizeAssumption, Division DEF Base
<1>2. \A e \in 0 .. base - 1 :
        Digits[e + 1] \in D /\ (Digits[e + 1] = d <=> e = DigitValue(d))
  <2> SUFFICES ASSUME NEW e \in 0 .. base - 1
               PROVE  Digits[e + 1] = d <=> e = DigitValue(d)
    BY DigitsOfBase
  <2>1. e + 1 \in 1 .. base /\ (e + 1) - 1 = e
    BY <1>1
  <2>2. IsDigit(d, base)
    BY DigitsOfBase
  <2> QED
    BY <2>1, <2>2, DigitIs DEF Base
<1>3. /\ v < base => N[v] = <<Digits[v + 1]>>
      /\ v >= base => /\ v \div base \in 0 .. WordMax /\ N[v \div base] \in Word(D)
                      /\ N[v] = Append(N[v \div base], Digits[(v % base) + 1])
  BY NumeralFacts
<1>4. DigitValue(d) \in 0 .. base - 1
  BY DigitsOfBase, DigitIs DEF Base
<1>5. \A w \in Word(D), e \in D : Len(Append(w, e)) > 1
  <2> SUFFICES ASSUME NEW w \in Word(D), NEW e \in D PROVE Len(Append(w, e)) > 1
    OBVIOUS
  <2>1. w \in Seq(D) /\ w # <<>>
    BY DEF Word
  <2>2. Len(w) \in Nat \ {0} /\ Len(Append(w, e)) = Len(w) + 1
    BY <2>1, AppendProperties, EmptySeq
  <2> QED
    BY <2>2
<1>6. \A e : Len(<<e>>) = 1
  OBVIOUS
<1> HIDE DEF N, D
<1>7. CASE v < base
  <2>1. N[v] = <<Digits[v + 1]>> /\ (Digits[v + 1] = d <=> v = DigitValue(d)) /\ ~(v >= base)
    BY <1>1, <1>2, <1>3, <1>7
  <2>2. \A w \in Word(D) : Append(w, d) # N[v]
    BY <1>5, <1>6, <2>1 DEF D
  <2> QED
    BY <2>1, <2>2 DEF N, D
<1>8. CASE v >= base
  <2>1. /\ v \div base \in 0 .. WordMax /\ N[v \div base] \in Word(D)
        /\ N[v] = Append(N[v \div base], Digits[(v % base) + 1])
        /\ Digits[(v % base) + 1] \in D
        /\ (Digits[(v % base) + 1] = d <=> v % base = DigitValue(d))
    BY <1>1, <1>2, <1>3, <1>8
  <2>2. <<d>> # N[v] /\ v # DigitValue(d)
    BY <1>1, <1>4, <1>5, <1>6, <1>8, <2>1
  <2>3. ASSUME NEW w \in Word(D)
        PROVE  Append(w, d) = N[v] <=> w = N[v \div base] /\ d = Digits[(v % base) + 1]
    <3> DEFINE u == N[v \div base]
               e == Digits[(v % base) + 1]
    <3>1. w \in Seq(D) /\ u \in Seq(D) /\ d \in D /\ e \in D
      BY <2>1 DEF Word, D
    <3> HIDE DEF u, e
    <3>2. Append(w, d) = Append(u, e) <=> w = u /\ d = e
      BY <3>1, AppendInjective
    <3> QED
      BY <2>1, <3>2 DEF u, e
  <2> QED
    BY <1>8, <2>1, <2>2, <2>3 DEF N, D
<1> QED
  BY <1>1, <1>7, <1>8

(* One digit is written as the number it is.                               *)
LEMMA FirstSpelled ==
  ASSUME NEW base \in Base, NEW digits \in Seq(DigitsOf(base)), Len(digits) >= 1,
         NEW v \in 0 .. WordMax
  PROVE  Spelled(digits, 1, v, base) <=> base * 0 + DigitValue(digits[1]) = v
<1>1. SubSeq(digits, 0 + 1, 0 + 1) = <<digits[0 + 1]>> /\ digits[0 + 1] \in DigitsOf(base)
  <2>1. 0 \in Nat /\ 0 \in 0 .. 0 /\ 0 + 1 <= Len(digits)
    BY LenProperties
  <2> QED
    BY <2>1, RunOfDigits
<1>2. SubSeq(digits, 1, 1) = <<digits[1]>> /\ digits[1] \in DigitsOf(base)
  BY <1>1
<1>3. Spelled(digits, 1, v, base) <=> <<digits[1]>> = Numeral(base)[v]
  <2>1. \A z \in 0 .. 1 - 1 : z = 0 /\ z + 1 = 1 /\ ~\E i \in 1 .. z : TRUE
    OBVIOUS
  <2>2. 0 \in 0 .. 1 - 1
    OBVIOUS
  <2> QED
    BY <1>2, <2>1, <2>2 DEF Spelled
<1>4. Spelled(digits, 1, v, base) <=> v = DigitValue(digits[1])
  BY <1>2, <1>3, NumeralForms
<1>5. base * 0 + DigitValue(digits[1]) = DigitValue(digits[1])
  <2>1. DigitValue(digits[1]) \in 0 .. base - 1
    BY <1>2, DigitsOfBase, DigitIs DEF Base
  <2> QED
    BY <2>1, OneMoreDigit
<1> QED
  BY <1>4, <1>5

(* And so is one digit more.                                               *)
LEMMA NextSpelled ==
  ASSUME NEW base \in Base, NEW digits \in Seq(DigitsOf(base)),
         NEW j \in Nat, j >= 1, j + 1 <= Len(digits), NEW x \in Nat,
         \A v \in 0 .. WordMax : Spelled(digits, j, v, base) <=> x = v,
         NEW v \in 0 .. WordMax
  PROVE  Spelled(digits, j + 1, v, base) <=> base * x + DigitValue(digits[j + 1]) = v
<1> DEFINE D == DigitsOf(base)
           N == Numeral(base)
           d == digits[j + 1]
           c == DigitValue(d)
<1>1. d \in D /\ digits[j] \in D /\ c \in 0 .. base - 1 /\ WordMax \in Nat
  <2>1. j \in 1 .. Len(digits) /\ j + 1 \in 1 .. Len(digits)
    BY LenProperties
  <2>2. digits[j] \in D /\ digits[j + 1] \in D
    BY <2>1, ElementOfSeq
  <2> QED
    BY <2>2, DigitsOfBase, DigitIs, QuerySizeAssumption DEF Base
<1>2. SubSeq(digits, j + 1, j + 1) = <<d>>
  BY RunOfDigits
<1>3. ASSUME NEW z \in 0 .. j, z < j
      PROVE  /\ SubSeq(digits, z + 1, j) \in Word(D)
             /\ Len(SubSeq(digits, z + 1, j)) = j - z
             /\ SubSeq(digits, z + 1, j + 1) = Append(SubSeq(digits, z + 1, j), d)
  BY <1>3, RunOfDigits
<1>4. SubSeq(digits, j, j) = <<digits[j]>>
  <2>1. j - 1 \in Nat /\ (j - 1) + 1 <= Len(digits) /\ (j - 1) + 1 = j
    BY LenProperties
  <2>2. SubSeq(digits, (j - 1) + 1, (j - 1) + 1) = <<digits[(j - 1) + 1]>>
    <3> DEFINE h == j - 1
    <3>1. h \in Nat /\ h + 1 <= Len(digits) /\ h \in 0 .. h
      BY <2>1
    <3> HIDE DEF h
    <3>2. SubSeq(digits, h + 1, h + 1) = <<digits[h + 1]>>
      BY <3>1, RunOfDigits
    <3> QED
      BY <3>2 DEF h
  <2> QED
    BY <2>1, <2>2
<1>5. /\ <<d>> = N[v] <=> v = c
      /\ \A w \in Word(D) : Append(w, d) = N[v] <=>
            /\ v \div base \in 0 .. WordMax /\ w = N[v \div base]
            /\ v >= base /\ c = v % base
  BY <1>1, NumeralForms
<1>6. \A e \in D : <<e>> = N[0] <=> e = "0"
  <2> SUFFICES ASSUME NEW e \in D PROVE <<e>> = N[0] <=> e = "0"
    OBVIOUS
  <2>1. 0 \in 0 .. WordMax
    BY <1>1
  <2>2. <<e>> = N[0] <=> 0 = DigitValue(e)
    BY <2>1, NumeralForms
  <2>3. 0 = DigitValue(e) <=> e = "0"
    <3>1. IsDigit(e, base) /\ DigitValue("0") = 0
      BY DigitsOfBase
    <3>2. Digits[DigitValue(e) + 1] = e
      BY <3>1, DigitIs DEF Base
    <3>3. ASSUME 0 = DigitValue(e) PROVE e = "0"
      <4>1. DigitValue(e) + 1 = 1
        BY <3>3
      <4> QED
        BY <3>2, <4>1, DigitsAre
    <3> QED
      BY <3>1, <3>3
  <2> QED
    BY <2>2, <2>3
<1>7. /\ base * x + c \in Nat /\ base * x + c >= x /\ (x >= 1 => base * x + c >= base)
      /\ base * 0 + c = c /\ base \in Nat
  BY <1>1, OneMoreDigit DEF Base
<1>8. /\ v = base * (v \div base) + (v % base) /\ v \in Nat
      /\ \A q \in Nat, e \in 0 .. base - 1 :
           v = base * q + e => q = v \div base /\ e = v % base
  <2>1. v \in Nat
    BY <1>1
  <2> QED
    BY <2>1, Division
<1> HIDE DEF D, N, d, c
<1>9. ASSUME Spelled(digits, j + 1, v, base) PROVE base * x + c = v
  <2>1. PICK z \in 0 .. (j + 1) - 1 : /\ \A i \in 1 .. z : digits[i] = "0"
                                     /\ SubSeq(digits, z + 1, j + 1) = N[v]
    BY <1>9 DEF Spelled, N
  <2>2. CASE z = j
    <3>1. v = c
      BY <1>2, <1>5, <2>1, <2>2
    <3>2. digits[j] = "0"
      <4>1. j \in 1 .. z
        BY <2>2
      <4> QED
        BY <2>1, <4>1
    <3>3. Spelled(digits, j, 0, base)
      <4>1. j - 1 \in 0 .. j - 1 /\ (j - 1) + 1 = j /\ \A i \in 1 .. j - 1 : i \in 1 .. z
        BY <2>2
      <4>2. SubSeq(digits, (j - 1) + 1, j) = N[0]
        BY <1>1, <1>4, <1>6, <3>2, <4>1
      <4> QED
        BY <2>1, <4>1, <4>2 DEF Spelled, N
    <3>4. x = 0
      <4>1. 0 \in 0 .. WordMax
        BY <1>1
      <4> QED
        BY <3>3, <4>1
    <3> QED
      BY <1>7, <3>1, <3>4
  <2>3. CASE z # j
    <3>1. z \in 0 .. j /\ z < j /\ z \in 0 .. j - 1
      BY <2>3
    <3>2. /\ v \div base \in 0 .. WordMax /\ SubSeq(digits, z + 1, j) = N[v \div base]
          /\ c = v % base
      BY <1>3, <1>5, <2>1, <3>1
    <3>3. Spelled(digits, j, v \div base, base)
      BY <2>1, <3>1, <3>2 DEF Spelled, N
    <3>4. x = v \div base
      BY <3>2, <3>3
    <3> QED
      BY <1>8, <3>2, <3>4
  <2> QED
    BY <2>2, <2>3
<1>10. ASSUME base * x + c = v PROVE Spelled(digits, j + 1, v, base)
  <2>1. x \in 0 .. WordMax
    BY <1>1, <1>7, <1>10
  <2>2. PICK z \in 0 .. j - 1 : /\ \A i \in 1 .. z : digits[i] = "0"
                               /\ SubSeq(digits, z + 1, j) = N[x]
    BY <2>1 DEF Spelled, N
  <2>3. z \in 0 .. j /\ z < j /\ z \in 0 .. (j + 1) - 1
    OBVIOUS
  <2>4. CASE x >= 1
    <3>1. v >= base /\ x = v \div base /\ c = v % base
      BY <1>1, <1>7, <1>8, <1>10, <2>4
    <3>2. SubSeq(digits, z + 1, j + 1) = N[v]
      BY <1>3, <1>5, <2>1, <2>2, <2>3, <3>1
    <3> QED
      BY <2>2, <2>3, <3>2 DEF Spelled, N
  <2>5. CASE x = 0
    <3>1. v = c
      BY <1>7, <1>10, <2>5
    <3>2. j \in 0 .. (j + 1) - 1 /\ SubSeq(digits, j + 1, j + 1) = N[v]
      <4>1. <<d>> = N[v]
        BY <1>5, <3>1
      <4>2. SubSeq(digits, j + 1, j + 1) = N[v]
        BY <1>2, <4>1, Zenon
      <4>3. j \in 0 .. (j + 1) - 1
        OBVIOUS
      <4> QED
        BY <4>2, <4>3
    <3>3. N[0] = <<"0">> /\ Len(<<"0">>) = 1
      <4>1. "0" \in D
        BY DigitsOfBase DEF D
      <4> QED
        BY <1>6, <4>1
    <3>4. z = j - 1
      <4>1. j - z = 1
        BY <1>3, <2>2, <2>3, <2>5, <3>3
      <4> QED
        BY <4>1
    <3>5. digits[j] = "0"
      <4>1. z + 1 = j
        BY <3>4
      <4>2. <<digits[j]>> = N[0]
        BY <1>4, <2>2, <2>5, <4>1
      <4> QED
        BY <1>1, <1>6, <4>2
    <3>6. \A i \in 1 .. j : digits[i] = "0"
      <4>1. \A i \in 1 .. j : i = j \/ i \in 1 .. z
        BY <3>4
      <4> QED
        BY <2>2, <3>5, <4>1
    <3> QED
      BY <3>2, <3>6 DEF Spelled, N
  <2> QED
    BY <2>4, <2>5
<1> QED
  BY <1>9, <1>10 DEF c, d

(* What strtoul makes of digits is the number they are written as, and     *)
(* only what is all digits is written as a number.                         *)
LEMMA SpelledIsMagnitude ==
  ASSUME NEW base \in Base, NEW C, NEW digits \in Seq(C), NEW v \in 0 .. WordMax
  PROVE  LET n == Len(digits)
             all == n >= 1 /\ \A i \in 1 .. n : IsDigit(digits[i], base)
         IN /\ Spelled(digits, n, v, base) <=> all /\ Magnitude(digits, n, base) = v
            /\ all => Magnitude(digits, n, base) \in Nat
<1> DEFINE n == Len(digits)
           D == DigitsOf(base)
           all == n >= 1 /\ \A i \in 1 .. n : IsDigit(digits[i], base)
<1>1. n \in Nat /\ digits \in [1 .. n -> C] /\ DOMAIN digits = 1 .. n
  BY LenProperties
<1>2. CASE all
  <2>1. digits \in Seq(D)
    <3>1. \A i \in 1 .. n : digits[i] \in D
      BY <1>2, DigitsOfBase
    <3>2. [i \in 1 .. n |-> digits[i]] \in Seq(D)
      <4> HIDE DEF D, n
      <4> QED
        BY <1>1, <3>1, IsASeq
    <3> QED
      BY <1>1, <3>2
  <2>2. PICK V \in [0 .. n -> Nat] :
           /\ V[0] = 0
           /\ \A j \in 1 .. n : V[j] = base * V[j - 1] + DigitValue(digits[j])
           /\ Magnitude(digits, n, base) = V[n]
    <3>1. \E V : IsValue(V, digits, n, base)
      BY <1>1, <1>2, MagnitudeFacts
    <3> QED
      BY <3>1 DEF IsValue
  <2> DEFINE T == {j \in Nat : j + 1 <= n =>
                     \A u \in 0 .. WordMax : Spelled(digits, j + 1, u, base) <=> V[j + 1] = u}
  <2>3. 0 \in T
    <3> SUFFICES ASSUME NEW u \in 0 .. WordMax
                 PROVE  Spelled(digits, 1, u, base) <=> V[1] = u
      OBVIOUS
    <3>1. V[1] = base * 0 + DigitValue(digits[1])
      <4>1. 1 \in 1 .. n /\ V[1] = base * V[1 - 1] + DigitValue(digits[1])
        BY <1>2, <1>1, <2>2
      <4> QED
        BY <2>2, <4>1
    <3> QED
      BY <1>2, <2>1, <3>1, FirstSpelled
  <2>4. ASSUME NEW j \in Nat, j \in T PROVE j + 1 \in T
    <3> SUFFICES ASSUME (j + 1) + 1 <= n, NEW u \in 0 .. WordMax
                 PROVE  Spelled(digits, (j + 1) + 1, u, base) <=> V[(j + 1) + 1] = u
      OBVIOUS
    <3> DEFINE k == j + 1
    <3>1. k \in Nat /\ k >= 1 /\ k + 1 <= n /\ k \in 0 .. n /\ k + 1 \in 1 .. n /\ (k + 1) - 1 = k
      BY <1>1
    <3>2. \A w \in 0 .. WordMax : Spelled(digits, k, w, base) <=> V[k] = w
      BY <1>1, <2>4, <3>1
    <3> HIDE DEF k
    <3>3. V[k] \in Nat /\ V[k + 1] = base * V[k] + DigitValue(digits[k + 1])
      BY <2>2, <3>1
    <3>4. Spelled(digits, k + 1, u, base) <=> V[k + 1] = u
      BY <2>1, <3>1, <3>2, <3>3, NextSpelled
    <3> QED
      BY <3>4 DEF k
  <2>5. n - 1 \in T
    <3> HIDE DEF T
    <3>1. n - 1 \in Nat
      BY <1>1, <1>2
    <3> QED
      BY <2>3, <2>4, <3>1, SetInduction
  <2>6. Spelled(digits, n, v, base) <=> V[n] = v
    <3>1. (n - 1) + 1 = n /\ n <= n
      BY <1>1
    <3> QED
      BY <2>5, <3>1
  <2>7. V[n] \in Nat
    BY <1>1
  <2> QED
    BY <1>2, <2>2, <2>6, <2>7
<1>3. CASE ~all
  <2> SUFFICES ASSUME Spelled(digits, n, v, base) PROVE FALSE
    BY <1>3
  <2>1. PICK z \in 0 .. n - 1 : /\ \A i \in 1 .. z : digits[i] = "0"
                               /\ SubSeq(digits, z + 1, n) = Numeral(base)[v]
    BY DEF Spelled
  <2>2. n >= 1 /\ z \in Int
    BY <1>1
  <2>3. ASSUME NEW i \in 1 .. n PROVE digits[i] \in D
    <3>1. CASE i \in 1 .. z
      BY <2>1, <3>1, DigitsOfBase
    <3>2. CASE i \notin 1 .. z
      <4> DEFINE s == SubSeq(digits, z + 1, n)
      <4>1. \A h \in z + 1 .. n : digits[h] \in C
        BY <1>1
      <4>2. /\ Len(s) = n - z
            /\ \A h \in 1 .. n - z : s[h] = digits[z + h]
        <5>1. z + 1 \in Int /\ n \in Int /\ z + 1 <= n /\ n - (z + 1) + 1 = n - z
              /\ \A h \in 1 .. n - z : (z + 1) + h - 1 = z + h
          BY <1>1
        <5> QED
          BY <4>1, <5>1, SubSeqProperties
      <4>3. s \in Seq(D)
        BY <2>1, NumeralFacts DEF Word
      <4>4. i - z \in 1 .. n - z /\ z + (i - z) = i
        BY <1>1, <3>2
      <4> HIDE DEF s
      <4>5. s[i - z] \in D
        BY <4>2, <4>3, <4>4, ElementOfSeq
      <4> QED
        BY <4>2, <4>4, <4>5
    <3> QED
      BY <3>1, <3>2
  <2> QED
    BY <1>3, <2>2, <2>3, DigitsOfBase
<1> QED
  BY <1>2, <1>3

-----------------------------------------------------------------------------
(* Strtoul against Meaning.                                                *)
(* What follows the first k characters of a word.                          *)
After(word, k) == SubSeq(word, k + 1, Len(word))

LEMMA AfterFacts ==
  ASSUME NEW C, NEW word \in Seq(C), NEW k \in 0 .. Len(word)
  PROVE  /\ After(word, k) \in Seq(C) /\ Len(After(word, k)) = Len(word) - k
         /\ \A i \in 1 .. Len(word) - k : After(word, k)[i] = word[k + i]
<1>1. Len(word) \in Nat
  BY LenProperties
<1>2. \A i \in k + 1 .. Len(word) : word[i] \in C
  <2> SUFFICES ASSUME NEW i \in k + 1 .. Len(word) PROVE word[i] \in C
    OBVIOUS
  <2>1. i \in 1 .. Len(word)
    BY <1>1
  <2> QED
    BY <2>1, ElementOfSeq
<1>3. /\ k + 1 \in Int /\ Len(word) \in Int /\ Len(word) - (k + 1) + 1 = Len(word) - k
      /\ (~(k + 1 <= Len(word)) => Len(word) - k = 0)
      /\ \A i \in 1 .. Len(word) - k : (k + 1) + i - 1 = k + i
  BY <1>1
<1>4. /\ SubSeq(word, k + 1, Len(word)) \in Seq(C)
      /\ Len(SubSeq(word, k + 1, Len(word))) =
           IF k + 1 <= Len(word) THEN Len(word) - (k + 1) + 1 ELSE 0
      /\ \A i \in 1 .. Len(word) - (k + 1) + 1 :
           SubSeq(word, k + 1, Len(word))[i] = word[(k + 1) + i - 1]
  <2> DEFINE m == k + 1
             n == Len(word)
  <2>1. m \in Int /\ n \in Int /\ \A i \in m .. n : word[i] \in C
    BY <1>2, <1>3
  <2> HIDE DEF m, n
  <2>2. /\ SubSeq(word, m, n) \in Seq(C)
        /\ Len(SubSeq(word, m, n)) = IF m <= n THEN n - m + 1 ELSE 0
        /\ \A i \in 1 .. n - m + 1 : SubSeq(word, m, n)[i] = word[m + i - 1]
    BY <2>1, SubSeqProperties
  <2> QED
    BY <2>2 DEF m, n
<1> QED
  BY <1>3, <1>4 DEF After

LEMMA AfterAfter ==
  ASSUME NEW C, NEW word \in Seq(C), NEW k \in 0 .. Len(word), NEW h \in 0 .. Len(word) - k
  PROVE  After(After(word, k), h) = After(word, k + h)
<1> DEFINE s == After(word, k)
           t == After(s, h)
           u == After(word, k + h)
<1>1. Len(word) \in Nat /\ k + h \in 0 .. Len(word)
  BY LenProperties
<1>2. /\ s \in Seq(C) /\ Len(s) = Len(word) - k
      /\ \A i \in 1 .. Len(word) - k : s[i] = word[k + i]
  BY AfterFacts
<1> HIDE DEF s
<1>3. /\ t \in Seq(C) /\ Len(t) = Len(s) - h
      /\ \A i \in 1 .. Len(s) - h : t[i] = s[h + i]
  <2>1. h \in 0 .. Len(s)
    BY <1>2
  <2> QED
    BY <1>2, <2>1, AfterFacts
<1>4. /\ u \in Seq(C) /\ Len(u) = Len(word) - (k + h)
      /\ \A i \in 1 .. Len(word) - (k + h) : u[i] = word[(k + h) + i]
  BY <1>1, AfterFacts
<1> HIDE DEF t, u
<1>5. Len(t) = Len(u)
  BY <1>1, <1>2, <1>3, <1>4
<1>6. ASSUME NEW i \in 1 .. Len(t) PROVE t[i] = u[i]
  <2>1. /\ i \in 1 .. Len(s) - h /\ h + i \in 1 .. Len(word) - k
        /\ k + (h + i) = (k + h) + i /\ i \in 1 .. Len(word) - (k + h)
    BY <1>1, <1>2, <1>3
  <2> QED
    BY <1>2, <1>3, <1>4, <2>1
<1>7. t = u
  BY <1>3, <1>4, <1>5, <1>6, SeqEqual
<1> QED
  BY <1>7 DEF t, u, s

(* Max, of a set that has a greatest element.                              *)
LEMMA MaxIs ==
  ASSUME NEW S, NEW x \in S, S \subseteq Int, \A y \in S : y <= x
  PROVE  Max(S) = x
<1>1. \A z \in S : (\A y \in S : z >= y) <=> z = x
  <2> SUFFICES ASSUME NEW z \in S PROVE (\A y \in S : z >= y) <=> z = x
    OBVIOUS
  <2>1. z \in Int /\ x \in Int /\ z <= x
    OBVIOUS
  <2>2. (\A y \in S : z >= y) => z >= x
    OBVIOUS
  <2>3. ASSUME z = x, NEW y \in S PROVE z >= y
    BY <2>3
  <2> QED
    BY <2>1, <2>2, <2>3
<1> QED
  BY <1>1 DEF Max

(* How strtoul divides a word.                                             *)
Sign(word) == IF word[1] \in {"+", "-"} THEN 1 ELSE 0
MarkTaken(word, base) ==
  /\ base = 16
  /\ Len(word) >= Sign(word) + 3
  /\ word[Sign(word) + 1] = "0" /\ word[Sign(word) + 2] \in {"x", "X"}
  /\ IsDigit(word[Sign(word) + 3], 16)
DigitsStart(word, base) == Sign(word) + IF MarkTaken(word, base) THEN 2 ELSE 0
AllDigits(digits, base) ==
  Len(digits) >= 1 /\ \A i \in 1 .. Len(digits) : IsDigit(digits[i], base)

Number(word, base, magnitude) ==
  [value |-> CASE magnitude > WordMax -> WordMax
               [] magnitude <= WordMax /\ word[1] = "-" ->
                    (WordMax + 1 - magnitude) % (WordMax + 1)
               [] magnitude <= WordMax /\ word[1] # "-" -> magnitude,
   end |-> Len(word), erange |-> magnitude > WordMax]

(* strtoul uses a word to its end exactly when digits are all there is.    *)
LEMMA StrtoulWhole ==
  ASSUME NEW C, NEW word \in Word(C), NEW base \in Base
  PROVE  LET digits == After(word, DigitsStart(word, base))
             n == Strtoul(word, base)
         IN /\ DigitsStart(word, base) \in 0 .. Len(word)
            /\ AllDigits(digits, base) => n = Number(word, base, Magnitude(digits, Len(digits), base))
            /\ ~AllDigits(digits, base) => n.end # Len(word)
<1> DEFINE front == DigitsStart(word, base)
           digits == After(word, front)
           K == {n \in 1 .. Len(digits) : \A h \in 1 .. n : IsDigit(digits[h], base)}
           used == Max({0} \cup K)
           magnitude == Magnitude(digits, used, base)
           value == CASE magnitude > WordMax -> WordMax
                      [] magnitude <= WordMax /\ word[1] = "-" ->
                           (WordMax + 1 - magnitude) % (WordMax + 1)
                      [] magnitude <= WordMax /\ word[1] # "-" -> magnitude
<1>1. word \in Seq(C) /\ Len(word) \in Nat /\ Len(word) >= 1
  BY EmptySeq DEF Word
<1>2. front \in 0 .. Len(word)
  <2>1. Sign(word) \in {0, 1}
    BY DEF Sign
  <2>2. CASE MarkTaken(word, base)
    <3>1. Len(word) >= Sign(word) + 3 /\ front = Sign(word) + 2
      BY <2>2 DEF MarkTaken, DigitsStart
    <3> QED
      BY <1>1, <2>1, <3>1
  <2>3. CASE ~MarkTaken(word, base)
    <3>1. front = Sign(word) + 0
      BY <2>3 DEF DigitsStart
    <3> QED
      BY <1>1, <2>1, <3>1
  <2> QED
    BY <2>2, <2>3
<1>3. Strtoul(word, base) = IF used = 0 THEN [value |-> 0, end |-> 0, erange |-> FALSE]
                            ELSE [value |-> value, end |-> front + used, erange |-> magnitude > WordMax]
  BY DEF Strtoul, DigitsStart, MarkTaken, Sign, After
<1>4. Len(digits) = Len(word) - front /\ Len(digits) \in Nat
  <2> HIDE DEF front
  <2>1. Len(digits) = Len(word) - front
    BY <1>1, <1>2, AfterFacts
  <2> QED
    BY <1>1, <1>2, <2>1
<1> HIDE DEF digits, value, magnitude
<1>5. used \in {0} \cup K /\ \A n \in K : n <= used
  <2>1. CASE K = {}
    <3>1. {0} \cup K = {0}
      BY <2>1
    <3>2. Max({0}) = 0
      BY MaxIs
    <3> QED
      BY <2>1, <3>1, <3>2
  <2>2. CASE K # {}
    <3>1. K \subseteq 1 .. Len(digits)
      OBVIOUS
    <3> HIDE DEF K
    <3>2. PICK n \in K : \A h \in K : h <= n
      BY <1>4, <2>2, <3>1, Greatest
    <3>3. Max({0} \cup K) = n
      <4>1. n \in {0} \cup K /\ {0} \cup K \subseteq Int /\ \A h \in {0} \cup K : h <= n
        BY <1>4, <3>1, <3>2
      <4> QED
        BY <4>1, MaxIs
    <3> QED
      BY <3>2, <3>3
  <2> QED
    BY <2>1, <2>2
<1> HIDE DEF used
<1>6. CASE AllDigits(digits, base)
  <2>1. Len(digits) \in K
    BY <1>4, <1>6 DEF AllDigits
  <2>2. used = Len(digits) /\ used # 0
    <3>1. used <= Len(digits) /\ Len(digits) <= used /\ Len(digits) >= 1 /\ used \in Int
      BY <1>4, <1>5, <1>6, <2>1 DEF AllDigits
    <3> QED
      BY <1>4, <3>1
  <2>3. front + used = Len(word)
    <3> HIDE DEF front
    <3> QED
      BY <1>1, <1>2, <1>4, <2>2
  <2>4. Strtoul(word, base) = [value |-> value, end |-> Len(word), erange |-> magnitude > WordMax]
    BY <1>3, <2>2, <2>3
  <2>5. Strtoul(word, base) = Number(word, base, Magnitude(digits, Len(digits), base))
    BY <2>2, <2>4 DEF Number, value, magnitude
  <2> QED
    BY <1>2, <1>6, <2>5 DEF digits
<1>7. CASE ~AllDigits(digits, base)
  <2>1. used = 0 \/ used < Len(digits)
    <3>1. CASE used \in K
      <4>1. used # Len(digits) /\ used \in 1 .. Len(digits)
        BY <1>7, <3>1 DEF AllDigits
      <4> QED
        BY <1>4, <4>1
    <3> QED
      BY <1>5, <3>1
  <2>2. used \in Nat
    BY <1>4, <1>5
  <2>3. front + used < Len(word) \/ used = 0
    <3> HIDE DEF front
    <3> QED
      BY <1>1, <1>2, <1>4, <2>1, <2>2
  <2>4. Strtoul(word, base).end # Len(word)
    <3>1. CASE used = 0
      BY <1>1, <1>3, <3>1
    <3>2. CASE used # 0
      <4>1. Strtoul(word, base).end = front + used
        BY <1>3, <3>2
      <4>2. front + used < Len(word) /\ front + used \in Int
        BY <2>3, <2>2, <1>2, <3>2
      <4> HIDE DEF front
      <4> QED
        BY <1>1, <4>1, <4>2
    <3> QED
      BY <3>1, <3>2
  <2> QED
    BY <1>2, <1>7, <2>4 DEF digits
<1> QED
  BY <1>6, <1>7

-----------------------------------------------------------------------------
(* How the reference reads a word.                                         *)
Marked(word, marks) == \E mark \in marks : IsPrefix(mark, Unsigned(word))
BodyStart(word, marks) == Sign(word) + IF Marked(word, marks) THEN 2 ELSE 0
BaseOf(word, marks) == IF Marked(word, marks) THEN 16 ELSE 10

(* The word without its sign.                                              *)
LEMMA UnsignedIs ==
  ASSUME NEW C, NEW word \in Word(C)
  PROVE  /\ Unsigned(word) = After(word, Sign(word))
         /\ Sign(word) \in 0 .. Len(word) /\ Sign(word) \in {0, 1}
         /\ IsSigned(word) <=> Sign(word) = 1
<1>1. word \in Seq(C) /\ Len(word) \in Nat /\ Len(word) >= 1 /\ word # <<>>
  BY EmptySeq DEF Word
<1>2. CASE IsSigned(word)
  <2>1. Sign(word) = 1 /\ Unsigned(word) = Tail(word)
    BY <1>2 DEF IsSigned, Sign, Unsigned
  <2>2. Tail(word) = SubSeq(word, 1 + 1, Len(word))
    BY <1>1, TailIsSubSeq
  <2> QED
    BY <1>1, <1>2, <2>1, <2>2 DEF After
<1>3. CASE ~IsSigned(word)
  <2>1. Sign(word) = 0 /\ Unsigned(word) = word
    BY <1>3 DEF IsSigned, Sign, Unsigned
  <2>2. SubSeq(word, 0 + 1, Len(word)) = word
    BY <1>1, SubSeqFull
  <2> QED
    BY <1>1, <1>3, <2>1, <2>2 DEF After
<1> QED
  BY <1>2, <1>3

(* The reference gives a word of digits the value they have, and other     *)
(* words none.                                                             *)
LEMMA MeaningIs ==
  ASSUME NEW C, NEW word \in Word(C), NEW marks, BodyStart(word, marks) \in 0 .. Len(word)
  PROVE  LET digits == After(word, BodyStart(word, marks))
             base == BaseOf(word, marks)
             m == Magnitude(digits, Len(digits), base)
         IN /\ AllDigits(digits, base) => m \in Nat
            /\ AllDigits(digits, base) /\ m <= WordMax =>
                 Meaning(word, marks) = {IF word[1] = "-" THEN Negative(m) ELSE m}
            /\ ~(AllDigits(digits, base) /\ m <= WordMax) => Meaning(word, marks) = {}
<1> DEFINE sign == Sign(word)
           start == BodyStart(word, marks)
           digits == After(word, start)
           base == BaseOf(word, marks)
           m == Magnitude(digits, Len(digits), base)
           body == Unsigned(word)
           read == IF Marked(word, marks) THEN SubSeq(body, 3, Len(body)) ELSE body
           values == {v \in 0 .. WordMax : Spelled(read, Len(read), v, base)}
<1>1. word \in Seq(C) /\ Len(word) \in Nat /\ Len(word) >= 1 /\ word # <<>>
  BY EmptySeq DEF Word
<1>2. body = After(word, sign) /\ sign \in 0 .. Len(word)
  BY UnsignedIs
<1>3. read = digits
  <2>1. CASE Marked(word, marks)
    <3>1. start = sign + 2
      BY <2>1 DEF BodyStart
    <3> HIDE DEF sign, body, start
    <3>2. 2 \in 0 .. Len(word) - sign
      BY <1>1, <1>2, <3>1 DEF start
    <3>3. SubSeq(body, 3, Len(body)) = After(body, 2)
      BY DEF After
    <3>4. After(After(word, sign), 2) = After(word, sign + 2)
      BY <1>1, <1>2, <3>2, AfterAfter
    <3> QED
      BY <1>2, <2>1, <3>1, <3>3, <3>4 DEF start
  <2>2. CASE ~Marked(word, marks)
    <3>1. start = sign
      BY <1>1, <1>2, <2>2 DEF BodyStart
    <3> QED
      BY <1>2, <2>2, <3>1
  <2> QED
    BY <2>1, <2>2
<1>4. Meaning(word, marks) = IF word[1] = "-" THEN {Negative(v) : v \in values} ELSE values
  BY DEF Meaning, Spelled, Decimal, Hexadecimal, Marked, BaseOf
<1>5. digits \in Seq(C) /\ base \in Base
  <2>1. base \in Base
    BY DEF BaseOf, Base
  <2>2. digits \in Seq(C)
    <3> HIDE DEF start
    <3> QED
      BY <1>1, AfterFacts DEF start
  <2> QED
    BY <2>1, <2>2
<1> HIDE DEF read, digits, base
<1>6. /\ \A v \in 0 .. WordMax : Spelled(digits, Len(digits), v, base) <=>
           AllDigits(digits, base) /\ m = v
      /\ AllDigits(digits, base) => m \in Nat
  <2> SUFFICES /\ \A v \in 0 .. WordMax : Spelled(digits, Len(digits), v, base) <=>
                    AllDigits(digits, base) /\ m = v
               /\ 0 \in 0 .. WordMax
               /\ \A v \in 0 .. WordMax : AllDigits(digits, base) => m \in Nat
    OBVIOUS
  <2>1. 0 \in 0 .. WordMax
    BY QuerySizeAssumption
  <2> QED
    BY <1>5, <2>1, SpelledIsMagnitude DEF AllDigits
<1>7. values = IF AllDigits(digits, base) /\ m <= WordMax THEN {m} ELSE {}
  <2>1. AllDigits(digits, base) /\ m <= WordMax => m \in 0 .. WordMax
    BY <1>6, QuerySizeAssumption
  <2>2. \A v \in 0 .. WordMax : v <= WordMax
    BY QuerySizeAssumption
  <2> HIDE DEF m
  <2> QED
    BY <1>3, <1>6, <2>1, <2>2
<1> HIDE DEF m, values
<1>8. /\ AllDigits(digits, base) /\ m <= WordMax =>
           Meaning(word, marks) = {IF word[1] = "-" THEN Negative(m) ELSE m}
      /\ ~(AllDigits(digits, base) /\ m <= WordMax) => Meaning(word, marks) = {}
  BY <1>4, <1>7
<1> QED
  BY <1>6, <1>8 DEF digits, base, m

-----------------------------------------------------------------------------
(* An x is no digit.                                                       *)
LEMMA NotAllDigits ==
  ASSUME NEW C, NEW word \in Word(C), NEW base \in Base, NEW k \in 0 .. Len(word),
         NEW i \in k + 1 .. Len(word), word[i] \in {"x", "X"}
  PROVE  ~AllDigits(After(word, k), base)
<1>1. word \in Seq(C) /\ Len(word) \in Nat
  BY LenProperties DEF Word
<1>2. /\ Len(After(word, k)) = Len(word) - k
      /\ \A h \in 1 .. Len(word) - k : After(word, k)[h] = word[k + h]
  BY <1>1, AfterFacts
<1>3. i - k \in 1 .. Len(word) - k /\ k + (i - k) = i
  BY <1>1
<1>4. ~IsDigit(word[i], base)
  <2>1. \A d \in 1 .. base : d \in 1 .. 16
    BY DEF Base
  <2> QED
    BY <2>1, DigitsAre DEF IsDigit
<1>5. After(word, k)[i - k] = word[i]
  BY <1>2, <1>3
<1> QED
  BY <1>2, <1>3, <1>4, <1>5 DEF AllDigits

(* A word is read alike when its mark is seen by both, and when a mark     *)
(* that only the base shows leaves an x among the digits.                  *)
SeesMark(word, marks, base) ==
  IF Marked(word, marks)
  THEN /\ base = 16
       /\ Len(word) >= Sign(word) + 2
       /\ word[Sign(word) + 1] = "0" /\ word[Sign(word) + 2] \in {"x", "X"}
  ELSE base = 16 => \E i \in Sign(word) + 3 .. Len(word) : word[i] = "x"

LEMMA ReadAlike ==
  ASSUME NEW C, NEW word \in Word(C), NEW base \in Base, NEW marks,
         SeesMark(word, marks, base)
  PROVE  LET n == Strtoul(word, base)
         IN /\ n.end = Len(word) /\ ~n.erange =>
                 n.value \in 0 .. WordMax /\ Meaning(word, marks) = {n.value}
            /\ ~(n.end = Len(word) /\ ~n.erange) => Meaning(word, marks) = {}
            /\ n.end = Len(word) /\ n.erange => n.value = WordMax
<1> DEFINE front == DigitsStart(word, base)
           start == BodyStart(word, marks)
           n == Strtoul(word, base)
           used == After(word, front)
           read == After(word, start)
           m == Magnitude(read, Len(read), BaseOf(word, marks))
<1>1. word \in Seq(C) /\ Len(word) \in Nat /\ Len(word) >= 1 /\ Sign(word) \in {0, 1}
  BY EmptySeq DEF Word, Sign
<1>2. /\ front \in 0 .. Len(word)
      /\ AllDigits(used, base) => n = Number(word, base, Magnitude(used, Len(used), base))
      /\ ~AllDigits(used, base) => n.end # Len(word)
  BY StrtoulWhole
<1>3. start \in 0 .. Len(word)
  <2>1. CASE Marked(word, marks)
    BY <1>1, <2>1 DEF SeesMark, BodyStart
  <2>2. CASE ~Marked(word, marks)
    <3>1. start = Sign(word) + 0
      BY <2>2 DEF BodyStart
    <3> QED
      BY <1>1, <3>1
  <2> QED
    BY <2>1, <2>2
<1>4. /\ AllDigits(read, BaseOf(word, marks)) => m \in Nat
      /\ AllDigits(read, BaseOf(word, marks)) /\ m <= WordMax =>
           Meaning(word, marks) = {IF word[1] = "-" THEN Negative(m) ELSE m}
      /\ ~(AllDigits(read, BaseOf(word, marks)) /\ m <= WordMax) => Meaning(word, marks) = {}
  BY <1>3, MeaningIs
<1>5. ASSUME ~AllDigits(used, base), ~AllDigits(read, BaseOf(word, marks))
      PROVE  n.end # Len(word) /\ Meaning(word, marks) = {}
  BY <1>2, <1>4, <1>5
<1>6. ASSUME front = start, base = BaseOf(word, marks), AllDigits(used, base)
      PROVE  /\ n.end = Len(word) /\ ~n.erange =>
                  n.value \in 0 .. WordMax /\ Meaning(word, marks) = {n.value}
             /\ ~(n.end = Len(word) /\ ~n.erange) => Meaning(word, marks) = {}
             /\ n.end = Len(word) /\ n.erange => n.value = WordMax
  <2>1. n = Number(word, base, m) /\ AllDigits(read, BaseOf(word, marks)) /\ m \in Nat
    BY <1>2, <1>4, <1>6
  <2> HIDE DEF n, m, front, start, used, read
  <2>2. n.end = Len(word) /\ (n.erange <=> m > WordMax)
    BY <2>1 DEF Number
  <2>3. WordMax \in Nat
    BY QuerySizeAssumption
  <2>4. CASE m > WordMax
    <3>1. n.value = WordMax /\ ~(m <= WordMax)
      BY <2>1, <2>3, <2>4 DEF Number
    <3> QED
      BY <1>4, <2>2, <2>4, <3>1
  <2>5. CASE m <= WordMax /\ word[1] = "-"
    <3>1. n.value = Negative(m)
      BY <2>1, <2>3, <2>5 DEF Number, Negative
    <3>2. Negative(m) \in 0 .. WordMax
      <4> DEFINE W == WordMax + 1
                 a == W - m
      <4>1. W \in Nat \ {0} /\ a \in Int /\ W - 1 = WordMax
        BY <2>1, <2>3, <2>5
      <4>2. Negative(m) = a % W
        <5>1. (WordMax + 1 - m) = a
          BY <2>1, <2>3
        <5> QED
          BY <5>1, Zenon DEF Negative
      <4> HIDE DEF W, a
      <4>3. a % W \in 0 .. W - 1
        BY <4>1
      <4> QED
        BY <4>1, <4>2, <4>3
    <3> QED
      BY <1>4, <2>1, <2>2, <2>3, <2>5, <3>1, <3>2
  <2>6. CASE m <= WordMax /\ word[1] # "-"
    <3>1. n.value = m
      BY <2>1, <2>3, <2>6 DEF Number
    <3>2. m \in 0 .. WordMax
      BY <2>1, <2>3, <2>6
    <3> QED
      BY <1>4, <2>1, <2>2, <2>3, <2>6, <3>1, <3>2
  <2> QED
    BY <2>1, <2>3, <2>4, <2>5, <2>6
<1>7. ASSUME front = start, base = BaseOf(word, marks), ~AllDigits(used, base)
      PROVE  ~AllDigits(read, BaseOf(word, marks))
  BY <1>7
<1>8. CASE Marked(word, marks)
  <2>1. /\ base = 16 /\ BaseOf(word, marks) = 16 /\ start = Sign(word) + 2
        /\ Len(word) >= Sign(word) + 2
        /\ word[Sign(word) + 1] = "0" /\ word[Sign(word) + 2] \in {"x", "X"}
    BY <1>8 DEF SeesMark, BaseOf, BodyStart
  <2>2. CASE MarkTaken(word, base)
    <3>1. front = start
      BY <2>1, <2>2 DEF DigitsStart
    <3> QED
      BY <1>5, <1>6, <1>7, <2>1, <3>1
  <2>3. CASE ~MarkTaken(word, base)
    <3>1. front = Sign(word)
      BY <1>1, <2>3 DEF DigitsStart
    <3>2. ~AllDigits(used, base)
      <4>1. Sign(word) + 2 \in front + 1 .. Len(word) /\ front \in 0 .. Len(word)
        BY <1>1, <2>1, <3>1
      <4> HIDE DEF front
      <4> QED
        BY <2>1, <4>1, NotAllDigits
    <3>3. ~AllDigits(read, BaseOf(word, marks))
      <4>1. CASE Len(word) = Sign(word) + 2
        <5>1. Len(read) = Len(word) - start
          <6> HIDE DEF start
          <6> QED
            BY <1>1, <1>3, AfterFacts
        <5>2. Len(read) = 0
          BY <1>1, <2>1, <4>1, <5>1
        <5> QED
          BY <5>2 DEF AllDigits
      <4>2. CASE Len(word) >= Sign(word) + 3
        <5>1. ~IsDigit(word[Sign(word) + 3], 16)
          BY <2>1, <2>3, <4>2 DEF MarkTaken
        <5>2. read[1] = word[Sign(word) + 3] /\ 1 \in 1 .. Len(read)
          <6>1. start + 1 = Sign(word) + 3 /\ 1 \in 1 .. Len(word) - start
            BY <1>1, <2>1, <4>2
          <6> HIDE DEF start
          <6>2. Len(read) = Len(word) - start /\ read[1] = word[start + 1]
            BY <1>1, <1>3, <6>1, AfterFacts
          <6> QED
            BY <6>1, <6>2
        <5> QED
          BY <2>1, <5>1, <5>2 DEF AllDigits
      <4> QED
        BY <1>1, <2>1, <4>1, <4>2
    <3> QED
      BY <1>5, <3>2, <3>3
  <2> QED
    BY <2>2, <2>3
<1>9. CASE ~Marked(word, marks) /\ base = 10
  <2>1. front = start /\ base = BaseOf(word, marks)
    BY <1>1, <1>9 DEF DigitsStart, MarkTaken, BodyStart, BaseOf
  <2> QED
    BY <1>5, <1>6, <1>7, <2>1
<1>10. CASE ~Marked(word, marks) /\ base = 16
  <2>1. PICK i \in Sign(word) + 3 .. Len(word) : word[i] = "x"
    BY <1>10 DEF SeesMark
  <2>2. start = Sign(word)
    BY <1>1, <1>10 DEF BodyStart
  <2>3. front \in {Sign(word), Sign(word) + 2}
    BY <1>1 DEF DigitsStart
  <2>4. i \in front + 1 .. Len(word) /\ i \in start + 1 .. Len(word)
    BY <1>1, <2>2, <2>3
  <2>5. BaseOf(word, marks) \in Base
    BY DEF BaseOf, Base
  <2>6. ~AllDigits(used, base) /\ ~AllDigits(read, BaseOf(word, marks))
    <3> HIDE DEF front, start
    <3> QED
      BY <1>2, <1>3, <2>1, <2>4, <2>5, NotAllDigits
  <2> QED
    BY <1>5, <2>6
<1> QED
  BY <1>8, <1>9, <1>10 DEF Base

-----------------------------------------------------------------------------
(* A mark at the front, by its characters.                                 *)
LEMMA StartsWith ==
  ASSUME NEW C, NEW word \in Word(C), NEW c
  PROVE  IsPrefix(<<"0", c>>, Unsigned(word)) <=>
           /\ Len(word) >= Sign(word) + 2
           /\ word[Sign(word) + 1] = "0" /\ word[Sign(word) + 2] = c
<1> DEFINE body == After(word, Sign(word))
           k == Sign(word)
<1>1. word \in Seq(C) /\ Len(word) \in Nat
  BY LenProperties DEF Word
<1>2. Unsigned(word) = body /\ k \in 0 .. Len(word)
  BY UnsignedIs
<1> HIDE DEF k
<1>3. /\ After(word, k) \in Seq(C) /\ Len(After(word, k)) = Len(word) - k
      /\ \A i \in 1 .. Len(word) - k : After(word, k)[i] = word[k + i]
  BY <1>1, <1>2, AfterFacts
<1>4. body = After(word, k)
  BY DEF k
<1> HIDE DEF body
<1>5. Len(<<"0", c>>) = 2 /\ SubSeq(<<"0", c>>, 1, 2) = <<"0", c>>
  <2>1. <<"0", c>> \in Seq({"0", c}) /\ Len(<<"0", c>>) = 2
    OBVIOUS
  <2> DEFINE u == <<"0", c>>
  <2> HIDE DEF u
  <2>2. SubSeq(u, 1, Len(u)) = u
    BY <2>1, SubSeqFull DEF u
  <2> QED
    BY <2>1, <2>2 DEF u
<1>6. IsPrefix(<<"0", c>>, body) <=> 2 <= Len(body) /\ <<"0", c>> = SubSeq(body, 1, 2)
  BY <1>5 DEF IsPrefix
<1>7. ASSUME 2 <= Len(body)
      PROVE  <<"0", c>> = SubSeq(body, 1, 2) <=> body[1] = "0" /\ body[2] = c
  <2>1. \A i \in 1 .. 2 : body[i] \in C
    <3>1. \A i \in 1 .. 2 : i \in 1 .. Len(body)
      BY <1>1, <1>2, <1>3, <1>4, <1>7
    <3> QED
      BY <1>3, <1>4, <3>1, ElementOfSeq
  <2> DEFINE t == SubSeq(body, 1, 2)
             u == <<"0", c>>
  <2>2. t \in Seq(C) /\ Len(t) = 2 /\ \A i \in 1 .. 2 - 1 + 1 : t[i] = body[1 + i - 1]
    <3>1. 1 \in Int /\ 2 \in Int /\ 1 <= 2 /\ 2 - 1 + 1 = 2
      OBVIOUS
    <3> QED
      BY <2>1, <3>1, SubSeqProperties
  <2>3. t[1] = body[1] /\ t[2] = body[2]
    BY <2>2
  <2>4. t = u <=> t[1] = "0" /\ t[2] = c
    <3> HIDE DEF t
    <3>1. u \in Seq({"0", c}) /\ Len(u) = 2 /\ u[1] = "0" /\ u[2] = c
      OBVIOUS
    <3> HIDE DEF u
    <3>2. ASSUME t[1] = "0", t[2] = c PROVE t = u
      <4>1. \A i \in 1 .. Len(t) : t[i] = u[i]
        BY <2>2, <3>1, <3>2
      <4>2. t \in Seq(C \cup {"0", c}) /\ u \in Seq(C \cup {"0", c})
        BY <2>2, <3>1
      <4> QED
        BY <2>2, <3>1, <4>1, <4>2, SeqEqual
    <3> QED
      BY <3>1, <3>2
  <2> QED
    BY <2>3, <2>4
<1>8. 2 <= Len(body) => body[1] = word[k + 1] /\ body[2] = word[k + 2]
  BY <1>1, <1>2, <1>3, <1>4
<1>9. 2 <= Len(body) <=> Len(word) >= k + 2
  BY <1>1, <1>2, <1>3, <1>4
<1> QED
  BY <1>2, <1>6, <1>7, <1>8, <1>9 DEF k

(* strstr finds "0x" in a field, if not behind the sign then behind it.    *)
LEMMA FieldSeesMark ==
  ASSUME NEW C, NEW word \in Word(C)
  PROVE  SeesMark(word, Lowercase, IF HasHexMark(word) THEN 16 ELSE 10)
<1> DEFINE k == Sign(word)
<1>1. word \in Seq(C) /\ Len(word) \in Nat /\ k \in {0, 1} /\ (k = 1 => word[1] \in {"+", "-"})
  BY LenProperties DEF Word, Sign
<1>2. Marked(word, Lowercase) <=> Len(word) >= k + 2 /\ word[k + 1] = "0" /\ word[k + 2] = "x"
  BY StartsWith DEF Marked, Lowercase
<1> HIDE DEF k
<1>3. CASE Marked(word, Lowercase)
  <2>1. k + 1 \in 1 .. Len(word) - 1 /\ (k + 1) + 1 = k + 2
    BY <1>1, <1>2, <1>3
  <2>2. HasHexMark(word)
    BY <1>2, <1>3, <2>1 DEF HasHexMark
  <2> QED
    BY <1>2, <1>3, <2>2 DEF SeesMark, k
<1>4. CASE ~Marked(word, Lowercase) /\ HasHexMark(word)
  <2>1. PICK j \in 1 .. Len(word) - 1 : word[j] = "0" /\ word[j + 1] = "x"
    BY <1>4 DEF HasHexMark
  <2>2. j # k + 1
    <3> SUFFICES ASSUME j = k + 1 PROVE FALSE
      OBVIOUS
    <3>1. Len(word) >= k + 2 /\ j + 1 = k + 2
      BY <1>1
    <3> QED
      BY <1>2, <1>4, <2>1, <3>1
  <2>3. j # 1 \/ k = 0
    BY <1>1, <2>1
  <2>4. j + 1 \in k + 3 .. Len(word)
    BY <1>1, <2>2, <2>3
  <2> QED
    BY <1>4, <2>1, <2>4 DEF SeesMark, k
<1>5. CASE ~Marked(word, Lowercase) /\ ~HasHexMark(word)
  BY <1>5 DEF SeesMark
<1> QED
  BY <1>3, <1>4, <1>5

ByteBase(token) ==
  IF Len(token) >= 2 /\ token[1] = "0" /\ token[2] \in {"x", "X"} THEN 16 ELSE 10
ByteMarks(token) == IF IsSigned(token) THEN {} ELSE EitherCase

(* ut_kvp_getDataBytes looks for a mark at the front of a token without a  *)
(* sign.                                                                   *)
LEMMA ByteSeesMark ==
  ASSUME NEW C, NEW token \in Word(C)
  PROVE  SeesMark(token, ByteMarks(token), ByteBase(token))
<1>1. CASE IsSigned(token)
  <2>1. token[1] # "0"
    BY <1>1 DEF IsSigned
  <2>2. ~Marked(token, ByteMarks(token)) /\ ByteBase(token) = 10
    BY <1>1, <2>1 DEF Marked, ByteMarks, ByteBase
  <2> QED
    BY <2>2 DEF SeesMark
<1>2. CASE ~IsSigned(token)
  <2>1. Sign(token) = 0
    BY <1>2 DEF IsSigned, Sign
  <2>2. \A c : IsPrefix(<<"0", c>>, Unsigned(token)) <=>
                 Len(token) >= 2 /\ token[1] = "0" /\ token[2] = c
    <3> SUFFICES ASSUME NEW c
                 PROVE  IsPrefix(<<"0", c>>, Unsigned(token)) <=>
                          Len(token) >= 2 /\ token[1] = "0" /\ token[2] = c
      OBVIOUS
    <3>1. Sign(token) + 1 = 1 /\ Sign(token) + 2 = 2
      BY <2>1
    <3> QED
      BY <3>1, StartsWith
  <2>3. Marked(token, ByteMarks(token)) <=>
          Len(token) >= 2 /\ token[1] = "0" /\ token[2] \in {"x", "X"}
    BY <1>2, <2>2 DEF Marked, ByteMarks, EitherCase
  <2>4. CASE Marked(token, ByteMarks(token))
    BY <2>1, <2>3, <2>4 DEF SeesMark, ByteBase
  <2>5. CASE ~Marked(token, ByteMarks(token))
    <3>1. ByteBase(token) = 10
      BY <2>3, <2>5 DEF ByteBase
    <3> QED
      BY <2>5, <3>1 DEF SeesMark
  <2> QED
    BY <2>4, <2>5
<1> QED
  BY <1>1, <1>2

-----------------------------------------------------------------------------
(* The document an instance holds.                                         *)
NoneWhenClosed == ~fy_handle.exists => fy_handle.root = NoNode

LEMMA NoneInit == Init => NoneWhenClosed
BY DEF Init, NoneWhenClosed, NoDocument

(* Only an opened profile makes the document exist.                        *)
LEMMA NoneNext == Inv /\ NoneWhenClosed /\ [Next]_vars => NoneWhenClosed'
<1> SUFFICES ASSUME Inv, NoneWhenClosed, [Next]_vars PROVE NoneWhenClosed'
  OBVIOUS
<1>1. \/ fy_handle' \in {fy_handle, NoDocument}
      \/ \E p \in Profile : profiles' = Append(profiles, p)
  <2>1. ASSUME NEW how \in {"file", "memory"}, NEW doc, NEW src \in Source,
               Opened(how, doc, src, TRUE)
        PROVE  \E p \in Profile : profiles' = Append(profiles, p)
    <3>1. [how |-> how, root |-> src.copy] \in Profile
      BY DEF Profile
    <3> QED
      BY <2>1, <3>1 DEF Opened
  <2>2. CASE ut_kvp_open
    BY <2>1, <2>2 DEF ut_kvp_open, OpenRefused, OpenFails, OpenSucceeds, Refused, Fails, Closes
  <2>3. CASE ut_kvp_openMemory
    BY <2>1, <2>3 DEF ut_kvp_openMemory, OpenMemoryRefused, OpenMemoryUnresolved,
           OpenMemoryNoDocument, OpenMemoryFails, OpenMemorySucceeds, Refused, Fails, Closes
  <2>4. CASE ut_kvp_createInstance \/ ut_kvp_close \/ ut_kvp_destroyInstance \/ UNCHANGED vars
    BY <2>4 DEF ut_kvp_createInstance, ut_kvp_close, ut_kvp_destroyInstance, Closes, vars
  <2> QED
    BY <2>2, <2>3, <2>4 DEF Next
<1>2. CASE fy_handle' \in {fy_handle, NoDocument}
  BY <1>2 DEF NoneWhenClosed, NoDocument
<1>3. CASE \E p \in Profile : profiles' = Append(profiles, p)
  <2>1. PICK p \in Profile : profiles' = Append(profiles, p)
    BY <1>3
  <2>2. profiles \in Seq(Profile) /\ Len(profiles) \in Nat
    BY LenProperties DEF Inv, TypeOK
  <2>3. Len(profiles') = Len(profiles) + 1 /\ profiles' \in Seq(Profile)
    BY <2>1, <2>2, AppendProperties
  <2>4. profiles' # <<>>
    BY <2>2, <2>3, EmptySeq
  <2>5. TypeOK'
    BY InvNext DEF Inv
  <2> QED
    BY <2>4, <2>5 DEF TypeOK, NoneWhenClosed
<1> QED
  BY <1>1, <1>2, <1>3

(* A node of a source, or mappings that have such nodes laid over each     *)
(* other.                                                                  *)
LEMMA DocumentIs == Inv /\ NoneWhenClosed => IsDocument(fy_handle.root)
<1> SUFFICES ASSUME Inv, NoneWhenClosed PROVE IsDocument(fy_handle.root)
  OBVIOUS
<1> DEFINE C == Current
           root == fy_handle.root
<1>1. CASE ~fy_handle.exists
  BY <1>1 DEF NoneWhenClosed, IsDocument
<1>2. CASE fy_handle.exists
  <2>1. C \in Seq(Profile) /\ C # <<>> /\ Len(C) \in Nat /\ DOMAIN C = 1 .. Len(C)
    <3>1. C \in Seq(Profile) /\ C # <<>>
      BY <1>2, CurrentIs, CurrentType DEF Inv, TypeOK
    <3> QED
      BY <3>1, LenProperties
  <2>2. IsLayered(root, C)
    BY DEF Inv, Layered
  <2> HIDE DEF C, root
  <2>3. ASSUME NEW j \in DOMAIN C PROVE C[j].root \in Content \cup {NoNode}
    <3>1. C[j] \in Profile
      BY <2>1, ElementOfSeq
    <3> QED
      BY <3>1, ContentAssumption DEF Profile
  <2>4. 1 \in DOMAIN C
    BY <2>1, EmptySeq
  <2>5. CASE ~IsMapping(C[1].root)
    BY <2>1, <2>2, <2>3, <2>4, <2>5 DEF IsLayered, IsDocument, root
  <2>6. CASE IsMapping(C[1].root)
    <3>1. /\ IsMapping(root)
          /\ \A k : Having(C, k) = {} => ~HasKey(root, k)
          /\ \A k : \A j \in Having(C, k) :
               (\A h \in Having(C, k) : h <= j) => Lookup(root, k) = Lookup(C[j].root, k)
      BY <2>1, <2>2, <2>6 DEF IsLayered
    <3>2. ASSUME NEW k PROVE Lookup(root, k) \in Content \cup {NoNode}
      <4>1. CASE Having(C, k) = {}
        BY <3>1, <4>1 DEF Lookup
      <4>2. CASE Having(C, k) # {}
        <5>1. Having(C, k) \subseteq 1 .. Len(C)
          BY <2>1 DEF Having
        <5>2. PICK j \in Having(C, k) : \A h \in Having(C, k) : h <= j
          BY <2>1, <4>2, <5>1, Greatest
        <5>3. /\ C[j].root \in Content \cup {NoNode}
              /\ IsMapping(C[j].root) /\ HasKey(C[j].root, k)
          BY <2>3, <5>2 DEF Having
        <5>4. C[j].root \in Content
          BY <5>3 DEF IsMapping, NoNode
        <5>5. Lookup(C[j].root, k) \in Content
          BY <5>3, <5>4, ContentAssumption DEF Lookup, HasKey
        <5> QED
          BY <3>1, <5>2, <5>5
      <4> QED
        BY <4>1, <4>2
    <3> QED
      BY <3>1, <3>2 DEF IsDocument, root
  <2> QED
    BY <2>5, <2>6
<1> QED
  BY <1>1, <1>2

(* No path leads anywhere in a document that is not there.                 *)
LEMMA NothingLeads ==
  ASSUME NEW S, NEW path \in Seq(S)
  PROVE  NodeByPath(NoNode, path) = NoNode
<1>1. IsDocument(NoNode) /\ Len(path) \in Nat
  BY LenProperties DEF IsDocument
<1>2. PICK f : IsPath(f, NoNode, path) /\ NodeByPath(NoNode, path) = f[Len(path)]
  BY <1>1, PathLeads
<1> DEFINE T == {j \in Nat : j <= Len(path) => f[j] = NoNode}
<1>3. 0 \in T
  BY <1>1, <1>2 DEF IsPath
<1>4. ASSUME NEW j \in Nat, j \in T PROVE j + 1 \in T
  <2> SUFFICES ASSUME j + 1 <= Len(path) PROVE f[j + 1] = NoNode
    OBVIOUS
  <2>1. f[j] = NoNode /\ j + 1 # 0 /\ (j + 1) - 1 = j /\ j + 1 \in 0 .. Len(path)
    BY <1>1, <1>4
  <2>2. \A name : StepInto(NoNode, name) = NoNode
    BY DEF StepInto, NoNode
  <2> QED
    BY <1>2, <2>1, <2>2 DEF IsPath
<1> HIDE DEF T
<1>5. Len(path) \in T
  BY <1>1, <1>3, <1>4, SetInduction
<1> QED
  BY <1>1, <1>2, <1>5 DEF T

(* What a key that fits leads to.                                          *)
LEMMA KeyLeads ==
  ASSUME Inv, NoneWhenClosed, NEW key \in FittingKeys
  PROVE  /\ key \in Seq(Range(key)) /\ Len(key) \in Nat
         /\ NodeOf(fy_handle, key) = Node(key)
         /\ ~fy_handle.exists => Node(key) = NoNode
         /\ Node(key) \in Content \cup {NoNode, fy_handle.root}
         /\ IsScalar(Node(key)) =>
              /\ Node(key) \in Content /\ fy_handle.exists
              /\ Node(key).value \in Seq(Range(Node(key).value))
<1>1. /\ key \in QueryKey /\ Len(key) < MaxElementSize
      /\ key \in Seq(Range(key)) /\ Len(key) \in Nat /\ ~HasDot(key)
  BY QueryKeyAssumption, LenProperties DEF FittingKeys
<1>2. IsDocument(fy_handle.root)
  BY DocumentIs
<1>3. NodeOf(fy_handle, key) = Node(key)
  <2>1. ConvertDotToSlash(key) = key
    BY <1>1, Unconverted
  <2> QED
    BY <2>1 DEF NodeOf, Node
<1>4. ~fy_handle.exists => Node(key) = NoNode
  BY <1>1, NothingLeads DEF NoneWhenClosed, Node
<1>5. Node(key) \in Content \cup {NoNode, fy_handle.root}
  BY <1>1, <1>2, PathLeads DEF Node
<1>6. ASSUME IsScalar(Node(key)) PROVE Node(key) \in Content
  BY <1>2, <1>5, <1>6 DEF IsDocument, IsScalar, IsMapping, NoNode
<1>7. ASSUME IsScalar(Node(key)) PROVE fy_handle.exists
  BY <1>4, <1>7 DEF IsScalar, NoNode
<1> QED
  BY <1>1, <1>3, <1>4, <1>5, <1>6, <1>7, ContentAssumption

-----------------------------------------------------------------------------
(* Numbers.                                                                *)
LEMMA FieldIs ==
  ASSUME Inv, NoneWhenClosed, NEW key \in ScalarKeys
  PROVE  LET words == Words(Node(key).value, {" "})
         IN /\ words \in Seq(Word(Range(Node(key).value)))
            /\ words = <<>> => ut_kvp_getField(fy_handle, key).status # "SUCCESS"
            /\ words # <<>> =>
                 /\ Fits(words[1]) => ut_kvp_getField(fy_handle, key) = Success(words[1])
                 /\ words[1] \in Word(Range(Node(key).value))
<1> DEFINE words == Words(Node(key).value, {" "})
<1>1. key \in FittingKeys /\ IsScalar(Node(key))
  BY DEF ScalarKeys
<1>2. /\ NodeOf(fy_handle, key) = Node(key) /\ fy_handle.exists
      /\ Node(key).value \in Seq(Range(Node(key).value))
  BY <1>1, KeyLeads
<1>3. words \in Seq(Word(Range(Node(key).value)))
  BY <1>2, WordsType
<1>4. /\ words = <<>> => ut_kvp_getField(fy_handle, key) = Failure("PARSING_ERROR")
      /\ words # <<>> => (Fits(words[1]) => ut_kvp_getField(fy_handle, key) = Success(words[1]))
  BY <1>1, <1>2 DEF ut_kvp_getField
<1>5. words # <<>> => words[1] \in Word(Range(Node(key).value))
  <2> HIDE DEF words
  <2> SUFFICES ASSUME words # <<>> PROVE words[1] \in Word(Range(Node(key).value))
    OBVIOUS
  <2>1. 1 \in 1 .. Len(words)
    BY <1>3, EmptySeq, LenProperties
  <2> QED
    BY <1>3, <2>1, ElementOfSeq
<1>6. words = <<>> => ut_kvp_getField(fy_handle, key).status # "SUCCESS"
  <2>1. Failure("PARSING_ERROR").status = "PARSING_ERROR"
    BY DEF Failure
  <2> HIDE DEF words
  <2> QED
    BY <1>4, <2>1
<1> HIDE DEF words
<1>7. /\ words \in Seq(Word(Range(Node(key).value)))
      /\ words = <<>> => ut_kvp_getField(fy_handle, key).status # "SUCCESS"
      /\ words # <<>> =>
           /\ Fits(words[1]) => ut_kvp_getField(fy_handle, key) = Success(words[1])
           /\ words[1] \in Word(Range(Node(key).value))
  BY <1>3, <1>4, <1>5, <1>6
<1> QED
  BY <1>7 DEF words

(* What getUIntField makes of a word.                                      *)
LEMMA NumberIsExact ==
  ASSUME NEW C, NEW word \in Word(C), NEW max \in Nat
  PROVE  LET n == Strtoul(word, IF HasHexMark(word) THEN 16 ELSE 10)
             r == IF IsWholeNumber(word, n) /\ n.value <= max THEN n.value ELSE 0
         IN Meaning(word, Lowercase) \cap 1 .. max = {r} \ {0}
<1> DEFINE base == IF HasHexMark(word) THEN 16 ELSE 10
           n == Strtoul(word, base)
           r == IF IsWholeNumber(word, n) /\ n.value <= max THEN n.value ELSE 0
<1>1. base \in Base /\ SeesMark(word, Lowercase, base)
  BY FieldSeesMark DEF Base
<1> HIDE DEF base
<1>2. /\ n.end = Len(word) /\ ~n.erange =>
           n.value \in 0 .. WordMax /\ Meaning(word, Lowercase) = {n.value}
      /\ ~(n.end = Len(word) /\ ~n.erange) => Meaning(word, Lowercase) = {}
  BY <1>1, ReadAlike
<1> HIDE DEF n
<1>3. ASSUME IsWholeNumber(word, n) PROVE Meaning(word, Lowercase) \cap 1 .. max = {r} \ {0}
  <2>1. n.value \in Nat /\ Meaning(word, Lowercase) = {n.value}
    BY <1>2, <1>3, QuerySizeAssumption DEF IsWholeNumber
  <2>2. CASE n.value <= max
    <3>1. r = n.value
      BY <1>3, <2>2
    <3> HIDE DEF r
    <3> QED
      BY <2>1, <2>2, <3>1
  <2>3. CASE ~(n.value <= max)
    <3>1. r = 0
      BY <1>3, <2>3
    <3> HIDE DEF r
    <3> QED
      BY <2>1, <2>3, <3>1
  <2> QED
    BY <2>2, <2>3
<1>4. ASSUME ~IsWholeNumber(word, n) PROVE Meaning(word, Lowercase) \cap 1 .. max = {r} \ {0}
  <2>1. r = 0
    BY <1>4
  <2> HIDE DEF r
  <2> QED
    BY <1>2, <1>4, <2>1 DEF IsWholeNumber
<1>5. Meaning(word, Lowercase) \cap 1 .. max = {r} \ {0}
  BY <1>3, <1>4
<1> QED
  BY <1>5 DEF n, base

LEMMA NumbersExact == Inv /\ NoneWhenClosed => NumbersAreExact
<1> SUFFICES ASSUME Inv, NoneWhenClosed, NEW key \in ScalarKeys, NEW max \in Ranges,
                    LET words == Words(Node(key).value, {" "})
                    IN words # <<>> => Fits(words[1])
             PROVE  LET words == Words(Node(key).value, {" "})
                        meaning == IF words = <<>> THEN {} ELSE Meaning(words[1], Lowercase)
                        r == getUIntField(fy_handle, key, max)
                    IN meaning \cap 1 .. max = {r} \ {0}
  BY Zenon DEF NumbersAreExact
<1> DEFINE words == Words(Node(key).value, {" "})
           field == ut_kvp_getField(fy_handle, key)
           r == getUIntField(fy_handle, key, max)
<1>0. words # <<>> => Fits(words[1])
  OBVIOUS
<1>1. max \in Nat
  BY LimitAssumption
<1>2. /\ words = <<>> => field.status # "SUCCESS"
      /\ words # <<>> => field = Success(words[1]) /\ words[1] \in Word(Range(Node(key).value))
  BY <1>0, FieldIs
<1>3. r = IF /\ field.status = "SUCCESS"
             /\ IsWholeNumber(field.result,
                              Strtoul(field.result, IF HasHexMark(field.result) THEN 16 ELSE 10))
             /\ Strtoul(field.result, IF HasHexMark(field.result) THEN 16 ELSE 10).value <= max
          THEN Strtoul(field.result, IF HasHexMark(field.result) THEN 16 ELSE 10).value ELSE 0
  BY Zenon DEF getUIntField
<1> HIDE DEF words, field, r
<1>4. CASE words = <<>>
  <2>1. r = 0
    BY <1>2, <1>3, <1>4
  <2> QED
    BY <1>4, <2>1 DEF words, r
<1>5. CASE words # <<>>
  <2> DEFINE word == words[1]
             n == Strtoul(word, IF HasHexMark(word) THEN 16 ELSE 10)
  <2>0. field = Success(word)
    BY <1>2, <1>5
  <2>1. field.status = "SUCCESS" /\ field.result = word
    <3>1. Success(word).status = "SUCCESS" /\ Success(word).result = word
      BY DEF Success
    <3> QED
      BY <2>0, <3>1
  <2> HIDE DEF word
  <2>2. r = IF IsWholeNumber(word, n) /\ n.value <= max THEN n.value ELSE 0
    BY <1>3, <2>1
  <2>3. Meaning(word, Lowercase) \cap 1 .. max = {r} \ {0}
    <3>1. word \in Word(Range(Node(key).value))
      BY <1>2, <1>5 DEF word
    <3> HIDE DEF n
    <3>2. Meaning(word, Lowercase) \cap 1 .. max
            = {IF IsWholeNumber(word, n) /\ n.value <= max THEN n.value ELSE 0} \ {0}
      BY <1>1, <3>1, NumberIsExact DEF n
    <3> QED
      BY <2>2, <3>2
  <2> QED
    BY <1>5, <2>3 DEF words, r, word
<1> QED
  BY <1>4, <1>5

-----------------------------------------------------------------------------
(* Bytes.                                                                  *)
ByteValues(token) == 0 .. ByteMax \cap Meaning(token, ByteMarks(token))

(* What ut_kvp_getDataBytes makes of a token.                              *)
LEMMA ByteRead ==
  ASSUME NEW C, NEW token \in Word(C)
  PROVE  LET n == Strtoul(token, ByteBase(token))
         IN /\ ~(n.end # Len(token) \/ n.value > ByteMax) =>
                 n.value \in 0 .. ByteMax /\ n.value \in ByteValues(token)
            /\ n.end # Len(token) \/ n.value > ByteMax => ByteValues(token) = {}
<1> DEFINE n == Strtoul(token, ByteBase(token))
           M == Meaning(token, ByteMarks(token))
<1>1. ByteBase(token) \in Base /\ SeesMark(token, ByteMarks(token), ByteBase(token))
  BY ByteSeesMark DEF ByteBase, Base
<1>2. /\ n.end = Len(token) /\ ~n.erange => n.value \in 0 .. WordMax /\ M = {n.value}
      /\ ~(n.end = Len(token) /\ ~n.erange) => M = {}
      /\ n.end = Len(token) /\ n.erange => n.value = WordMax
  BY <1>1, ReadAlike
<1>3. ByteMax \in Nat /\ WordMax \in Nat /\ ByteMax < WordMax
  BY QuerySizeAssumption
<1>4. ByteValues(token) = 0 .. ByteMax \cap M
  BY DEF ByteValues
<1> HIDE DEF n, M
<1>5. ASSUME ~(n.end # Len(token) \/ n.value > ByteMax)
      PROVE  n.value \in 0 .. ByteMax /\ n.value \in ByteValues(token)
  <2>1. ~n.erange
    BY <1>2, <1>3, <1>5
  <2>2. n.value \in 0 .. WordMax /\ M = {n.value}
    BY <1>2, <1>5, <2>1
  <2>3. n.value \in 0 .. ByteMax
    BY <1>3, <1>5, <2>2
  <2> QED
    BY <1>4, <2>2, <2>3
<1>6. ASSUME n.end # Len(token) \/ n.value > ByteMax PROVE ByteValues(token) = {}
  <2>1. CASE n.end = Len(token) /\ ~n.erange
    <3>1. n.value > ByteMax /\ M = {n.value} /\ n.value \in 0 .. WordMax
      BY <1>2, <1>6, <2>1
    <3>2. n.value \notin 0 .. ByteMax
      BY <1>3, <3>1
    <3> QED
      BY <1>4, <3>1, <3>2
  <2>2. CASE ~(n.end = Len(token) /\ ~n.erange)
    BY <1>2, <1>4, <2>2
  <2> QED
    BY <2>1, <2>2
<1> QED
  BY <1>5, <1>6 DEF n

Outs == [ok : BOOLEAN, bytes : Seq(0 .. ByteMax), buffer_size : Nat]

(* One round of its loop.                                                  *)
LEMMA PutByteFacts ==
  ASSUME NEW C, NEW token \in Word(C), NEW out \in Outs, NEW memory \in Nat
  PROVE  LET put == PutByte(out, token, memory)
             size == IF BufferFull(out) THEN 2 * out.buffer_size ELSE out.buffer_size
         IN /\ put \in Outs
            /\ put.ok => /\ out.ok /\ size <= memory /\ put.buffer_size = size
                         /\ \E v \in ByteValues(token) : put.bytes = Append(out.bytes, v)
            /\ ~put.ok => ~out.ok \/ ByteValues(token) = {} \/ size > memory
<1> DEFINE put == PutByte(out, token, memory)
           size == IF BufferFull(out) THEN 2 * out.buffer_size ELSE out.buffer_size
           n == Strtoul(token, ByteBase(token))
           bad == n.end # Len(token) \/ n.value > ByteMax
           refused == ~out.ok \/ bad \/ size > memory
<1>1. put = IF refused THEN [out EXCEPT !.ok = FALSE]
            ELSE [out EXCEPT !.buffer_size = size, !.bytes = Append(@, n.value)]
  BY Zenon DEF PutByte, ByteBase
<1>2. /\ ~bad => n.value \in 0 .. ByteMax /\ n.value \in ByteValues(token)
      /\ bad => ByteValues(token) = {}
  BY ByteRead
<1>3. out.buffer_size \in Nat /\ size \in Nat /\ out.bytes \in Seq(0 .. ByteMax) /\ out.ok \in BOOLEAN
  BY DEF Outs
<1> HIDE DEF put, size, n
<1>4. ASSUME refused
      PROVE  put \in Outs /\ ~put.ok /\ (~out.ok \/ ByteValues(token) = {} \/ size > memory)
  <2>1. put = [out EXCEPT !.ok = FALSE]
    BY <1>1, <1>4
  <2>2. put \in Outs /\ ~put.ok
    BY <2>1 DEF Outs
  <2> QED
    BY <1>2, <1>4, <2>2
<1>5. ASSUME ~refused
      PROVE  /\ put \in Outs /\ put.ok /\ out.ok /\ size <= memory /\ put.buffer_size = size
             /\ \E v \in ByteValues(token) : put.bytes = Append(out.bytes, v)
  <2>1. put = [out EXCEPT !.buffer_size = size, !.bytes = Append(@, n.value)]
    BY <1>1, <1>5
  <2>2. n.value \in 0 .. ByteMax /\ n.value \in ByteValues(token) /\ out.ok /\ ~(size > memory)
    BY <1>2, <1>5
  <2>3. Append(out.bytes, n.value) \in Seq(0 .. ByteMax)
    BY <1>3, <2>2, AppendProperties
  <2>4. put \in Outs /\ put.ok /\ put.buffer_size = size /\ put.bytes = Append(out.bytes, n.value)
    BY <1>3, <2>1, <2>2, <2>3 DEF Outs
  <2>5. size <= memory
    BY <1>3, <2>2
  <2> QED
    BY <2>2, <2>4, <2>5
<1>6. /\ put \in Outs
      /\ put.ok => /\ out.ok /\ size <= memory /\ put.buffer_size = size
                   /\ \E v \in ByteValues(token) : put.bytes = Append(out.bytes, v)
      /\ ~put.ok => ~out.ok \/ ByteValues(token) = {} \/ size > memory
  <2> HIDE DEF refused
  <2> QED
    BY <1>4, <1>5
<1> QED
  BY <1>6 DEF put, size

(* The first j tokens, read.                                               *)
FirstOut(memory) == [ok |-> InitialBufferSize <= memory, bytes |-> <<>>,
                     buffer_size |-> InitialBufferSize]
IsOut(f, tokens, memory) ==
  f = [j \in 0 .. Len(tokens) |->
         IF j = 0
         THEN [ok |-> InitialBufferSize <= memory, bytes |-> <<>>,
               buffer_size |-> InitialBufferSize]
         ELSE PutByte(f[j - 1], tokens[j], memory)]

(* The rounds.                                                             *)
LEMMA OutExists ==
  ASSUME NEW C, NEW tokens \in Seq(Word(C)), NEW memory \in Nat
  PROVE  \E f : IsOut(f, tokens, memory) /\ \A j \in 0 .. Len(tokens) : f[j] \in Outs
<1> DEFINE N == Len(tokens)
           A == Outs
           a == FirstOut(memory)
           g == [j \in 1 .. N |-> [out \in A |-> PutByte(out, tokens[j], memory)]]
<1>1. N \in Nat /\ \A j \in 1 .. N : tokens[j] \in Word(C)
  BY LenProperties, ElementOfSeq
<1>2. ASSUME NEW j \in 1 .. N, NEW out \in A
      PROVE  g[j][out] = PutByte(out, tokens[j], memory) /\ g[j][out] \in A
  <2>1. PutByte(out, tokens[j], memory) \in A
    BY <1>1, PutByteFacts
  <2> HIDE DEF A
  <2> QED
    BY <2>1
<1>3. g = [j \in 1 .. N |-> g[j]] /\ \A j \in 1 .. N : g[j] = [out \in A |-> g[j][out]]
  OBVIOUS
<1>4. a \in A
  BY QuerySizeAssumption, EmptySeq DEF FirstOut, Outs
<1> HIDE DEF g, A, N, a
<1>5. IsRound(g, N, A)
  BY <1>2, <1>3 DEF IsRound
<1>6. PICK h : h \in [0 .. N -> A] /\ h = [j \in 0 .. N |-> IF j = 0 THEN a ELSE g[j][h[j - 1]]]
  <2>1. \E h : IsLoop(h, g, N, A, a)
    BY <1>1, <1>4, <1>5, LoopExists
  <2> QED
    BY <2>1 DEF IsLoop
<1>7. \A j \in 0 .. N : h[j] = IF j = 0 THEN a ELSE PutByte(h[j - 1], tokens[j], memory)
  <2> SUFFICES ASSUME NEW j \in 0 .. N, j # 0
               PROVE  h[j] = PutByte(h[j - 1], tokens[j], memory)
    BY <1>1, <1>6
  <2>1. j \in 1 .. N /\ h[j - 1] \in A
    BY <1>1, <1>6
  <2> QED
    BY <1>2, <1>6, <2>1
<1>8. h = [j \in 0 .. N |-> h[j]]
  BY <1>6
<1>9. IsOut(h, tokens, memory)
  BY <1>7, <1>8 DEF IsOut, N, a, FirstOut
<1> QED
  BY <1>6, <1>9 DEF A, N

(* The buffer holds the bytes of the first j tokens, or a token was bad,   *)
(* or there was no memory.                                                 *)
Filled(out, tokens, j, memory) ==
  IF out.ok
  THEN /\ Len(out.bytes) = j
       /\ \A i \in 1 .. j : out.bytes[i] \in ByteValues(tokens[i])
       /\ j <= out.buffer_size /\ out.buffer_size <= memory /\ 1 <= out.buffer_size
  ELSE \/ \E i \in 1 .. j : ByteValues(tokens[i]) = {}
       \/ memory < InitialBufferSize
       \/ memory < 2 * j

(* A round keeps Filled.                                                   *)
LEMMA FilledNext ==
  ASSUME NEW C, NEW tokens \in Seq(Word(C)), NEW memory \in Nat,
         NEW j \in Nat, j + 1 <= Len(tokens), NEW out \in Outs, Filled(out, tokens, j, memory)
  PROVE  Filled(PutByte(out, tokens[j + 1], memory), tokens, j + 1, memory)
<1> DEFINE put == PutByte(out, tokens[j + 1], memory)
           size == IF BufferFull(out) THEN 2 * out.buffer_size ELSE out.buffer_size
           token == tokens[j + 1]
<1>1. token \in Word(C)
  <2>1. j + 1 \in 1 .. Len(tokens)
    BY LenProperties
  <2> QED
    BY <2>1, ElementOfSeq
<1>2. /\ put \in Outs
      /\ put.ok => /\ out.ok /\ size <= memory /\ put.buffer_size = size
                   /\ \E v \in ByteValues(token) : put.bytes = Append(out.bytes, v)
      /\ ~put.ok => ~out.ok \/ ByteValues(token) = {} \/ size > memory
  <2> HIDE DEF token
  <2>1. PutByte(out, token, memory) = put
    BY DEF token
  <2> HIDE DEF put
  <2> QED
    BY <1>1, <2>1, PutByteFacts
<1>3. /\ out.bytes \in Seq(0 .. ByteMax) /\ Len(out.bytes) \in Nat /\ out.buffer_size \in Nat
      /\ size \in Nat
      /\ size # out.buffer_size => size = 2 * out.buffer_size /\ out.buffer_size <= Len(out.bytes)
  <2>1. out.bytes \in Seq(0 .. ByteMax) /\ out.buffer_size \in Nat
    BY DEF Outs
  <2> QED
    BY <2>1, LenProperties DEF BufferFull
<1>4. size = out.buffer_size => out.buffer_size > Len(out.bytes) \/ out.buffer_size = 0
  BY <1>3 DEF BufferFull
<1> HIDE DEF put, size
<1>5. ASSUME put.ok PROVE Filled(put, tokens, j + 1, memory)
  <2>1. PICK v \in ByteValues(token) : put.bytes = Append(out.bytes, v)
    BY <1>2, <1>5
  <2>2. /\ out.ok /\ Len(out.bytes) = j
        /\ \A i \in 1 .. j : out.bytes[i] \in ByteValues(tokens[i])
        /\ j <= out.buffer_size /\ 1 <= out.buffer_size
    BY <1>2, <1>5 DEF Filled
  <2>3. v \in 0 .. ByteMax
    BY DEF ByteValues
  <2>4. /\ Len(put.bytes) = j + 1 /\ put.bytes[j + 1] = v
        /\ \A i \in 1 .. j : put.bytes[i] = out.bytes[i]
    BY <1>3, <2>1, <2>2, <2>3, AppendProperties
  <2>5. \A i \in 1 .. j + 1 : put.bytes[i] \in ByteValues(tokens[i])
    <3>1. \A i \in 1 .. j + 1 : i \in 1 .. j \/ i = j + 1
      OBVIOUS
    <3> QED
      BY <2>1, <2>2, <2>4, <3>1
  <2>6. j + 1 <= size /\ 1 <= size
    BY <1>3, <1>4, <2>2
  <2>7. put.buffer_size = size /\ size <= memory
    BY <1>2, <1>5
  <2> QED
    BY <1>5, <2>4, <2>5, <2>6, <2>7 DEF Filled
<1>6. ASSUME ~put.ok PROVE Filled(put, tokens, j + 1, memory)
  <2>1. CASE ~out.ok
    <3>1. \/ \E i \in 1 .. j : ByteValues(tokens[i]) = {}
          \/ memory < InitialBufferSize
          \/ memory < 2 * j
      BY <2>1 DEF Filled
    <3>2. memory < 2 * j => memory < 2 * (j + 1)
      OBVIOUS
    <3> QED
      BY <1>6, <3>1, <3>2 DEF Filled
  <2>2. CASE ByteValues(token) = {}
    <3>1. \E i \in 1 .. j + 1 : ByteValues(tokens[i]) = {}
      <4>1. j + 1 \in 1 .. j + 1
        OBVIOUS
      <4> QED
        BY <2>2, <4>1
    <3> QED
      BY <1>6, <3>1 DEF Filled
  <2>3. CASE out.ok /\ size > memory
    <3>1. Len(out.bytes) = j /\ out.buffer_size <= memory
      BY <2>3 DEF Filled
    <3>2. memory < 2 * (j + 1)
      BY <1>3, <2>3, <3>1
    <3> QED
      BY <1>6, <3>2 DEF Filled
  <2> QED
    BY <1>2, <1>6, <2>1, <2>2, <2>3
<1> QED
  BY <1>5, <1>6 DEF put

(* All of them.                                                            *)
LEMMA OutFilled ==
  ASSUME NEW C, NEW tokens \in Seq(Word(C)), NEW memory \in Nat
  PROVE  OutAt(tokens, memory) \in Outs /\ Filled(OutAt(tokens, memory), tokens, Len(tokens), memory)
<1> DEFINE f == CHOOSE f : IsOut(f, tokens, memory)
           N == Len(tokens)
<1>1. PICK h : IsOut(h, tokens, memory) /\ \A j \in 0 .. N : h[j] \in Outs
  BY OutExists
<1>2. IsOut(f, tokens, memory)
  BY <1>1
<1>3. OutAt(tokens, memory) = f[N]
  BY DEF OutAt, IsOut
<1> HIDE DEF f
<1>4. N \in Nat
  BY LenProperties
<1> HIDE DEF N
<1> DEFINE T == {j \in Nat : j <= N => f[j] \in Outs /\ Filled(f[j], tokens, j, memory)}
<1>5. 0 \in T
  <2>1. h[0] \in Outs /\ h[0] = FirstOut(memory) /\ f[0] = FirstOut(memory)
    BY <1>1, <1>2, <1>4 DEF IsOut, FirstOut, N
  <2>2. Filled(FirstOut(memory), tokens, 0, memory)
    <3>1. InitialBufferSize \in Nat /\ 1 <= InitialBufferSize
      BY QuerySizeAssumption
    <3>2. /\ FirstOut(memory).ok <=> InitialBufferSize <= memory
          /\ Len(FirstOut(memory).bytes) = 0
          /\ FirstOut(memory).buffer_size = InitialBufferSize
      BY EmptySeq DEF FirstOut
    <3> QED
      BY <3>1, <3>2 DEF Filled
  <2> QED
    BY <2>1, <2>2
<1>6. ASSUME NEW j \in Nat, j \in T PROVE j + 1 \in T
  <2> SUFFICES ASSUME j + 1 <= N
               PROVE  f[j + 1] \in Outs /\ Filled(f[j + 1], tokens, j + 1, memory)
    OBVIOUS
  <2>1. f[j] \in Outs /\ Filled(f[j], tokens, j, memory)
    BY <1>4, <1>6
  <2>2. f[j + 1] = PutByte(f[j], tokens[j + 1], memory)
    <3>1. j + 1 \in 0 .. N /\ j + 1 # 0 /\ (j + 1) - 1 = j
      BY <1>4
    <3> QED
      BY <1>2, <3>1 DEF IsOut, N
  <2>3. tokens[j + 1] \in Word(C)
    <3>1. j + 1 \in 1 .. Len(tokens)
      BY <1>4 DEF N
    <3> QED
      BY <3>1, ElementOfSeq
  <2>4. f[j + 1] \in Outs
    BY <2>1, <2>2, <2>3, PutByteFacts
  <2>5. Filled(f[j + 1], tokens, j + 1, memory)
    BY <2>1, <2>2, FilledNext DEF N
  <2> QED
    BY <2>4, <2>5
<1> HIDE DEF T
<1>7. N \in T
  BY <1>4, <1>5, <1>6, SetInduction
<1> QED
  BY <1>3, <1>4, <1>7 DEF T, N

LEMMA BytesWhole == Inv /\ NoneWhenClosed => BytesAllOrNothing
<1> SUFFICES ASSUME Inv, NoneWhenClosed, NEW key \in ScalarKeys, NEW memory \in Memories
             PROVE  LET tokens == Words(Node(key).value, {",", " "})
                        bytes == [j \in DOMAIN tokens |-> 0 .. ByteMax \cap
                                    Meaning(tokens[j], IF IsSigned(tokens[j]) THEN {} ELSE EitherCase)]
                        out == ut_kvp_getDataBytes(fy_handle, key, memory)
                    IN IF out.ok
                       THEN /\ Len(out.bytes) = Len(tokens)
                            /\ \A j \in DOMAIN tokens : out.bytes[j] \in bytes[j]
                            /\ Len(out.bytes) <= out.buffer_size /\ out.buffer_size <= memory
                       ELSE /\ out.bytes = <<>>
                            /\ \/ \E j \in DOMAIN tokens : bytes[j] = {}
                               \/ memory < Max({InitialBufferSize, 2 * Len(tokens)})
  BY Zenon DEF BytesAllOrNothing
<1> DEFINE tokens == Words(Node(key).value, {",", " "})
           bytes == [j \in DOMAIN tokens |-> 0 .. ByteMax \cap
                       Meaning(tokens[j], IF IsSigned(tokens[j]) THEN {} ELSE EitherCase)]
           out == ut_kvp_getDataBytes(fy_handle, key, memory)
           C == Range(Node(key).value)
           full == OutAt(tokens, memory)
<1>1. memory \in Nat /\ InitialBufferSize \in Nat
  BY LimitAssumption, QuerySizeAssumption
<1>2. key \in FittingKeys /\ IsScalar(Node(key))
  BY DEF ScalarKeys
<1>3. /\ NodeOf(fy_handle, key) = Node(key) /\ fy_handle.exists
      /\ Node(key).value \in Seq(Range(Node(key).value))
  BY <1>2, KeyLeads
<1>4. tokens \in Seq(Word(C)) /\ Len(tokens) \in Nat /\ DOMAIN tokens = 1 .. Len(tokens)
  <2>1. tokens \in Seq(Word(C))
    BY <1>3, WordsType
  <2> HIDE DEF tokens
  <2> QED
    BY <2>1, LenProperties
<1>5. out = IF full.ok THEN full ELSE NoBytes
  <2> DEFINE node == NodeOf(fy_handle, key)
             read == OutAt(Words(node.value, {",", " "}), memory)
  <2>1. ut_kvp_getDataBytes(fy_handle, key, memory) =
          IF fy_handle.exists /\ IsScalar(node) /\ read.ok THEN read ELSE NoBytes
    BY BytesAre, Zenon
  <2> HIDE DEF read
  <2>2. full = read
    BY <1>3, Zenon DEF read
  <2> HIDE DEF full
  <2> QED
    BY <1>2, <1>3, <2>1, <2>2
<1>6. \A j \in 1 .. Len(tokens) : bytes[j] = ByteValues(tokens[j])
  BY <1>4 DEF ByteValues, ByteMarks
<1> HIDE DEF tokens, bytes, out
<1>7. full \in Outs /\ Filled(full, tokens, Len(tokens), memory)
  BY <1>1, <1>4, OutFilled
<1> HIDE DEF full
<1>8. ASSUME full.ok
      PROVE  /\ out.ok /\ Len(out.bytes) = Len(tokens)
             /\ \A j \in DOMAIN tokens : out.bytes[j] \in bytes[j]
             /\ Len(out.bytes) <= out.buffer_size /\ out.buffer_size <= memory
  BY <1>4, <1>5, <1>6, <1>7, <1>8 DEF Filled
<1>9. ASSUME ~full.ok
      PROVE  /\ ~out.ok /\ out.bytes = <<>>
             /\ \/ \E j \in DOMAIN tokens : bytes[j] = {}
                \/ memory < Max({InitialBufferSize, 2 * Len(tokens)})
  <2>1. ~out.ok /\ out.bytes = <<>>
    BY <1>5, <1>9 DEF NoBytes
  <2>2. \/ \E j \in 1 .. Len(tokens) : ByteValues(tokens[j]) = {}
        \/ memory < InitialBufferSize
        \/ memory < 2 * Len(tokens)
    BY <1>7, <1>9 DEF Filled
  <2>3. ASSUME memory < InitialBufferSize \/ memory < 2 * Len(tokens)
        PROVE  memory < Max({InitialBufferSize, 2 * Len(tokens)})
    <3> DEFINE a == InitialBufferSize
               b == 2 * Len(tokens)
    <3>1. a \in Nat /\ b \in Nat
      BY <1>1, <1>4
    <3>2. memory < a \/ memory < b
      BY <2>3
    <3> HIDE DEF a, b
    <3>3. CASE a <= b
      <4>1. Max({a, b}) = b
        BY <3>1, <3>3, MaxIs
      <4> QED
        BY <1>1, <3>1, <3>2, <3>3, <4>1 DEF a, b
    <3>4. CASE b <= a
      <4>1. Max({a, b}) = a
        BY <3>1, <3>4, MaxIs
      <4> QED
        BY <1>1, <3>1, <3>2, <3>4, <4>1 DEF a, b
    <3> QED
      BY <3>1, <3>3, <3>4
  <2> QED
    BY <1>4, <1>6, <2>1, <2>2, <2>3
<1>10. IF out.ok
       THEN /\ Len(out.bytes) = Len(tokens)
            /\ \A j \in DOMAIN tokens : out.bytes[j] \in bytes[j]
            /\ Len(out.bytes) <= out.buffer_size /\ out.buffer_size <= memory
       ELSE /\ out.bytes = <<>>
            /\ \/ \E j \in DOMAIN tokens : bytes[j] = {}
               \/ memory < Max({InitialBufferSize, 2 * Len(tokens)})
  BY <1>8, <1>9
<1> QED
  BY <1>10, Zenon DEF out, tokens, bytes

-----------------------------------------------------------------------------
(* Lists, and the other queries.                                           *)
LEMMA NodesAre ==
  /\ NoNode \notin Content
  /\ \A n \in Content \cup {NoNode} :
       /\ IsSequence(n) => n \in Content /\ n.items \in Seq(Content) /\ Len(n.items) \in Nat
       /\ ~(IsSequence(n) /\ IsMapping(n)) /\ ~(IsSequence(n) /\ IsScalar(n))
<1>1. NoNode \notin Content
  BY ContentAssumption DEF NoNode
<1>2. ASSUME NEW n \in Content \cup {NoNode}, IsSequence(n)
      PROVE  n \in Content /\ n.items \in Seq(Content) /\ Len(n.items) \in Nat
  <2>1. n \in Content
    BY <1>2 DEF IsSequence, NoNode
  <2> QED
    BY <1>2, <2>1, ContentAssumption, LenProperties
<1> QED
  BY <1>1, <1>2 DEF IsSequence, IsMapping, IsScalar

(* The key with an index behind it leads to the entry.                     *)
LEMMA EntryLeads ==
  ASSUME Inv, NoneWhenClosed, NEW key \in FittingKeys, NEW j \in 0 .. 2,
         Len(key \o <<"/", Digits[j + 1]>>) < MaxElementSize
  PROVE  NodeOf(fy_handle, key \o <<"/", Digits[j + 1]>>) = StepInto(Node(key), Digits[j + 1])
<1> DEFINE name == Digits[j + 1]
           S == Range(key) \cup {"/", name}
           entry == key \o <<"/", name>>
<1>1. key \in Seq(Range(key)) /\ Len(key) \in Nat /\ ~HasDot(key)
  BY QueryKeyAssumption, LenProperties DEF FittingKeys
<1>2. name # "/" /\ name # "."
  <2>1. j + 1 \in 1 .. 16
    OBVIOUS
  <2> QED
    BY <2>1, DigitsAre
<1>3. key \in Seq(S) /\ <<"/", name>> \in Seq(S) /\ Len(<<"/", name>>) = 2
  <2>1. Range(key) \subseteq S
    OBVIOUS
  <2> HIDE DEF S
  <2>2. key \in Seq(S)
    BY <1>1, <2>1, SeqMonotonic
  <2> QED
    BY <2>2 DEF S
<1> HIDE DEF name
<1>4. /\ entry \in Seq(S) /\ DOMAIN entry = 1 .. Len(key) + 2
      /\ \A i \in 1 .. Len(key) : entry[i] = key[i]
      /\ entry[Len(key) + 1] = "/" /\ entry[Len(key) + 2] = name
  BY <1>1, <1>3, ConcatProperties, LenProperties
<1>5. ~HasDot(entry)
  <2>1. \A i \in 1 .. Len(key) + 2 : i \in 1 .. Len(key) \/ i = Len(key) + 1 \/ i = Len(key) + 2
    BY <1>1
  <2>2. \A i \in 1 .. Len(key) : key[i] # "."
    BY <1>1, LenProperties DEF HasDot
  <2> HIDE DEF entry
  <2> QED
    BY <1>2, <1>4, <2>1, <2>2 DEF HasDot
<1>6. ConvertDotToSlash(entry) = entry
  <2>1. Len(entry) < MaxElementSize
    BY DEF name
  <2> HIDE DEF entry
  <2> QED
    BY <1>4, <1>5, <2>1, Unconverted
<1>7. NodeByPath(fy_handle.root, entry) = StepInto(Node(key), name)
  <2>1. IsDocument(fy_handle.root) /\ name \in S /\ "/" \in S
    BY DocumentIs
  <2> HIDE DEF S
  <2> QED
    BY <1>2, <1>3, <2>1, PathAppended DEF Node
<1> QED
  BY <1>6, <1>7 DEF NodeOf, name

(* As many entries can be reached as are counted.                          *)
LEMMA CountAgrees ==
  ASSUME Inv, NoneWhenClosed, NEW key \in FittingKeys
  PROVE  IF IsMapping(Node(key)) THEN ut_kvp_getListCount(fy_handle, key) = 0
         ELSE \A j \in 0 .. 2 :
                LET entry == key \o <<"/", Digits[j + 1]>>
                IN Len(entry) < MaxElementSize =>
                     (ut_kvp_fieldPresent(fy_handle, entry)
                        <=> j < ut_kvp_getListCount(fy_handle, key))
<1> DEFINE n == Node(key)
           count == ut_kvp_getListCount(fy_handle, key)
<1>1. /\ NodeOf(fy_handle, key) = n /\ (~fy_handle.exists => n = NoNode)
      /\ n \in Content \cup {NoNode, fy_handle.root} /\ IsDocument(fy_handle.root)
  BY KeyLeads, DocumentIs
<1>2. count = IF fy_handle.exists /\ IsSequence(n) THEN Len(n.items) ELSE 0
  BY <1>1 DEF ut_kvp_getListCount
<1> HIDE DEF n, count
<1>3. CASE IsMapping(n)
  <2>1. count = 0
    BY <1>2, <1>3 DEF IsMapping, IsSequence
  <2> QED
    BY <1>3, <2>1 DEF n, count
<1>4. CASE ~IsMapping(n)
  <2>1. n \in Content \cup {NoNode}
    BY <1>1, <1>4 DEF IsDocument
  <2>2. ASSUME NEW j \in 0 .. 2, Len(key \o <<"/", Digits[j + 1]>>) < MaxElementSize
        PROVE  ut_kvp_fieldPresent(fy_handle, key \o <<"/", Digits[j + 1]>>) <=> j < count
    <3> DEFINE entry == key \o <<"/", Digits[j + 1]>>
               name == Digits[j + 1]
    <3>1. NodeOf(fy_handle, entry) = StepInto(n, name)
      BY <2>2, EntryLeads DEF n
    <3>2. IsDigit(name, 10) /\ DigitValue(name) = j
      <4>1. j + 1 \in 1 .. 10 /\ (j + 1) - 1 = j
        OBVIOUS
      <4> QED
        BY <4>1, DigitIs
    <3> HIDE DEF entry, name
    <3>3. CASE IsSequence(n)
      <4>1. n # NoNode /\ fy_handle.exists
        BY <1>1, <3>3 DEF IsSequence, NoNode
      <4>2. count = Len(n.items) /\ n.items \in Seq(Content) /\ Len(n.items) \in Nat
        BY <1>2, <2>1, <3>3, <4>1, NodesAre
      <4>3. StepInto(n, name) = IF j < Len(n.items) THEN n.items[j + 1] ELSE NoNode
        BY <3>2, <3>3 DEF StepInto, IsSequence
      <4>4. j < Len(n.items) => n.items[j + 1] \in Content
        <5> SUFFICES ASSUME j < Len(n.items) PROVE n.items[j + 1] \in Content
          OBVIOUS
        <5>1. j + 1 \in 1 .. Len(n.items)
          BY <4>2
        <5> QED
          BY <4>2, <5>1, ElementOfSeq
      <4>5. ut_kvp_fieldPresent(fy_handle, entry) <=> j < count
        BY <3>1, <4>1, <4>2, <4>3, <4>4, NodesAre DEF ut_kvp_fieldPresent
      <4> QED
        BY <4>5 DEF entry
    <3>4. CASE ~IsSequence(n)
      <4>1. count = 0 /\ ~(j < count)
        BY <1>2, <3>4
      <4>2. StepInto(n, name) = NoNode
        BY <1>4, <3>4 DEF StepInto, IsMapping, IsSequence
      <4>3. ~ut_kvp_fieldPresent(fy_handle, entry)
        BY <3>1, <4>2 DEF ut_kvp_fieldPresent
      <4> QED
        BY <4>1, <4>3 DEF entry
    <3> QED
      BY <3>3, <3>4
  <2>3. \A j \in 0 .. 2 :
          Len(key \o <<"/", Digits[j + 1]>>) < MaxElementSize =>
            (ut_kvp_fieldPresent(fy_handle, key \o <<"/", Digits[j + 1]>>) <=> j < count)
    BY <2>2
  <2> QED
    BY <1>4, <2>3 DEF n, count
<1> QED
  BY <1>3, <1>4 DEF n

(* A caller's buffer.                                                      *)
LEMMA StringIs ==
  ASSUME NEW key, NEW size \in BufferSizes
  PROVE  LET node == NodeOf(fy_handle, key)
             s == StringField(key, size)
             found == fy_handle.exists /\ IsScalar(node)
         IN /\ s.status = IF ~fy_handle.exists THEN "NO_DATA"
                          ELSE IF node = NoNode THEN "KEY_NOT_FOUND"
                          ELSE IF IsScalar(node) THEN "SUCCESS" ELSE "PARSING_ERROR"
            /\ s.status # "SUCCESS" => s.buffer[1] = "NUL"
            /\ s.status = "SUCCESS" /\ Len(node.value) \in Nat /\ Len(node.value) < size =>
                 /\ \A i \in 1 .. Len(node.value) : s.buffer[i] = node.value[i]
                 /\ s.buffer[Len(node.value) + 1] = "NUL"
<1> DEFINE node == NodeOf(fy_handle, key)
           s == StringField(key, size)
           M == Max(BufferSizes)
           garbage == Garbage(M)
           emptied == [garbage EXCEPT ![1] = "NUL"]
           filled == [i \in DOMAIN garbage |->
                        CASE i > size -> emptied[i]
                          [] i <= Min({size, Len(node.value)}) -> node.value[i]
                          [] OTHER -> "NUL"]
<1>1. M \in Nat /\ size \in Nat /\ 1 <= size /\ size <= M
  <2>1. PICK max \in BufferSizes : \A z \in BufferSizes : z <= max
    BY LimitAssumption
  <2>2. BufferSizes \subseteq Int /\ BufferSizes \subseteq Nat \ {0}
    BY LimitAssumption
  <2>3. M = max
    BY <2>1, <2>2, MaxIs
  <2> HIDE DEF M
  <2> QED
    BY <2>1, <2>2, <2>3
<1>2. DOMAIN garbage = 1 .. M
  BY DEF Garbage
<1>3. s = ut_kvp_getStringField(fy_handle, key, garbage, size)
  BY Zenon DEF StringField
<1>4. s = CASE ~fy_handle.exists -> [status |-> "NO_DATA", buffer |-> emptied]
            [] fy_handle.exists /\ node = NoNode ->
                 [status |-> "KEY_NOT_FOUND", buffer |-> emptied]
            [] fy_handle.exists /\ node # NoNode /\ ~IsScalar(node) ->
                 [status |-> "PARSING_ERROR", buffer |-> emptied]
            [] fy_handle.exists /\ IsScalar(node) -> [status |-> "SUCCESS", buffer |-> filled]
  BY <1>3, Zenon DEF ut_kvp_getStringField
<1>5. emptied[1] = "NUL"
  <2> HIDE DEF garbage, M
  <2>1. 1 \in DOMAIN garbage
    BY <1>1, <1>2
  <2> QED
    BY <2>1
<1>6. ASSUME Len(node.value) \in Nat, Len(node.value) < size
      PROVE  /\ \A i \in 1 .. Len(node.value) : filled[i] = node.value[i]
             /\ filled[Len(node.value) + 1] = "NUL"
  <2> DEFINE n == Len(node.value)
  <2>1. Min({size, n}) = n
    <3> HIDE DEF n, node
    <3> QED
      BY <1>1, <1>6 DEF Min, n
  <2> HIDE DEF garbage, M, emptied, n, node
  <2>2. \A i \in 1 .. n + 1 : i \in DOMAIN garbage /\ ~(i > size)
    BY <1>1, <1>2, <1>6 DEF n
  <2>3. \A i \in 1 .. n : i <= n /\ i \in 1 .. n + 1
    BY <1>6 DEF n
  <2>4. ~(n + 1 <= n) /\ n + 1 \in 1 .. n + 1
    BY <1>6 DEF n
  <2>5. \A i \in DOMAIN garbage : ~(i > size) =>
          filled[i] = IF i <= n THEN node.value[i] ELSE "NUL"
    BY <2>1 DEF n
  <2> HIDE DEF filled
  <2> QED
    BY <2>2, <2>3, <2>4, <2>5 DEF n
<1> HIDE DEF s, node, emptied, filled
<1>7. IsScalar(node) => node # NoNode
  BY DEF IsScalar, NoNode
<1>8. s = IF ~fy_handle.exists THEN [status |-> "NO_DATA", buffer |-> emptied]
          ELSE IF node = NoNode THEN [status |-> "KEY_NOT_FOUND", buffer |-> emptied]
          ELSE IF IsScalar(node) THEN [status |-> "SUCCESS", buffer |-> filled]
          ELSE [status |-> "PARSING_ERROR", buffer |-> emptied]
  BY <1>4, <1>7
<1>9. /\ s.status = IF ~fy_handle.exists THEN "NO_DATA"
                    ELSE IF node = NoNode THEN "KEY_NOT_FOUND"
                    ELSE IF IsScalar(node) THEN "SUCCESS" ELSE "PARSING_ERROR"
      /\ s.buffer = IF fy_handle.exists /\ node # NoNode /\ IsScalar(node) THEN filled ELSE emptied
  BY <1>8
<1>10. /\ s.status # "SUCCESS" => s.buffer[1] = "NUL"
       /\ s.status = "SUCCESS" /\ Len(node.value) \in Nat /\ Len(node.value) < size =>
            /\ \A i \in 1 .. Len(node.value) : s.buffer[i] = node.value[i]
            /\ s.buffer[Len(node.value) + 1] = "NUL"
  BY <1>5, <1>6, <1>9
<1> QED
  BY <1>9, <1>10 DEF s, node

LEMMA QueriesAlike == Inv /\ NoneWhenClosed => QueriesAgree
<1> SUFFICES ASSUME Inv, NoneWhenClosed, NEW key \in FittingKeys
             PROVE  LET a == Answers(key)
                    IN /\ IF IsMapping(Node(key)) THEN a.count = 0
                          ELSE \A j \in 0 .. 2 :
                                 LET entry == key \o <<"/", Digits[j + 1]>>
                                 IN Len(entry) < MaxElementSize =>
                                      (ut_kvp_fieldPresent(fy_handle, entry) <=> j < a.count)
                       /\ a.present <=> a.string.status \in {"SUCCESS", "PARSING_ERROR"}
                       /\ a.uint # 0 \/ a.bool \/ a.bytes.ok => a.string.status = "SUCCESS"
                       /\ \A size \in BufferSizes :
                            LET s == StringField(key, size)
                            IN IF s.status # "SUCCESS" THEN s.buffer[1] = "NUL"
                               ELSE LET text == Node(key).value
                                    IN Len(text) < size =>
                                         SubSeq(s.buffer, 1, Len(text) + 1) = Append(text, "NUL")
  BY Zenon DEF QueriesAgree
<1> DEFINE n == Node(key)
           a == Answers(key)
           string == StringField(key, Max(BufferSizes))
<1>1. /\ NodeOf(fy_handle, key) = n /\ (~fy_handle.exists => n = NoNode)
      /\ IsScalar(n) => n.value \in Seq(Range(n.value))
  BY KeyLeads
<1>2. /\ a.count = ut_kvp_getListCount(fy_handle, key)
      /\ a.present = ut_kvp_fieldPresent(fy_handle, key)
      /\ a.bool = ut_kvp_getBoolField(fy_handle, key)
      /\ a.uint = getUIntField(fy_handle, key, WordMax)
      /\ a.string = string
      /\ a.bytes = ut_kvp_getDataBytes(fy_handle, key, Max(Memories))
  BY DEF Answers
<1> HIDE DEF a, n
<1>3. IF IsMapping(Node(key)) THEN a.count = 0
      ELSE \A j \in 0 .. 2 :
             LET entry == key \o <<"/", Digits[j + 1]>>
             IN Len(entry) < MaxElementSize =>
                  (ut_kvp_fieldPresent(fy_handle, entry) <=> j < a.count)
  BY <1>2, CountAgrees
<1>4. string.status = IF ~fy_handle.exists THEN "NO_DATA"
                      ELSE IF n = NoNode THEN "KEY_NOT_FOUND"
                      ELSE IF IsScalar(n) THEN "SUCCESS" ELSE "PARSING_ERROR"
  <2>1. Max(BufferSizes) \in BufferSizes
    <3>1. PICK max \in BufferSizes : \A z \in BufferSizes : z <= max
      BY LimitAssumption
    <3>2. Max(BufferSizes) = max
      <4>1. BufferSizes \subseteq Int
        BY LimitAssumption
      <4> QED
        BY <3>1, <4>1, MaxIs
    <3> QED
      BY <3>1, <3>2
  <2> QED
    BY <1>1, <2>1, StringIs
<1> HIDE DEF string
<1>5. a.present <=> a.string.status \in {"SUCCESS", "PARSING_ERROR"}
  <2>1. a.present <=> fy_handle.exists /\ n # NoNode
    BY <1>1, <1>2 DEF ut_kvp_fieldPresent
  <2>2. a.string.status \in {"SUCCESS", "PARSING_ERROR"} <=> fy_handle.exists /\ n # NoNode
    BY <1>2, <1>4
  <2> QED
    BY <2>1, <2>2
<1>6. ASSUME fy_handle.exists, IsScalar(n) PROVE a.string.status = "SUCCESS"
  BY <1>2, <1>4, <1>6 DEF IsScalar, NoNode
<1>7. ASSUME ~(fy_handle.exists /\ IsScalar(n))
      PROVE  a.uint = 0 /\ ~a.bool /\ ~a.bytes.ok
  <2> DEFINE field == ut_kvp_getField(fy_handle, key)
  <2>1. field \in {Failure("NO_DATA"), Failure("PARSING_ERROR")}
    BY <1>1, <1>7 DEF ut_kvp_getField
  <2>2. field.status # "SUCCESS" /\ field.result = <<>>
    BY <2>1 DEF Failure
  <2> HIDE DEF field
  <2>3. getUIntField(fy_handle, key, WordMax) = 0
    BY <2>2, Zenon DEF getUIntField, field
  <2>4. ~ut_kvp_getBoolField(fy_handle, key)
    <3>1. Len(<<>>) # 4
      OBVIOUS
    <3>2. ut_kvp_getBoolField(fy_handle, key) = IsTrue(field.result)
      BY Zenon DEF ut_kvp_getBoolField, field
    <3> QED
      BY <2>2, <3>1, <3>2 DEF IsTrue
  <2>5. ut_kvp_getDataBytes(fy_handle, key, Max(Memories)) = NoBytes
    <3> DEFINE memory == Max(Memories)
               read == OutAt(Words(NodeOf(fy_handle, key).value, {",", " "}), memory)
    <3> HIDE DEF memory
    <3>1. ut_kvp_getDataBytes(fy_handle, key, memory) =
            IF fy_handle.exists /\ IsScalar(NodeOf(fy_handle, key)) /\ read.ok
            THEN read ELSE NoBytes
      BY BytesAre, Zenon
    <3> HIDE DEF read
    <3> QED
      BY <1>1, <1>7, <3>1 DEF memory
  <2> QED
    BY <1>2, <2>3, <2>4, <2>5 DEF NoBytes
<1>8. ASSUME NEW size \in BufferSizes
      PROVE  LET s == StringField(key, size)
             IN IF s.status # "SUCCESS" THEN s.buffer[1] = "NUL"
                ELSE LET text == Node(key).value
                     IN Len(text) < size =>
                          SubSeq(s.buffer, 1, Len(text) + 1) = Append(text, "NUL")
  <2> DEFINE s == StringField(key, size)
             text == n.value
  <2>1. /\ s.status = IF ~fy_handle.exists THEN "NO_DATA"
                      ELSE IF n = NoNode THEN "KEY_NOT_FOUND"
                      ELSE IF IsScalar(n) THEN "SUCCESS" ELSE "PARSING_ERROR"
        /\ s.status # "SUCCESS" => s.buffer[1] = "NUL"
        /\ s.status = "SUCCESS" /\ Len(text) \in Nat /\ Len(text) < size =>
             /\ \A i \in 1 .. Len(text) : s.buffer[i] = text[i]
             /\ s.buffer[Len(text) + 1] = "NUL"
    BY <1>1, StringIs
  <2> HIDE DEF s, text
  <2>2. ASSUME s.status = "SUCCESS", Len(text) < size
        PROVE  SubSeq(s.buffer, 1, Len(text) + 1) = Append(text, "NUL")
    <3>1. IsScalar(n)
      BY <2>1, <2>2
    <3> DEFINE C == Range(text) \cup {"NUL"}
    <3>2. text \in Seq(C)
      <4>1. text \in Seq(Range(text)) /\ Range(text) \subseteq C
        BY <1>1, <3>1 DEF text
      <4> HIDE DEF C
      <4> QED
        BY <4>1, SeqMonotonic
    <3>3. Len(text) \in Nat /\ DOMAIN text = 1 .. Len(text) /\ "NUL" \in C
      BY <3>2, LenProperties
    <3>4. \A i \in 1 .. Len(text) : text[i] \in C
      BY <3>2, ElementOfSeq
    <3> HIDE DEF C
    <3> DEFINE N == Len(text)
               t == SubSeq(s.buffer, 1, N + 1)
               u == Append(text, "NUL")
    <3>5. /\ \A i \in 1 .. N : s.buffer[i] = text[i]
          /\ s.buffer[N + 1] = "NUL"
      BY <2>1, <2>2, <3>3
    <3>6. \A i \in 1 .. N + 1 : i \in 1 .. N \/ i = N + 1
      BY <3>3
    <3>7. \A i \in 1 .. N + 1 : s.buffer[i] \in C
      BY <3>3, <3>4, <3>5, <3>6
    <3>8. t \in Seq(C) /\ Len(t) = N + 1 /\ \A i \in 1 .. N + 1 : t[i] = s.buffer[i]
      <4> DEFINE m == N + 1
      <4>1. m \in Int /\ 1 <= m /\ \A i \in 1 .. m : 1 + i - 1 = i
        BY <3>3
      <4>2. m - 1 + 1 = m
        BY <4>1
      <4>3. \A i \in 1 .. m : s.buffer[i] \in C
        BY <3>7
      <4> HIDE DEF m
      <4>4. /\ SubSeq(s.buffer, 1, m) \in Seq(C)
            /\ Len(SubSeq(s.buffer, 1, m)) = m
            /\ \A i \in 1 .. m : SubSeq(s.buffer, 1, m)[i] = s.buffer[i]
        <5>1. /\ SubSeq(s.buffer, 1, m) \in Seq(C)
              /\ Len(SubSeq(s.buffer, 1, m)) = IF 1 <= m THEN m - 1 + 1 ELSE 0
              /\ \A i \in 1 .. m - 1 + 1 : SubSeq(s.buffer, 1, m)[i] = s.buffer[1 + i - 1]
          BY <4>1, <4>3, SubSeqProperties
        <5> QED
          BY <4>1, <4>2, <5>1
      <4> QED
        BY <4>4 DEF m
    <3>9. u \in Seq(C) /\ Len(u) = N + 1 /\ u[N + 1] = "NUL" /\ \A i \in 1 .. N : u[i] = text[i]
      BY <3>2, <3>3, AppendProperties
    <3> HIDE DEF t, u, N
    <3>10. \A i \in 1 .. Len(t) : t[i] = u[i]
      BY <3>5, <3>6, <3>8, <3>9
    <3>11. t = u
      BY <3>8, <3>9, <3>10, SeqEqual
    <3> QED
      BY <3>11 DEF t, u, N
  <2> QED
    BY <2>1, <2>2 DEF s, text, n
<1>9. a.uint # 0 \/ a.bool \/ a.bytes.ok => a.string.status = "SUCCESS"
  BY <1>6, <1>7
<1> QED
  BY <1>3, <1>5, <1>8, <1>9, Zenon DEF a

(* A number is returned exactly when the first word of the field has a     *)
(* value, decimal or marked hexadecimal, and the type can hold it, for     *)
(* every text a document can hold, every base and every width              *)
(* (getUIntField, ut_kvp.c).                                               *)
THEOREM NumbersAreExactAlways == Spec => []NumbersAreExact
<1> QED
  BY InvInit, InvNext, NoneInit, NoneNext, NumbersExact, PTL DEF Spec

(* A list of bytes is returned whole and in order, in a buffer that is     *)
(* large enough, or not at all (ut_kvp_getDataBytes, ut_kvp.c).            *)
THEOREM BytesAllOrNothingAlways == Spec => []BytesAllOrNothing
<1> QED
  BY InvInit, InvNext, NoneInit, NoneNext, BytesWhole, PTL DEF Spec

(* What the query functions answer about one key fits together, whatever   *)
(* profiles have been opened.                                              *)
THEOREM QueriesAgreeAlways == Spec => []QueriesAgree
<1> QED
  BY InvInit, InvNext, NoneInit, NoneNext, QueriesAlike, PTL DEF Spec
=============================================================================
