---------------------------- MODULE KvpInstance -----------------------------
(***************************************************************************)
(* One KVP instance of ut_kvp.c over the calls that change it: it is       *)
(* created, profiles are opened into it from files and from memory, and it *)
(* is closed and destroyed.  The calls come from one thread, one after the *)
(* other; every call is one step.                                          *)
(*                                                                         *)
(* What a call finds behind a file name or in a buffer is a source.  The   *)
(* parser, the resolution of its anchors and the copy of its root, with    *)
(* the includes expanded (KvpInclude), decide what is in it.               *)
(***************************************************************************)
EXTENDS KvpNode

CONSTANTS Source,       \* what can be opened, see SourceAssumption
          Key,          \* the keys at the top level of the sources
          MaxProfiles   \* bound: profiles opened since the last close

(* built: the parser gave a document; resolved: its anchors, aliases and   *)
(* merge keys resolve; root: its root; copy: what process_node_copy makes  *)
(* of it at depth 0.                                                       *)
ASSUME SourceAssumption ==
  \A src \in Source :
    /\ src.built \in BOOLEAN /\ src.resolved \in BOOLEAN
    /\ ~src.built => src.root = NoNode
    /\ src.root = NoNode => src.copy = NoNode
    /\ src.root # NoNode => src.root.kind \in {"scalar", "tagged", "mapping",
                                               "sequence"}
    /\ src.copy # NoNode => src.copy.kind \in {"scalar", "mapping", "sequence"}
    /\ WellFormed(src.copy)
ASSUME BoundAssumption == MaxProfiles \in Nat

NoDocument == [root |-> NoNode, exists |-> FALSE]       \* fy_handle = NULL
EmptyDocument == [root |-> NoNode, exists |-> TRUE]     \* fy_document_create

VARIABLES pInstance,    \* "null" or "live": the handle the client holds
          fy_handle,    \* the document of the instance
          status,       \* what the last ut_kvp_open or openMemory returned
          leaked,       \* history: documents of sources nobody has destroyed
          profiles      \* history: what was opened, and how, since a close

vars == <<pInstance, fy_handle, status, leaked, profiles>>

Init == /\ pInstance = "null"
        /\ fy_handle = NoDocument
        /\ status = "NONE"
        /\ leaked = {}
        /\ profiles = <<>>

-----------------------------------------------------------------------------
(* malloc succeeds; when it fails the client is left with NULL.            *)
ut_kvp_createInstance == /\ pInstance = "null"
                         /\ pInstance' = "live"
                         /\ UNCHANGED <<fy_handle, status, leaked, profiles>>

(* The effect of ut_kvp_close, on its own and inside the other calls.      *)
Closes == /\ fy_handle' = NoDocument
          /\ profiles' = <<>>

(* With a NULL handle ut_kvp_close and ut_kvp_destroyInstance do nothing.  *)
ut_kvp_close == /\ pInstance = "live"
                /\ Closes
                /\ UNCHANGED <<pInstance, status, leaked>>

ut_kvp_destroyInstance == /\ pInstance = "live"
                          /\ Closes
                          /\ pInstance' = "null"
                          /\ UNCHANGED <<status, leaked>>

-----------------------------------------------------------------------------
(* A call that is refused, or runs out of memory, before it parses.        *)
Refused(s) == /\ status' = s
              /\ UNCHANGED <<pInstance, fy_handle, leaked, profiles>>

(* The document the parser built of a source belongs to the call.  What is *)
(* left when the call returns: that document, unless the parser gave none  *)
(* or the path the call takes has destroyed it.                            *)
Left(how, src, destroyed) ==
  IF src.built /\ ~destroyed THEN {[how |-> how, src |-> src]} ELSE {}

(* A call whose source cannot be read closes what is open.                 *)
Fails(how, src, destroyed) ==
  /\ status' = "PARSING_ERROR"
  /\ Closes
  /\ leaked' = leaked \cup Left(how, src, destroyed)
  /\ UNCHANGED pInstance

(* The profile is in the instance.                                         *)
Opened(how, doc, src, destroyed) ==
  /\ status' = "SUCCESS"
  /\ fy_handle' = doc
  /\ profiles' = Append(profiles, [how |-> how, root |-> src.copy])
  /\ leaked' = leaked \cup Left(how, src, destroyed)
  /\ UNCHANGED pInstance

(* The document a call works on: a new one, unless there is one.           *)
Target == IF fy_handle.exists THEN fy_handle ELSE EmptyDocument

(* Mutant: the copy becomes the root whether or not there is one.          *)
WithProfileReplaced(doc, copy) == [doc EXCEPT !.root = copy]

(* ut_kvp_open merges the copied root into the one there is, if any.       *)
WithProfile(doc, copy) ==
  [doc EXCEPT !.root = IF doc.root = NoNode THEN copy
                       ELSE MergeNodes(doc.root, copy)]

OpenRefused ==
  \/ pInstance = "null" /\ Refused("INVALID_INSTANCE")
  \/ pInstance = "live" /\ Refused("INVALID_PARAM")     \* fileName = NULL
  \/ pInstance = "live" /\ Refused("FILE_OPEN_ERROR")   \* access() fails

Readable(src) == src.built /\ src.resolved /\ src.root # NoNode

(* Every path that has built newDoc destroys it: the source does not       *)
(* parse, does not resolve or has no root, fy_document_create gives no     *)
(* first document, or the copy fails.                                      *)
OpenFails(src) ==
  /\ pInstance = "live"
  /\ \/ ~src.built /\ Fails("file", src, FALSE)
     \/ src.built /\ ~src.resolved /\ Fails("file", src, TRUE)
     \/ /\ src.built /\ src.resolved /\ src.root = NoNode
        /\ Fails("file", src, TRUE)
     \/ Readable(src) /\ ~fy_handle.exists /\ Fails("file", src, TRUE)
     \/ Readable(src) /\ src.copy = NoNode /\ Fails("file", src, TRUE)

OpenSucceeds(src) ==
  /\ pInstance = "live"
  /\ Readable(src) /\ src.copy # NoNode
  /\ Len(profiles) < MaxProfiles
  /\ Opened("file", WithProfile(Target, src.copy), src, TRUE)

ut_kvp_open == \/ OpenRefused
               \/ \E src \in Source : OpenFails(src) \/ OpenSucceeds(src)

-----------------------------------------------------------------------------
OpenMemoryRefused ==
  \/ pInstance = "null" /\ Refused("INVALID_INSTANCE")
  \/ pInstance = "live" /\ Refused("INVALID_PARAM")     \* pData = NULL
  \/ pInstance = "live" /\ Refused("PARSING_ERROR")     \* strdup: NULL

(* fy_document_resolve fails: the instance is closed, and the call returns *)
(* without destroying srcDoc.                                              *)
OpenMemoryUnresolved(src) == /\ pInstance = "live"
                             /\ src.built /\ ~src.resolved
                             /\ Fails("memory", src, FALSE)

(* fy_document_resolve lets a NULL srcDoc through, so that a source that   *)
(* does not parse comes this far.                                          *)
Resolves(src) == ~src.built \/ src.resolved

(* The source is merged, as it is, into the root there is, before its root *)
(* is copied.                                                              *)
Merged(src) == IF fy_handle.exists
               THEN [fy_handle EXCEPT !.root = MergeNodes(@, src.root)]
               ELSE EmptyDocument

(* fy_document_create gives no first document.                             *)
OpenMemoryNoDocument(src) == /\ pInstance = "live"
                             /\ Resolves(src)
                             /\ ~fy_handle.exists
                             /\ Fails("memory", src, TRUE)

(* Mutant: the failed call leaves the instance as it finds it.             *)
OpenMemoryFailsAsIs(src) == /\ pInstance = "live"
                            /\ Resolves(src)
                            /\ src.copy = NoNode
                            /\ status' = "PARSING_ERROR"
                            /\ fy_handle' = Merged(src)
                            /\ UNCHANGED <<pInstance, leaked, profiles>>

(* Mutant: this path, too, forgets srcDoc.                                 *)
OpenMemoryFailsLeaks(src) == /\ pInstance = "live"
                             /\ Resolves(src)
                             /\ src.copy = NoNode
                             /\ Fails("memory", src, FALSE)

(* The copy of the root fails, or there is none to copy.                   *)
OpenMemoryFails(src) == /\ pInstance = "live"
                        /\ Resolves(src)
                        /\ src.copy = NoNode
                        /\ Fails("memory", src, TRUE)

(* fy_document_set_root: the copy of this source's root takes the place of *)
(* the merged one.                                                         *)
WithMemory(doc, copy) == [doc EXCEPT !.root = copy]

OpenMemorySucceeds(src) ==
  /\ pInstance = "live"
  /\ Resolves(src) /\ src.copy # NoNode
  /\ Len(profiles) < MaxProfiles
  /\ Opened("memory", WithMemory(Merged(src), src.copy), src, TRUE)

ut_kvp_openMemory ==
  \/ OpenMemoryRefused
  \/ \E src \in Source : \/ OpenMemoryUnresolved(src)
                         \/ OpenMemoryNoDocument(src)
                         \/ OpenMemoryFails(src)
                         \/ OpenMemorySucceeds(src)

Next == \/ ut_kvp_createInstance
        \/ ut_kvp_open
        \/ ut_kvp_openMemory
        \/ ut_kvp_close
        \/ ut_kvp_destroyInstance

Spec == Init /\ [][Next]_vars

-----------------------------------------------------------------------------
Profile == [how : {"file", "memory"}, root : {src.copy : src \in Source}]

Statuses == {"NONE", "SUCCESS", "INVALID_INSTANCE", "INVALID_PARAM",
             "FILE_OPEN_ERROR", "PARSING_ERROR"}

(* The instance holds a document exactly while a profile is open in it.    *)
TypeOK == /\ pInstance \in {"null", "live"}
          /\ fy_handle.exists <=> profiles # <<>>
          /\ pInstance = "null" => fy_handle = NoDocument
          /\ status \in Statuses
          /\ leaked \subseteq [how : {"file", "memory"}, src : Source]
          /\ profiles \in Seq(Profile) /\ Len(profiles) <= MaxProfiles

(* Between two calls the document of an instance has a root: what          *)
(* ut_kvp_getData emits and ut_kvp_openMemory merges into is there.        *)
HandleHasRoot == fy_handle.exists => fy_handle.root # NoNode

(* The profiles that make up the document: those opened since openMemory   *)
(* last replaced it.                                                       *)
Current ==
  LET memory == {j \in DOMAIN profiles : profiles[j].how = "memory"}
      first == IF memory = {} THEN 1
               ELSE CHOOSE j \in memory : \A h \in memory : h <= j
  IN SubSeq(profiles, first, Len(profiles))

(* Profiles opened one after the other (test_ut_kvp_add_multiple_profile): *)
(* a key has the value of the latest mapping that has the key, and no      *)
(* profile loses a key of another one; when the first is no mapping it     *)
(* stays, alone.                                                           *)
LatestProfileWins ==
  Current # <<>> =>
    LET first == Current[1].root
        Having(k) == {j \in DOMAIN Current : /\ IsMapping(Current[j].root)
                                             /\ HasKey(Current[j].root, k)}
    IN IF IsMapping(first)
       THEN /\ IsMapping(fy_handle.root)
            /\ \A k \in Key :
                 IF Having(k) = {} THEN ~HasKey(fy_handle.root, k)
                 ELSE LET last == CHOOSE j \in Having(k) :
                                    \A h \in Having(k) : h <= j
                      IN Lookup(fy_handle.root, k)
                           = Lookup(Current[last].root, k)
       ELSE fy_handle.root = first

(* A call that fails leaves the profile as it is or empties the instance;  *)
(* it never leaves a part of its source, although openMemory merges first. *)
NoHalfOpenedProfile ==
  [][status' # "SUCCESS" => fy_handle' \in {fy_handle, NoDocument}]_vars

(* The document a call has built of its source does not outlive the call,  *)
(* whichever path through ut_kvp_open or ut_kvp_openMemory it takes; but   *)
(* for one: a buffer whose anchors do not resolve.                         *)
OnlyUnresolvedLeak ==
  \A left \in leaked :
    left.how = "memory" /\ left.src.built /\ ~left.src.resolved

(* Profiles opened one after the other, from files or from memory          *)
(* (CHANGELOG.md:65: "Adding multiple input support in open memory as      *)
(* well"): the keys of all of them are in the instance.                    *)
AllProfilesPresent ==
  (\A j \in DOMAIN profiles : IsMapping(profiles[j].root)) =>
    \A j \in DOMAIN profiles : \A k \in Key :
      HasKey(profiles[j].root, k) => HasKey(fy_handle.root, k)
=============================================================================
