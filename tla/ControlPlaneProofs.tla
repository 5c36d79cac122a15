------------------------- MODULE ControlPlaneProofs -------------------------
(***************************************************************************)
(* What TLAPS proves of ControlPlane, for every size of the queue and of   *)
(* the list of callbacks, every number of messages and of starts:          *)
(*   - every variable keeps its type;                                      *)
(*   - no thread outlives the instance or a Stop (Lifecycle);              *)
(*   - no payload is freed twice, used after it is freed, handled out of   *)
(*     order, or lost but by a full queue (Custody);                       *)
(*   - the first run listens until Stop is called (FirstRun);              *)
(*   - each message calls exactly the entries it matches, complete, in     *)
(*     whatever order the stores of a registration land, the entries torn  *)
(*     by it excepted (Registration, Dispatching);                         *)
(*   - only the first run takes and receives messages (OneServer), and so  *)
(*     all of it implements the one server of ControlPlaneService.         *)
(***************************************************************************)
EXTENDS ControlPlane, SequenceTheorems, TLAPS

(* The life of the threads.  Only the generation the handle stands for can *)
(* be running, a state machine ends after its libwebsockets thread, and    *)
(* the handle is 0 from the moment Exit destroys anything.                 *)
Lifecycle ==
  /\ \A g \in Gen : /\ sm[g] \in {"none", "entry"} <=> ws[g] = "none"
                    /\ sm[g] = "done" => ws[g] = "done"
                    /\ sm[g] \notin {"none", "done"}
                         => state_machine_thread_handle = g
  /\ state_machine_thread_handle # 0 => /\ instance = "live"
                                        /\ client \in {"idle", "join"}
                                        /\ sm[state_machine_thread_handle] # "none"
  /\ client = "join" => state_machine_thread_handle # 0
  /\ client = "destroy_context" => instance = "live"

(* A state machine has a message in hand exactly while it handles one, a   *)
(* libwebsockets thread a payload exactly while it enqueues it.            *)
InHand == \A g \in Gen :
            /\ msg[g] # NoMessage <=> sm[g] \in {"handle", "dispatch", "release"}
            /\ received[g] # 0 <=> ws[g] = "enqueue"

(* Payloads in hand are allocated, and the one being enqueued is the       *)
(* newest of all.                                                          *)
HandPayloads ==
  \A g \in Gen :
    /\ received[g] # 0 => received[g] = arrived /\ received[g] \in heap \ dropped
    /\ msg[g].message # 0 => msg[g].message \in heap \ dropped
    /\ \A h \in Gen : received[h] # 0 => msg[g].message < received[h]

(* Payloads in the queue are allocated, and increase: what a state machine *)
(* holds is older, what is being enqueued is newer.                        *)
QueuePayloads ==
  \A k \in 1 .. Len(message_queue) : message_queue[k] # ExitRequest =>
    /\ message_queue[k].message \in heap \ dropped
    /\ \A g \in Gen :
         /\ msg[g].message < message_queue[k].message
         /\ received[g] # 0 => message_queue[k].message < received[g]
    /\ \A j \in 1 .. k - 1 : message_queue[j].message < message_queue[k].message

(* Every allocated payload is in the queue, in hand, or was dropped.       *)
Accounted == /\ heap \subseteq 1 .. arrived
             /\ dropped \subseteq heap
             /\ instance # "freed" => heap \subseteq Queued \cup Held \cup dropped

Custody == HandPayloads /\ QueuePayloads /\ Accounted

(* The list of callbacks.  A registration in progress has a slot to write  *)
(* to, which holds what has landed of it.  What the index covers is        *)
(* complete, but for the slot of a registration whose index overtook the   *)
(* rest; that slot is torn.                                                *)
Unfinished(e) == stores # {} /\ e = Slot /\ e \in torn

Registration ==
  /\ stores # {} => registering \in Keys
  /\ "index" \in stores => callback_entry_index < MaxCallbackEntries
  /\ stores # {} /\ "index" \notin stores => /\ callback_entry_index > 0
                                             /\ callback_entry_index \in torn
  /\ stores # {} =>
       /\ "key" \notin stores => callbackEntryList[Slot].key \in Keys
       /\ "pCallback" \notin stores => callbackEntryList[Slot].pCallback
       /\ "userData" \notin stores => callbackEntryList[Slot].userData
  /\ \A e \in 1 .. callback_entry_index :
       Complete(callbackEntryList[e]) \/ Unfinished(e)

Inv == TypeOK /\ Lifecycle /\ InHand /\ Custody /\ Registration

-----------------------------------------------------------------------------
(* What enqueue_message makes of the queue, and what dequeue_message does. *)

LEMMA EnqueueFacts ==
  ASSUME NEW S, NEW q \in Seq(S), NEW m \in S, Len(q) <= MaxMessages
  PROVE  /\ Enqueue(q, m) \in Seq(S)
         /\ Len(Enqueue(q, m)) <= MaxMessages
         /\ HasRoom(q) => /\ Len(Enqueue(q, m)) = Len(q) + 1
                          /\ Enqueue(q, m)[Len(q) + 1] = m
                          /\ \A k \in 1 .. Len(q) : Enqueue(q, m)[k] = q[k]
         /\ ~HasRoom(q) => Enqueue(q, m) = q
BY MaxMessagesAssumption DEF Enqueue, HasRoom

LEMMA TailFacts ==
  ASSUME NEW S, NEW q \in Seq(S), q # <<>>
  PROVE  /\ Tail(q) \in Seq(S)
         /\ Len(q) >= 1 /\ Len(Tail(q)) = Len(q) - 1
         /\ Head(q) \in S /\ Head(q) = q[1]
         /\ \A k \in 1 .. Len(q) - 1 : Tail(q)[k] = q[k + 1]
BY HeadTailProperties

(* A message carries a payload unless it is EXIT_REQUESTED.                *)
LEMMA MessageFacts ==
  /\ ExitRequest \in Message /\ ExitRequest.message = 0
  /\ \A p \in Payload : Data(p) \in Message /\ Data(p).message = p
  /\ NoMessage \notin Message /\ NoMessage.message = 0
  /\ \A m \in Message : /\ m.message \in Payload \cup {0}
                        /\ m # ExitRequest => m.message \in Payload
<1>1. /\ ExitRequest \in Message /\ ExitRequest.message = 0
      /\ NoMessage.message = 0
  BY DEF Message, ExitRequest, NoMessage
<1>2. \A p \in Payload : Data(p) \in Message /\ Data(p).message = p
  BY DEF Message, Data
<1>3. ASSUME NEW m \in Message
      PROVE  /\ m.status # "NONE"
             /\ m.message \in Payload \cup {0}
             /\ m # ExitRequest => m.message \in Payload
  BY DEF Message, Data, ExitRequest
<1>4. NoMessage \notin Message
  BY <1>3 DEF NoMessage
<1> QED BY <1>1, <1>2, <1>3, <1>4

LEMMA InitInv == Init => Inv
<1> SUFFICES ASSUME Init PROVE Inv
  OBVIOUS
<1> USE BoundAssumption, KeyAssumption, MaxMessagesAssumption
<1>1. TypeOK
  <2>1. Unset \in EntryType
    BY DEF Unset, EntryType
  <2>2. message_queue \in Seq(Message) /\ Len(message_queue) <= MaxMessages
    BY DEF Init
  <2>3. called \in [Gen -> Seq([entry : Entry, at : EntryType])]
    BY DEF Init
  <2>4. doc \in [Gen -> SUBSET Keys]
    BY DEF Init
  <2>5. callbackEntryList \in [Entry -> EntryType]
    BY <2>1 DEF Init
  <2>6. /\ instance \in {"none", "live", "no_context", "freed"}
        /\ state_machine_thread_handle \in Gen \cup {0}
        /\ callback_entry_index \in 0 .. MaxCallbackEntries
        /\ stores \in SUBSET {"key", "pCallback", "userData", "index"}
        /\ registering \in Keys \cup {NoKey} /\ torn \in SUBSET Entry
        /\ client \in ClientLabels
    BY DEF Init, ClientLabels
  <2>7. /\ sm \in [Gen -> SmLabels] /\ ws \in [Gen -> WsLabels]
        /\ msg \in [Gen -> Message \cup {NoMessage}]
        /\ i \in [Gen -> 0 .. MaxCallbackEntries]
        /\ received \in [Gen -> Payload \cup {0}]
    BY DEF Init, SmLabels, WsLabels
  <2>8. /\ heap \in SUBSET Payload /\ dropped \in SUBSET Payload
        /\ arrived \in 0 .. MaxPayloads
    BY DEF Init
  <2>9. exit_request \in BOOLEAN /\ exiting \in BOOLEAN
    BY DEF Init
  <2> QED BY <2>2, <2>3, <2>4, <2>5, <2>6, <2>7, <2>8, <2>9 DEF TypeOK
<1>2. Lifecycle /\ InHand
  BY DEF Init, Lifecycle, InHand
<1>3. Custody
  BY DEF Init, Custody, HandPayloads, QueuePayloads, Accounted, NoMessage, Queued, Held
<1>4. Registration
  BY DEF Init, Registration
<1> QED BY <1>1, <1>2, <1>3, <1>4 DEF Inv

(* The types.                                                              *)
LEMMA TypeStep == Inv /\ [Next]_vars => TypeOK'
<1> SUFFICES ASSUME Inv, [Next]_vars PROVE TypeOK'
  OBVIOUS
<1> USE BoundAssumption, KeyAssumption
<1>1. ASSUME UT_ControlPlane_Init PROVE TypeOK'
  BY <1>1 DEF Inv, TypeOK, SmLabels, WsLabels, ClientLabels,
      UT_ControlPlane_Init, entryVars, clientVars, dispatchVars, wsVars,
      heapVars
<1>2. ASSUME NEW key \in Keys, NEW valid \in BOOLEAN,
             UT_ControlPlane_RegisterCallbackOnMessage(key, valid) PROVE TypeOK'
  BY <1>2 DEF Inv, TypeOK, SmLabels, WsLabels, ClientLabels,
      UT_ControlPlane_RegisterCallbackOnMessage, Calling, Valid, ListHasRoom,
      instanceVars, clientVars, dispatchVars, wsVars, heapVars
<1>3. ASSUME NEW s \in stores, StoreLands(s) PROVE TypeOK'
  <2>1. Slot \in Entry /\ callback_entry_index' \in 0 .. MaxCallbackEntries
    BY <1>3 DEF Inv, TypeOK, Registration, StoreLands, Slot, Entry
  <2>2. callbackEntryList' \in [Entry -> EntryType]
    <3>1. \A e \in Entry : /\ [callbackEntryList[e] EXCEPT !.key = registering] \in EntryType
                           /\ [callbackEntryList[e] EXCEPT !.pCallback = TRUE] \in EntryType
                           /\ [callbackEntryList[e] EXCEPT !.userData = TRUE] \in EntryType
      BY DEF Inv, TypeOK, EntryType
    <3>2. \/ callbackEntryList' = callbackEntryList
          \/ callbackEntryList' = [callbackEntryList EXCEPT ![Slot] =
                                     [callbackEntryList[Slot] EXCEPT !.key = registering]]
          \/ callbackEntryList' = [callbackEntryList EXCEPT ![Slot] =
                                     [callbackEntryList[Slot] EXCEPT !.pCallback = TRUE]]
          \/ callbackEntryList' = [callbackEntryList EXCEPT ![Slot] =
                                     [callbackEntryList[Slot] EXCEPT !.userData = TRUE]]
      BY <1>3 DEF StoreLands
    <3> QED BY <2>1, <3>1, <3>2 DEF Inv, TypeOK
  <2>3. torn' \in SUBSET Entry
    BY <1>3, <2>1 DEF Inv, TypeOK, StoreLands
  <2>4. stores' \in SUBSET {"key", "pCallback", "userData", "index"}
    BY <1>3 DEF Inv, TypeOK, StoreLands
  <2> QED BY <1>3, <2>1, <2>2, <2>3, <2>4 DEF Inv, TypeOK, SmLabels, WsLabels, ClientLabels, StoreLands, Slot, instanceVars, clientVars, dispatchVars, wsVars, heapVars
<1>4. ASSUME NEW g \in Gen, UT_ControlPlane_Start(g) PROVE TypeOK'
  BY <1>4 DEF Inv, TypeOK, SmLabels, WsLabels, ClientLabels,
      UT_ControlPlane_Start, Calling, Valid, entryVars, clientVars, dispatchVars,
      wsVars, heapVars
<1>5. ASSUME NEW b \in BOOLEAN, StopBegin(b) PROVE TypeOK'
  <2>1. message_queue' \in Seq(Message) /\ Len(message_queue') <= MaxMessages
    BY <1>5, EnqueueFacts, MessageFacts DEF Inv, TypeOK, StopBegin, RequestExit
  <2> QED BY <1>5, <2>1 DEF Inv, TypeOK, SmLabels, WsLabels, ClientLabels, StopBegin, Calling, Valid, RequestExit, instanceVars, entryVars, dispatchVars, wsVars, heapVars
<1>6. ASSUME StopJoin PROVE TypeOK'
  BY <1>6 DEF Inv, TypeOK, SmLabels, WsLabels, ClientLabels, StopJoin,
      entryVars, dispatchVars, wsVars, heapVars
<1>7. ASSUME ExitDestroyContext PROVE TypeOK'
  BY <1>7 DEF Inv, TypeOK, SmLabels, WsLabels, ClientLabels,
      ExitDestroyContext, entryVars, dispatchVars, wsVars, heapVars
<1>8. ASSUME ExitFree PROVE TypeOK'
  <2>1. message_queue' \in Seq(Message) /\ Len(message_queue') <= MaxMessages
    BY <1>8, MaxMessagesAssumption DEF ExitFree
  <2> QED BY <1>8, <2>1 DEF Inv, TypeOK, SmLabels, WsLabels, ClientLabels, ExitFree, entryVars, dispatchVars, wsVars, heapVars
<1>9. ASSUME NEW g \in Gen, SmEntry(g) PROVE TypeOK'
  BY <1>9 DEF Inv, TypeOK, SmLabels, WsLabels, ClientLabels, SmEntry, SmGoto,
      instanceVars, entryVars, clientVars, dispatchVars, heapVars
<1>10. ASSUME NEW g \in Gen, SmTest(g) PROVE TypeOK'
  BY <1>10 DEF Inv, TypeOK, SmLabels, WsLabels, ClientLabels, SmTest, SmGoto,
      instanceVars, entryVars, clientVars, dispatchVars, wsVars, heapVars
<1>11. ASSUME NEW g \in Gen, SmDequeue(g) PROVE TypeOK'
  <2>1. message_queue' \in Seq(Message) /\ Len(message_queue') <= MaxMessages
    BY <1>11, TailFacts, MaxMessagesAssumption DEF Inv, TypeOK, SmDequeue
  <2>2. msg' \in [Gen -> Message \cup {NoMessage}]
    BY <1>11, TailFacts DEF Inv, TypeOK, SmDequeue
  <2> QED BY <1>11, <2>1, <2>2 DEF Inv, TypeOK, SmLabels, WsLabels, ClientLabels, SmDequeue, SmGoto, instanceVars, entryVars, clientVars, dispatchVars, wsVars, heapVars
<1>12. ASSUME NEW g \in Gen, SmNoMemory(g) PROVE TypeOK'
  BY <1>12 DEF Inv, TypeOK, SmLabels, WsLabels, ClientLabels, SmNoMemory,
      SmGoto, instanceVars, entryVars, clientVars, dispatchVars, wsVars,
      heapVars
<1>13. ASSUME NEW g \in Gen, SmHandleExit(g) PROVE TypeOK'
  BY <1>13 DEF Inv, TypeOK, SmLabels, WsLabels, ClientLabels, SmHandleExit,
      SmGoto, entryVars, clientVars, dispatchVars, wsVars, heapVars
<1>14. ASSUME NEW g \in Gen, NEW fields \in SUBSET Keys, SmOpenMemory(g, fields) PROVE TypeOK'
  <2>1. doc' \in [Gen -> SUBSET Keys]
    BY <1>14 DEF Inv, TypeOK, SmOpenMemory
  <2>2. i' \in [Gen -> 0 .. MaxCallbackEntries]
    BY <1>14 DEF Inv, TypeOK, SmOpenMemory
  <2>3. torn' \in SUBSET Entry
    BY <1>14 DEF Inv, TypeOK, SmOpenMemory
  <2> QED BY <1>14, <2>1, <2>2, <2>3 DEF Inv, TypeOK, SmLabels, WsLabels, ClientLabels, SmOpenMemory, SmGoto, instanceVars, clientVars, wsVars, heapVars
<1>15. ASSUME NEW g \in Gen, SmOpenFails(g) PROVE TypeOK'
  BY <1>15 DEF Inv, TypeOK, SmLabels, WsLabels, ClientLabels, SmOpenFails,
      SmGoto, instanceVars, entryVars, clientVars, dispatchVars, wsVars,
      heapVars
<1>16. ASSUME NEW g \in Gen, NEW matches \in BOOLEAN, SmDispatch(g, matches) PROVE TypeOK'
  <2>1. i[g] + 1 \in Entry /\ i' \in [Gen -> 0 .. MaxCallbackEntries]
    BY <1>16 DEF Inv, TypeOK, SmDispatch, NoMoreEntries, Entry
  <2>2. [entry |-> i[g] + 1, at |-> callbackEntryList[i[g] + 1]]
          \in [entry : Entry, at : EntryType]
    BY <2>1 DEF Inv, TypeOK
  <2>3. called' \in [Gen -> Seq([entry : Entry, at : EntryType])]
    <3>1. called[g] \in Seq([entry : Entry, at : EntryType])
      BY DEF Inv, TypeOK
    <3>2. Append(called[g], [entry |-> i[g] + 1, at |-> callbackEntryList[i[g] + 1]])
            \in Seq([entry : Entry, at : EntryType])
      BY <2>2, <3>1, AppendProperties
    <3>3. \/ called' = called
          \/ called' = [called EXCEPT ![g] =
               Append(called[g], [entry |-> i[g] + 1, at |-> callbackEntryList[i[g] + 1]])]
      BY <1>16 DEF SmDispatch
    <3> QED BY <3>2, <3>3 DEF Inv, TypeOK
  <2> QED BY <1>16, <2>1, <2>3 DEF Inv, TypeOK, SmLabels, WsLabels, ClientLabels, SmDispatch, instanceVars, entryVars, clientVars, wsVars, heapVars
<1>17. ASSUME NEW g \in Gen, SmDispatchEnd(g) PROVE TypeOK'
  BY <1>17 DEF Inv, TypeOK, SmLabels, WsLabels, ClientLabels, SmDispatchEnd,
      SmGoto, instanceVars, entryVars, clientVars, dispatchVars, wsVars,
      heapVars
<1>18. ASSUME NEW g \in Gen, SmRelease(g) PROVE TypeOK'
  <2>1. doc' \in [Gen -> SUBSET Keys] /\ i' \in [Gen -> 0 .. MaxCallbackEntries]
    BY <1>18 DEF Inv, TypeOK, SmRelease, Freed
  <2>2. called' \in [Gen -> Seq([entry : Entry, at : EntryType])]
    <3>1. <<>> \in Seq([entry : Entry, at : EntryType])
      OBVIOUS
    <3>2. called' = [called EXCEPT ![g] = <<>>]
      BY <1>18 DEF SmRelease
    <3> QED BY <3>1, <3>2 DEF Inv, TypeOK
  <2>3. msg' \in [Gen -> Message \cup {NoMessage}] /\ heap' \in SUBSET Payload
    BY <1>18 DEF Inv, TypeOK, SmRelease, Freed
  <2> QED BY <1>18, <2>1, <2>2, <2>3 DEF Inv, TypeOK, SmLabels, WsLabels, ClientLabels, SmRelease, SmGoto, instanceVars, entryVars, clientVars, wsVars
<1>19. ASSUME NEW g \in Gen, SmJoin(g) PROVE TypeOK'
  BY <1>19 DEF Inv, TypeOK, SmLabels, WsLabels, ClientLabels, SmJoin, SmGoto,
      instanceVars, entryVars, clientVars, dispatchVars, wsVars, heapVars
<1>20. ASSUME NEW g \in Gen, WsTest(g) PROVE TypeOK'
  BY <1>20 DEF Inv, TypeOK, SmLabels, WsLabels, ClientLabels, WsTest, WsGoto,
      instanceVars, entryVars, clientVars, dispatchVars, heapVars
<1>21. ASSUME NEW g \in Gen, WsReceive(g) PROVE TypeOK'
  <2>1. arrived + 1 \in Payload /\ arrived' \in 0 .. MaxPayloads
    BY <1>21 DEF Inv, TypeOK, Payload, WsReceive
  <2>2. received' \in [Gen -> Payload \cup {0}] /\ heap' \in SUBSET Payload
    BY <1>21, <2>1 DEF Inv, TypeOK, WsReceive
  <2> QED BY <1>21, <2>1, <2>2 DEF Inv, TypeOK, SmLabels, WsLabels, ClientLabels, WsReceive, WsGoto, instanceVars, entryVars, clientVars, dispatchVars
<1>22. ASSUME NEW g \in Gen, WsEnqueue(g) PROVE TypeOK'
  <2>1. received[g] \in Payload
    BY <1>22 DEF Inv, TypeOK, InHand, WsEnqueue, WsGoto
  <2>2. message_queue' \in Seq(Message) /\ Len(message_queue') <= MaxMessages
    BY <1>22, <2>1, EnqueueFacts, MessageFacts DEF Inv, TypeOK, WsEnqueue
  <2> QED BY <1>22, <2>1, <2>2 DEF Inv, TypeOK, SmLabels, WsLabels, ClientLabels, WsEnqueue, WsGoto, instanceVars, entryVars, clientVars, dispatchVars
<1>23. ASSUME NEW g \in Gen, WsReturn(g) PROVE TypeOK'
  BY <1>23 DEF Inv, TypeOK, SmLabels, WsLabels, ClientLabels, WsReturn,
      WsGoto, instanceVars, entryVars, clientVars, dispatchVars, heapVars
<1>24. CASE UNCHANGED vars
  BY <1>24 DEF Inv, TypeOK, SmLabels, WsLabels, ClientLabels, vars,
      instanceVars, entryVars, clientVars, dispatchVars, wsVars, heapVars
<1> QED
  BY <1>1, <1>2, <1>3, <1>4, <1>5, <1>6, <1>7, <1>8, <1>9, <1>10, <1>11,
      <1>12, <1>13, <1>14, <1>15, <1>16, <1>17, <1>18, <1>19, <1>20, <1>21,
      <1>22, <1>23, <1>24
  DEF Next, ClientStep, ClientReturns, SmStep, WsStep, UT_ControlPlane_Stop,
      UT_ControlPlane_Exit

(* The life of the threads.                                                *)
LEMMA LifecycleStep == Inv /\ [Next]_vars => Lifecycle'
<1> SUFFICES ASSUME Inv, [Next]_vars PROVE Lifecycle'
  OBVIOUS
<1> USE BoundAssumption
<1>1. ASSUME UT_ControlPlane_Init PROVE Lifecycle'
  BY <1>1 DEF Inv, TypeOK, Lifecycle, Gen, UT_ControlPlane_Init, entryVars,
      clientVars, dispatchVars, wsVars, heapVars
<1>2. ASSUME NEW key \in Keys, NEW valid \in BOOLEAN,
             UT_ControlPlane_RegisterCallbackOnMessage(key, valid) PROVE Lifecycle'
  BY <1>2 DEF Inv, TypeOK, Lifecycle, Gen,
      UT_ControlPlane_RegisterCallbackOnMessage, Calling, Valid, ListHasRoom,
      instanceVars, clientVars, dispatchVars, wsVars, heapVars
<1>3. ASSUME NEW s \in stores, StoreLands(s) PROVE Lifecycle'
  BY <1>3 DEF Inv, TypeOK, Lifecycle, Gen, StoreLands, Slot, instanceVars,
      clientVars, dispatchVars, wsVars, heapVars
<1>4. ASSUME NEW g \in Gen, UT_ControlPlane_Start(g) PROVE Lifecycle'
  BY <1>4 DEF Inv, TypeOK, Lifecycle, Gen, UT_ControlPlane_Start, Calling, Valid,
      entryVars, clientVars, dispatchVars, wsVars, heapVars
<1>5. ASSUME NEW b \in BOOLEAN, StopBegin(b) PROVE Lifecycle'
  BY <1>5 DEF Inv, TypeOK, Lifecycle, Gen, StopBegin, Calling, Valid, RequestExit,
      instanceVars, entryVars, dispatchVars, wsVars, heapVars
<1>6. ASSUME StopJoin PROVE Lifecycle'
  BY <1>6 DEF Inv, TypeOK, Lifecycle, Gen, StopJoin, entryVars, dispatchVars,
      wsVars, heapVars
<1>7. ASSUME ExitDestroyContext PROVE Lifecycle'
  BY <1>7 DEF Inv, TypeOK, Lifecycle, Gen, ExitDestroyContext, entryVars,
      dispatchVars, wsVars, heapVars
<1>8. ASSUME ExitFree PROVE Lifecycle'
  BY <1>8 DEF Inv, TypeOK, Lifecycle, Gen, ExitFree, entryVars, dispatchVars,
      wsVars, heapVars
<1>9. ASSUME NEW g \in Gen, SmEntry(g) PROVE Lifecycle'
  BY <1>9 DEF Inv, TypeOK, Lifecycle, Gen, SmEntry, SmGoto, instanceVars,
      entryVars, clientVars, dispatchVars, heapVars
<1>10. ASSUME NEW g \in Gen, SmTest(g) PROVE Lifecycle'
  BY <1>10 DEF Inv, TypeOK, Lifecycle, Gen, SmTest, SmGoto, instanceVars,
      entryVars, clientVars, dispatchVars, wsVars, heapVars
<1>11. ASSUME NEW g \in Gen, SmDequeue(g) PROVE Lifecycle'
  BY <1>11 DEF Inv, TypeOK, Lifecycle, Gen, SmDequeue, SmGoto, instanceVars,
      entryVars, clientVars, dispatchVars, wsVars, heapVars
<1>12. ASSUME NEW g \in Gen, SmNoMemory(g) PROVE Lifecycle'
  BY <1>12 DEF Inv, TypeOK, Lifecycle, Gen, SmNoMemory, SmGoto, instanceVars,
      entryVars, clientVars, dispatchVars, wsVars, heapVars
<1>13. ASSUME NEW g \in Gen, SmHandleExit(g) PROVE Lifecycle'
  BY <1>13 DEF Inv, TypeOK, Lifecycle, Gen, SmHandleExit, SmGoto, entryVars,
      clientVars, dispatchVars, wsVars, heapVars
<1>14. ASSUME NEW g \in Gen, NEW fields \in SUBSET Keys, SmOpenMemory(g, fields) PROVE Lifecycle'
  BY <1>14 DEF Inv, TypeOK, Lifecycle, Gen, SmOpenMemory, SmGoto,
      instanceVars, entryVars, clientVars, wsVars, heapVars
<1>15. ASSUME NEW g \in Gen, SmOpenFails(g) PROVE Lifecycle'
  BY <1>15 DEF Inv, TypeOK, Lifecycle, Gen, SmOpenFails, SmGoto, instanceVars,
      entryVars, clientVars, dispatchVars, wsVars, heapVars
<1>16. ASSUME NEW g \in Gen, NEW matches \in BOOLEAN, SmDispatch(g, matches) PROVE Lifecycle'
  BY <1>16 DEF Inv, TypeOK, Lifecycle, Gen, SmDispatch, instanceVars,
      entryVars, clientVars, wsVars, heapVars
<1>17. ASSUME NEW g \in Gen, SmDispatchEnd(g) PROVE Lifecycle'
  BY <1>17 DEF Inv, TypeOK, Lifecycle, Gen, SmDispatchEnd, SmGoto,
      instanceVars, entryVars, clientVars, dispatchVars, wsVars, heapVars
<1>18. ASSUME NEW g \in Gen, SmRelease(g) PROVE Lifecycle'
  BY <1>18 DEF Inv, TypeOK, Lifecycle, Gen, SmRelease, SmGoto, instanceVars,
      entryVars, clientVars, wsVars
<1>19. ASSUME NEW g \in Gen, SmJoin(g) PROVE Lifecycle'
  BY <1>19 DEF Inv, TypeOK, Lifecycle, Gen, SmJoin, SmGoto, instanceVars,
      entryVars, clientVars, dispatchVars, wsVars, heapVars
<1>20. ASSUME NEW g \in Gen, WsTest(g) PROVE Lifecycle'
  BY <1>20 DEF Inv, TypeOK, Lifecycle, Gen, WsTest, WsGoto, instanceVars,
      entryVars, clientVars, dispatchVars, heapVars
<1>21. ASSUME NEW g \in Gen, WsReceive(g) PROVE Lifecycle'
  BY <1>21 DEF Inv, TypeOK, Lifecycle, Gen, WsReceive, WsGoto, instanceVars,
      entryVars, clientVars, dispatchVars
<1>22. ASSUME NEW g \in Gen, WsEnqueue(g) PROVE Lifecycle'
  BY <1>22 DEF Inv, TypeOK, Lifecycle, Gen, WsEnqueue, WsGoto, instanceVars,
      entryVars, clientVars, dispatchVars
<1>23. ASSUME NEW g \in Gen, WsReturn(g) PROVE Lifecycle'
  BY <1>23 DEF Inv, TypeOK, Lifecycle, Gen, WsReturn, WsGoto, instanceVars,
      entryVars, clientVars, dispatchVars, heapVars
<1>24. CASE UNCHANGED vars
  BY <1>24 DEF Inv, TypeOK, Lifecycle, Gen, vars, instanceVars, entryVars,
      clientVars, dispatchVars, wsVars, heapVars
<1> QED
  BY <1>1, <1>2, <1>3, <1>4, <1>5, <1>6, <1>7, <1>8, <1>9, <1>10, <1>11,
      <1>12, <1>13, <1>14, <1>15, <1>16, <1>17, <1>18, <1>19, <1>20, <1>21,
      <1>22, <1>23, <1>24
  DEF Next, ClientStep, ClientReturns, SmStep, WsStep, UT_ControlPlane_Stop,
      UT_ControlPlane_Exit

(* What a thread has in hand.                                              *)
LEMMA InHandStep == Inv /\ [Next]_vars => InHand'
<1> SUFFICES ASSUME Inv, [Next]_vars PROVE InHand'
  OBVIOUS
<1> USE BoundAssumption
<1>1. ASSUME UT_ControlPlane_Init PROVE InHand'
  BY <1>1 DEF Inv, TypeOK, InHand, Lifecycle, UT_ControlPlane_Init, entryVars,
      clientVars, dispatchVars, wsVars, heapVars
<1>2. ASSUME NEW key \in Keys, NEW valid \in BOOLEAN,
             UT_ControlPlane_RegisterCallbackOnMessage(key, valid) PROVE InHand'
  BY <1>2 DEF Inv, TypeOK, InHand, Lifecycle,
      UT_ControlPlane_RegisterCallbackOnMessage, Calling, Valid, ListHasRoom,
      instanceVars, clientVars, dispatchVars, wsVars, heapVars
<1>3. ASSUME NEW s \in stores, StoreLands(s) PROVE InHand'
  BY <1>3 DEF Inv, TypeOK, InHand, Lifecycle, StoreLands, Slot, instanceVars,
      clientVars, dispatchVars, wsVars, heapVars
<1>4. ASSUME NEW g \in Gen, UT_ControlPlane_Start(g) PROVE InHand'
  BY <1>4 DEF Inv, TypeOK, InHand, Lifecycle, UT_ControlPlane_Start, Calling, Valid,
      entryVars, clientVars, dispatchVars, wsVars, heapVars
<1>5. ASSUME NEW b \in BOOLEAN, StopBegin(b) PROVE InHand'
  BY <1>5 DEF Inv, TypeOK, InHand, Lifecycle, StopBegin, Calling, Valid, RequestExit,
      instanceVars, entryVars, dispatchVars, wsVars, heapVars
<1>6. ASSUME StopJoin PROVE InHand'
  BY <1>6 DEF Inv, TypeOK, InHand, Lifecycle, StopJoin, entryVars,
      dispatchVars, wsVars, heapVars
<1>7. ASSUME ExitDestroyContext PROVE InHand'
  BY <1>7 DEF Inv, TypeOK, InHand, Lifecycle, ExitDestroyContext, entryVars,
      dispatchVars, wsVars, heapVars
<1>8. ASSUME ExitFree PROVE InHand'
  BY <1>8 DEF Inv, TypeOK, InHand, Lifecycle, ExitFree, entryVars,
      dispatchVars, wsVars, heapVars
<1>9. ASSUME NEW g \in Gen, SmEntry(g) PROVE InHand'
  BY <1>9 DEF Inv, TypeOK, InHand, Lifecycle, SmEntry, SmGoto, instanceVars,
      entryVars, clientVars, dispatchVars, heapVars
<1>10. ASSUME NEW g \in Gen, SmTest(g) PROVE InHand'
  BY <1>10 DEF Inv, TypeOK, InHand, Lifecycle, SmTest, SmGoto, instanceVars,
      entryVars, clientVars, dispatchVars, wsVars, heapVars
<1>11. ASSUME NEW g \in Gen, SmDequeue(g) PROVE InHand'
  <2>1. Head(message_queue) # NoMessage
    BY <1>11, TailFacts, MessageFacts DEF Inv, TypeOK, SmDequeue
  <2> QED BY <1>11, <2>1 DEF Inv, TypeOK, InHand, Lifecycle, SmDequeue, SmGoto, instanceVars, entryVars, clientVars, dispatchVars, wsVars, heapVars
<1>12. ASSUME NEW g \in Gen, SmNoMemory(g) PROVE InHand'
  BY <1>12 DEF Inv, TypeOK, InHand, Lifecycle, SmNoMemory, SmGoto,
      instanceVars, entryVars, clientVars, dispatchVars, wsVars, heapVars
<1>13. ASSUME NEW g \in Gen, SmHandleExit(g) PROVE InHand'
  BY <1>13 DEF Inv, TypeOK, InHand, Lifecycle, SmHandleExit, SmGoto,
      entryVars, clientVars, dispatchVars, wsVars, heapVars
<1>14. ASSUME NEW g \in Gen, NEW fields \in SUBSET Keys, SmOpenMemory(g, fields) PROVE InHand'
  BY <1>14 DEF Inv, TypeOK, InHand, Lifecycle, SmOpenMemory, SmGoto,
      instanceVars, entryVars, clientVars, wsVars, heapVars
<1>15. ASSUME NEW g \in Gen, SmOpenFails(g) PROVE InHand'
  BY <1>15 DEF Inv, TypeOK, InHand, Lifecycle, SmOpenFails, SmGoto,
      instanceVars, entryVars, clientVars, dispatchVars, wsVars, heapVars
<1>16. ASSUME NEW g \in Gen, NEW matches \in BOOLEAN, SmDispatch(g, matches) PROVE InHand'
  BY <1>16 DEF Inv, TypeOK, InHand, Lifecycle, SmDispatch, instanceVars,
      entryVars, clientVars, wsVars, heapVars
<1>17. ASSUME NEW g \in Gen, SmDispatchEnd(g) PROVE InHand'
  BY <1>17 DEF Inv, TypeOK, InHand, Lifecycle, SmDispatchEnd, SmGoto,
      instanceVars, entryVars, clientVars, dispatchVars, wsVars, heapVars
<1>18. ASSUME NEW g \in Gen, SmRelease(g) PROVE InHand'
  BY <1>18 DEF Inv, TypeOK, InHand, Lifecycle, SmRelease, SmGoto,
      instanceVars, entryVars, clientVars, wsVars
<1>19. ASSUME NEW g \in Gen, SmJoin(g) PROVE InHand'
  BY <1>19 DEF Inv, TypeOK, InHand, Lifecycle, SmJoin, SmGoto, instanceVars,
      entryVars, clientVars, dispatchVars, wsVars, heapVars
<1>20. ASSUME NEW g \in Gen, WsTest(g) PROVE InHand'
  BY <1>20 DEF Inv, TypeOK, InHand, Lifecycle, WsTest, WsGoto, instanceVars,
      entryVars, clientVars, dispatchVars, heapVars
<1>21. ASSUME NEW g \in Gen, WsReceive(g) PROVE InHand'
  BY <1>21 DEF Inv, TypeOK, InHand, Lifecycle, WsReceive, WsGoto,
      instanceVars, entryVars, clientVars, dispatchVars
<1>22. ASSUME NEW g \in Gen, WsEnqueue(g) PROVE InHand'
  BY <1>22 DEF Inv, TypeOK, InHand, Lifecycle, WsEnqueue, WsGoto,
      instanceVars, entryVars, clientVars, dispatchVars
<1>23. ASSUME NEW g \in Gen, WsReturn(g) PROVE InHand'
  BY <1>23 DEF Inv, TypeOK, InHand, Lifecycle, WsReturn, WsGoto, instanceVars,
      entryVars, clientVars, dispatchVars, heapVars
<1>24. CASE UNCHANGED vars
  BY <1>24 DEF Inv, TypeOK, InHand, Lifecycle, vars, instanceVars, entryVars,
      clientVars, dispatchVars, wsVars, heapVars
<1> QED
  BY <1>1, <1>2, <1>3, <1>4, <1>5, <1>6, <1>7, <1>8, <1>9, <1>10, <1>11,
      <1>12, <1>13, <1>14, <1>15, <1>16, <1>17, <1>18, <1>19, <1>20, <1>21,
      <1>22, <1>23, <1>24
  DEF Next, ClientStep, ClientReturns, SmStep, WsStep, UT_ControlPlane_Stop,
      UT_ControlPlane_Exit

(* Only one thread of each kind has something in hand.                     *)
LEMMA OneInHand ==
  Inv => \A g, h \in Gen :
           /\ msg[g] # NoMessage /\ (msg[h] # NoMessage \/ received[h] # 0) => g = h
           /\ received[g] # 0 /\ received[h] # 0 => g = h
BY DEF Inv, InHand, Lifecycle, Gen

LEMMA ElementTypes ==
  Inv => /\ \A k \in 1 .. Len(message_queue) : message_queue[k] \in Message
         /\ DOMAIN message_queue = 1 .. Len(message_queue)
         /\ Len(message_queue) \in Nat
         /\ \A g \in Gen : /\ msg[g].message \in Payload \cup {0}
                           /\ msg[g] # NoMessage => msg[g] \in Message
BY MessageFacts DEF Inv, TypeOK

(* The payloads.                                                           *)
LEMMA CustodyStep == Inv /\ [Next]_vars => Custody'
<1> SUFFICES ASSUME Inv, [Next]_vars PROVE Custody'
  OBVIOUS
<1> USE BoundAssumption
<1>1. ASSUME UT_ControlPlane_Init PROVE Custody'
  BY <1>1 DEF Inv, TypeOK, Custody, HandPayloads, QueuePayloads, Accounted,
      Queued, Held, UT_ControlPlane_Init, entryVars, clientVars, dispatchVars,
      wsVars, heapVars
<1>2. ASSUME NEW key \in Keys, NEW valid \in BOOLEAN,
             UT_ControlPlane_RegisterCallbackOnMessage(key, valid) PROVE Custody'
  BY <1>2 DEF Inv, TypeOK, Custody, HandPayloads, QueuePayloads, Accounted,
      Queued, Held, UT_ControlPlane_RegisterCallbackOnMessage, Calling,
      ListHasRoom, instanceVars, clientVars, dispatchVars, wsVars, heapVars
<1>3. ASSUME NEW s \in stores, StoreLands(s) PROVE Custody'
  BY <1>3 DEF Inv, TypeOK, Custody, HandPayloads, QueuePayloads, Accounted,
      Queued, Held, StoreLands, Slot, instanceVars, clientVars, dispatchVars,
      wsVars, heapVars
<1>4. ASSUME NEW g \in Gen, UT_ControlPlane_Start(g) PROVE Custody'
  BY <1>4 DEF Inv, TypeOK, Custody, HandPayloads, QueuePayloads, Accounted,
      Queued, Held, UT_ControlPlane_Start, Calling, Valid, entryVars, clientVars,
      dispatchVars, wsVars, heapVars
<1>5. ASSUME NEW b \in BOOLEAN, StopBegin(b) PROVE Custody'
  <2> DEFINE q == message_queue  n == Len(message_queue)
  <2>1. UNCHANGED <<instance, msg, received, heap, arrived, dropped>>
    BY <1>5 DEF StopBegin, instanceVars, wsVars, heapVars
  <2>2. Held' = Held
    BY <2>1 DEF Held
  <2>3. CASE message_queue' = q
    BY <2>1, <2>2, <2>3 DEF Inv, Custody, HandPayloads, QueuePayloads, Accounted, Queued
  <2>4. CASE message_queue' = Append(q, ExitRequest)
    <3>1. /\ Len(message_queue') = n + 1 /\ message_queue'[n + 1] = ExitRequest
          /\ \A k \in 1 .. n : message_queue'[k] = q[k]
          /\ DOMAIN message_queue' = 1 .. n + 1
      BY <2>4, AppendProperties, MessageFacts DEF Inv, TypeOK
    <3>2. Queued \subseteq Queued'
      BY <3>1, ElementTypes DEF Queued
    <3>3. QueuePayloads'
      BY <2>1, <3>1, ElementTypes DEF Inv, Custody, QueuePayloads
    <3> QED BY <2>1, <2>2, <3>2, <3>3 DEF Inv, Custody, HandPayloads, QueuePayloads, Accounted
  <2> QED BY <1>5, <2>3, <2>4 DEF StopBegin, RequestExit, Enqueue
<1>6. ASSUME StopJoin PROVE Custody'
  <2>1. UNCHANGED <<instance, message_queue, msg, received, heap, arrived, dropped>>
    BY <1>6 DEF StopJoin, wsVars, heapVars
  <2>2. Queued' = Queued /\ Held' = Held
    BY <2>1 DEF Queued, Held
  <2> QED BY <2>1, <2>2 DEF Inv, Custody, HandPayloads, QueuePayloads, Accounted
<1>7. ASSUME ExitDestroyContext PROVE Custody'
  <2>1. UNCHANGED <<message_queue, msg, received, heap, arrived, dropped>>
    BY <1>7 DEF ExitDestroyContext, wsVars, heapVars
  <2>2. Queued' = Queued /\ Held' = Held
    BY <2>1 DEF Queued, Held
  <2>3. instance # "freed"
    BY <1>7 DEF Inv, Lifecycle, ExitDestroyContext
  <2> QED BY <2>1, <2>2, <2>3 DEF Inv, Custody, HandPayloads, QueuePayloads, Accounted
<1>8. ASSUME ExitFree PROVE Custody'
  BY <1>8 DEF Inv, Custody, HandPayloads, QueuePayloads, Accounted, ExitFree, wsVars, heapVars
<1>9. ASSUME NEW g \in Gen, SmEntry(g) PROVE Custody'
  BY <1>9 DEF Inv, TypeOK, Custody, HandPayloads, QueuePayloads, Accounted,
      Queued, Held, SmEntry, SmGoto, instanceVars, entryVars, clientVars,
      dispatchVars, heapVars
<1>10. ASSUME NEW g \in Gen, SmTest(g) PROVE Custody'
  BY <1>10 DEF Inv, TypeOK, Custody, HandPayloads, QueuePayloads, Accounted,
      Queued, Held, SmTest, SmGoto, instanceVars, entryVars, clientVars,
      dispatchVars, wsVars, heapVars
<1>11. ASSUME NEW g \in Gen, SmDequeue(g) PROVE Custody'
  <2> DEFINE q == message_queue  n == Len(message_queue)  m == q[1]
  <2>1. /\ Len(message_queue') = n - 1 /\ n \in Nat /\ n >= 1
        /\ \A k \in 1 .. n - 1 : message_queue'[k] = q[k + 1]
        /\ DOMAIN message_queue' = 1 .. n - 1
        /\ msg' = [msg EXCEPT ![g] = m] /\ m \in Message
    BY <1>11, TailFacts DEF Inv, TypeOK, SmDequeue
  <2>2. UNCHANGED <<instance, received, heap, arrived, dropped>>
    BY <1>11 DEF SmDequeue, instanceVars, wsVars, heapVars
  <2>3. msg[g] = NoMessage /\ msg[g].message = 0
    BY <1>11, MessageFacts DEF Inv, InHand, SmDequeue, SmGoto
  <2>4. \A h \in Gen : msg'[h].message = IF h = g THEN m.message ELSE msg[h].message
    BY <2>1 DEF Inv, TypeOK
  <2>5. HandPayloads'
    <3>1. CASE m = ExitRequest
      BY <2>2, <2>3, <2>4, <3>1, MessageFacts DEF Inv, Custody, HandPayloads
    <3>2. CASE m # ExitRequest
      <4>1. /\ m.message \in heap \ dropped
            /\ \A h \in Gen : received[h] # 0 => m.message < received[h]
        BY <2>1, <3>2 DEF Inv, Custody, QueuePayloads
      <4> QED BY <2>2, <2>4, <4>1 DEF Inv, Custody, HandPayloads
    <3> QED BY <3>1, <3>2
  <2>6. QueuePayloads'
    <3>1. ASSUME NEW k \in 1 .. n - 1, q[k + 1] # ExitRequest
          PROVE  /\ q[k + 1].message \in heap \ dropped
                 /\ m.message < q[k + 1].message
                 /\ \A h \in Gen : /\ msg[h].message < q[k + 1].message
                                   /\ received[h] # 0 => q[k + 1].message < received[h]
                 /\ \A j \in 1 .. k - 1 : q[j + 1].message < q[k + 1].message
      <4>1. k + 1 \in 1 .. n /\ 1 \in 1 .. (k + 1) - 1
        BY <2>1
      <4>2. \A j \in 1 .. k - 1 : j + 1 \in 1 .. (k + 1) - 1
        OBVIOUS
      <4> QED BY <3>1, <4>1, <4>2 DEF Inv, Custody, QueuePayloads
    <3>2. ASSUME NEW k \in 1 .. n - 1, message_queue'[k] # ExitRequest
          PROVE  /\ message_queue'[k].message \in heap \ dropped
                 /\ \A h \in Gen : /\ msg'[h].message < message_queue'[k].message
                                   /\ received[h] # 0
                                        => message_queue'[k].message < received[h]
                 /\ \A j \in 1 .. k - 1 :
                      message_queue'[j].message < message_queue'[k].message
      <4>1. message_queue'[k] = q[k + 1]
        BY <2>1
      <4>2. \A j \in 1 .. k - 1 : message_queue'[j] = q[j + 1]
        BY <2>1
      <4> QED BY <2>4, <3>1, <3>2, <4>1, <4>2
    <3> QED BY <2>1, <2>2, <3>2 DEF QueuePayloads
  <2>7. Queued \cup Held \subseteq Queued' \cup Held'
    <3>1. ASSUME NEW k \in 1 .. n, q[k].message # 0 PROVE q[k].message \in Queued' \cup Held'
      <4>1. CASE k = 1
        BY <4>1, <2>4, <3>1 DEF Held
      <4>2. CASE k # 1
        <5>1. k - 1 \in DOMAIN message_queue' /\ message_queue'[k - 1] = q[k]
          BY <4>2, <2>1
        <5> QED BY <5>1, <3>1 DEF Queued
      <4> QED BY <4>1, <4>2
    <3>2. Held \subseteq Held'
      BY <2>2, <2>3, <2>4 DEF Held
    <3> QED BY <3>1, <3>2, ElementTypes DEF Queued
  <2>8. Accounted'
    BY <2>2, <2>7 DEF Inv, Custody, Accounted
  <2> QED BY <2>5, <2>6, <2>8 DEF Custody
<1>12. ASSUME NEW g \in Gen, SmNoMemory(g) PROVE Custody'
  BY <1>12 DEF Inv, TypeOK, Custody, HandPayloads, QueuePayloads, Accounted,
      Queued, Held, SmNoMemory, SmGoto, instanceVars, entryVars, clientVars,
      dispatchVars, wsVars, heapVars
<1>13. ASSUME NEW g \in Gen, SmHandleExit(g) PROVE Custody'
  BY <1>13 DEF Inv, TypeOK, Custody, HandPayloads, QueuePayloads, Accounted,
      Queued, Held, SmHandleExit, SmGoto, entryVars, clientVars, dispatchVars,
      wsVars, heapVars
<1>14. ASSUME NEW g \in Gen, NEW fields \in SUBSET Keys, SmOpenMemory(g, fields) PROVE Custody'
  BY <1>14 DEF Inv, TypeOK, Custody, HandPayloads, QueuePayloads, Accounted,
      Queued, Held, SmOpenMemory, SmGoto, instanceVars, entryVars, clientVars,
      wsVars, heapVars
<1>15. ASSUME NEW g \in Gen, SmOpenFails(g) PROVE Custody'
  BY <1>15 DEF Inv, TypeOK, Custody, HandPayloads, QueuePayloads, Accounted,
      Queued, Held, SmOpenFails, SmGoto, instanceVars, entryVars, clientVars,
      dispatchVars, wsVars, heapVars
<1>16. ASSUME NEW g \in Gen, NEW matches \in BOOLEAN, SmDispatch(g, matches) PROVE Custody'
  BY <1>16 DEF Inv, TypeOK, Custody, HandPayloads, QueuePayloads, Accounted,
      Queued, Held, SmDispatch, instanceVars, entryVars, clientVars, wsVars,
      heapVars
<1>17. ASSUME NEW g \in Gen, SmDispatchEnd(g) PROVE Custody'
  BY <1>17 DEF Inv, TypeOK, Custody, HandPayloads, QueuePayloads, Accounted,
      Queued, Held, SmDispatchEnd, SmGoto, instanceVars, entryVars,
      clientVars, dispatchVars, wsVars, heapVars
<1>18. ASSUME NEW g \in Gen, SmRelease(g) PROVE Custody'
  <2> DEFINE m == msg[g].message
  <2>1. /\ heap' = heap \ {m}
        /\ UNCHANGED <<instance, message_queue, received, arrived, dropped>>
    BY <1>18 DEF SmRelease, Freed, instanceVars, wsVars
  <2>2. msg[g] # NoMessage
    BY <1>18 DEF Inv, InHand, SmRelease, SmGoto
  <2>3. \A h \in Gen : /\ msg'[h].message = 0
                       /\ h # g => msg[h].message = 0
    BY <1>18, <2>2, OneInHand, MessageFacts DEF Inv, TypeOK, SmRelease
  <2>4. m \in Payload \cup {0} /\ 0 \notin heap /\ m \notin dropped
    <3>1. 0 \notin heap /\ 0 \notin dropped
      BY DEF Inv, TypeOK, Payload
    <3>2. m # 0 => m \notin dropped
      BY DEF Inv, Custody, HandPayloads
    <3> QED BY <3>1, <3>2, ElementTypes
  <2>5. HandPayloads'
    <3>1. \A h \in Gen : received[h] # 0 => received[h] # m /\ received[h] > 0
      BY DEF Inv, TypeOK, Custody, HandPayloads, Payload
    <3> QED BY <2>1, <2>3, <3>1 DEF Inv, Custody, HandPayloads
  <2>6. QueuePayloads'
    <3>1. \A k \in 1 .. Len(message_queue) : message_queue[k] # ExitRequest =>
            message_queue[k].message # m /\ message_queue[k].message > 0
      BY <2>4, ElementTypes, MessageFacts DEF Inv, Custody, QueuePayloads, Payload
    <3> QED BY <2>1, <2>3, <3>1 DEF Inv, Custody, QueuePayloads
  <2>7. Queued' = Queued /\ Held \subseteq Held' \cup {m}
    BY <2>1, <2>3 DEF Queued, Held
  <2>8. Accounted'
    BY <2>1, <2>4, <2>7 DEF Inv, Custody, Accounted
  <2> QED BY <2>5, <2>6, <2>8 DEF Custody
<1>19. ASSUME NEW g \in Gen, SmJoin(g) PROVE Custody'
  BY <1>19 DEF Inv, TypeOK, Custody, HandPayloads, QueuePayloads, Accounted,
      Queued, Held, SmJoin, SmGoto, instanceVars, entryVars, clientVars,
      dispatchVars, wsVars, heapVars
<1>20. ASSUME NEW g \in Gen, WsTest(g) PROVE Custody'
  BY <1>20 DEF Inv, TypeOK, Custody, HandPayloads, QueuePayloads, Accounted,
      Queued, Held, WsTest, WsGoto, instanceVars, entryVars, clientVars,
      dispatchVars, heapVars
<1>21. ASSUME NEW g \in Gen, WsReceive(g) PROVE Custody'
  <2> DEFINE p == arrived + 1
  <2>1. /\ arrived' = p /\ heap' = heap \cup {p}
        /\ received' = [received EXCEPT ![g] = p]
        /\ UNCHANGED <<instance, message_queue, msg, dropped>>
    BY <1>21 DEF WsReceive, instanceVars
  <2>2. \A h \in Gen : received[h] = 0
    <3>1. sm[g] \notin {"none", "done"}
      BY <1>21 DEF Inv, Lifecycle, WsReceive, WsGoto
    <3>2. ASSUME NEW h \in Gen, ws[h] = "enqueue" PROVE FALSE
      <4>1. h = g
        BY <3>1, <3>2 DEF Inv, Lifecycle, Gen
      <4> QED BY <1>21, <3>2, <4>1 DEF WsReceive, WsGoto
    <3> QED BY <3>2 DEF Inv, InHand
  <2>3. \A h \in Gen : received'[h] = IF h = g THEN p ELSE 0
    BY <2>1, <2>2 DEF Inv, TypeOK
  <2>4. p \notin heap /\ p \notin dropped /\ \A x \in heap : x < p
    BY DEF Inv, TypeOK, Custody, Accounted
  <2>5. HandPayloads'
    <3>1. \A h \in Gen : msg[h].message < p
      BY <2>4, ElementTypes DEF Inv, TypeOK, Custody, HandPayloads
    <3> QED BY <2>1, <2>3, <2>4, <3>1 DEF Inv, Custody, HandPayloads
  <2>6. QueuePayloads'
    BY <2>1, <2>3, <2>4 DEF Inv, Custody, QueuePayloads
  <2>7. Queued' = Queued /\ Held \cup {p} \subseteq Held'
    BY <2>1, <2>2, <2>3, <2>4 DEF Inv, TypeOK, Queued, Held
  <2>8. Accounted'
    BY <2>1, <2>7 DEF Inv, TypeOK, Custody, Accounted
  <2> QED BY <2>5, <2>6, <2>8 DEF Custody
<1>22. ASSUME NEW g \in Gen, WsEnqueue(g) PROVE Custody'
  <2> DEFINE q == message_queue  n == Len(message_queue)  p == received[g]
  <2>1. p # 0 /\ p \in Payload /\ p = arrived /\ p \in heap \ dropped
    BY <1>22 DEF Inv, TypeOK, InHand, Custody, HandPayloads, WsEnqueue, WsGoto
  <2>2. \A h \in Gen : received'[h] = 0 /\ received[h] \in {0, p}
    <3>1. \A h \in Gen : h # g => received[h] = 0
      BY <2>1, OneInHand
    <3> QED BY <1>22, <3>1 DEF Inv, TypeOK, WsEnqueue
  <2>3. UNCHANGED <<instance, msg, heap, arrived>>
    BY <1>22 DEF WsEnqueue, instanceVars
  <2>4. Held \subseteq Held' \cup {p}
    BY <2>2, <2>3 DEF Held
  <2>5. \A h \in Gen : msg[h].message < p
    BY <2>1 DEF Inv, Custody, HandPayloads
  <2>6. \A k \in 1 .. n : q[k] # ExitRequest => q[k].message < p
    BY <2>1 DEF Inv, Custody, QueuePayloads
  <2>7. CASE ~HasRoom(q)
    <3>1. message_queue' = q /\ dropped' = dropped \cup {p}
      BY <1>22, <2>7 DEF WsEnqueue, Enqueue
    <3>2. HandPayloads'
      BY <2>1, <2>2, <2>3, <2>5, <3>1, ElementTypes
      DEF Inv, Custody, HandPayloads, Payload
    <3>3. \A k \in 1 .. n : q[k] # ExitRequest => q[k].message # p
      BY <2>1, <2>6 DEF Payload
    <3>4. QueuePayloads'
      BY <2>2, <2>3, <3>1, <3>3 DEF Inv, Custody, QueuePayloads
    <3>5. Accounted'
      BY <2>1, <2>3, <2>4, <3>1 DEF Inv, Custody, Accounted, Queued
    <3> QED BY <3>2, <3>4, <3>5 DEF Custody
  <2>8. CASE HasRoom(q)
    <3>1. message_queue' = Append(q, Data(p)) /\ dropped' = dropped
      BY <1>22, <2>8 DEF WsEnqueue, Enqueue
    <3>2. /\ Len(message_queue') = n + 1 /\ message_queue'[n + 1] = Data(p)
          /\ Data(p).message = p
          /\ \A k \in 1 .. n : message_queue'[k] = q[k]
          /\ DOMAIN message_queue' = 1 .. n + 1
      BY <2>1, <3>1, AppendProperties, MessageFacts DEF Inv, TypeOK
    <3>3. HandPayloads'
      BY <2>2, <2>3, <3>1 DEF Inv, Custody, HandPayloads
    <3>4. \A k \in 1 .. n : q[k].message < p
      <4>1. ExitRequest.message < p
        BY <2>1, MessageFacts DEF Payload
      <4> QED BY <2>6, <4>1
    <3>5. QueuePayloads'
      <4>1. ASSUME NEW k \in 1 .. n + 1, message_queue'[k] # ExitRequest
            PROVE  /\ message_queue'[k].message \in heap \ dropped
                   /\ \A h \in Gen : msg[h].message < message_queue'[k].message
                   /\ \A j \in 1 .. k - 1 :
                        message_queue'[j].message < message_queue'[k].message
        <5>1. CASE k = n + 1
          BY <2>1, <2>5, <3>2, <3>4, <5>1, ElementTypes
        <5>2. CASE k # n + 1
          BY <3>2, <4>1, <5>2, ElementTypes DEF Inv, Custody, QueuePayloads
        <5> QED BY <5>1, <5>2
      <4> QED BY <2>2, <2>3, <3>1, <3>2, <4>1 DEF QueuePayloads
    <3>6. Queued \cup {p} \subseteq Queued'
      BY <2>1, <3>2, ElementTypes DEF Queued
    <3>7. Accounted'
      BY <2>3, <2>4, <3>1, <3>6 DEF Inv, Custody, Accounted
    <3> QED BY <3>3, <3>5, <3>7 DEF Custody
  <2> QED BY <2>7, <2>8
<1>23. ASSUME NEW g \in Gen, WsReturn(g) PROVE Custody'
  BY <1>23 DEF Inv, TypeOK, Custody, HandPayloads, QueuePayloads, Accounted,
      Queued, Held, WsReturn, WsGoto, instanceVars, entryVars, clientVars,
      dispatchVars, heapVars
<1>24. CASE UNCHANGED vars
  BY <1>24 DEF Inv, TypeOK, Custody, HandPayloads, QueuePayloads, Accounted,
      Queued, Held, vars, instanceVars, entryVars, clientVars, dispatchVars,
      wsVars, heapVars
<1> QED
  BY <1>1, <1>2, <1>3, <1>4, <1>5, <1>6, <1>7, <1>8, <1>9, <1>10, <1>11,
      <1>12, <1>13, <1>14, <1>15, <1>16, <1>17, <1>18, <1>19, <1>20, <1>21,
      <1>22, <1>23, <1>24
  DEF Next, ClientStep, ClientReturns, SmStep, WsStep, UT_ControlPlane_Stop,
      UT_ControlPlane_Exit

(* The list of callbacks.                                                  *)
LEMMA RegistrationStep == Inv /\ [Next]_vars => Registration'
<1> SUFFICES ASSUME Inv, [Next]_vars PROVE Registration'
  OBVIOUS
<1> USE BoundAssumption, KeyAssumption
<1>1. ASSUME UNCHANGED entryVars PROVE Registration'
  BY <1>1 DEF Inv, Registration, Complete, Unfinished, Slot, entryVars
<1>2. ASSUME NEW key \in Keys, NEW valid \in BOOLEAN,
             UT_ControlPlane_RegisterCallbackOnMessage(key, valid)
      PROVE  Registration'
  <2>1. CASE Valid /\ valid /\ ListHasRoom
    <3>1. /\ stores = {} /\ stores' = {"key", "pCallback", "userData", "index"}
          /\ registering' = key
          /\ UNCHANGED <<callbackEntryList, callback_entry_index, torn>>
      BY <1>2, <2>1 DEF UT_ControlPlane_RegisterCallbackOnMessage, Calling
    <3>2. \A e \in 1 .. callback_entry_index : Complete(callbackEntryList[e])
      BY <3>1 DEF Inv, Registration, Unfinished
    <3> QED BY <2>1, <3>1, <3>2 DEF Inv, TypeOK, Registration, ListHasRoom
  <2>2. CASE ~(Valid /\ valid /\ ListHasRoom)
    BY <1>1, <1>2, <2>2
    DEF UT_ControlPlane_RegisterCallbackOnMessage, entryVars
  <2> QED BY <2>1, <2>2
<1>3. ASSUME NEW s \in stores, StoreLands(s) PROVE Registration'
  <2>1. /\ s \in {"key", "pCallback", "userData", "index"} /\ stores' = stores \ {s}
        /\ registering' = registering /\ torn \subseteq torn'
        /\ stores \subseteq {"key", "pCallback", "userData", "index"}
    BY <1>3 DEF Inv, TypeOK, StoreLands
  <2>2. /\ callback_entry_index \in Nat /\ callback_entry_index <= MaxCallbackEntries
        /\ Slot \in Entry /\ registering \in Keys
    BY <1>3 DEF Inv, TypeOK, Registration, Slot, Entry
  <2>3. /\ "key" \notin stores => callbackEntryList[Slot].key \in Keys
        /\ "pCallback" \notin stores => callbackEntryList[Slot].pCallback
        /\ "userData" \notin stores => callbackEntryList[Slot].userData
    BY <1>3 DEF Inv, Registration
  <2>4. CASE s = "key"
    <3>1. /\ callback_entry_index' = callback_entry_index /\ Slot' = Slot
          /\ callbackEntryList' = [callbackEntryList EXCEPT ![Slot] =
                                     [callbackEntryList[Slot] EXCEPT !.key = registering]]
      BY <1>3, <2>1, <2>4 DEF StoreLands, Slot
    <3>2. \A e \in Entry :
            /\ callbackEntryList'[e].pCallback = callbackEntryList[e].pCallback
            /\ callbackEntryList'[e].userData = callbackEntryList[e].userData
            /\ callbackEntryList'[e].key = IF e = Slot THEN registering
                                           ELSE callbackEntryList[e].key
      BY <2>2, <3>1 DEF Inv, TypeOK, EntryType
    <3>3. \A e \in 1 .. callback_entry_index' :
            Complete(callbackEntryList'[e]) \/ Unfinished(e)'
      <4> SUFFICES ASSUME NEW e \in 1 .. callback_entry_index
                   PROVE  Complete(callbackEntryList'[e]) \/ Unfinished(e)'
        BY <3>1
      <4>1. e \in Entry
        BY <2>2 DEF Entry
      <4>2. CASE Complete(callbackEntryList[e])
        BY <2>2, <3>2, <4>1, <4>2 DEF Complete
      <4>3. CASE Unfinished(e)
        <5>1. e = Slot /\ e \in torn'
          BY <2>1, <4>3 DEF Unfinished
        <5>2. CASE stores' # {}
          BY <3>1, <5>1, <5>2 DEF Unfinished
        <5>3. CASE stores' = {}
          <6>1. \A f \in stores : f = "key"
            BY <2>1, <2>4, <5>3
          <6> QED
            BY <2>2, <2>3, <3>2, <4>1, <5>1, <6>1 DEF Complete
        <5> QED BY <5>2, <5>3
      <4> QED BY <4>2, <4>3 DEF Inv, Registration
    <3> QED BY <2>1, <2>2, <2>4, <3>1, <3>2, <3>3
            DEF Inv, Registration, Slot
  <2>5. CASE s = "pCallback"
    <3>1. /\ callback_entry_index' = callback_entry_index /\ Slot' = Slot
          /\ callbackEntryList' = [callbackEntryList EXCEPT ![Slot] =
                                     [callbackEntryList[Slot] EXCEPT !.pCallback = TRUE]]
      BY <1>3, <2>1, <2>5 DEF StoreLands, Slot
    <3>2. \A e \in Entry :
            /\ callbackEntryList'[e].key = callbackEntryList[e].key
            /\ callbackEntryList'[e].userData = callbackEntryList[e].userData
            /\ callbackEntryList'[e].pCallback = IF e = Slot THEN TRUE
                                           ELSE callbackEntryList[e].pCallback
      BY <2>2, <3>1 DEF Inv, TypeOK, EntryType
    <3>3. \A e \in 1 .. callback_entry_index' :
            Complete(callbackEntryList'[e]) \/ Unfinished(e)'
      <4> SUFFICES ASSUME NEW e \in 1 .. callback_entry_index
                   PROVE  Complete(callbackEntryList'[e]) \/ Unfinished(e)'
        BY <3>1
      <4>1. e \in Entry
        BY <2>2 DEF Entry
      <4>2. CASE Complete(callbackEntryList[e])
        BY <2>2, <3>2, <4>1, <4>2 DEF Complete
      <4>3. CASE Unfinished(e)
        <5>1. e = Slot /\ e \in torn'
          BY <2>1, <4>3 DEF Unfinished
        <5>2. CASE stores' # {}
          BY <3>1, <5>1, <5>2 DEF Unfinished
        <5>3. CASE stores' = {}
          <6>1. \A f \in stores : f = "pCallback"
            BY <2>1, <2>5, <5>3
          <6> QED
            BY <2>2, <2>3, <3>2, <4>1, <5>1, <6>1 DEF Complete
        <5> QED BY <5>2, <5>3
      <4> QED BY <4>2, <4>3 DEF Inv, Registration
    <3> QED BY <2>1, <2>2, <2>5, <3>1, <3>2, <3>3
            DEF Inv, Registration, Slot
  <2>6. CASE s = "userData"
    <3>1. /\ callback_entry_index' = callback_entry_index /\ Slot' = Slot
          /\ callbackEntryList' = [callbackEntryList EXCEPT ![Slot] =
                                     [callbackEntryList[Slot] EXCEPT !.userData = TRUE]]
      BY <1>3, <2>1, <2>6 DEF StoreLands, Slot
    <3>2. \A e \in Entry :
            /\ callbackEntryList'[e].key = callbackEntryList[e].key
            /\ callbackEntryList'[e].pCallback = callbackEntryList[e].pCallback
            /\ callbackEntryList'[e].userData = IF e = Slot THEN TRUE
                                           ELSE callbackEntryList[e].userData
      BY <2>2, <3>1 DEF Inv, TypeOK, EntryType
    <3>3. \A e \in 1 .. callback_entry_index' :
            Complete(callbackEntryList'[e]) \/ Unfinished(e)'
      <4> SUFFICES ASSUME NEW e \in 1 .. callback_entry_index
                   PROVE  Complete(callbackEntryList'[e]) \/ Unfinished(e)'
        BY <3>1
      <4>1. e \in Entry
        BY <2>2 DEF Entry
      <4>2. CASE Complete(callbackEntryList[e])
        BY <2>2, <3>2, <4>1, <4>2 DEF Complete
      <4>3. CASE Unfinished(e)
        <5>1. e = Slot /\ e \in torn'
          BY <2>1, <4>3 DEF Unfinished
        <5>2. CASE stores' # {}
          BY <3>1, <5>1, <5>2 DEF Unfinished
        <5>3. CASE stores' = {}
          <6>1. \A f \in stores : f = "userData"
            BY <2>1, <2>6, <5>3
          <6> QED
            BY <2>2, <2>3, <3>2, <4>1, <5>1, <6>1 DEF Complete
        <5> QED BY <5>2, <5>3
      <4> QED BY <4>2, <4>3 DEF Inv, Registration
    <3> QED BY <2>1, <2>2, <2>6, <3>1, <3>2, <3>3
            DEF Inv, Registration, Slot
  <2>7. CASE s = "index"
    <3>1. /\ callback_entry_index' = callback_entry_index + 1
          /\ callbackEntryList' = callbackEntryList
          /\ Slot = callback_entry_index + 1 /\ Slot' = Slot
      BY <1>3, <2>1, <2>2, <2>7 DEF StoreLands, Slot
    <3>2. Complete(callbackEntryList[Slot]) \/ Unfinished(Slot)'
      <4>1. CASE \E f \in stores : ProgramOrder[f] < ProgramOrder[s]
        BY <1>3, <2>1, <2>7, <3>1, <4>1 DEF StoreLands, Unfinished, ProgramOrder
      <4>2. CASE ~ \E f \in stores : ProgramOrder[f] < ProgramOrder[s]
        BY <2>3, <2>7, <4>2 DEF Complete, ProgramOrder
      <4> QED BY <4>1, <4>2
    <3>3. \A e \in 1 .. callback_entry_index' :
            Complete(callbackEntryList'[e]) \/ Unfinished(e)'
      <4> SUFFICES ASSUME NEW e \in 1 .. callback_entry_index + 1
                   PROVE  Complete(callbackEntryList[e]) \/ Unfinished(e)'
        BY <3>1
      <4>1. CASE e = Slot
        BY <3>1, <3>2, <4>1 DEF Complete, Unfinished
      <4>2. CASE e # Slot
        <5>1. e \in 1 .. callback_entry_index
          BY <2>2, <3>1, <4>2
        <5> QED
          BY <4>2, <5>1 DEF Inv, Registration, Unfinished
      <4> QED BY <4>1, <4>2
    <3>4. stores' # {} => callback_entry_index' \in torn'
      BY <1>3, <2>1, <2>7, <3>1 DEF StoreLands, ProgramOrder
    <3> QED BY <1>3, <2>1, <2>2, <2>3, <2>7, <3>1, <3>3, <3>4
            DEF Inv, Registration, Slot
  <2> QED BY <2>1, <2>4, <2>5, <2>6, <2>7
<1>4. ASSUME NEW g \in Gen, NEW fields \in SUBSET Keys, SmOpenMemory(g, fields)
      PROVE  Registration'
  <2>1. /\ torn' = IF stores = {} THEN {} ELSE torn \cap {Slot}
        /\ UNCHANGED <<callbackEntryList, callback_entry_index, stores, registering>>
    BY <1>4 DEF SmOpenMemory
  <2> QED BY <2>1 DEF Inv, Registration, Unfinished, Slot
<1>5. ASSUME NEW g \in Gen,
             \/ SmEntry(g) \/ SmTest(g) \/ SmDequeue(g) \/ SmNoMemory(g)
             \/ SmHandleExit(g) \/ SmOpenFails(g) \/ SmDispatchEnd(g)
             \/ SmRelease(g) \/ SmJoin(g)
             \/ \E matches \in BOOLEAN : SmDispatch(g, matches)
      PROVE  UNCHANGED entryVars
  BY <1>5 DEF SmEntry, SmTest, SmDequeue, SmNoMemory, SmHandleExit, SmOpenFails,
     SmDispatch, SmDispatchEnd, SmRelease, SmJoin
<1>6. ASSUME NEW g \in Gen,
             UT_ControlPlane_Start(g) \/ WsStep(g) \/ WsReceive(g)
      PROVE  UNCHANGED entryVars
  BY <1>6 DEF UT_ControlPlane_Start, WsStep, WsTest, WsEnqueue, WsReturn, WsReceive
<1>7. CASE \/ UT_ControlPlane_Init \/ ClientReturns
           \/ (\E b \in BOOLEAN : StopBegin(b)) \/ UNCHANGED vars
  <2>1. UNCHANGED entryVars
    BY <1>7 DEF UT_ControlPlane_Init, ClientReturns, StopJoin, ExitDestroyContext,
       ExitFree, StopBegin, vars
  <2> QED BY <1>1, <2>1
<1> QED
  BY <1>1, <1>2, <1>3, <1>4, <1>5, <1>6, <1>7
  DEF Next, ClientStep, SmStep, UT_ControlPlane_Stop, UT_ControlPlane_Exit

LEMMA Invariance == Spec => []Inv
<1>1. Inv /\ [Next]_vars => Inv'
  BY TypeStep, LifecycleStep, InHandStep, CustodyStep, RegistrationStep DEF Inv
<1> QED BY InitInv, <1>1, PTL DEF Spec

-----------------------------------------------------------------------------
(* The properties, from the invariant.                                     *)

(* Every variable keeps its type; in particular neither the queue nor the  *)
(* list of callbacks is written past its end.                              *)
THEOREM TypeCorrectness == Spec => []TypeOK
<1>1. Inv => TypeOK
  BY DEF Inv
<1> QED BY Invariance, <1>1, PTL

(* No thread touches the instance once Exit has begun to destroy it.       *)
THEOREM NoUseAfterExit == Spec => []ThreadsUseLiveInstance
<1>1. Inv => ThreadsUseLiveInstance
  BY DEF Inv, Lifecycle, ThreadsUseLiveInstance, Running, Gen
<1> QED BY Invariance, <1>1, PTL

(* When Stop has returned, every thread of the instance has ended.         *)
THEOREM StopIsComplete == Spec => []StoppedMeansQuiet
<1>1. Inv => StoppedMeansQuiet
  BY DEF Inv, Lifecycle, StoppedMeansQuiet, Running, Gen
<1> QED BY Invariance, <1>1, PTL

(* No payload is used after it is freed, or freed twice.                   *)
THEOREM PayloadsAreOwned == Spec => []PayloadOwnership
<1>1. ASSUME Inv PROVE PayloadOwnership
  <2> DEFINE n == Len(message_queue)
  <2>1. \A k \in 1 .. n : message_queue[k].message # 0 =>
          /\ message_queue[k].message \in heap
          /\ \A g \in Gen : /\ msg[g].message # message_queue[k].message
                            /\ received[g] # message_queue[k].message
    BY <1>1, ElementTypes, MessageFacts
    DEF Inv, TypeOK, Custody, QueuePayloads, Payload
  <2>2. \A g \in Gen : /\ msg[g].message # 0 => msg[g].message \in heap
                       /\ received[g] # 0 => received[g] \in heap
    BY <1>1 DEF Inv, Custody, HandPayloads
  <2>3. Queued \cup Held \subseteq heap
    BY <1>1, <2>1, <2>2, ElementTypes DEF Queued, Held
  <2>4. Queued \cap Held = {}
    BY <1>1, <2>1, ElementTypes DEF Queued, Held
  <2>5. \A g, h \in Gen : msg[g].message = received[h] => received[h] = 0
    BY <1>1, ElementTypes DEF Inv, TypeOK, Custody, HandPayloads, Payload
  <2>6. \A g, h \in Gen : g # h /\ msg[g].message = msg[h].message
                            => msg[g].message = 0
    BY <1>1, OneInHand, MessageFacts
  <2> QED BY <2>3, <2>4, <2>5, <2>6 DEF PayloadOwnership
<1> QED BY Invariance, <1>1, PTL

(* A payload that is neither queued nor in hand before Exit frees the      *)
(* instance is one that enqueue_message dropped.                           *)
THEOREM LeaksAreDrops == Spec => []OnlyDropsLeak
<1>1. ASSUME Inv, instance # "freed" PROVE heap = Queued \cup Held \cup dropped
  <2>1. Queued \subseteq heap
    BY <1>1, ElementTypes, MessageFacts DEF Queued, Inv, Custody, QueuePayloads
  <2>2. Held \subseteq heap
    BY <1>1 DEF Held, Inv, Custody, HandPayloads
  <2> QED BY <1>1, <2>1, <2>2 DEF Inv, Custody, Accounted
<1>2. Inv => OnlyDropsLeak
  BY <1>1 DEF OnlyDropsLeak
<1> QED BY Invariance, <1>2, PTL

(* Messages are handled in the order of their arrival.                     *)
THEOREM HandledInOrder == Spec => []DeliveryOrder
<1>1. ASSUME Inv PROVE DeliveryOrder
  <2>1. \A j, k \in 1 .. Len(message_queue) :
          j < k /\ message_queue[k] # ExitRequest
            => message_queue[j].message < message_queue[k].message
    BY <1>1, ElementTypes DEF Inv, Custody, QueuePayloads
  <2>2. \A g \in Gen, p \in Queued : /\ msg[g].message < p
                                     /\ received[g] # 0 => p < received[g]
    BY <1>1, ElementTypes, MessageFacts DEF Queued, Inv, Custody, QueuePayloads
  <2> QED BY <1>1, <2>1, <2>2, ElementTypes DEF DeliveryOrder
<1> QED BY Invariance, <1>1, PTL

-----------------------------------------------------------------------------
(* The first run of the plane.  Until Stop is called on it, nobody has     *)
(* asked for the exit: no EXIT_REQUESTED is queued or in hand.             *)

NotStopped == \/ state_machine_thread_handle = 1 /\ client = "idle"
              \/ state_machine_thread_handle = 0 /\ sm[1] = "none"

FirstRun ==
  /\ \A g \in Gen : sm[g] # "none" => sm[1] # "none"
  /\ NotStopped => /\ ~exit_request
                   /\ ws[1] # "done"
                   /\ \A k \in 1 .. Len(message_queue) : message_queue[k] # ExitRequest
                   /\ \A g \in Gen : msg[g] # ExitRequest

LEMMA FirstRunInit == Init => FirstRun
BY BoundAssumption DEF Init, FirstRun, NoMessage, ExitRequest, Gen

(* A step that leaves the exit request, the queue, the messages in hand    *)
(* and the end of the threads as they are.                                 *)
LEMMA FirstRunKept ==
  ASSUME FirstRun, Inv, NotStopped' => NotStopped,
         UNCHANGED <<exit_request, message_queue, msg>>,
         ws'[1] = "done" => ws[1] = "done",
         \A g \in Gen : sm'[g] # "none" => sm[g] # "none",
         sm[1] # "none" => sm'[1] # "none"
  PROVE  FirstRun'
BY DEF FirstRun

LEMMA FirstRunStep == FirstRun /\ Inv /\ [Next]_vars => FirstRun'
<1> SUFFICES ASSUME FirstRun, Inv, [Next]_vars PROVE FirstRun'
  OBVIOUS
<1>0. 1 \in Gen /\ sm \in [Gen -> SmLabels] /\ ws \in [Gen -> WsLabels]
      /\ state_machine_thread_handle \in Gen \cup {0} /\ Gen \subseteq Nat \ {0}
  BY BoundAssumption DEF Gen, Inv, TypeOK
<1>1. CASE UT_ControlPlane_Init \/ ExitDestroyContext
           \/ (\E key \in Keys, valid \in BOOLEAN :
                UT_ControlPlane_RegisterCallbackOnMessage(key, valid))
           \/ (\E s \in stores : StoreLands(s))
  <2>1. /\ NotStopped' => NotStopped
        /\ UNCHANGED <<exit_request, message_queue, msg, ws, sm>>
    BY <1>1 DEF UT_ControlPlane_Init, ExitDestroyContext, StoreLands, Calling,
       UT_ControlPlane_RegisterCallbackOnMessage, clientVars, wsVars, instanceVars, NotStopped
  <2> QED
    BY <2>1, FirstRunKept
<1>2. ASSUME NEW g \in Gen, UT_ControlPlane_Start(g) PROVE FirstRun'
  <2>1. /\ sm' = [sm EXCEPT ![g] = "entry"] /\ state_machine_thread_handle' = g
        /\ state_machine_thread_handle = 0
        /\ sm[g] = "none" /\ \A h \in 1 .. g - 1 : sm[h] # "none"
        /\ UNCHANGED <<exit_request, message_queue, msg, ws>>
    BY <1>2 DEF UT_ControlPlane_Start, wsVars
  <2>2. g = 1 \/ sm[1] # "none"
    BY <1>0, <2>1
  <2>3. NotStopped' => NotStopped
    BY <1>0, <2>1, <2>2 DEF NotStopped
  <2>4. \A h \in Gen : sm'[h] = IF h = g THEN "entry" ELSE sm[h]
    BY <1>0, <2>1
  <2> QED
    BY <1>0, <2>1, <2>2, <2>3, <2>4 DEF FirstRun
<1>3. ASSUME NEW b \in BOOLEAN, StopBegin(b) PROVE FirstRun'
  <2>1. UNCHANGED <<exit_request, msg, ws, sm, state_machine_thread_handle>>
    BY <1>3 DEF StopBegin, instanceVars, wsVars
  <2>2. CASE state_machine_thread_handle # 0
    <3>1. ~NotStopped'
      BY <1>3, <2>1, <2>2 DEF StopBegin, NotStopped
    <3> QED
      BY <2>1, <3>1 DEF FirstRun
  <2>3. CASE state_machine_thread_handle = 0
    <3>1. UNCHANGED message_queue /\ (NotStopped' => NotStopped)
      BY <1>3, <2>1, <2>3 DEF StopBegin, NotStopped
    <3> QED
      BY <2>1, <3>1, FirstRunKept
  <2> QED
    BY <2>2, <2>3
<1>4. CASE StopJoin
  <2>1. sm[1] # "none"
    BY <1>0, <1>4 DEF FirstRun, Inv, Lifecycle, StopJoin
  <2>2. /\ UNCHANGED <<sm, ws, msg, exit_request, message_queue>>
        /\ state_machine_thread_handle' = 0
    BY <1>4 DEF StopJoin, wsVars
  <2>3. ~NotStopped'
    BY <2>1, <2>2 DEF NotStopped
  <2> QED
    BY <2>2, <2>3 DEF FirstRun
<1>5. CASE ExitFree
  <2>1. /\ UNCHANGED <<sm, ws, msg, exit_request, state_machine_thread_handle>>
        /\ message_queue' = <<>> /\ (NotStopped' => NotStopped)
    BY <1>5 DEF ExitFree, wsVars, NotStopped
  <2>2. Len(message_queue') = 0
    BY <2>1
  <2> QED
    BY <2>1, <2>2 DEF FirstRun
<1>6. ASSUME NEW g \in Gen,
             SmTest(g) \/ SmEntry(g) \/ SmNoMemory(g) \/ SmOpenFails(g) \/ SmDispatchEnd(g)
               \/ SmJoin(g) \/ (\E fields \in SUBSET Keys : SmOpenMemory(g, fields))
               \/ (\E matches \in BOOLEAN : SmDispatch(g, matches))
      PROVE FirstRun'
  <2>1. /\ UNCHANGED <<exit_request, message_queue, msg, client, state_machine_thread_handle>>
        /\ sm' = sm \/ \E to \in SmLabels \ {"none"} : sm' = [sm EXCEPT ![g] = to] /\ sm[g] # "none"
        /\ ws' = ws \/ ws' = [ws EXCEPT ![g] = "test"]
    BY <1>6 DEF SmTest, SmEntry, SmNoMemory, SmOpenFails, SmDispatchEnd, SmJoin, SmOpenMemory,
       SmDispatch, SmGoto, wsVars, instanceVars, clientVars, SmLabels
  <2>2. /\ \A h \in Gen : sm'[h] = "none" <=> sm[h] = "none"
        /\ ws'[1] = "done" => ws[1] = "done"
    BY <1>0, <2>1
  <2>3. NotStopped' => NotStopped
    BY <1>0, <2>1, <2>2 DEF NotStopped
  <2> QED
    BY <1>0, <2>1, <2>2, <2>3, FirstRunKept
<1>7. ASSUME NEW g \in Gen, SmDequeue(g) PROVE FirstRun'
  <2>1. /\ message_queue \in Seq(Message) /\ message_queue # <<>>
        /\ message_queue' = Tail(message_queue)
        /\ msg' = [msg EXCEPT ![g] = Head(message_queue)]
        /\ sm' = [sm EXCEPT ![g] = "handle"] /\ sm[g] = "dequeue"
        /\ UNCHANGED <<exit_request, ws, client, state_machine_thread_handle>>
        /\ msg \in [Gen -> Message \cup {NoMessage}]
    BY <1>7 DEF SmDequeue, SmGoto, instanceVars, clientVars, wsVars, Inv, TypeOK
  <2>2. /\ \A h \in Gen : sm'[h] = "none" <=> sm[h] = "none"
        /\ \A h \in Gen : msg'[h] = IF h = g THEN message_queue[1] ELSE msg[h]
        /\ Len(message_queue) >= 1 /\ Len(message_queue) \in Nat
        /\ Len(message_queue') = Len(message_queue) - 1
        /\ \A k \in 1 .. Len(message_queue) - 1 : message_queue'[k] = message_queue[k + 1]
    BY <1>0, <2>1, TailFacts, LenProperties
  <2>3. NotStopped' => NotStopped
    BY <1>0, <2>1, <2>2 DEF NotStopped
  <2> QED
    BY <1>0, <2>1, <2>2, <2>3 DEF FirstRun
<1>8. ASSUME NEW g \in Gen, SmHandleExit(g) PROVE FirstRun'
  <2>1. /\ sm[g] = "handle" /\ sm' = [sm EXCEPT ![g] = "release"]
        /\ msg[g].status = "EXIT_REQUESTED"
        /\ UNCHANGED <<client, state_machine_thread_handle, msg, message_queue, ws>>
    BY <1>8 DEF SmHandleExit, SmGoto, clientVars, wsVars
  <2>2. msg[g] = ExitRequest
    BY <2>1 DEF Inv, TypeOK, Message, Data, NoMessage, ExitRequest
  <2>3. \A h \in Gen : sm'[h] = "none" <=> sm[h] = "none"
    BY <1>0, <2>1
  <2>4. ~NotStopped'
    BY <1>0, <2>1, <2>2, <2>3 DEF NotStopped, FirstRun
  <2> QED
    BY <1>0, <2>3, <2>4 DEF FirstRun
<1>9. ASSUME NEW g \in Gen, SmRelease(g) PROVE FirstRun'
  <2>1. /\ sm[g] = "release" /\ sm' = [sm EXCEPT ![g] = "test"]
        /\ msg' = [msg EXCEPT ![g] = NoMessage]
        /\ UNCHANGED <<client, state_machine_thread_handle, exit_request, message_queue, ws>>
    BY <1>9 DEF SmRelease, SmGoto, clientVars, wsVars, instanceVars
  <2>2. /\ \A h \in Gen : sm'[h] = "none" <=> sm[h] = "none"
        /\ \A h \in Gen : msg'[h] = IF h = g THEN NoMessage ELSE msg[h]
        /\ NoMessage # ExitRequest
    BY <1>0, <2>1 DEF NoMessage, ExitRequest, Inv, TypeOK
  <2>3. NotStopped' => NotStopped
    BY <1>0, <2>1, <2>2 DEF NotStopped
  <2> QED
    BY <1>0, <2>1, <2>2, <2>3 DEF FirstRun
<1>10. ASSUME NEW g \in Gen, WsTest(g) \/ WsReceive(g) \/ WsReturn(g) PROVE FirstRun'
  <2>1. /\ UNCHANGED <<exit_request, message_queue, msg, client, sm, state_machine_thread_handle>>
        /\ \E to \in WsLabels : ws' = [ws EXCEPT ![g] = to] /\ (to = "done" => exit_request)
    BY <1>10 DEF WsTest, WsReceive, WsReturn, WsGoto, instanceVars, clientVars, WsLabels
  <2>2. ws'[1] = "done" => ws[1] = "done" \/ exit_request
    BY <1>0, <2>1
  <2>3. NotStopped' => NotStopped
    BY <2>1 DEF NotStopped
  <2> QED
    BY <2>1, <2>2, <2>3 DEF FirstRun
<1>11. ASSUME NEW g \in Gen, WsEnqueue(g) PROVE FirstRun'
  <2>1. /\ ws[g] = "enqueue" /\ ws' = [ws EXCEPT ![g] = "service"]
        /\ message_queue' = Enqueue(message_queue, Data(received[g]))
        /\ UNCHANGED <<exit_request, msg, client, sm, state_machine_thread_handle>>
    BY <1>11 DEF WsEnqueue, WsGoto, instanceVars, clientVars
  <2>2. received[g] \in Payload /\ Data(received[g]) \in Message
    BY <2>1, MessageFacts DEF Inv, TypeOK, InHand
  <2>3. Data(received[g]) # ExitRequest
    BY DEF Data, ExitRequest
  <2>4. message_queue \in Seq(Message) /\ Len(message_queue) <= MaxMessages
        /\ Len(message_queue) \in Nat
    BY LenProperties DEF Inv, TypeOK
  <2>5. \/ message_queue' = message_queue
        \/ /\ Len(message_queue') = Len(message_queue) + 1
           /\ message_queue'[Len(message_queue) + 1] = Data(received[g])
           /\ \A k \in 1 .. Len(message_queue) : message_queue'[k] = message_queue[k]
    <3> DEFINE q == message_queue
               m == Data(received[g])
               r == Enqueue(q, m)
    <3>1. q \in Seq(Message) /\ Len(q) <= MaxMessages /\ m \in Message
      BY <2>2, <2>4
    <3> HIDE DEF q, m
    <3>2. /\ HasRoom(q) => /\ Len(r) = Len(q) + 1
                           /\ r[Len(q) + 1] = m
                           /\ \A k \in 1 .. Len(q) : r[k] = q[k]
          /\ ~HasRoom(q) => r = q
      BY <3>1, EnqueueFacts
    <3>3. message_queue' = r
      BY <2>1 DEF q, m
    <3> HIDE DEF r
    <3> QED
      BY <3>2, <3>3 DEF q, m
  <2>6. ws'[1] = "done" => ws[1] = "done"
    BY <1>0, <2>1
  <2>7. NotStopped' => NotStopped
    BY <2>1 DEF NotStopped
  <2> QED
    BY <2>1, <2>3, <2>4, <2>5, <2>6, <2>7 DEF FirstRun
<1>12. CASE UNCHANGED vars
  BY <1>12 DEF vars, instanceVars, clientVars, wsVars, FirstRun, NotStopped
<1> QED
  BY <1>1, <1>2, <1>3, <1>4, <1>5, <1>6, <1>7, <1>8, <1>9, <1>10, <1>11, <1>12
  DEF Next, ClientStep, ClientReturns, SmStep, WsStep, UT_ControlPlane_Stop,
      UT_ControlPlane_Exit

(* From the return of the first Start to the call of Stop no message and   *)
(* no failure ends the libwebsockets thread or asks it to end.             *)
THEOREM FirstRunListens == Spec => []ListensUntilStopped
<1>1. FirstRun => ListensUntilStopped
  BY DEF FirstRun, NotStopped, ListensUntilStopped, Listens
<1> QED
  BY <1>1, FirstRunInit, FirstRunStep, Invariance, PTL DEF Spec

-----------------------------------------------------------------------------
(* The calls of a dispatch.  While a message is compared with the entries, *)
(* what has been called are the matching ones among those looked at, each  *)
(* as it was registered, and none of these changes any more; but for the   *)
(* torn ones.                                                              *)
CalledSoFar(g) ==
  LET calls == called[g]
  IN /\ i[g] <= callback_entry_index
     /\ \A k \in 1 .. Len(calls) :
          /\ calls[k].entry \in 1 .. i[g]
          /\ calls[k].entry \notin torn =>
               /\ callbackEntryList[calls[k].entry].key \in doc[g]
               /\ calls[k].at = callbackEntryList[calls[k].entry]
               /\ Complete(calls[k].at)
     /\ \A e \in 1 .. i[g] :
          e \notin torn /\ callbackEntryList[e].key \in doc[g]
            => \E k \in 1 .. Len(calls) : calls[k].entry = e
     /\ \A j, k \in 1 .. Len(calls) : j < k => calls[j].entry < calls[k].entry

Dispatching ==
  \A g \in Gen : /\ sm[g] \notin {"dispatch", "release"} => called[g] = <<>>
                 /\ sm[g] = "dispatch" => CalledSoFar(g)

LEMMA DispatchingInit == Init => Dispatching
BY DEF Init, Dispatching

(* Types, as far as the dispatch needs them.                               *)
LEMMA DispatchTypes ==
  ASSUME Inv
  PROVE  /\ callback_entry_index \in Nat /\ callback_entry_index <= MaxCallbackEntries
         /\ MaxCallbackEntries \in Nat
         /\ sm \in [Gen -> SmLabels] /\ i \in [Gen -> 0 .. MaxCallbackEntries]
         /\ doc \in [Gen -> SUBSET Keys]
         /\ called \in [Gen -> Seq([entry : Entry, at : EntryType])]
         /\ \A g \in Gen : /\ i[g] \in Nat
                           /\ called[g] \in Seq([entry : Entry, at : EntryType])
                           /\ Len(called[g]) \in Nat
                           /\ DOMAIN called[g] = 1 .. Len(called[g])
                           /\ \A k \in 1 .. Len(called[g]) : called[g][k].entry \in Nat
<1>1. /\ callback_entry_index \in Nat /\ callback_entry_index <= MaxCallbackEntries
      /\ MaxCallbackEntries \in Nat
      /\ sm \in [Gen -> SmLabels] /\ i \in [Gen -> 0 .. MaxCallbackEntries]
      /\ doc \in [Gen -> SUBSET Keys]
      /\ called \in [Gen -> Seq([entry : Entry, at : EntryType])]
  <2>1. callback_entry_index \in 0 .. MaxCallbackEntries /\ MaxCallbackEntries \in Nat
    BY BoundAssumption DEF Inv, TypeOK
  <2>2. callback_entry_index \in Nat /\ callback_entry_index <= MaxCallbackEntries
    BY <2>1
  <2>3. /\ sm \in [Gen -> SmLabels] /\ i \in [Gen -> 0 .. MaxCallbackEntries]
        /\ doc \in [Gen -> SUBSET Keys]
        /\ called \in [Gen -> Seq([entry : Entry, at : EntryType])]
    BY Zenon DEF Inv, TypeOK
  <2> QED
    BY <2>1, <2>2, <2>3
<1>2. ASSUME NEW g \in Gen
      PROVE  /\ i[g] \in Nat
             /\ called[g] \in Seq([entry : Entry, at : EntryType])
             /\ Len(called[g]) \in Nat
             /\ DOMAIN called[g] = 1 .. Len(called[g])
             /\ \A k \in 1 .. Len(called[g]) : called[g][k].entry \in Nat
  <2>1. called[g] \in Seq([entry : Entry, at : EntryType])
    BY <1>1, Zenon
  <2>4. i[g] \in 0 .. MaxCallbackEntries
    BY <1>1, Zenon
  <2>5. i[g] \in Nat
    BY <1>1, <2>4
  <2>2. Len(called[g]) \in Nat /\ DOMAIN called[g] = 1 .. Len(called[g])
    BY <2>1, LenProperties
  <2>3. \A k \in 1 .. Len(called[g]) : called[g][k] \in [entry : Entry, at : EntryType]
    BY <2>1, ElementOfSeq
  <2> QED
    BY <2>1, <2>2, <2>3, <2>5, BoundAssumption DEF Entry
<1> QED
  BY <1>1, <1>2

(* A step that changes neither entries nor the loops, and moves nobody     *)
(* into a dispatch or out of one but to its release.                       *)
LEMMA DispatchingKept ==
  ASSUME Dispatching,
         UNCHANGED <<callbackEntryList, callback_entry_index, torn, doc, i, called>>,
         \A g \in Gen : /\ sm'[g] = "dispatch" => sm[g] = "dispatch"
                        /\ sm[g] \in {"dispatch", "release"} => sm'[g] \in {"dispatch", "release"}
  PROVE  Dispatching'
<1> SUFFICES ASSUME NEW g \in Gen
             PROVE  /\ sm'[g] \notin {"dispatch", "release"} => called[g] = <<>>
                    /\ sm'[g] = "dispatch" => CalledSoFar(g)'
  BY Zenon DEF Dispatching
<1>1. CalledSoFar(g)' = CalledSoFar(g)
  BY Zenon DEF CalledSoFar
<1> QED
  BY <1>1 DEF Dispatching

(* A store that becomes visible changes no entry the index covers, but     *)
(* for one that is torn.                                                   *)
LEMMA StoreLandsBehind ==
  ASSUME Inv, NEW s \in stores, StoreLands(s)
  PROVE  /\ callback_entry_index' \in {callback_entry_index, callback_entry_index + 1}
         /\ torn \subseteq torn'
         /\ \A e \in 1 .. callback_entry_index :
              e \notin torn => callbackEntryList'[e] = callbackEntryList[e]
<1>1. /\ callbackEntryList \in [Entry -> EntryType]
      /\ callback_entry_index \in Nat
  BY DispatchTypes DEF Inv, TypeOK
<1>2. Slot = callback_entry_index + 1 \/ Slot \in torn
  BY DEF Inv, Registration, Slot
<1>3. \/ callbackEntryList' = callbackEntryList
      \/ \E v : callbackEntryList' = [callbackEntryList EXCEPT ![Slot] = v]
  BY <1>1 DEF StoreLands
<1>4. \A e \in 1 .. callback_entry_index :
        e \in Entry /\ (e \notin torn => e # Slot)
  BY <1>1, <1>2, DispatchTypes DEF Entry
<1>5. /\ callback_entry_index' \in {callback_entry_index, callback_entry_index + 1}
      /\ torn \subseteq torn'
  BY DEF StoreLands
<1> QED
  BY <1>1, <1>3, <1>4, <1>5

LEMMA DispatchingStep == Dispatching /\ Inv /\ [Next]_vars => Dispatching'
<1> SUFFICES ASSUME Dispatching, Inv, [Next]_vars PROVE Dispatching'
  OBVIOUS
<1>0. /\ callback_entry_index \in Nat /\ sm \in [Gen -> SmLabels]
      /\ i \in [Gen -> 0 .. MaxCallbackEntries] /\ doc \in [Gen -> SUBSET Keys]
      /\ called \in [Gen -> Seq([entry : Entry, at : EntryType])]
      /\ MaxCallbackEntries \in Nat
      /\ \A g \in Gen : i[g] \in Nat /\ Len(called[g]) \in Nat
  BY DispatchTypes
<1>1. ASSUME NEW s \in stores, StoreLands(s) PROVE Dispatching'
  <2>1. /\ callback_entry_index' \in {callback_entry_index, callback_entry_index + 1}
        /\ torn \subseteq torn'
        /\ \A e \in 1 .. callback_entry_index :
             e \notin torn => callbackEntryList'[e] = callbackEntryList[e]
    BY <1>1, StoreLandsBehind
  <2>2. UNCHANGED <<sm, doc, i, called>>
    BY <1>1 DEF StoreLands, dispatchVars
  <2>3. ASSUME NEW g \in Gen, sm[g] = "dispatch" PROVE CalledSoFar(g)'
    <3>1. \A e \in 1 .. i[g] : e \notin torn' =>
            e \notin torn /\ callbackEntryList'[e] = callbackEntryList[e]
      BY <1>0, <2>1, <2>3 DEF Dispatching, CalledSoFar
    <3>2. CalledSoFar(g)
      BY <2>3 DEF Dispatching
    <3>3. i[g] <= callback_entry_index'
      BY <1>0, <2>1, <3>2 DEF CalledSoFar
    <3>4. ASSUME NEW k \in 1 .. Len(called[g])
          PROVE  /\ called[g][k].entry \in 1 .. i[g]
                 /\ called[g][k].entry \notin torn' =>
                      /\ callbackEntryList'[called[g][k].entry].key \in doc[g]
                      /\ called[g][k].at = callbackEntryList'[called[g][k].entry]
                      /\ Complete(called[g][k].at)
      BY <3>1, <3>2, <3>4 DEF CalledSoFar
    <3>5. ASSUME NEW e \in 1 .. i[g], e \notin torn', callbackEntryList'[e].key \in doc[g]
          PROVE  \E k \in 1 .. Len(called[g]) : called[g][k].entry = e
      BY <3>1, <3>2, <3>5 DEF CalledSoFar
    <3>6. \A j, k \in 1 .. Len(called[g]) : j < k => called[g][j].entry < called[g][k].entry
      BY <3>2 DEF CalledSoFar
    <3> QED
      BY <2>2, <3>3, <3>4, <3>5, <3>6 DEF CalledSoFar
  <2> QED
    BY <2>2, <2>3 DEF Dispatching
<1>2. ASSUME NEW g \in Gen, NEW fields \in SUBSET Keys, SmOpenMemory(g, fields)
      PROVE  Dispatching'
  <2>1. /\ sm[g] = "handle" /\ sm' = [sm EXCEPT ![g] = "dispatch"]
        /\ i' = [i EXCEPT ![g] = 0] /\ doc' = [doc EXCEPT ![g] = fields]
        /\ UNCHANGED <<callbackEntryList, callback_entry_index, called>>
    BY <1>2 DEF SmOpenMemory, SmGoto
  <2>2. \A h \in Gen : /\ sm'[h] = IF h = g THEN "dispatch" ELSE sm[h]
                       /\ i'[h] = IF h = g THEN 0 ELSE i[h]
                       /\ doc'[h] = IF h = g THEN fields ELSE doc[h]
    BY <1>0, <2>1
  <2>3. called[g] = <<>> /\ Len(<<>>) = 0
    BY <2>1 DEF Dispatching
  <2>4. CalledSoFar(g)'
    BY <1>0, <2>1, <2>2, <2>3 DEF CalledSoFar
  <2>5. ASSUME NEW h \in Gen, h # g
        PROVE  /\ sm'[h] = "dispatch" => CalledSoFar(h)'
               /\ sm'[h] \notin {"dispatch", "release"} => called'[h] = <<>>
    <3>1. sm[h] # "dispatch"
      BY <2>1, <2>5 DEF Inv, Lifecycle
    <3> QED
      BY <2>1, <2>2, <2>5, <3>1 DEF Dispatching
  <2> QED
    BY <2>2, <2>4, <2>5 DEF Dispatching
<1>3. ASSUME NEW g \in Gen, NEW matches \in BOOLEAN, SmDispatch(g, matches)
      PROVE  Dispatching'
  <2> DEFINE e == callbackEntryList[i[g] + 1]
             n == Len(called[g])
             c == [entry |-> i[g] + 1, at |-> e]
  <2>1. /\ sm[g] = "dispatch" /\ i[g] < callback_entry_index
        /\ e.key # NoKey => matches = (e.key \in doc[g])
        /\ matches => called' = [called EXCEPT ![g] = Append(@, c)]
        /\ ~matches => called' = called
        /\ i' = [i EXCEPT ![g] = @ + 1]
        /\ UNCHANGED <<callbackEntryList, callback_entry_index, torn, sm, doc>>
    BY <1>0, <1>3 DEF SmDispatch, NoMoreEntries, entryVars
  <2>2. i[g] + 1 \in Entry /\ i[g] + 1 \in 1 .. callback_entry_index
    BY <1>0, <2>1, DispatchTypes DEF Entry
  <2>3. /\ e \in EntryType
        /\ i[g] + 1 \notin torn => e.key # NoKey /\ Complete(e)
    BY <2>2, KeyAssumption DEF Inv, TypeOK, Registration, Unfinished, Complete
  <2>4. c \in [entry : Entry, at : EntryType] /\ c.entry = i[g] + 1 /\ c.at = e
    BY <2>2, <2>3
  <2> HIDE DEF c
  <2>5. \A h \in Gen : i'[h] = IF h = g THEN i[g] + 1 ELSE i[h]
    BY <1>0, <2>1
  <2>6. called[g] \in Seq([entry : Entry, at : EntryType]) /\ n \in Nat
    BY DispatchTypes
  <2>7. CalledSoFar(g)
    BY <2>1 DEF Dispatching
  <2>8. \A k \in 1 .. n : called[g][k].entry \in 1 .. i[g]
    BY <2>7 DEF CalledSoFar
  <2>9. CalledSoFar(g)'
    <3>1. CASE ~matches
      <4>1. called'[g] = called[g] /\ (i[g] + 1 \notin torn => e.key \notin doc[g])
        BY <2>1, <2>3, <3>1
      <4>2. /\ i'[g] = i[g] + 1 /\ i'[g] <= callback_entry_index' /\ doc'[g] = doc[g]
            /\ callbackEntryList' = callbackEntryList /\ torn' = torn
        BY <1>0, <2>1, <2>2, <2>5
      <4>3. \A k \in 1 .. Len(called'[g]) :
              /\ called'[g][k].entry \in 1 .. i'[g]
              /\ called'[g][k].entry \notin torn' =>
                   /\ callbackEntryList'[called'[g][k].entry].key \in doc'[g]
                   /\ called'[g][k].at = callbackEntryList'[called'[g][k].entry]
                   /\ Complete(called'[g][k].at)
        BY <1>0, <2>7, <2>8, <4>1, <4>2 DEF CalledSoFar
      <4>4. ASSUME NEW x \in 1 .. i'[g], x \notin torn', callbackEntryList'[x].key \in doc'[g]
            PROVE  \E k \in 1 .. Len(called'[g]) : called'[g][k].entry = x
        <5>1. x # i[g] + 1
          BY <4>1, <4>2, <4>4
        <5>2. x \in 1 .. i[g]
          BY <1>0, <4>2, <5>1
        <5> QED
          BY <2>7, <4>1, <4>2, <4>4, <5>2 DEF CalledSoFar
      <4>5. \A j, k \in 1 .. Len(called'[g]) :
              j < k => called'[g][j].entry < called'[g][k].entry
        BY <2>7, <4>1 DEF CalledSoFar
      <4> QED
        BY <4>2, <4>3, <4>4, <4>5 DEF CalledSoFar
    <3>2. CASE matches
      <4>1. called'[g] = Append(called[g], c) /\ (i[g] + 1 \notin torn => e.key \in doc[g])
        BY <1>0, <2>1, <2>3, <3>2
      <4>2. /\ Len(called'[g]) = n + 1 /\ called'[g][n + 1] = c
            /\ \A k \in 1 .. n : called'[g][k] = called[g][k]
        BY <2>4, <2>6, <4>1, AppendProperties
      <4>3. \A k \in 1 .. n + 1 : k \in 1 .. n \/ k = n + 1
        BY <2>6
      <4>4. i'[g] = i[g] + 1 /\ i'[g] <= callback_entry_index' /\ doc'[g] = doc[g]
        BY <1>0, <2>1, <2>2, <2>5
      <4>5. \A k \in 1 .. Len(called'[g]) :
              /\ called'[g][k].entry \in 1 .. i'[g]
              /\ called'[g][k].entry \notin torn' =>
                   /\ callbackEntryList'[called'[g][k].entry].key \in doc'[g]
                   /\ called'[g][k].at = callbackEntryList'[called'[g][k].entry]
                   /\ Complete(called'[g][k].at)
        <5> SUFFICES ASSUME NEW k \in 1 .. n + 1
                     PROVE  /\ called'[g][k].entry \in 1 .. i'[g]
                            /\ called'[g][k].entry \notin torn =>
                                 /\ callbackEntryList[called'[g][k].entry].key \in doc[g]
                                 /\ called'[g][k].at = callbackEntryList[called'[g][k].entry]
                                 /\ Complete(called'[g][k].at)
          BY <2>1, <4>2, <4>4
        <5>1. CASE k = n + 1
          BY <1>0, <2>3, <2>4, <4>1, <4>2, <4>4, <5>1
        <5>2. CASE k \in 1 .. n
          BY <1>0, <2>7, <2>8, <4>2, <4>4, <5>2 DEF CalledSoFar
        <5> QED
          BY <4>3, <5>1, <5>2
      <4>6. ASSUME NEW x \in 1 .. i'[g], x \notin torn', callbackEntryList'[x].key \in doc'[g]
            PROVE  \E k \in 1 .. Len(called'[g]) : called'[g][k].entry = x
        <5>1. CASE x = i[g] + 1
          BY <2>4, <2>6, <4>2, <5>1
        <5>2. CASE x \in 1 .. i[g]
          <6>1. PICK k \in 1 .. n : called[g][k].entry = x
            BY <2>1, <2>7, <4>4, <4>6, <5>2 DEF CalledSoFar
          <6> QED
            BY <2>6, <4>2, <6>1
        <5> QED
          BY <1>0, <4>4, <5>1, <5>2
      <4>7. \A j, k \in 1 .. Len(called'[g]) :
              j < k => called'[g][j].entry < called'[g][k].entry
        <5> SUFFICES ASSUME NEW j \in 1 .. n + 1, NEW k \in 1 .. n + 1, j < k
                     PROVE  called'[g][j].entry < called'[g][k].entry
          BY <4>2
        <5>1. j \in 1 .. n /\ called'[g][j] = called[g][j]
          BY <2>6, <4>2
        <5>2. CASE k = n + 1
          BY <1>0, <2>4, <2>8, <4>2, <5>1, <5>2
        <5>3. CASE k \in 1 .. n
          BY <2>7, <4>2, <5>1, <5>3 DEF CalledSoFar
        <5> QED
          BY <4>3, <5>2, <5>3
      <4> QED
        BY <4>4, <4>5, <4>6, <4>7 DEF CalledSoFar
    <3> QED
      BY <3>1, <3>2
  <2>10. ASSUME NEW h \in Gen, h # g
         PROVE  /\ sm'[h] = "dispatch" => CalledSoFar(h)'
                /\ sm'[h] \notin {"dispatch", "release"} => called'[h] = <<>>
    <3>1. called'[h] = called[h] /\ i'[h] = i[h]
      BY <1>0, <2>1, <2>5, <2>10
    <3> QED
      BY <2>1, <3>1 DEF Dispatching, CalledSoFar
  <2> QED
    BY <2>1, <2>9, <2>10 DEF Dispatching
<1>4. ASSUME NEW g \in Gen, SmRelease(g) PROVE Dispatching'
  <2>1. /\ sm[g] = "release" /\ sm' = [sm EXCEPT ![g] = "test"]
        /\ i' = [i EXCEPT ![g] = 0] /\ doc' = [doc EXCEPT ![g] = {}]
        /\ called' = [called EXCEPT ![g] = <<>>]
        /\ UNCHANGED <<callbackEntryList, callback_entry_index, torn>>
    BY <1>4 DEF SmRelease, SmGoto, entryVars
  <2>2. \A h \in Gen : /\ sm'[h] = IF h = g THEN "test" ELSE sm[h]
                       /\ called'[h] = IF h = g THEN <<>> ELSE called[h]
                       /\ h # g => i'[h] = i[h] /\ doc'[h] = doc[h]
    BY <1>0, <2>1
  <2>3. ASSUME NEW h \in Gen, h # g, sm[h] = "dispatch" PROVE CalledSoFar(h)'
    BY <2>1, <2>2, <2>3 DEF Dispatching, CalledSoFar
  <2> QED
    BY <2>2, <2>3 DEF Dispatching
<1>5. ASSUME NEW g \in Gen, SmDispatchEnd(g) PROVE Dispatching'
  <2>1. /\ sm[g] = "dispatch" /\ sm' = [sm EXCEPT ![g] = "release"]
        /\ UNCHANGED <<callbackEntryList, callback_entry_index, torn, doc, i, called>>
    BY <1>5 DEF SmDispatchEnd, SmGoto, entryVars, dispatchVars
  <2> QED
    BY <1>0, <2>1, DispatchingKept
<1>6. ASSUME NEW g \in Gen,
             SmEntry(g) \/ SmTest(g) \/ SmDequeue(g) \/ SmNoMemory(g) \/ SmHandleExit(g)
               \/ SmOpenFails(g) \/ SmJoin(g) \/ UT_ControlPlane_Start(g)
      PROVE  Dispatching'
  <2>1. /\ \E from \in SmLabels \ {"dispatch", "release"}, to \in SmLabels \ {"dispatch"} :
             sm[g] = from /\ sm' = [sm EXCEPT ![g] = to]
        /\ UNCHANGED <<callbackEntryList, callback_entry_index, torn, doc, i, called>>
    BY <1>6 DEF SmEntry, SmTest, SmDequeue, SmNoMemory, SmHandleExit, SmOpenFails, SmJoin,
       UT_ControlPlane_Start, SmGoto, entryVars, dispatchVars, SmLabels
  <2> QED
    BY <1>0, <2>1, DispatchingKept
<1>7. CASE \/ UT_ControlPlane_Init \/ ClientReturns \/ (\E b \in BOOLEAN : StopBegin(b))
           \/ (\E key \in Keys, valid \in BOOLEAN :
                UT_ControlPlane_RegisterCallbackOnMessage(key, valid))
           \/ (\E g \in Gen : WsTest(g) \/ WsReceive(g) \/ WsEnqueue(g) \/ WsReturn(g))
           \/ UNCHANGED vars
  <2>1. UNCHANGED <<callbackEntryList, callback_entry_index, torn, sm, doc, i, called>>
    BY <1>7 DEF UT_ControlPlane_Init, ClientReturns, StopJoin, ExitDestroyContext, ExitFree,
       StopBegin, UT_ControlPlane_RegisterCallbackOnMessage, WsTest, WsReceive, WsEnqueue,
       WsReturn, vars, entryVars, dispatchVars
  <2> QED
    BY <2>1, DispatchingKept
<1> QED
  BY <1>1, <1>2, <1>3, <1>4, <1>5, <1>6, <1>7
  DEF Next, ClientStep, SmStep, WsStep, UT_ControlPlane_Stop, UT_ControlPlane_Exit

(* When a message is done with, exactly the entries whose key it holds     *)
(* have been called, once each, complete and in the order of registration, *)
(* with those registered during the dispatch; whatever the order in which  *)
(* the stores of a registration become visible, but for entries torn by it *)
(* (call_callback_on_match, ut_control_plane.c:143).                       *)
THEOREM EveryMatchCalled == Spec => EveryMatchIsCalled
<1>1. Dispatching /\ Inv /\ [Next]_vars => [CallsEveryMatch]_vars
  <2> SUFFICES ASSUME Dispatching, Inv, [Next]_vars, NEW g \in Gen,
                      sm[g] = "dispatch", sm'[g] = "release"
               PROVE  /\ {called[g][k].entry : k \in DOMAIN called[g]} \ torn =
                           {e \in 1 .. callback_entry_index :
                              callbackEntryList[e].key \in doc[g]} \ torn
                      /\ \A k \in DOMAIN called[g] : called[g][k].entry \notin torn =>
                           /\ Complete(called[g][k].at)
                           /\ called[g][k].at = callbackEntryList[called[g][k].entry]
                      /\ \A j, k \in DOMAIN called[g] :
                           j < k => called[g][j].entry < called[g][k].entry
    BY DEF CallsEveryMatch
  <2>1. sm \in [Gen -> SmLabels]
    BY DispatchTypes
  <2>2. PICK h \in Gen : SmStep(h) \/ SmNoMemory(h) \/ UT_ControlPlane_Start(h)
    BY DEF Next, ClientStep, ClientReturns, WsStep, UT_ControlPlane_Init, StopJoin,
       ExitDestroyContext, ExitFree, StopBegin, StoreLands, UT_ControlPlane_Stop,
       UT_ControlPlane_Exit, UT_ControlPlane_RegisterCallbackOnMessage, WsTest, WsReceive,
       WsEnqueue, WsReturn, vars
  <2>3. SmDispatchEnd(g)
    BY <2>1, <2>2 DEF SmStep, SmNoMemory, UT_ControlPlane_Start, SmEntry, SmTest, SmDequeue,
       SmHandleExit, SmOpenFails, SmOpenMemory, SmDispatch, SmDispatchEnd, SmRelease, SmJoin,
       SmGoto
  <2>4. /\ CalledSoFar(g) /\ i[g] \in Nat /\ callback_entry_index \in Nat
        /\ DOMAIN called[g] = 1 .. Len(called[g])
    BY DispatchTypes DEF Dispatching
  <2>5. i[g] = callback_entry_index
    BY <2>3, <2>4 DEF SmDispatchEnd, NoMoreEntries, CalledSoFar
  <2> QED
    BY <2>4, <2>5 DEF CalledSoFar
<1> QED
  BY <1>1, DispatchingInit, DispatchingStep, Invariance, PTL DEF Spec, EveryMatchIsCalled

-----------------------------------------------------------------------------
(* One server.  Only the first run takes and receives messages: the        *)
(* threads of a later one find exit_request set, and end.                  *)
OneServer ==
  /\ \A g \in Gen \ {1} : /\ sm[g] \in {"none", "entry", "test", "join", "done"}
                          /\ ws[g] \in {"none", "test", "done"}
                          /\ sm[g] # "none" => exit_request
  /\ sm[1] \in {"join", "done"} => exit_request
  /\ sm[1] \in {"dequeue", "handle", "dispatch"} => ~exit_request
  /\ sm[1] = "dispatch" => msg[1] # ExitRequest
  /\ sm[1] = "release" => (exit_request <=> msg[1] = ExitRequest)

LEMMA OneServerInit == Init => OneServer
BY BoundAssumption DEF Init, OneServer, Gen

(* A step that leaves what OneServer speaks of as it is.                   *)
LEMMA OneServerKept ==
  ASSUME OneServer, UNCHANGED <<sm, ws, msg, exit_request>>
  PROVE  OneServer'
BY DEF OneServer

LEMMA OneServerStep == OneServer /\ Inv /\ [Next]_vars => OneServer'
<1> SUFFICES ASSUME OneServer, Inv, [Next]_vars PROVE OneServer'
  OBVIOUS
<1>0. /\ 1 \in Gen /\ Gen \subseteq Nat \ {0}
      /\ sm \in [Gen -> SmLabels] /\ ws \in [Gen -> WsLabels]
      /\ msg \in [Gen -> Message \cup {NoMessage}]
  BY BoundAssumption DEF Gen, Inv, TypeOK
<1>1. CASE \/ UT_ControlPlane_Init \/ ExitDestroyContext \/ ExitFree \/ StopJoin
           \/ (\E key \in Keys, valid \in BOOLEAN :
                UT_ControlPlane_RegisterCallbackOnMessage(key, valid))
           \/ (\E s \in stores : StoreLands(s))
           \/ (\E b \in BOOLEAN : StopBegin(b))
           \/ (\E g \in Gen, matches \in BOOLEAN : SmDispatch(g, matches))
           \/ UNCHANGED vars
  <2>1. UNCHANGED <<sm, ws, msg, exit_request>>
    BY <1>1 DEF UT_ControlPlane_Init, ExitDestroyContext, ExitFree, StopJoin, StoreLands,
       UT_ControlPlane_RegisterCallbackOnMessage, StopBegin, SmDispatch, wsVars,
       instanceVars, vars
  <2> QED
    BY <2>1, OneServerKept
<1>2. ASSUME NEW g \in Gen, UT_ControlPlane_Start(g) PROVE OneServer'
  <2>1. /\ sm' = [sm EXCEPT ![g] = "entry"] /\ sm[g] = "none"
        /\ state_machine_thread_handle = 0 /\ \A h \in 1 .. g - 1 : sm[h] # "none"
        /\ UNCHANGED <<ws, msg, exit_request>>
    BY <1>2 DEF UT_ControlPlane_Start, wsVars
  <2>2. g # 1 => 1 \in 1 .. g - 1
    BY <1>0
  <2>3. g # 1 => sm[1] = "done"
    BY <1>0, <2>1, <2>2 DEF Inv, Lifecycle
  <2>4. g # 1 => exit_request
    BY <2>3 DEF OneServer
  <2>5. \A h \in Gen : sm'[h] = IF h = g THEN "entry" ELSE sm[h]
    BY <1>0, <2>1
  <2> QED
    BY <1>0, <2>1, <2>4, <2>5 DEF OneServer
<1>3. ASSUME NEW g \in Gen, SmEntry(g) PROVE OneServer'
  <2>1. /\ sm[g] = "entry" /\ sm' = [sm EXCEPT ![g] = "test"] /\ ws' = [ws EXCEPT ![g] = "test"]
        /\ UNCHANGED <<msg, exit_request>>
    BY <1>3 DEF SmEntry, SmGoto, instanceVars
  <2>2. \A h \in Gen : /\ sm'[h] = IF h = g THEN "test" ELSE sm[h]
                       /\ ws'[h] = IF h = g THEN "test" ELSE ws[h]
    BY <1>0, <2>1
  <2> QED
    BY <1>0, <2>1, <2>2 DEF OneServer
<1>4. ASSUME NEW g \in Gen, SmTest(g) PROVE OneServer'
  <2>1. /\ sm[g] = "test" /\ sm' = [sm EXCEPT ![g] = IF exit_request THEN "join" ELSE "dequeue"]
        /\ UNCHANGED <<ws, msg, exit_request>>
    BY <1>4 DEF SmTest, SmGoto, instanceVars, wsVars
  <2>2. \A h \in Gen : sm'[h] = IF h = g THEN IF exit_request THEN "join" ELSE "dequeue" ELSE sm[h]
    BY <1>0, <2>1
  <2> QED
    BY <1>0, <2>1, <2>2 DEF OneServer
<1>5. ASSUME NEW g \in Gen,
             \/ SmDequeue(g) \/ SmNoMemory(g) \/ SmHandleExit(g) \/ SmOpenFails(g)
             \/ (\E fields \in SUBSET Keys : SmOpenMemory(g, fields))
             \/ SmDispatchEnd(g) \/ SmRelease(g) \/ SmJoin(g)
      PROVE OneServer'
  <2>1. UNCHANGED ws
    BY <1>5 DEF SmDequeue, SmNoMemory, SmHandleExit, SmOpenFails, SmOpenMemory, SmDispatchEnd,
       SmRelease, SmJoin, wsVars
  <2>2. CASE SmJoin(g)
    <3>1. /\ sm[g] = "join" /\ sm' = [sm EXCEPT ![g] = "done"] /\ UNCHANGED <<msg, exit_request>>
      BY <2>2 DEF SmJoin, SmGoto, instanceVars
    <3>2. \A h \in Gen : sm'[h] = IF h = g THEN "done" ELSE sm[h]
      BY <1>0, <3>1
    <3> QED
      BY <1>0, <2>1, <3>1, <3>2 DEF OneServer
  <2>3. CASE ~SmJoin(g)
    <3>1. sm[g] \in {"dequeue", "handle", "dispatch", "release"}
      BY <1>5, <2>3 DEF SmDequeue, SmNoMemory, SmHandleExit, SmOpenFails, SmOpenMemory,
         SmDispatchEnd, SmRelease, SmGoto
    <3>2. g = 1
      BY <3>1 DEF OneServer
    <3>3. \E to \in SmLabels \ {"none", "join", "done"} : sm' = [sm EXCEPT ![1] = to]
      BY <1>5, <2>3, <3>2 DEF SmDequeue, SmNoMemory, SmHandleExit, SmOpenFails, SmOpenMemory,
         SmDispatchEnd, SmRelease, SmGoto, SmLabels
    <3>4. \A h \in Gen \ {1} : sm'[h] = sm[h]
      BY <1>0, <3>3
    <3>5. exit_request => exit_request'
      BY <1>5, <2>3 DEF SmDequeue, SmNoMemory, SmHandleExit, SmOpenFails, SmOpenMemory,
         SmDispatchEnd, SmRelease, instanceVars
    <3>6. /\ sm'[1] \in {"join", "done"} => exit_request'
          /\ sm'[1] \in {"dequeue", "handle", "dispatch"} => ~exit_request'
          /\ sm'[1] = "dispatch" => msg'[1] # ExitRequest
          /\ sm'[1] = "release" => (exit_request' <=> msg'[1] = ExitRequest)
      <4>1. CASE SmDequeue(1)
        <5>1. sm[1] = "dequeue" /\ sm'[1] = "handle" /\ UNCHANGED exit_request
          BY <1>0, <4>1 DEF SmDequeue, SmGoto, instanceVars
        <5> QED
          BY <5>1 DEF OneServer
      <4>2. CASE SmNoMemory(1) \/ SmRelease(1)
        <5>1. sm'[1] = "test"
          BY <1>0, <4>2 DEF SmNoMemory, SmRelease, SmGoto
        <5> QED
          BY <5>1
      <4>3. CASE SmHandleExit(1)
        <5>1. sm'[1] = "release" /\ exit_request' /\ msg' = msg /\ msg[1].status = "EXIT_REQUESTED"
          BY <1>0, <4>3 DEF SmHandleExit, SmGoto
        <5>2. msg[1] = ExitRequest
          BY <1>0, <5>1 DEF Message, Data, NoMessage, ExitRequest
        <5> QED
          BY <5>1, <5>2
      <4>4. CASE SmOpenFails(1) \/ (\E fields \in SUBSET Keys : SmOpenMemory(1, fields))
        <5>1. /\ sm[1] = "handle" /\ sm'[1] \in {"release", "dispatch"}
              /\ msg[1].status = "DATA_RECIEVED" /\ UNCHANGED <<msg, exit_request>>
          BY <1>0, <4>4 DEF SmOpenFails, SmOpenMemory, SmGoto, instanceVars
        <5>2. msg[1] # ExitRequest
          BY <5>1 DEF ExitRequest
        <5> QED
          BY <5>1, <5>2 DEF OneServer
      <4>5. CASE SmDispatchEnd(1)
        <5>1. sm[1] = "dispatch" /\ sm'[1] = "release" /\ UNCHANGED <<msg, exit_request>>
          BY <1>0, <4>5 DEF SmDispatchEnd, SmGoto, instanceVars
        <5> QED
          BY <5>1 DEF OneServer
      <4> QED
        BY <1>5, <2>3, <3>2, <4>1, <4>2, <4>3, <4>4, <4>5
    <3> QED
      BY <2>1, <3>4, <3>5, <3>6 DEF OneServer
  <2> QED
    BY <2>2, <2>3
<1>6. ASSUME NEW g \in Gen, WsTest(g) \/ WsReceive(g) \/ WsReturn(g) \/ WsEnqueue(g)
      PROVE OneServer'
  <2>1. /\ UNCHANGED <<sm, msg, exit_request>>
        /\ \E to \in WsLabels : ws' = [ws EXCEPT ![g] = to]
    BY <1>6 DEF WsTest, WsReceive, WsReturn, WsEnqueue, WsGoto, instanceVars, WsLabels
  <2>2. \A h \in Gen \ {g} : ws'[h] = ws[h]
    BY <1>0, <2>1
  <2>3. CASE g = 1
    BY <2>1, <2>2, <2>3 DEF OneServer
  <2>4. CASE g # 1
    <3>1. WsTest(g)
      BY <1>6, <2>4 DEF WsReceive, WsReturn, WsEnqueue, WsGoto, OneServer
    <3>2. sm[g] # "none"
      BY <3>1 DEF WsTest, WsGoto, Inv, Lifecycle
    <3>3. ws'[g] = "done"
      BY <1>0, <2>4, <3>1, <3>2 DEF WsTest, WsGoto, OneServer
    <3> QED
      BY <2>1, <2>2, <2>4, <3>3 DEF OneServer
  <2> QED
    BY <2>3, <2>4
<1> QED
  BY <1>1, <1>2, <1>3, <1>4, <1>5, <1>6
  DEF Next, ClientStep, ClientReturns, SmStep, WsStep, UT_ControlPlane_Stop,
      UT_ControlPlane_Exit

(* Nothing is freed that was not created.                                  *)
Created == client = "free" => instance # "none"

LEMMA CreatedInit == Init => Created
BY DEF Init, Created

LEMMA CreatedStep == Created /\ [Next]_vars => Created'
BY DEF Created, Next, vars, instanceVars, entryVars, clientVars, dispatchVars,
   wsVars, heapVars, ClientStep, ClientReturns, SmStep, WsStep,
   UT_ControlPlane_Init, UT_ControlPlane_RegisterCallbackOnMessage, StoreLands,
   UT_ControlPlane_Start, UT_ControlPlane_Stop, UT_ControlPlane_Exit, StopBegin,
   StopJoin, ExitDestroyContext, ExitFree, SmEntry, SmTest, SmDequeue, SmNoMemory,
   SmHandleExit, SmOpenMemory, SmOpenFails, SmDispatch, SmDispatchEnd, SmRelease,
   SmJoin, WsTest, WsReceive, WsEnqueue, WsReturn

-----------------------------------------------------------------------------
(* The refinement of ControlPlaneService.                                  *)

LEMMA DataFacts ==
  /\ \A p, q : Data(p) = Data(q) => p = q
  /\ \A p : Data(p) # ExitRequest /\ Data(p) # NoMessage
  /\ ExitRequest # NoMessage
<1>1. ASSUME NEW p, NEW q, Data(p) = Data(q) PROVE p = q
  <2>1. Data(p).message = p /\ Data(q).message = q
    BY DEF Data
  <2> QED BY <1>1, <2>1
<1>2. ASSUME NEW p PROVE Data(p) # ExitRequest /\ Data(p) # NoMessage
  BY DEF Data, ExitRequest, NoMessage
<1>3. ExitRequest # NoMessage
  BY DEF ExitRequest, NoMessage
<1> QED BY <1>1, <1>2, <1>3

(* What the service sees of a thread that keeps what is its own.           *)
LEMMA PlaneKept ==
  ASSUME UNCHANGED <<instance, client, state_machine_thread_handle>> PROVE Plane' = Plane
BY DEF Plane

LEMMA HandsKept ==
  /\ UNCHANGED received => Coming' = Coming
  /\ UNCHANGED <<exit_request, msg>> => Handling' = Handling
  /\ UNCHANGED arrived => Seen' = Seen
  /\ UNCHANGED heap => Memory' = Memory
BY DEF Coming, Handling, Seen, Memory

LEMMA InitService == Init => Service!Init
<1> SUFFICES ASSUME Init PROVE Service!Init
  OBVIOUS
<1>0. 1 \in Gen
  BY BoundAssumption DEF Gen
<1>1. Plane = "none"
  BY DEF Init, Plane
<1>2. Coming = NoMessage /\ Handling = NoMessage
  BY <1>0 DEF Init, Coming, Handling
<1>3. Seen = {} /\ Memory = {}
  BY DEF Init, Seen, Memory
<1> QED
  BY <1>1, <1>2, <1>3 DEF Init, Service!Init

(* The calls of the client.                                                *)
LEMMA ClientService ==
  ASSUME Inv, OneServer, Created, ClientStep
  PROVE  Service!Next \/ UNCHANGED Service!vars
<1>0. /\ 1 \in Gen /\ Gen \subseteq Nat \ {0} /\ 0 \notin Gen
      /\ state_machine_thread_handle \in Gen \cup {0}
  BY BoundAssumption DEF Gen, Inv, TypeOK
<1>1. CASE UT_ControlPlane_Init
  <2>1. /\ instance = "none" /\ client = "idle" /\ instance' \in {"live", "none"}
        /\ UNCHANGED <<message_queue, exit_request, client, state_machine_thread_handle,
                       msg, received, heap, arrived>>
    BY <1>1 DEF UT_ControlPlane_Init, clientVars, wsVars, heapVars
  <2>2. state_machine_thread_handle = 0
    BY <2>1 DEF Inv, Lifecycle
  <2>3. CASE instance' = "live"
    <3>1. Plane = "none" /\ Plane' = "stopped"
      BY <2>1, <2>2, <2>3 DEF Plane
    <3>2. Service!Create
      BY <2>1, <3>1, HandsKept DEF Service!Create
    <3> QED BY <3>2 DEF Service!Next
  <2>4. CASE instance' = "none"
    <3>1. UNCHANGED <<instance, client, state_machine_thread_handle>>
      BY <2>1, <2>4
    <3> QED BY <2>1, <3>1, PlaneKept, HandsKept DEF Service!vars
  <2> QED BY <2>1, <2>3, <2>4
<1>2. CASE \/ \E key \in Keys, valid \in BOOLEAN :
                UT_ControlPlane_RegisterCallbackOnMessage(key, valid)
           \/ \E s \in stores : StoreLands(s)
  <2>1. UNCHANGED <<instance, client, state_machine_thread_handle, message_queue,
                    exit_request, msg, received, heap, arrived>>
    BY <1>2 DEF UT_ControlPlane_RegisterCallbackOnMessage, StoreLands, instanceVars,
       clientVars, wsVars, heapVars
  <2> QED BY <2>1, PlaneKept, HandsKept DEF Service!vars
<1>3. ASSUME NEW g \in Gen, UT_ControlPlane_Start(g) PROVE Service!Start
  <2>1. /\ instance = "live" /\ client = "idle" /\ state_machine_thread_handle = 0
        /\ state_machine_thread_handle' = g
        /\ UNCHANGED <<instance, client, message_queue, exit_request, msg, received,
                       heap, arrived>>
    BY <1>3 DEF UT_ControlPlane_Start, Calling, Valid, clientVars, wsVars, heapVars
  <2>2. Plane = "stopped" /\ Plane' = "started"
    BY <1>0, <2>1 DEF Plane
  <2> QED BY <2>1, <2>2, HandsKept DEF Service!Start
<1>4. ASSUME NEW b \in BOOLEAN, StopBegin(b)
      PROVE  Service!Stop \/ UNCHANGED Service!vars
  <2>1. /\ instance = "live" /\ client = "idle"
        /\ UNCHANGED <<instance, state_machine_thread_handle, exit_request, msg, received,
                       heap, arrived>>
    BY <1>4 DEF StopBegin, Calling, Valid, instanceVars, wsVars, heapVars
  <2>2. CASE state_machine_thread_handle # 0
    <3>1. client' = "join" /\ message_queue' = RequestExit(message_queue)
      BY <1>4, <2>2 DEF StopBegin
    <3>2. Plane = "started" /\ Plane' = "stopping"
      BY <2>1, <2>2, <3>1 DEF Plane
    <3>3. Service!Stop
      BY <2>1, <3>1, <3>2, HandsKept
      DEF Service!Stop, Service!HasRoom, RequestExit, Enqueue, HasRoom
    <3> QED BY <3>3
  <2>3. CASE state_machine_thread_handle = 0
    <3>1. client' \in {"destroy_context", "idle"} /\ UNCHANGED message_queue
      BY <1>4, <2>3 DEF StopBegin
    <3>2. Plane = "stopped" /\ Plane' = "stopped"
      BY <2>1, <2>3, <3>1 DEF Plane
    <3> QED BY <2>1, <3>1, <3>2, HandsKept DEF Service!vars
  <2> QED BY <2>2, <2>3
<1>5. CASE StopJoin
  <2> DEFINE g == state_machine_thread_handle
  <2>1. /\ client = "join" /\ sm[g] = "done" /\ state_machine_thread_handle' = 0
        /\ client' \in {"destroy_context", "idle"}
        /\ UNCHANGED <<instance, message_queue, exit_request, msg, received, heap, arrived>>
    BY <1>5 DEF StopJoin, wsVars, heapVars
  <2>2. g \in Gen /\ instance = "live"
    BY <1>0, <2>1 DEF Inv, Lifecycle
  <2>3. Plane = "stopping" /\ Plane' = "stopped"
    BY <2>1, <2>2 DEF Plane
  <2>4. exit_request
    BY <1>0, <2>1, <2>2 DEF OneServer
  <2>5. sm[1] \in {"none", "done"}
    BY <1>0, <2>1, <2>2 DEF Inv, Lifecycle
  <2>6. received[1] = 0
    BY <1>0, <2>5 DEF Inv, Lifecycle, InHand
  <2>7. Coming = NoMessage /\ Handling = NoMessage
    BY <2>4, <2>6 DEF Coming, Handling
  <2>8. Service!Return
    BY <2>1, <2>3, <2>4, <2>7, HandsKept DEF Service!Return
  <2> QED BY <2>8 DEF Service!Next
<1>6. CASE ExitDestroyContext
  <2>1. /\ client = "destroy_context" /\ client' = "free" /\ instance' = "no_context"
        /\ UNCHANGED <<state_machine_thread_handle, message_queue, exit_request, msg,
                       received, heap, arrived>>
    BY <1>6 DEF ExitDestroyContext, wsVars, heapVars
  <2>2. state_machine_thread_handle = 0 /\ instance = "live"
    BY <2>1 DEF Inv, Lifecycle
  <2>3. Plane' = Plane
    BY <2>1, <2>2 DEF Plane
  <2> QED BY <2>1, <2>3, HandsKept DEF Service!vars
<1>7. CASE ExitFree
  <2>1. /\ client = "free" /\ client' = "gone" /\ instance' = "freed" /\ message_queue' = <<>>
        /\ UNCHANGED <<state_machine_thread_handle, exit_request, msg, received, heap, arrived>>
    BY <1>7 DEF ExitFree, wsVars, heapVars
  <2>2. state_machine_thread_handle = 0 /\ instance # "none"
    BY <2>1 DEF Inv, Lifecycle, Created
  <2>3. Plane = "stopped" /\ Plane' = "gone"
    BY <2>1, <2>2 DEF Plane
  <2>4. Service!Exit
    BY <2>1, <2>3, HandsKept DEF Service!Exit
  <2> QED BY <2>4 DEF Service!Next
<1> QED
  BY <1>1, <1>2, <1>3, <1>4, <1>5, <1>6, <1>7
  DEF ClientStep, ClientReturns, UT_ControlPlane_Stop, UT_ControlPlane_Exit, Service!Next

(* A thread of the first run works for a plane that is started, or that    *)
(* Stop waits for.                                                         *)
LEMMA Working ==
  ASSUME Inv, sm[1] \notin {"none", "done"} \/ ws[1] \notin {"none", "done"}
  PROVE  /\ Plane \in {"started", "stopping"}
         /\ Plane = "started" => state_machine_thread_handle = 1 /\ client = "idle"
<1>0. 1 \in Gen
  BY BoundAssumption DEF Gen
<1>1. state_machine_thread_handle = 1
  BY <1>0 DEF Inv, Lifecycle
<1>2. instance = "live" /\ client \in {"idle", "join"}
  BY <1>1 DEF Inv, Lifecycle
<1> QED BY <1>1, <1>2 DEF Plane

(* The state machine.                                                      *)
LEMMA SmService ==
  ASSUME Inv, OneServer, NEW g \in Gen, SmStep(g) \/ SmNoMemory(g)
  PROVE  Service!Next \/ UNCHANGED Service!vars
<1>0. /\ 1 \in Gen /\ msg \in [Gen -> Message \cup {NoMessage}]
  BY BoundAssumption DEF Gen, Inv, TypeOK
<1>1. CASE \/ SmEntry(g) \/ SmTest(g) \/ SmNoMemory(g) \/ SmOpenFails(g)
           \/ (\E fields \in SUBSET Keys : SmOpenMemory(g, fields))
           \/ (\E matches \in BOOLEAN : SmDispatch(g, matches))
           \/ SmDispatchEnd(g) \/ SmJoin(g)
  <2>1. UNCHANGED <<instance, client, state_machine_thread_handle, message_queue,
                    exit_request, msg, received, heap, arrived>>
    BY <1>1 DEF SmEntry, SmTest, SmNoMemory, SmOpenFails, SmOpenMemory, SmDispatch,
       SmDispatchEnd, SmJoin, instanceVars, clientVars, wsVars, heapVars
  <2> QED BY <2>1, PlaneKept, HandsKept DEF Service!vars
<1>2. CASE SmDequeue(g)
  <2>1. /\ sm[g] = "dequeue" /\ message_queue # <<>>
        /\ msg' = [msg EXCEPT ![g] = Head(message_queue)]
        /\ message_queue' = Tail(message_queue)
        /\ UNCHANGED <<instance, client, state_machine_thread_handle, exit_request,
                       received, heap, arrived>>
    BY <1>2 DEF SmDequeue, SmGoto, instanceVars, clientVars, wsVars, heapVars
  <2>2. g = 1
    BY <2>1 DEF OneServer
  <2>3. ~exit_request
    BY <2>1, <2>2 DEF OneServer
  <2>4. msg[1] = NoMessage
    BY <1>0, <2>1, <2>2 DEF Inv, InHand
  <2>5. Handling = NoMessage /\ Handling' = Head(message_queue)
    BY <1>0, <2>1, <2>2, <2>3, <2>4 DEF Handling
  <2>6. Plane \in {"started", "stopping"}
    BY <2>1, <2>2, Working
  <2>7. Service!Take
    BY <2>1, <2>3, <2>5, <2>6, PlaneKept, HandsKept DEF Service!Take
  <2> QED BY <2>7 DEF Service!Next
<1>3. CASE SmHandleExit(g)
  <2>1. /\ sm[g] = "handle" /\ msg[g].status = "EXIT_REQUESTED" /\ exit_request' = TRUE
        /\ UNCHANGED <<instance, client, state_machine_thread_handle, message_queue,
                       received, heap, arrived>>
    BY <1>3 DEF SmHandleExit, SmGoto, clientVars, wsVars, heapVars
  <2>2. g = 1 /\ ~exit_request
    BY <2>1 DEF OneServer
  <2>3. msg[1] = ExitRequest
    BY <1>0, <2>1, <2>2 DEF Message, Data, NoMessage, ExitRequest
  <2>4. Handling = ExitRequest /\ Handling' = NoMessage
    BY <2>1, <2>2, <2>3 DEF Handling
  <2>5. Memory \ {ExitRequest} = Memory
    BY DataFacts DEF Memory
  <2>6. Service!Finish
    BY <2>1, <2>4, <2>5, DataFacts, PlaneKept, HandsKept DEF Service!Finish
  <2> QED BY <2>6 DEF Service!Next
<1>4. CASE SmRelease(g)
  <2>1. /\ sm[g] = "release" /\ heap' = heap \ {msg[g].message}
        /\ msg' = [msg EXCEPT ![g] = NoMessage]
        /\ UNCHANGED <<instance, client, state_machine_thread_handle, message_queue,
                       exit_request, received, arrived>>
    BY <1>4 DEF SmRelease, SmGoto, Freed, instanceVars, clientVars, wsVars
  <2>2. g = 1
    BY <2>1 DEF OneServer
  <2>3. msg[1] \in Message
    BY <1>0, <2>1, <2>2 DEF Inv, InHand
  <2>4. Plane' = Plane /\ Coming' = Coming /\ Seen' = Seen
    BY <2>1, PlaneKept, HandsKept
  <2>5. CASE exit_request
    <3>1. msg[1] = ExitRequest
      BY <2>1, <2>2, <2>5 DEF OneServer
    <3>2. 0 \notin heap
      BY DEF Inv, TypeOK, Payload
    <3>3. heap' = heap
      BY <2>1, <2>2, <3>1, <3>2 DEF ExitRequest
    <3>4. Handling' = Handling
      BY <2>1, <2>5 DEF Handling
    <3> QED BY <2>1, <2>4, <3>3, <3>4, HandsKept DEF Service!vars
  <2>6. CASE ~exit_request
    <3>1. msg[1] # ExitRequest
      BY <2>1, <2>2, <2>6 DEF OneServer
    <3>2. PICK p \in Payload : msg[1] = Data(p)
      BY <2>3, <3>1 DEF Message
    <3>3. msg[1].message = p
      BY <3>2 DEF Data
    <3>4. Handling = Data(p) /\ Handling' = NoMessage
      BY <1>0, <2>1, <2>2, <2>6, <3>2 DEF Handling
    <3>5. Memory' = Memory \ {Data(p)}
      BY <2>1, <2>2, <3>3, DataFacts DEF Memory
    <3>6. exit_request = FALSE /\ exit_request' = FALSE
      BY <2>1, <2>6 DEF Inv, TypeOK
    <3>7. Handling # NoMessage /\ Handling # ExitRequest
      BY <3>4, DataFacts
    <3>8. Service!Finish
      BY <2>1, <2>4, <3>4, <3>5, <3>6, <3>7 DEF Service!Finish
    <3> QED BY <3>8 DEF Service!Next
  <2> QED BY <2>5, <2>6
<1> QED
  BY <1>1, <1>2, <1>3, <1>4 DEF SmStep

(* The libwebsockets thread.                                               *)
LEMMA WsService ==
  ASSUME Inv, FirstRun, OneServer, NEW g \in Gen, WsStep(g) \/ WsReceive(g)
  PROVE  Service!Next \/ UNCHANGED Service!vars
<1>0. /\ 1 \in Gen /\ received \in [Gen -> Payload \cup {0}]
      /\ arrived \in 0 .. MaxPayloads /\ MaxPayloads \in Nat
  BY BoundAssumption DEF Gen, Inv, TypeOK
<1>1. CASE WsTest(g) \/ WsReturn(g)
  <2>1. UNCHANGED <<instance, client, state_machine_thread_handle, message_queue,
                    exit_request, msg, received, heap, arrived>>
    BY <1>1 DEF WsTest, WsReturn, instanceVars, clientVars, heapVars
  <2> QED BY <2>1, PlaneKept, HandsKept DEF Service!vars
<1>2. CASE WsReceive(g)
  <2> DEFINE p == arrived + 1
  <2>1. /\ ws[g] = "service" /\ arrived < MaxPayloads /\ arrived' = p
        /\ received' = [received EXCEPT ![g] = p] /\ heap' = heap \cup {p}
        /\ UNCHANGED <<instance, client, state_machine_thread_handle, message_queue,
                       exit_request, msg>>
    BY <1>2 DEF WsReceive, WsGoto, instanceVars, clientVars
  <2>2. g = 1
    BY <2>1 DEF OneServer
  <2>3. p \in Payload /\ p # 0 /\ p \notin 1 .. arrived /\ 1 .. p = (1 .. arrived) \cup {p}
    BY <1>0, <2>1 DEF Payload
  <2>4. received[1] = 0
    BY <1>0, <2>1, <2>2 DEF Inv, InHand
  <2>5. Coming = NoMessage /\ Coming' = Data(p)
    BY <1>0, <2>1, <2>2, <2>3, <2>4 DEF Coming
  <2>6. Data(p) \notin Seen
    BY <2>3, DataFacts DEF Seen
  <2>7. Seen' = Seen \cup {Data(p)}
    <3>1. Seen' = {Data(q) : q \in 1 .. p}
      BY <2>1 DEF Seen
    <3> QED BY <2>3, <3>1 DEF Seen
  <2>8. Memory' = Memory \cup {Data(p)}
    BY <2>1 DEF Memory
  <2>9. Data(p) \in Message \ {ExitRequest}
    BY <2>3, DataFacts DEF Message
  <2>10. Plane = "stopping" \/ (Plane = "started" /\ ~exit_request)
    <3>1. /\ Plane \in {"started", "stopping"}
          /\ Plane = "started" => state_machine_thread_handle = 1 /\ client = "idle"
      BY <2>1, <2>2, Working
    <3> QED BY <3>1 DEF FirstRun, NotStopped
  <2>11. Plane' = Plane /\ Handling' = Handling
    BY <2>1, PlaneKept, HandsKept
  <2>12. Service!Arrive(Data(p))
    BY <2>1, <2>5, <2>6, <2>7, <2>8, <2>10, <2>11 DEF Service!Arrive
  <2> QED BY <2>9, <2>12 DEF Service!Next
<1>3. CASE WsEnqueue(g)
  <2>1. /\ ws[g] = "enqueue" /\ message_queue' = Enqueue(message_queue, Data(received[g]))
        /\ received' = [received EXCEPT ![g] = 0]
        /\ UNCHANGED <<instance, client, state_machine_thread_handle, exit_request, msg,
                       heap, arrived>>
    BY <1>3 DEF WsEnqueue, WsGoto, instanceVars, clientVars
  <2>2. g = 1
    BY <2>1 DEF OneServer
  <2>3. received[1] # 0
    BY <1>0, <2>1, <2>2 DEF Inv, InHand
  <2>4. Coming = Data(received[1]) /\ Coming' = NoMessage /\ Coming # NoMessage
    BY <1>0, <2>1, <2>2, <2>3, DataFacts DEF Coming
  <2>5. UNCHANGED <<Plane, Handling, exit_request, Seen, Memory>>
    BY <2>1, PlaneKept, HandsKept
  <2>6. CASE HasRoom(message_queue)
    <3>1. Service!Accept
      BY <2>1, <2>2, <2>4, <2>5, <2>6
      DEF Service!Accept, Service!HasRoom, HasRoom, Enqueue
    <3> QED BY <3>1 DEF Service!Next
  <2>7. CASE ~HasRoom(message_queue)
    <3>1. Service!Lose
      BY <2>1, <2>2, <2>4, <2>5, <2>7
      DEF Service!Lose, Service!HasRoom, HasRoom, Enqueue
    <3> QED BY <3>1 DEF Service!Next
  <2> QED BY <2>6, <2>7
<1> QED
  BY <1>1, <1>2, <1>3 DEF WsStep

(* The threads of every start, the queue and the joins behave to the test  *)
(* like one server with a bounded line: messages are handled once, in the  *)
(* order of their arrival, those in front of a request to stop included,   *)
(* none is lost but by a full queue, and Stop returns when all is over.    *)
THEOREM ServiceRefinement == Spec => ImplementsService
<1>1. Init => Service!Init
  BY InitService
<1>2. Inv /\ FirstRun /\ OneServer /\ Created /\ [Next]_vars
        => [Service!Next]_(Service!vars)
  <2> SUFFICES ASSUME Inv, FirstRun, OneServer, Created, [Next]_vars
               PROVE  Service!Next \/ UNCHANGED Service!vars
    OBVIOUS
  <2>1. CASE UNCHANGED vars
    BY <2>1, PlaneKept, HandsKept
    DEF vars, instanceVars, clientVars, wsVars, heapVars, Service!vars
  <2> QED BY <2>1, ClientService, SmService, WsService DEF Next
<1> QED
  BY <1>1, <1>2, Invariance, FirstRunInit, FirstRunStep, OneServerInit, OneServerStep,
     CreatedInit, CreatedStep, PTL
  DEF Spec, Service!Spec, ImplementsService
=============================================================================
