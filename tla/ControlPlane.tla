---------------------------- MODULE ControlPlane ----------------------------
(***************************************************************************)
(* One control-plane instance of ut_control_plane.c and the three kinds of *)
(* thread that share it: the client that calls the UT_ControlPlane_ API,   *)
(* the state machine thread (service_state_machine) that every Start       *)
(* creates, and the libwebsockets thread (service_ws_requests) that every  *)
(* state machine creates in turn.  The message queue is atomic here:       *)
(* MessageQueue shows that its mutexed critical sections are.              *)
(*                                                                         *)
(* The client keeps the calls of one instance in one thread, starts it     *)
(* only when it is not started, and forgets it after Exit, as the tests    *)
(* do.  libwebsockets, the network and the user's callbacks are the        *)
(* environment: lws_service may receive a message or not, a message may    *)
(* hold any fields or not parse, a callback returns.                       *)
(***************************************************************************)
EXTENDS QueueOps

CONSTANTS MaxCallbackEntries,   \* UT_CONTROL_PLANE_MAX_CALLBACK_ENTRIES
          Keys,                 \* the keys callbacks are registered for
          NoKey,                \* the key of an entry nobody has written yet
          MaxPayloads,          \* bound: messages that arrive in all
          MaxStarts             \* bound: calls of UT_ControlPlane_Start

ASSUME BoundAssumption == /\ MaxCallbackEntries \in Nat \ {0}
                          /\ MaxPayloads \in Nat
                          /\ MaxStarts \in Nat \ {0}
ASSUME KeyAssumption == NoKey \notin Keys

Gen == 1 .. MaxStarts                   \* the g-th Start and its two threads
Payload == 1 .. MaxPayloads             \* payload buffers, in order of malloc
Entry == 1 .. MaxCallbackEntries

(* A cp_message_t.  EXIT_REQUESTED carries no payload: message is NULL.    *)
Data(p) == [status |-> "DATA_RECIEVED", message |-> p]
ExitRequest == [status |-> "EXIT_REQUESTED", message |-> 0]
Message == {Data(p) : p \in Payload} \cup {ExitRequest}
NoMessage == [status |-> "NONE", message |-> 0]

VARIABLES
  instance,             \* "none", "live", "no_context" or "freed"
  exit_request,
  state_machine_thread_handle,          \* 0, or the generation it stands for
  message_queue,
  callbackEntryList,    \* the entries as the dispatching thread sees them
  callback_entry_index, \* ... and their number
  stores,               \* the stores of Register that are not visible yet
  registering,          \* the key they are about
  torn,                 \* history: entries a thread may have seen unfinished
  client,               \* where the client stands
  exiting,              \* the client is in Stop on behalf of Exit
  sm, ws,               \* where the two threads of each generation stand
  msg,                  \* the message a state machine is handling
  doc,                  \* the fields of that message, once parsed
  i,                    \* the loop counter of call_callback_on_match
  called,               \* history: the entries called for that message
  received,             \* the payload a libwebsockets thread is to enqueue
  heap,                 \* payload buffers allocated and not freed
  arrived,              \* number of payload buffers ever allocated
  dropped               \* history: payloads a full queue has dropped

instanceVars == <<instance, exit_request, state_machine_thread_handle>>
entryVars == <<callbackEntryList, callback_entry_index, stores, registering,
               torn>>
clientVars == <<client, exiting>>
dispatchVars == <<doc, i, called>>
wsVars == <<ws, received>>
heapVars == <<heap, arrived, dropped>>
vars == <<instanceVars, message_queue, entryVars, clientVars, sm, msg,
          dispatchVars, wsVars, heapVars>>

Unset == [key |-> NoKey, pCallback |-> FALSE, userData |-> FALSE]

Init == /\ instance = "none"
        /\ exit_request = FALSE
        /\ state_machine_thread_handle = 0
        /\ message_queue = <<>>
        /\ callbackEntryList = [e \in Entry |-> Unset]
        /\ callback_entry_index = 0
        /\ stores = {}
        /\ registering = NoKey
        /\ torn = {}
        /\ client = "idle"
        /\ exiting = FALSE
        /\ sm = [g \in Gen |-> "none"]
        /\ ws = [g \in Gen |-> "none"]
        /\ msg = [g \in Gen |-> NoMessage]
        /\ doc = [g \in Gen |-> {}]
        /\ i = [g \in Gen |-> 0]
        /\ called = [g \in Gen |-> <<>>]
        /\ received = [g \in Gen |-> 0]
        /\ heap = {}
        /\ arrived = 0
        /\ dropped = {}

-----------------------------------------------------------------------------
(* The client's thread.                                                    *)

(* The client is free to call, once the stores of its last registration    *)
(* have landed: the stores of two registrations do not mix here.           *)
Calling == client = "idle" /\ stores = {}

(* Start, Stop and Exit return at once without an instance that Init made. *)
Valid == instance = "live"

(* Without a port, or a context from libwebsockets, there is no instance.  *)
(* (Without memory the code clears NULL before it looks, and is gone.)     *)
UT_ControlPlane_Init == /\ client = "idle"
                        /\ instance = "none"
                        /\ instance' \in {"live", "none"}
                        /\ UNCHANGED <<exit_request, message_queue, entryVars,
                             state_machine_thread_handle, clientVars, sm, msg,
                             dispatchVars, wsVars, heapVars>>

(* Mutant: one entry more than the list has.                               *)
ListHasRoomOffByOne == callback_entry_index <= MaxCallbackEntries

ListHasRoom == callback_entry_index < MaxCallbackEntries

(* The call stores the key, the callback, its data and the new index, with *)
(* no lock and no barrier against the thread that dispatches.  Without an  *)
(* instance, with a NULL among its arguments (not valid) or with a full    *)
(* list it returns an error and changes nothing.                           *)
UT_ControlPlane_RegisterCallbackOnMessage(key, valid) ==
  /\ Calling
  /\ IF Valid /\ valid /\ ListHasRoom
       THEN /\ stores' = {"key", "pCallback", "userData", "index"}
            /\ registering' = key
       ELSE UNCHANGED <<stores, registering>>
  /\ UNCHANGED <<instanceVars, message_queue, callbackEntryList,
                 callback_entry_index, torn, clientVars, sm, msg,
                 dispatchVars, wsVars, heapVars>>

(* Mutant: the index covers the entry before it is stored.                 *)
IndexFirst == [key |-> 2, pCallback |-> 3, userData |-> 4, index |-> 1]

ProgramOrder == [key |-> 1, pCallback |-> 2, userData |-> 3, index |-> 4]

(* The entry being written: the client read the index before it stored it. *)
Slot == IF "index" \in stores THEN callback_entry_index + 1
                               ELSE callback_entry_index

(* One of its stores becomes visible to the other threads.  The compiler   *)
(* and the processor may let it overtake the stores in front of it: then   *)
(* a thread may see the entry unfinished, and the entry is torn.           *)
StoreLands(s) ==
  /\ s \in stores
  /\ stores' = stores \ {s}
  /\ torn' = IF \E t \in stores : ProgramOrder[t] < ProgramOrder[s]
               THEN torn \cup {Slot} ELSE torn
  /\ \/ /\ s = "key"
        /\ callbackEntryList' = [callbackEntryList EXCEPT
                                    ![Slot].key = registering]
        /\ UNCHANGED callback_entry_index
     \/ /\ s = "pCallback"
        /\ callbackEntryList' = [callbackEntryList EXCEPT
                                    ![Slot].pCallback = TRUE]
        /\ UNCHANGED callback_entry_index
     \/ /\ s = "userData"
        /\ callbackEntryList' = [callbackEntryList EXCEPT
                                    ![Slot].userData = TRUE]
        /\ UNCHANGED callback_entry_index
     \/ /\ s = "index"
        /\ callback_entry_index' = callback_entry_index + 1
        /\ UNCHANGED callbackEntryList
  /\ UNCHANGED <<instanceVars, message_queue, registering, clientVars, sm,
                 msg, dispatchVars, wsVars, heapVars>>

(* Nothing in the code keeps a client from starting a started plane again; *)
(* this client does not.  The handle stands for the new thread at once.    *)
UT_ControlPlane_Start(g) ==
  /\ Calling /\ Valid
  /\ state_machine_thread_handle = 0
  /\ sm[g] = "none" /\ \A h \in 1 .. g - 1 : sm[h] # "none"
  /\ state_machine_thread_handle' = g
  /\ sm' = [sm EXCEPT ![g] = "entry"]
  /\ UNCHANGED <<instance, exit_request, message_queue, entryVars, clientVars,
                 msg, dispatchVars, wsVars, heapVars>>

(* Mutant: the request overtakes the messages.                             *)
RequestExitInFront(q) == <<ExitRequest>> \o q

RequestExit(q) == Enqueue(q, ExitRequest)

(* Stop, called by the client or by Exit, up to pthread_join.  A full      *)
(* queue drops EXIT_REQUESTED as it drops any message.                     *)
StopBegin(byExit) ==
  /\ Calling /\ Valid
  /\ exiting' = byExit
  /\ IF state_machine_thread_handle # 0
       THEN /\ message_queue' = RequestExit(message_queue)
            /\ client' = "join"
       ELSE /\ client' = IF byExit THEN "destroy_context" ELSE "idle"
            /\ UNCHANGED message_queue
  /\ UNCHANGED <<instanceVars, entryVars, sm, msg, dispatchVars, wsVars,
                 heapVars>>

UT_ControlPlane_Stop == StopBegin(FALSE)
UT_ControlPlane_Exit == StopBegin(TRUE)

(* Mutant: Stop does not wait for the state machine.                       *)
StopNoJoin ==
  /\ client = "join"
  /\ state_machine_thread_handle' = 0
  /\ client' = IF exiting THEN "destroy_context" ELSE "idle"
  /\ UNCHANGED <<instance, exit_request, message_queue, entryVars, exiting,
                 sm, msg, dispatchVars, wsVars, heapVars>>

(* pthread_join returns when the state machine has, and the handle is 0.   *)
StopJoin ==
  /\ client = "join"
  /\ sm[state_machine_thread_handle] = "done"
  /\ state_machine_thread_handle' = 0
  /\ client' = IF exiting THEN "destroy_context" ELSE "idle"
  /\ UNCHANGED <<instance, exit_request, message_queue, entryVars, exiting,
                 sm, msg, dispatchVars, wsVars, heapVars>>

ExitDestroyContext ==
  /\ client = "destroy_context"
  /\ instance' = "no_context"
  /\ client' = "free"
  /\ UNCHANGED <<exit_request, state_machine_thread_handle, message_queue,
                 entryVars, exiting, sm, msg, dispatchVars, wsVars, heapVars>>

(* memset and free: the queue goes, the payloads it points to stay.        *)
ExitFree ==
  /\ client = "free"
  /\ instance' = "freed"
  /\ client' = "gone"
  /\ message_queue' = <<>>
  /\ UNCHANGED <<exit_request, state_machine_thread_handle, entryVars, exiting,
                 sm, msg, dispatchVars, wsVars, heapVars>>

-----------------------------------------------------------------------------
(* service_state_machine, in the thread of the g-th Start.                 *)

SmGoto(g, from, to) == sm[g] = from /\ sm' = [sm EXCEPT ![g] = to]

SmEntry(g) == /\ SmGoto(g, "entry", "test")
              /\ ws' = [ws EXCEPT ![g] = "test"]
              /\ UNCHANGED <<instanceVars, message_queue, entryVars, clientVars,
                             msg, dispatchVars, received, heapVars>>

SmTest(g) == /\ SmGoto(g, "test", IF exit_request THEN "join" ELSE "dequeue")
             /\ UNCHANGED <<instanceVars, message_queue, entryVars, clientVars,
                            msg, dispatchVars, wsVars, heapVars>>

(* dequeue_message blocks while the queue is empty.                        *)
SmDequeue(g) == /\ SmGoto(g, "dequeue", "handle")
                /\ message_queue # <<>>
                /\ msg' = [msg EXCEPT ![g] = Head(message_queue)]
                /\ message_queue' = Tail(message_queue)
                /\ UNCHANGED <<instanceVars, entryVars, clientVars,
                               dispatchVars, wsVars, heapVars>>

(* It returns NULL when malloc fails, and the loop goes on.                *)
SmNoMemory(g) == /\ SmGoto(g, "dequeue", "test")
                 /\ message_queue # <<>>
                 /\ UNCHANGED <<instanceVars, message_queue, entryVars,
                                clientVars, msg, dispatchVars, wsVars, heapVars>>

SmHandleExit(g) == /\ SmGoto(g, "handle", "release")
                   /\ msg[g].status = "EXIT_REQUESTED"
                   /\ exit_request' = TRUE
                   /\ UNCHANGED <<instance, state_machine_thread_handle,
                                  message_queue, entryVars, clientVars, msg,
                                  dispatchVars, wsVars, heapVars>>

(* call_callback_on_match opens the payload.  Which fields it holds, or    *)
(* that it does not parse, is decided here, where it is first looked at.   *)
(* Of the entries that were torn, only one that is still being stored is   *)
(* unfinished for this message.                                            *)
SmOpenMemory(g, fields) ==
  /\ SmGoto(g, "handle", "dispatch")
  /\ msg[g].status = "DATA_RECIEVED"
  /\ doc' = [doc EXCEPT ![g] = fields]
  /\ i' = [i EXCEPT ![g] = 0]
  /\ torn' = IF stores = {} THEN {} ELSE torn \cap {Slot}
  /\ UNCHANGED <<instanceVars, message_queue, callbackEntryList,
                 callback_entry_index, stores, registering, clientVars, msg,
                 called, wsVars, heapVars>>

(* Mutant: a message that does not parse ends the plane.                   *)
SmOpenFailsGivesUp(g) ==
  /\ SmGoto(g, "handle", "release")
  /\ msg[g].status = "DATA_RECIEVED"
  /\ exit_request' = TRUE
  /\ UNCHANGED <<instance, state_machine_thread_handle, message_queue,
                 entryVars, clientVars, msg, dispatchVars, wsVars, heapVars>>

(* Mutant: the error path frees the payload as well.                       *)
SmOpenFailsFrees(g) ==
  /\ SmGoto(g, "handle", "release")
  /\ msg[g].status = "DATA_RECIEVED"
  /\ heap' = heap \ {msg[g].message}
  /\ UNCHANGED <<instanceVars, message_queue, entryVars, clientVars, msg,
                 dispatchVars, wsVars, arrived, dropped>>

(* The payload does not parse.                                             *)
SmOpenFails(g) == /\ SmGoto(g, "handle", "release")
                  /\ msg[g].status = "DATA_RECIEVED"
                  /\ UNCHANGED <<instanceVars, message_queue, entryVars,
                                 clientVars, msg, dispatchVars, wsVars,
                                 heapVars>>

(* Mutant: the last entry is never looked at.                              *)
NoMoreEntriesOffByOne(g) == i[g] + 1 >= callback_entry_index

NoMoreEntries(g) == i[g] >= callback_entry_index

(* One round of the loop over the entries.  The index is read again every  *)
(* time.  An entry whose key is not visible yet, or only in part, has      *)
(* another key, which the document may or may not hold (matches).  A       *)
(* callback that is not visible yet is NULL, and the call ends the         *)
(* program; the model goes on, with the call recorded.                     *)
SmDispatch(g, matches) ==
  LET e == callbackEntryList[i[g] + 1]
  IN /\ sm[g] = "dispatch"
     /\ ~NoMoreEntries(g)
     /\ e.key # NoKey => matches = (e.key \in doc[g])
     /\ called' = IF matches
                    THEN [called EXCEPT ![g] =
                            Append(@, [entry |-> i[g] + 1, at |-> e])]
                    ELSE called
     /\ i' = [i EXCEPT ![g] = @ + 1]
     /\ UNCHANGED <<instanceVars, message_queue, entryVars, clientVars, sm,
                    msg, doc, wsVars, heapVars>>

SmDispatchEnd(g) == /\ NoMoreEntries(g)
                    /\ SmGoto(g, "dispatch", "release")
                    /\ UNCHANGED <<instanceVars, message_queue, entryVars,
                                   clientVars, msg, dispatchVars, wsVars,
                                   heapVars>>

(* Mutant: only the copy dequeue_message made is freed.                    *)
FreedNothing(g) == {}

Freed(g) == {msg[g].message}

(* The message and its payload are freed; so is the parsed document.       *)
SmRelease(g) == /\ SmGoto(g, "release", "test")
                /\ heap' = heap \ Freed(g)
                /\ msg' = [msg EXCEPT ![g] = NoMessage]
                /\ doc' = [doc EXCEPT ![g] = {}]
                /\ called' = [called EXCEPT ![g] = <<>>]
                /\ i' = [i EXCEPT ![g] = 0]
                /\ UNCHANGED <<instanceVars, message_queue, entryVars,
                               clientVars, wsVars, arrived, dropped>>

(* Mutant: the state machine does not wait for its libwebsockets thread.   *)
SmNoJoin(g) == /\ SmGoto(g, "join", "done")
               /\ UNCHANGED <<instanceVars, message_queue, entryVars,
                              clientVars, msg, dispatchVars, wsVars, heapVars>>

(* pthread_join of the libwebsockets thread.                               *)
SmJoin(g) == /\ SmGoto(g, "join", "done")
             /\ ws[g] = "done"
             /\ UNCHANGED <<instanceVars, message_queue, entryVars, clientVars,
                            msg, dispatchVars, wsVars, heapVars>>

-----------------------------------------------------------------------------
(* service_ws_requests, in the thread the g-th state machine created.      *)

WsGoto(g, from, to) == ws[g] = from /\ ws' = [ws EXCEPT ![g] = to]

(* Mutant: the loop does not look at exit_request.                         *)
WsTestForever(g) ==
  /\ WsGoto(g, "test", "service")
  /\ UNCHANGED <<instanceVars, message_queue, entryVars, clientVars, sm, msg,
                 dispatchVars, received, heapVars>>

(* while (!exit_request)                                                   *)
WsTest(g) == /\ WsGoto(g, "test", IF exit_request THEN "done" ELSE "service")
             /\ UNCHANGED <<instanceVars, message_queue, entryVars, clientVars,
                            sm, msg, dispatchVars, received, heapVars>>

(* lws_service calls back with a complete message: callback_http on        *)
(* LWS_CALLBACK_HTTP_BODY_COMPLETION, or callback_echo, copies it.         *)
WsReceive(g) == /\ WsGoto(g, "service", "enqueue")
                /\ arrived < MaxPayloads
                /\ arrived' = arrived + 1
                /\ received' = [received EXCEPT ![g] = arrived + 1]
                /\ heap' = heap \cup {arrived + 1}
                /\ UNCHANGED <<instanceVars, message_queue, entryVars,
                               clientVars, sm, msg, dispatchVars, dropped>>

WsEnqueue(g) == /\ WsGoto(g, "enqueue", "service")
                /\ message_queue' = Enqueue(message_queue, Data(received[g]))
                /\ dropped' = IF HasRoom(message_queue)
                                THEN dropped
                                ELSE dropped \cup {received[g]}
                /\ received' = [received EXCEPT ![g] = 0]
                /\ UNCHANGED <<instanceVars, entryVars, clientVars, sm, msg,
                               dispatchVars, heap, arrived>>

WsReturn(g) == /\ WsGoto(g, "service", "test")
               /\ UNCHANGED <<instanceVars, message_queue, entryVars,
                              clientVars, sm, msg, dispatchVars, received,
                              heapVars>>

-----------------------------------------------------------------------------

ClientReturns == StopJoin \/ ExitDestroyContext \/ ExitFree

ClientStep == \/ UT_ControlPlane_Init
              \/ \E key \in Keys, valid \in BOOLEAN :
                   UT_ControlPlane_RegisterCallbackOnMessage(key, valid)
              \/ \E s \in stores : StoreLands(s)
              \/ \E g \in Gen : UT_ControlPlane_Start(g)
              \/ UT_ControlPlane_Stop
              \/ UT_ControlPlane_Exit
              \/ ClientReturns

SmStep(g) == \/ SmEntry(g) \/ SmTest(g) \/ SmDequeue(g) \/ SmHandleExit(g)
             \/ SmOpenFails(g)
             \/ \E fields \in SUBSET Keys : SmOpenMemory(g, fields)
             \/ \E matches \in BOOLEAN : SmDispatch(g, matches)
             \/ SmDispatchEnd(g) \/ SmRelease(g) \/ SmJoin(g)

WsStep(g) == WsTest(g) \/ WsEnqueue(g) \/ WsReturn(g)

Next == \/ ClientStep
        \/ \E g \in Gen : SmStep(g) \/ SmNoMemory(g) \/ WsStep(g) \/ WsReceive(g)

Spec == Init /\ [][Next]_vars

(* Threads run, stores land, lws_service and the user's callbacks return,  *)
(* malloc does not fail for ever.  Nobody has to call the API or to send   *)
(* a message.                                                              *)
Fairness == /\ WF_vars(ClientReturns)
            /\ WF_vars(\E s \in stores : StoreLands(s))
            /\ \A g \in Gen : /\ WF_vars(SmStep(g))
                               /\ SF_vars(SmDequeue(g))
                               /\ WF_vars(WsStep(g))

FairSpec == Spec /\ Fairness

-----------------------------------------------------------------------------
SmLabels == {"none", "entry", "test", "dequeue", "handle", "dispatch",
             "release", "join", "done"}
WsLabels == {"none", "test", "service", "enqueue", "done"}
ClientLabels == {"idle", "join", "destroy_context", "free", "gone"}
EntryType == [key : Keys \cup {NoKey}, pCallback : BOOLEAN,
              userData : BOOLEAN]

(* Every variable keeps its type; the queue never holds more than it has   *)
(* slots, the loop over the entries never passes the last slot.            *)
TypeOK ==
  /\ instance \in {"none", "live", "no_context", "freed"}
  /\ exit_request \in BOOLEAN
  /\ state_machine_thread_handle \in Gen \cup {0}
  /\ message_queue \in Seq(Message) /\ Len(message_queue) <= MaxMessages
  /\ callbackEntryList \in [Entry -> EntryType]
  /\ callback_entry_index \in 0 .. MaxCallbackEntries
  /\ stores \in SUBSET {"key", "pCallback", "userData", "index"}
  /\ registering \in Keys \cup {NoKey}
  /\ torn \in SUBSET Entry
  /\ client \in ClientLabels
  /\ exiting \in BOOLEAN
  /\ sm \in [Gen -> SmLabels]
  /\ ws \in [Gen -> WsLabels]
  /\ msg \in [Gen -> Message \cup {NoMessage}]
  /\ doc \in [Gen -> SUBSET Keys]
  /\ i \in [Gen -> 0 .. MaxCallbackEntries]
  /\ called \in [Gen -> Seq([entry : Entry, at : EntryType])]
  /\ received \in [Gen -> Payload \cup {0}]
  /\ heap \in SUBSET Payload
  /\ arrived \in 0 .. MaxPayloads
  /\ dropped \in SUBSET Payload

Running(g) == sm[g] \notin {"none", "done"} \/ ws[g] \notin {"none", "done"}

(* No thread runs on an instance whose context is destroyed or whose       *)
(* memory is freed: Exit waits, through Stop, for both threads of every    *)
(* generation, although it joins only the last state machine.              *)
ThreadsUseLiveInstance == \A g \in Gen : Running(g) => instance = "live"

(* When Stop has returned, no thread is left that could call a callback or *)
(* receive a message.                                                      *)
StoppedMeansQuiet == client = "idle" /\ state_machine_thread_handle = 0
                       => \A g \in Gen : ~Running(g)

Queued == {message_queue[k].message : k \in DOMAIN message_queue} \ {0}
Held == ({msg[g].message : g \in Gen} \cup {received[g] : g \in Gen}) \ {0}

(* Nobody holds a freed payload, and no payload is freed twice: each has   *)
(* one owner, the libwebsockets thread, then the queue, then the state     *)
(* machine.                                                                *)
PayloadOwnership ==
  /\ Queued \cup Held \subseteq heap
  /\ Queued \cap Held = {}
  /\ \A g, h \in Gen : /\ msg[g].message = received[h] => received[h] = 0
                       /\ g # h /\ msg[g].message = msg[h].message
                            => msg[g].message = 0

(* A payload without an owner is one the full queue dropped: until the     *)
(* instance is freed the code loses no other.                              *)
OnlyDropsLeak == instance # "freed" => heap = Queued \cup Held \cup dropped

(* Messages are handled in the order in which they arrived: what is queued *)
(* is in order, what a state machine holds is older, what libwebsockets is *)
(* about to queue is newer.                                                *)
DeliveryOrder ==
  /\ \A j, k \in DOMAIN message_queue :
       j < k /\ message_queue[j] # ExitRequest /\ message_queue[k] # ExitRequest
         => message_queue[j].message < message_queue[k].message
  /\ \A g \in Gen, p \in Queued : /\ msg[g].message < p
                                  /\ received[g] # 0 => p < received[g]

Complete(at) == at.key \in Keys /\ at.pCallback /\ at.userData

(* When the state machine is done with a message, it has called exactly    *)
(* the entries whose key the message holds, each once and complete, with   *)
(* the key, the callback and the data that were registered, in the order   *)
(* they were registered, those registered in the meantime included.  Only  *)
(* an entry whose stores overtook one another while this message was       *)
(* handled is excepted: nothing in the code keeps it from being called     *)
(* before it is complete.                                                  *)
CallsEveryMatch ==
  \A g \in Gen : sm[g] = "dispatch" /\ sm'[g] = "release" =>
    /\ {called[g][k].entry : k \in DOMAIN called[g]} \ torn =
         {e \in 1 .. callback_entry_index :
            callbackEntryList[e].key \in doc[g]} \ torn
    /\ \A k \in DOMAIN called[g] : called[g][k].entry \notin torn =>
         /\ Complete(called[g][k].at)
         /\ called[g][k].at = callbackEntryList[called[g][k].entry]
    /\ \A j, k \in DOMAIN called[g] :
         j < k => called[g][j].entry < called[g][k].entry

EveryMatchIsCalled == [][CallsEveryMatch]_vars

Listens(g) == ~exit_request /\ ws[g] # "done"

(* Between the return of Start and the call of Stop, the plane listens.    *)
ListensOnceStarted == client = "idle" /\ state_machine_thread_handle # 0
                        => Listens(state_machine_thread_handle)

(* It does the first time: no message, whether it parses or not, and no    *)
(* failure of malloc makes the threads end before Stop is called.          *)
ListensUntilStopped == client = "idle" /\ state_machine_thread_handle = 1
                         => Listens(1)

(* Exit releases everything the instance allocated.                        *)
FreedMeansNoLeak == instance = "freed" => heap = {}

-----------------------------------------------------------------------------
ExitQueued == \E k \in DOMAIN message_queue : message_queue[k] = ExitRequest

(* Stop returns, once its EXIT_REQUESTED is in the queue, whatever is in   *)
(* front of it.                                                            *)
StopReturnsIfQueued == client = "join" /\ ExitQueued ~> client # "join"

(* Stop returns.                                                           *)
StopReturns == client = "join" ~> client # "join"

QueuedBeforeStop(p) ==
  /\ ~exit_request
  /\ \A g \in Gen : msg[g] # ExitRequest
  /\ \E k \in DOMAIN message_queue :
       /\ message_queue[k].message = p
       /\ \A j \in 1 .. k - 1 : message_queue[j] # ExitRequest

(* Stop drains: a message queued before EXIT_REQUESTED is still handled    *)
(* and freed.                                                              *)
QueuedIsHandled == \A p \in Payload : QueuedBeforeStop(p) ~> p \notin heap

-----------------------------------------------------------------------------
(* The plane as ControlPlaneService sees it.  Only the first run receives  *)
(* and handles anything; its request to stop is handled once exit_request  *)
(* is set, whatever the state machine still has to release.                *)
Plane == IF instance = "none" THEN "none"
         ELSE IF client = "gone" THEN "gone"
         ELSE IF client = "join" THEN "stopping"
         ELSE IF state_machine_thread_handle # 0 THEN "started"
         ELSE "stopped"

Coming == IF received[1] # 0 THEN Data(received[1]) ELSE NoMessage
Handling == IF exit_request THEN NoMessage ELSE msg[1]
Seen == {Data(p) : p \in 1 .. arrived}
Memory == {Data(p) : p \in heap}

Service == INSTANCE ControlPlaneService
             WITH Arrival <- Message \ {ExitRequest}, plane <- Plane,
                  line <- message_queue, coming <- Coming,
                  handling <- Handling, ended <- exit_request,
                  seen <- Seen, memory <- Memory

(* The two threads of each start, the queue between them and the joins are *)
(* to the test one server: messages are handled once, in the order of      *)
(* their arrival, those in front of a request to stop included, and lost   *)
(* only when the queue is full; after the request nothing is handled, and  *)
(* Stop returns only when nothing is under way.                            *)
ImplementsService == Service!Spec
=============================================================================
