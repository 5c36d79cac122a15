---------------------------- MODULE MessageQueue ----------------------------
(***************************************************************************)
(* enqueue_message and dequeue_message of ut_control_plane.c, statement by *)
(* statement: the queue_mutex, the queue_condition with its spurious       *)
(* wake-ups, the array of MAX_MESSAGES slots, message_count, and the loop  *)
(* that shifts the array down by one slot.  Producers are the threads that *)
(* enqueue (the libwebsockets thread and the thread that calls             *)
(* UT_ControlPlane_Stop), Consumers the state machine threads.             *)
(***************************************************************************)
EXTENDS QueueOps, Integers

CONSTANTS Producers, Consumers, Message, NoMessage, NoThread

Threads == Producers \cup Consumers

ASSUME ThreadAssumption == /\ Producers \cap Consumers = {}
                           /\ Consumers # {}
                           /\ NoThread \notin Threads
ASSUME MessageAssumption == NoMessage \notin Message

VARIABLES queue_mutex,      \* the thread that holds the mutex, or NoThread
          waiters,          \* threads blocked in pthread_cond_wait
          message_queue,    \* the slots; those beyond message_count are stale
          message_count,
          pc,               \* where each thread stands
          data,             \* a producer's argument, a consumer's copy (msg)
          i                 \* the loop counter of the consumer that shifts

vars == <<queue_mutex, waiters, message_queue, message_count, pc, data, i>>

Slots == 0 .. MaxMessages - 1

Init == /\ queue_mutex = NoThread
        /\ waiters = {}
        /\ message_queue = [s \in Slots |-> NoMessage]
        /\ message_count = 0
        /\ pc = [t \in Threads |-> "idle"]
        /\ data = [t \in Threads |-> NoMessage]
        /\ i = 0

Goto(t, label) == pc' = [pc EXCEPT ![t] = label]

(* Mutant: the thread enters without waiting for the mutex.                *)
LockBarging(t, from, to) == /\ pc[t] = from
                            /\ queue_mutex' = t
                            /\ Goto(t, to)

(* pthread_mutex_lock: blocks while another thread holds the mutex.        *)
Lock(t, from, to) == /\ pc[t] = from
                     /\ queue_mutex = NoThread
                     /\ queue_mutex' = t
                     /\ Goto(t, to)

-----------------------------------------------------------------------------
(* enqueue_message                                                         *)

CallEnqueue(p, m) == /\ pc[p] = "idle"
                     /\ data' = [data EXCEPT ![p] = m]
                     /\ Goto(p, "put_lock")
                     /\ UNCHANGED <<queue_mutex, waiters, message_queue,
                                    message_count, i>>

PutLock(p) == /\ Lock(p, "put_lock", "put_test")
              /\ UNCHANGED <<waiters, message_queue, message_count, data, i>>

(* Mutant: a full queue keeps its producer, and the mutex.                 *)
PutTestWaits(p) == /\ pc[p] = "put_test"
                   /\ message_count < MaxMessages
                   /\ Goto(p, "put_store")
                   /\ UNCHANGED <<queue_mutex, waiters, message_queue,
                                  message_count, data, i>>

(* Mutant: the test allows one message too many.                           *)
SlotLeftOffByOne == message_count <= MaxMessages

SlotLeft == message_count < MaxMessages

(* A full queue drops the message: nothing tells the caller.               *)
PutTest(p) == /\ pc[p] = "put_test"
              /\ Goto(p, IF SlotLeft THEN "put_store" ELSE "put_unlock")
              /\ UNCHANGED <<queue_mutex, waiters, message_queue,
                             message_count, data, i>>

PutStore(p) == /\ pc[p] = "put_store"
               /\ message_queue' = [message_queue EXCEPT
                                      ![message_count] = data[p]]
               /\ Goto(p, "put_count")
               /\ UNCHANGED <<queue_mutex, waiters, message_count, data, i>>

PutCount(p) == /\ pc[p] = "put_count"
               /\ message_count' = message_count + 1
               /\ Goto(p, "put_signal")
               /\ UNCHANGED <<queue_mutex, waiters, message_queue, data, i>>

(* Mutant: the producer signals nobody.                                    *)
PutSignalNobody(p) == /\ pc[p] = "put_signal"
                      /\ Goto(p, "put_unlock")
                      /\ UNCHANGED <<queue_mutex, waiters, message_queue,
                                     message_count, data, i>>

(* pthread_cond_signal wakes one waiter if there is one.                   *)
PutSignal(p) == /\ pc[p] = "put_signal"
                /\ \/ waiters = {} /\ UNCHANGED waiters
                   \/ \E c \in waiters : waiters' = waiters \ {c}
                /\ Goto(p, "put_unlock")
                /\ UNCHANGED <<queue_mutex, message_queue, message_count,
                               data, i>>

PutUnlock(p) == /\ pc[p] = "put_unlock"
                /\ queue_mutex' = NoThread
                /\ data' = [data EXCEPT ![p] = NoMessage]
                /\ Goto(p, "idle")
                /\ UNCHANGED <<waiters, message_queue, message_count, i>>

-----------------------------------------------------------------------------
(* dequeue_message                                                         *)

GetLock(c) == /\ Lock(c, "idle", "get_test")
              /\ UNCHANGED <<waiters, message_queue, message_count, data, i>>

(* while (message_count == 0) pthread_cond_wait(...): waiting releases the *)
(* mutex and joins the waiters in one step.                                *)
GetTest(c) == /\ pc[c] = "get_test"
              /\ IF message_count = 0
                   THEN /\ waiters' = waiters \cup {c}
                        /\ queue_mutex' = NoThread
                        /\ Goto(c, "get_wait")
                   ELSE /\ Goto(c, "get_copy")
                        /\ UNCHANGED <<queue_mutex, waiters>>
              /\ UNCHANGED <<message_queue, message_count, data, i>>

(* pthread_cond_wait may return although nobody signalled.                 *)
SpuriousWakeup(c) == /\ pc[c] = "get_wait"
                     /\ c \in waiters
                     /\ waiters' = waiters \ {c}
                     /\ UNCHANGED <<queue_mutex, message_queue, message_count,
                                    pc, data, i>>

(* A woken thread takes the mutex again and goes back to the test.         *)
GetRelock(c) == /\ c \notin waiters
                /\ Lock(c, "get_wait", "get_test")
                /\ UNCHANGED <<waiters, message_queue, message_count, data, i>>

GetCopy(c) == /\ pc[c] = "get_copy"
              /\ data' = [data EXCEPT ![c] = message_queue[0]]
              /\ i' = 0
              /\ Goto(c, "get_shift")
              /\ UNCHANGED <<queue_mutex, waiters, message_queue,
                             message_count>>

(* malloc fails: the caller is given NULL and the message stays queued.    *)
GetNoMemory(c) == /\ pc[c] = "get_copy"
                  /\ Goto(c, "get_giveup")
                  /\ UNCHANGED <<queue_mutex, waiters, message_queue,
                                 message_count, data, i>>

(* Mutant: the last message is not shifted.                                *)
MoreToShiftOffByOne == i < message_count - 2

MoreToShift == i < message_count - 1

(* One round of for (i = 0; i < message_count - 1; i++), or its end.       *)
GetShift(c) == /\ pc[c] = "get_shift"
               /\ IF MoreToShift
                    THEN /\ message_queue' = [message_queue EXCEPT
                                               ![i] = message_queue[i + 1]]
                         /\ i' = i + 1
                         /\ UNCHANGED pc
                    ELSE /\ Goto(c, "get_count")
                         /\ UNCHANGED <<message_queue, i>>
               /\ UNCHANGED <<queue_mutex, waiters, message_count, data>>

GetCount(c) == /\ pc[c] = "get_count"
               /\ message_count' = message_count - 1
               /\ Goto(c, "get_unlock")
               /\ UNCHANGED <<queue_mutex, waiters, message_queue, data, i>>

GetUnlock(c) == /\ pc[c] \in {"get_unlock", "get_giveup"}
                /\ queue_mutex' = NoThread
                /\ Goto(c, IF pc[c] = "get_unlock" THEN "got" ELSE "idle")
                /\ UNCHANGED <<waiters, message_queue, message_count, data, i>>

(* The state machine is done with the message and frees its copy.          *)
FreeMessage(c) == /\ pc[c] = "got"
                  /\ data' = [data EXCEPT ![c] = NoMessage]
                  /\ Goto(c, "idle")
                  /\ UNCHANGED <<queue_mutex, waiters, message_queue,
                                 message_count, i>>

-----------------------------------------------------------------------------

PutStep(p) == \/ PutLock(p) \/ PutTest(p) \/ PutStore(p) \/ PutCount(p)
              \/ PutSignal(p) \/ PutUnlock(p)

GetStep(c) == \/ GetLock(c) \/ GetTest(c) \/ GetRelock(c) \/ GetCopy(c)
              \/ GetShift(c) \/ GetCount(c) \/ GetUnlock(c) \/ FreeMessage(c)

Next == \/ \E p \in Producers : PutStep(p) \/ \E m \in Message : CallEnqueue(p, m)
        \/ \E c \in Consumers : GetStep(c) \/ GetNoMemory(c) \/ SpuriousWakeup(c)

Spec == Init /\ [][Next]_vars

(* The scheduler runs every thread that can run.  pthread mutexes are not  *)
(* fair, but a thread that waits for this one is overtaken only by threads *)
(* that themselves leave the critical section: strong fairness of the      *)
(* acquisitions says that it is not overtaken for ever.  malloc does not   *)
(* fail for ever (GetCopy).  Nothing obliges a producer to call, nor a     *)
(* spurious wake-up to happen.                                             *)
Fairness == /\ \A p \in Producers : WF_vars(PutStep(p)) /\ SF_vars(PutLock(p))
            /\ \A c \in Consumers : /\ WF_vars(GetStep(c))
                                    /\ SF_vars(GetLock(c))
                                    /\ SF_vars(GetRelock(c))
                                    /\ SF_vars(GetCopy(c))

FairSpec == Spec /\ Fairness

-----------------------------------------------------------------------------
(* Every variable keeps its type; message_count never leaves 0 .. 32,      *)
(* although it is decremented without a test.                              *)
PutLabels == {"put_lock", "put_test", "put_store", "put_count", "put_signal",
              "put_unlock"}
GetLabels == {"get_test", "get_wait", "get_copy", "get_shift", "get_count",
              "get_giveup", "get_unlock", "got"}

TypeOK == /\ queue_mutex \in Threads \cup {NoThread}
          /\ waiters \in SUBSET Consumers
          /\ message_queue \in [Slots -> Message \cup {NoMessage}]
          /\ message_count \in 0 .. MaxMessages
          /\ pc \in [Threads -> {"idle"} \cup PutLabels \cup GetLabels]
          /\ data \in [Threads -> Message \cup {NoMessage}]
          /\ i \in Nat

(* The labels at which a thread is inside a critical section.              *)
Inside == {"put_test", "put_store", "put_count", "put_signal", "put_unlock",
           "get_test", "get_copy", "get_shift", "get_count", "get_giveup",
           "get_unlock"}

(* No two threads are between lock and unlock at the same time.            *)
MutualExclusion == \A s, t \in Threads :
                     pc[s] \in Inside /\ pc[t] \in Inside => s = t

(* A message in the queue is never left behind with nobody coming for it:  *)
(* when no critical section is running and the queue holds a message, some *)
(* state machine thread is not asleep in pthread_cond_wait.                *)
NoLostWakeup == queue_mutex = NoThread /\ message_count > 0
                  => Consumers \ waiters # {}

(* A producer that called enqueue_message comes back, whatever the others  *)
(* do: enqueueing never waits for room.                                    *)
EnqueueReturns == \A p \in Producers : pc[p] = "put_lock" ~> pc[p] = "idle"

(* A queue that holds a message does not keep the state machine waiting:   *)
(* some consumer gets a message.                                           *)
QueuedIsTaken == (message_count > 0)
                   ~> (\E c \in Consumers : pc[c] = "got")

-----------------------------------------------------------------------------
(* The queue as its clients see it.  While consumer c shifts, the slots    *)
(* below i already hold their successors and slot i is a duplicate: the    *)
(* abstract queue still is what it was before the copy.                    *)
Contents == [k \in 1 .. message_count |-> message_queue[k - 1]]

BeforeShift(c) == [k \in 1 .. message_count |->
                     IF k = 1 THEN data[c]
                     ELSE IF k <= i + 1 THEN message_queue[k - 2]
                     ELSE message_queue[k - 1]]

Shifting(c) == pc[c] \in {"get_shift", "get_count"}

Fifo == IF \E c \in Consumers : Shifting(c)
          THEN BeforeShift(CHOOSE c \in Consumers : Shifting(c))
          ELSE Contents

(* A put takes effect when message_count grows, or when the test finds the *)
(* queue full; a get when message_count shrinks.                           *)
Offered == [p \in Producers |->
              IF pc[p] \in {"put_lock", "put_test", "put_store", "put_count"}
                THEN data[p] ELSE NoMessage]

Taken == [c \in Consumers |->
            IF pc[c] \in {"get_unlock", "got"} THEN data[c] ELSE NoMessage]

Abstract == INSTANCE LossyQueue WITH fifo <- Fifo, offered <- Offered,
                                     taken <- Taken

(* Two mutexed critical sections over an array are, to every caller, a     *)
(* first-in first-out queue that loses a message only when it is full.     *)
ImplementsLossyQueue == Abstract!Spec
=============================================================================
