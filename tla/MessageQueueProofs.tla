------------------------- MODULE MessageQueueProofs -------------------------
(***************************************************************************)
(* What TLAPS proves of MessageQueue, for every number of slots, producers *)
(* and consumers: type correctness, mutual exclusion, that no wake-up is   *)
(* lost, and that the critical sections implement LossyQueue.  The first   *)
(* three follow from the inductive invariant Inv, which the refinement     *)
(* also rests on.                                                          *)
(***************************************************************************)
EXTENDS MessageQueue, SequenceTheorems, TLAPS

-----------------------------------------------------------------------------
(* The inductive invariant.                                                *)

(* A thread runs only the code of its role.                                *)
Roles == /\ \A p \in Producers : pc[p] \in {"idle"} \cup PutLabels
         /\ \A c \in Consumers : pc[c] \in {"idle"} \cup GetLabels

(* The mutex is held exactly by the thread inside a critical section.      *)
Holder == \A t \in Threads : pc[t] \in Inside <=> queue_mutex = t

(* Only threads that went to sleep are asleep.                             *)
Sleepers == \A c \in waiters : pc[c] = "get_wait"

(* What the tests of message_count established still holds when the count  *)
(* and the slots are used: nobody else moved them in between.              *)
Tested == /\ \A p \in Producers :
               pc[p] \in {"put_store", "put_count"} => message_count < MaxMessages
          /\ \A c \in Consumers :
               /\ pc[c] \in {"get_copy", "get_shift", "get_count"}
                    => message_count > 0
               /\ pc[c] = "get_shift" => i <= message_count - 1
               /\ pc[c] = "get_count" => i = message_count - 1

(* A thread carries a message exactly where the code has one in hand.      *)
Carries == /\ \A p \in Producers : data[p] = NoMessage <=> pc[p] = "idle"
           /\ \A c \in Consumers :
                data[c] # NoMessage
                  <=> pc[c] \in {"get_shift", "get_count", "get_unlock", "got"}

(* The slots below message_count hold messages; so does the next one once  *)
(* the producer has filled it.                                             *)
Filled == /\ \A s \in Slots : s < message_count => message_queue[s] # NoMessage
          /\ \A p \in Producers :
               pc[p] = "put_count" => message_queue[message_count] = data[p]

(* With a message queued and every consumer asleep, the producer that put  *)
(* it is about to signal.                                                  *)
SignalDue == message_count > 0 /\ Consumers \subseteq waiters
               => \E p \in Producers : pc[p] = "put_signal"

Inv == TypeOK /\ Roles /\ Holder /\ Sleepers /\ Tested /\ Carries /\ Filled
         /\ SignalDue

-----------------------------------------------------------------------------
(* Initially nobody is in a critical section and the queue is empty.       *)
LEMMA InitInv == Init => Inv
BY MaxMessagesAssumption, ThreadAssumption
DEF Init, Inv, TypeOK, Roles, Holder, Sleepers, Tested, Carries, Filled,
    SignalDue, Slots, Inside, PutLabels, GetLabels, Threads

(* Every step of every thread keeps the invariant: one step of the proof   *)
(* per action.  What a label means for the other threads rests on Holder:  *)
(* nobody else is inside while this thread is.                             *)
LEMMA NextInv == Inv /\ [Next]_vars => Inv'
<1> SUFFICES ASSUME Inv, [Next]_vars PROVE Inv'
  OBVIOUS
<1> USE MaxMessagesAssumption, ThreadAssumption, MessageAssumption
    DEF Inv, TypeOK, Roles, Holder, Tested, Slots, Inside, PutLabels,
        GetLabels, Threads, Goto, SlotLeft, MoreToShift
<1>1. ASSUME NEW p \in Producers, NEW m \in Message, CallEnqueue(p, m) PROVE Inv'
  <2>1. TypeOK' /\ Roles' /\ Sleepers'
    BY <1>1 DEF CallEnqueue, Sleepers
  <2>2. Holder'
    BY <1>1 DEF CallEnqueue
  <2>3. Tested'
    BY <1>1 DEF CallEnqueue
  <2>4. Carries' /\ Filled'
    BY <1>1 DEF CallEnqueue, Carries, Filled
  <2>5. SignalDue'
    BY <1>1 DEF CallEnqueue, SignalDue, Sleepers
  <2> QED BY <2>1, <2>2, <2>3, <2>4, <2>5
<1>2. ASSUME NEW p \in Producers, PutLock(p) PROVE Inv'
  <2>1. TypeOK' /\ Roles' /\ Sleepers'
    BY <1>2 DEF PutLock, Lock, Sleepers
  <2>2. Holder'
    BY <1>2 DEF PutLock, Lock
  <2>3. Tested'
    BY <1>2 DEF PutLock, Lock
  <2>4. Carries' /\ Filled'
    BY <1>2 DEF PutLock, Lock, Carries, Filled
  <2>5. SignalDue'
    BY <1>2 DEF PutLock, Lock, SignalDue, Sleepers
  <2> QED BY <2>1, <2>2, <2>3, <2>4, <2>5
<1>3. ASSUME NEW p \in Producers, PutTest(p) PROVE Inv'
  <2>1. TypeOK' /\ Roles' /\ Sleepers'
    BY <1>3 DEF PutTest, Sleepers
  <2>2. Holder'
    BY <1>3 DEF PutTest
  <2>3. Tested'
    BY <1>3 DEF PutTest
  <2>4. Carries' /\ Filled'
    BY <1>3 DEF PutTest, Carries, Filled
  <2>5. SignalDue'
    BY <1>3 DEF PutTest, SignalDue, Sleepers
  <2> QED BY <2>1, <2>2, <2>3, <2>4, <2>5
<1>4. ASSUME NEW p \in Producers, PutStore(p) PROVE Inv'
  <2>1. TypeOK' /\ Roles' /\ Sleepers'
    BY <1>4 DEF PutStore, Sleepers
  <2>2. Holder'
    BY <1>4 DEF PutStore
  <2>3. Tested'
    BY <1>4 DEF PutStore
  <2>4. Carries' /\ Filled'
    BY <1>4 DEF PutStore, Carries, Filled
  <2>5. SignalDue'
    BY <1>4 DEF PutStore, SignalDue, Sleepers
  <2> QED BY <2>1, <2>2, <2>3, <2>4, <2>5
<1>5. ASSUME NEW p \in Producers, PutCount(p) PROVE Inv'
  <2>1. TypeOK' /\ Roles' /\ Sleepers'
    BY <1>5 DEF PutCount, Sleepers
  <2>2. Holder'
    BY <1>5 DEF PutCount
  <2>3. Tested'
    BY <1>5 DEF PutCount
  <2>4. Carries' /\ Filled'
    BY <1>5 DEF PutCount, Carries, Filled
  <2>5. SignalDue'
    BY <1>5 DEF PutCount, SignalDue, Sleepers
  <2> QED BY <2>1, <2>2, <2>3, <2>4, <2>5
<1>6. ASSUME NEW p \in Producers, PutSignal(p) PROVE Inv'
  <2>1. TypeOK' /\ Roles' /\ Sleepers'
    BY <1>6 DEF PutSignal, Sleepers
  <2>2. Holder'
    BY <1>6 DEF PutSignal
  <2>3. Tested'
    BY <1>6 DEF PutSignal
  <2>4. Carries' /\ Filled'
    BY <1>6 DEF PutSignal, Carries, Filled
  <2>5. SignalDue'
    BY <1>6 DEF PutSignal, SignalDue, Sleepers
  <2> QED BY <2>1, <2>2, <2>3, <2>4, <2>5
<1>7. ASSUME NEW p \in Producers, PutUnlock(p) PROVE Inv'
  <2>1. TypeOK' /\ Roles' /\ Sleepers'
    BY <1>7 DEF PutUnlock, Sleepers
  <2>2. Holder'
    BY <1>7 DEF PutUnlock
  <2>3. Tested'
    BY <1>7 DEF PutUnlock
  <2>4. Carries' /\ Filled'
    BY <1>7 DEF PutUnlock, Carries, Filled
  <2>5. SignalDue'
    BY <1>7 DEF PutUnlock, SignalDue, Sleepers
  <2> QED BY <2>1, <2>2, <2>3, <2>4, <2>5
<1>8. ASSUME NEW c \in Consumers, GetLock(c) PROVE Inv'
  <2>1. TypeOK' /\ Roles' /\ Sleepers'
    BY <1>8 DEF GetLock, Lock, Sleepers
  <2>2. Holder'
    BY <1>8 DEF GetLock, Lock
  <2>3. Tested'
    BY <1>8 DEF GetLock, Lock
  <2>4. Carries' /\ Filled'
    BY <1>8 DEF GetLock, Lock, Carries, Filled
  <2>5. SignalDue'
    BY <1>8 DEF GetLock, Lock, SignalDue, Sleepers
  <2> QED BY <2>1, <2>2, <2>3, <2>4, <2>5
<1>9. ASSUME NEW c \in Consumers, GetTest(c) PROVE Inv'
  <2>1. TypeOK' /\ Roles' /\ Sleepers'
    BY <1>9 DEF GetTest, Sleepers
  <2>2. Holder'
    BY <1>9 DEF GetTest
  <2>3. Tested'
    BY <1>9 DEF GetTest
  <2>4. Carries' /\ Filled'
    BY <1>9 DEF GetTest, Carries, Filled
  <2>5. SignalDue'
    BY <1>9 DEF GetTest, SignalDue, Sleepers
  <2> QED BY <2>1, <2>2, <2>3, <2>4, <2>5
<1>10. ASSUME NEW c \in Consumers, GetRelock(c) PROVE Inv'
  <2>1. TypeOK' /\ Roles' /\ Sleepers'
    BY <1>10 DEF GetRelock, Lock, Sleepers
  <2>2. Holder'
    BY <1>10 DEF GetRelock, Lock
  <2>3. Tested'
    BY <1>10 DEF GetRelock, Lock
  <2>4. Carries' /\ Filled'
    BY <1>10 DEF GetRelock, Lock, Carries, Filled
  <2>5. SignalDue'
    BY <1>10 DEF GetRelock, Lock, SignalDue, Sleepers
  <2> QED BY <2>1, <2>2, <2>3, <2>4, <2>5
<1>11. ASSUME NEW c \in Consumers, GetCopy(c) PROVE Inv'
  <2>1. TypeOK' /\ Roles' /\ Sleepers'
    BY <1>11 DEF GetCopy, Sleepers
  <2>2. Holder'
    BY <1>11 DEF GetCopy
  <2>3. Tested'
    BY <1>11 DEF GetCopy
  <2>4. Carries' /\ Filled'
    BY <1>11 DEF GetCopy, Carries, Filled
  <2>5. SignalDue'
    BY <1>11 DEF GetCopy, SignalDue, Sleepers
  <2> QED BY <2>1, <2>2, <2>3, <2>4, <2>5
<1>12. ASSUME NEW c \in Consumers, GetNoMemory(c) PROVE Inv'
  <2>1. TypeOK' /\ Roles' /\ Sleepers'
    BY <1>12 DEF GetNoMemory, Sleepers
  <2>2. Holder'
    BY <1>12 DEF GetNoMemory
  <2>3. Tested'
    BY <1>12 DEF GetNoMemory
  <2>4. Carries' /\ Filled'
    BY <1>12 DEF GetNoMemory, Carries, Filled
  <2>5. SignalDue'
    BY <1>12 DEF GetNoMemory, SignalDue, Sleepers
  <2> QED BY <2>1, <2>2, <2>3, <2>4, <2>5
<1>13. ASSUME NEW c \in Consumers, GetShift(c) PROVE Inv'
  <2>1. TypeOK' /\ Roles' /\ Sleepers'
    BY <1>13 DEF GetShift, Sleepers
  <2>2. Holder'
    BY <1>13 DEF GetShift
  <2>3. Tested'
    BY <1>13 DEF GetShift
  <2>4. Carries' /\ Filled'
    BY <1>13 DEF GetShift, Carries, Filled
  <2>5. SignalDue'
    BY <1>13 DEF GetShift, SignalDue, Sleepers
  <2> QED BY <2>1, <2>2, <2>3, <2>4, <2>5
<1>14. ASSUME NEW c \in Consumers, GetCount(c) PROVE Inv'
  <2>1. TypeOK' /\ Roles' /\ Sleepers'
    BY <1>14 DEF GetCount, Sleepers
  <2>2. Holder'
    BY <1>14 DEF GetCount
  <2>3. Tested'
    BY <1>14 DEF GetCount
  <2>4. Carries' /\ Filled'
    BY <1>14 DEF GetCount, Carries, Filled
  <2>5. SignalDue'
    BY <1>14 DEF GetCount, SignalDue, Sleepers
  <2> QED BY <2>1, <2>2, <2>3, <2>4, <2>5
<1>15. ASSUME NEW c \in Consumers, GetUnlock(c) PROVE Inv'
  <2>1. TypeOK' /\ Roles' /\ Sleepers'
    BY <1>15 DEF GetUnlock, Sleepers
  <2>2. Holder'
    BY <1>15 DEF GetUnlock
  <2>3. Tested'
    BY <1>15 DEF GetUnlock
  <2>4. Carries' /\ Filled'
    BY <1>15 DEF GetUnlock, Carries, Filled
  <2>5. SignalDue'
    BY <1>15 DEF GetUnlock, SignalDue, Sleepers
  <2> QED BY <2>1, <2>2, <2>3, <2>4, <2>5
<1>16. ASSUME NEW c \in Consumers, FreeMessage(c) PROVE Inv'
  <2>1. TypeOK' /\ Roles' /\ Sleepers'
    BY <1>16 DEF FreeMessage, Sleepers
  <2>2. Holder'
    BY <1>16 DEF FreeMessage
  <2>3. Tested'
    BY <1>16 DEF FreeMessage
  <2>4. Carries' /\ Filled'
    BY <1>16 DEF FreeMessage, Carries, Filled
  <2>5. SignalDue'
    BY <1>16 DEF FreeMessage, SignalDue, Sleepers
  <2> QED BY <2>1, <2>2, <2>3, <2>4, <2>5
<1>17. ASSUME NEW c \in Consumers, SpuriousWakeup(c) PROVE Inv'
  <2>1. TypeOK' /\ Roles' /\ Sleepers'
    BY <1>17 DEF SpuriousWakeup, Sleepers
  <2>2. Holder'
    BY <1>17 DEF SpuriousWakeup
  <2>3. Tested'
    BY <1>17 DEF SpuriousWakeup
  <2>4. Carries' /\ Filled'
    BY <1>17 DEF SpuriousWakeup, Carries, Filled
  <2>5. SignalDue'
    BY <1>17 DEF SpuriousWakeup, SignalDue, Sleepers
  <2> QED BY <2>1, <2>2, <2>3, <2>4, <2>5
<1>18. CASE UNCHANGED vars
  BY <1>18 DEF vars, Sleepers, Carries, Filled, SignalDue
<1> QED
  BY <1>1, <1>2, <1>3, <1>4, <1>5, <1>6, <1>7, <1>8, <1>9, <1>10, <1>11, <1>12, <1>13, <1>14, <1>15, <1>16, <1>17, <1>18
  DEF Next, PutStep, GetStep

(* TypeOK, MutualExclusion and NoLostWakeup follow from the invariant.     *)
LEMMA InvConsequences == Inv => TypeOK /\ MutualExclusion /\ NoLostWakeup
BY ThreadAssumption
DEF Inv, TypeOK, MutualExclusion, Holder, NoLostWakeup, SignalDue, Inside,
    Threads

LEMMA Invariance == Spec => []Inv
BY InitInv, NextInv, PTL DEF Spec

(* Every variable keeps its type: in particular message_count stays within *)
(* the array although neither function tests it when it stores or shifts.  *)
THEOREM TypeCorrectness == Spec => []TypeOK
BY Invariance, InvConsequences, PTL

(* No two threads are in the critical sections of one queue.               *)
THEOREM Exclusion == Spec => []MutualExclusion
BY Invariance, InvConsequences, PTL

(* A queued message always has a consumer awake, or about to be woken.     *)
THEOREM WakeupNotLost == Spec => []NoLostWakeup
BY Invariance, InvConsequences, PTL

-----------------------------------------------------------------------------
(* Refinement.  First, which sequence the array stands for in each state.  *)

Quiet == \A c \in Consumers : ~Shifting(c)

LEMMA FifoQuiet == Quiet => Fifo = Contents
BY DEF Quiet, Fifo

LEMMA FifoShifting == Inv => \A c \in Consumers :
                               Shifting(c) => Fifo = BeforeShift(c)
<1> SUFFICES ASSUME Inv, NEW c \in Consumers, Shifting(c)
             PROVE  Fifo = BeforeShift(c)
  OBVIOUS
<1>1. \A d \in Consumers : Shifting(d) => d = c
  BY ThreadAssumption DEF Inv, Holder, Inside, Shifting, Threads
<1>2. (CHOOSE d \in Consumers : Shifting(d)) = c
  BY <1>1
<1> QED BY <1>2 DEF Fifo

LEMMA QuietPrime == (Quiet => Fifo = Contents)'
BY FifoQuiet, PTL

LEMMA ShiftingPrime == (Inv => \A c \in Consumers :
                                  Shifting(c) => Fifo = BeforeShift(c))'
BY FifoShifting, PTL

(* It is a sequence of message_count messages.                             *)
LEMMA FifoType == ASSUME Inv
                  PROVE  /\ Fifo \in Seq(Message \cup {NoMessage})
                         /\ Len(Fifo) = message_count
<1> USE MaxMessagesAssumption
<1>1. CASE Quiet
  BY <1>1, FifoQuiet DEF Contents, Inv, TypeOK, Slots
<1>2. ASSUME NEW c \in Consumers, Shifting(c)
      PROVE  /\ Fifo \in Seq(Message \cup {NoMessage})
             /\ Len(Fifo) = message_count
  <2>1. Fifo = BeforeShift(c)
    BY <1>2, FifoShifting
  <2>2. \A k \in 1 .. message_count :
          BeforeShift(c)[k] \in Message \cup {NoMessage}
    BY <1>2 DEF BeforeShift, Inv, TypeOK, Slots, Threads
  <2> QED BY <2>1, <2>2 DEF BeforeShift, Inv, TypeOK
<1> QED BY <1>1, <1>2 DEF Quiet

(* A step that leaves the array, the counters and what the consumers hold  *)
(* alone leaves the sequence alone.                                        *)
LEMMA FifoFrame ==
  ASSUME Inv, Inv', UNCHANGED <<message_queue, message_count, i>>,
         \A c \in Consumers : (Shifting(c)' <=> Shifting(c)) /\ data'[c] = data[c]
  PROVE  Fifo' = Fifo
<1>1. CASE Quiet
  <2>1. Quiet'
    BY <1>1 DEF Quiet
  <2> QED BY <1>1, <2>1, FifoQuiet, QuietPrime DEF Contents
<1>2. ASSUME NEW c \in Consumers, Shifting(c) PROVE Fifo' = Fifo
  <2>1. BeforeShift(c)' = BeforeShift(c)
    BY DEF BeforeShift
  <2> QED BY <1>2, <2>1, FifoShifting, ShiftingPrime
<1> QED BY <1>1, <1>2 DEF Quiet

LEMMA InitRefinement == Init => Abstract!Init
<1> SUFFICES ASSUME Init PROVE Abstract!Init
  OBVIOUS
<1>1. Quiet
  BY DEF Init, Quiet, Shifting, Threads
<1>2. Fifo = <<>>
  BY <1>1, FifoQuiet DEF Init, Contents
<1>3. Offered = [p \in Producers |-> NoMessage]
  BY DEF Init, Offered, Threads
<1>4. Taken = [c \in Consumers |-> NoMessage]
  BY DEF Init, Taken, Threads
<1> QED BY <1>2, <1>3, <1>4 DEF Abstract!Init

(* The steps that change nothing for the clients of the queue.             *)
LEMMA NextRefinement ==
  ASSUME Inv, Inv', [Next]_vars PROVE [Abstract!Next]_(Abstract!vars)
<1> USE MaxMessagesAssumption, ThreadAssumption, MessageAssumption
    DEF Inv, TypeOK, Roles, Holder, Inside, Slots, PutLabels, GetLabels,
        Threads, Goto, Shifting, SlotLeft, MoreToShift
<1>1. ASSUME NEW p \in Producers, NEW m \in Message, CallEnqueue(p, m)
      PROVE  Abstract!Next
  <2>1. Fifo' = Fifo
    BY <1>1, FifoFrame DEF CallEnqueue
  <2>2. Offered[p] = NoMessage /\ Offered' = [Offered EXCEPT ![p] = m]
    BY <1>1 DEF CallEnqueue, Offered
  <2>3. Taken' = Taken
    BY <1>1 DEF CallEnqueue, Taken
  <2>4. Abstract!Offer(p, m)
    BY <2>1, <2>2, <2>3 DEF Abstract!Offer
  <2> QED BY <2>4 DEF Abstract!Next
<1>2. ASSUME NEW p \in Producers, PutLock(p) PROVE UNCHANGED Abstract!vars
  <2>1. Fifo' = Fifo
    BY <1>2, FifoFrame DEF PutLock, Lock
  <2>2. Offered' = Offered /\ Taken' = Taken
    BY <1>2 DEF PutLock, Lock, Offered, Taken, Carries
  <2> QED BY <2>1, <2>2 DEF Abstract!vars
<1>3. ASSUME NEW p \in Producers, PutSignal(p) PROVE UNCHANGED Abstract!vars
  <2>1. Fifo' = Fifo
    BY <1>3, FifoFrame DEF PutSignal
  <2>2. Offered' = Offered /\ Taken' = Taken
    BY <1>3 DEF PutSignal, Offered, Taken, Carries
  <2> QED BY <2>1, <2>2 DEF Abstract!vars
<1>4. ASSUME NEW p \in Producers, PutUnlock(p) PROVE UNCHANGED Abstract!vars
  <2>1. Fifo' = Fifo
    BY <1>4, FifoFrame DEF PutUnlock
  <2>2. Offered' = Offered /\ Taken' = Taken
    BY <1>4 DEF PutUnlock, Offered, Taken, Carries
  <2> QED BY <2>1, <2>2 DEF Abstract!vars
<1>5. ASSUME NEW c \in Consumers, GetLock(c) PROVE UNCHANGED Abstract!vars
  <2>1. Fifo' = Fifo
    BY <1>5, FifoFrame DEF GetLock, Lock
  <2>2. Offered' = Offered /\ Taken' = Taken
    BY <1>5 DEF GetLock, Lock, Offered, Taken, Carries
  <2> QED BY <2>1, <2>2 DEF Abstract!vars
<1>6. ASSUME NEW c \in Consumers, GetTest(c) PROVE UNCHANGED Abstract!vars
  <2>1. Fifo' = Fifo
    BY <1>6, FifoFrame DEF GetTest
  <2>2. Offered' = Offered /\ Taken' = Taken
    BY <1>6 DEF GetTest, Offered, Taken, Carries
  <2> QED BY <2>1, <2>2 DEF Abstract!vars
<1>7. ASSUME NEW c \in Consumers, GetRelock(c) PROVE UNCHANGED Abstract!vars
  <2>1. Fifo' = Fifo
    BY <1>7, FifoFrame DEF GetRelock, Lock
  <2>2. Offered' = Offered /\ Taken' = Taken
    BY <1>7 DEF GetRelock, Lock, Offered, Taken, Carries
  <2> QED BY <2>1, <2>2 DEF Abstract!vars
<1>8. ASSUME NEW c \in Consumers, GetNoMemory(c) PROVE UNCHANGED Abstract!vars
  <2>1. Fifo' = Fifo
    BY <1>8, FifoFrame DEF GetNoMemory
  <2>2. Offered' = Offered /\ Taken' = Taken
    BY <1>8 DEF GetNoMemory, Offered, Taken, Carries
  <2> QED BY <2>1, <2>2 DEF Abstract!vars
<1>9. ASSUME NEW c \in Consumers, GetUnlock(c) PROVE UNCHANGED Abstract!vars
  <2>1. Fifo' = Fifo
    BY <1>9, FifoFrame DEF GetUnlock
  <2>2. Offered' = Offered /\ Taken' = Taken
    BY <1>9 DEF GetUnlock, Offered, Taken, Carries
  <2> QED BY <2>1, <2>2 DEF Abstract!vars
<1>10. ASSUME NEW c \in Consumers, SpuriousWakeup(c) PROVE UNCHANGED Abstract!vars
  <2>1. Fifo' = Fifo
    BY <1>10, FifoFrame DEF SpuriousWakeup
  <2>2. Offered' = Offered /\ Taken' = Taken
    BY <1>10 DEF SpuriousWakeup, Offered, Taken, Carries
  <2> QED BY <2>1, <2>2 DEF Abstract!vars
<1>11. ASSUME NEW p \in Producers, PutTest(p)
      PROVE  Abstract!Next \/ UNCHANGED Abstract!vars
  <2>1. Fifo' = Fifo /\ Taken' = Taken
    BY <1>11, FifoFrame DEF PutTest, Taken
  <2>2. CASE message_count < MaxMessages
    <3>1. Offered' = Offered
      BY <1>11, <2>2 DEF PutTest, Offered
    <3> QED BY <2>1, <3>1 DEF Abstract!vars
  <2>3. CASE ~(message_count < MaxMessages)
    <3>1. Offered[p] # NoMessage
      BY <1>11 DEF PutTest, Offered, Carries
    <3>2. pc' = [pc EXCEPT ![p] = "put_unlock"] /\ data' = data
      BY <1>11, <2>3 DEF PutTest
    <3>3. Offered' = [Offered EXCEPT ![p] = NoMessage]
      BY <3>2 DEF Offered
    <3>4. Fifo' = Enqueue(Fifo, Offered[p])
      BY <2>1, <2>3, FifoType DEF Enqueue, HasRoom
    <3>5. Abstract!Put(p)
      BY <2>1, <3>1, <3>3, <3>4 DEF Abstract!Put, Abstract!Enqueue, Abstract!HasRoom, Enqueue, HasRoom
    <3> QED BY <3>5 DEF Abstract!Next
  <2> QED BY <2>2, <2>3
<1>12. ASSUME NEW p \in Producers, PutStore(p) PROVE UNCHANGED Abstract!vars
  <2>1. Quiet /\ Quiet'
    BY <1>12 DEF PutStore, Quiet
  <2>2. Contents' = Contents
    BY <1>12 DEF PutStore, Contents
  <2>3. Offered' = Offered /\ Taken' = Taken
    BY <1>12 DEF PutStore, Offered, Taken
  <2> QED BY <2>1, <2>2, <2>3, FifoQuiet, QuietPrime DEF Abstract!vars
<1>13. ASSUME NEW p \in Producers, PutCount(p) PROVE Abstract!Next
  <2>1. Quiet /\ Quiet'
    BY <1>13 DEF PutCount, Quiet
  <2>2. Offered[p] = data[p]
    BY <1>13 DEF PutCount, Offered
  <2>3. message_count < MaxMessages /\ message_queue[message_count] = data[p]
    BY <1>13 DEF PutCount, Filled, Tested
  <2>4. Contents' = Append(Contents, data[p])
    BY <1>13, <2>3 DEF PutCount, Contents
  <2>5. Len(Fifo) < MaxMessages
    BY <2>3, FifoType
  <2>6. Fifo' = Append(Fifo, Offered[p])
    BY <2>1, <2>2, <2>4, FifoQuiet, QuietPrime
  <2>7. Offered[p] # NoMessage /\ Offered' = [Offered EXCEPT ![p] = NoMessage]
    <3>1. pc' = [pc EXCEPT ![p] = "put_signal"] /\ data' = data
      BY <1>13 DEF PutCount
    <3>2. data[p] # NoMessage
      BY <1>13 DEF PutCount, Carries
    <3> QED BY <2>2, <3>1, <3>2 DEF Offered
  <2>8. Taken' = Taken
    BY <1>13 DEF PutCount, Taken
  <2>9. Abstract!Put(p)
    BY <2>5, <2>6, <2>7, <2>8 DEF Abstract!Put, Abstract!Enqueue, Abstract!HasRoom
  <2> QED BY <2>9 DEF Abstract!Next
<1>14. ASSUME NEW c \in Consumers, GetCopy(c) PROVE UNCHANGED Abstract!vars
  <2>1. Quiet
    BY <1>14 DEF GetCopy, Quiet
  <2>2. Shifting(c)'
    BY <1>14 DEF GetCopy
  <2>3. BeforeShift(c)' = Contents
    BY <1>14 DEF GetCopy, BeforeShift, Contents
  <2>4. Offered' = Offered /\ Taken' = Taken
    BY <1>14 DEF GetCopy, Offered, Taken
  <2> QED BY <2>1, <2>2, <2>3, <2>4, FifoQuiet, ShiftingPrime DEF Abstract!vars
<1>15. ASSUME NEW c \in Consumers, GetShift(c) PROVE UNCHANGED Abstract!vars
  <2>1. Shifting(c) /\ Shifting(c)'
    BY <1>15 DEF GetShift
  <2>2. BeforeShift(c)' = BeforeShift(c)
    <3>1. CASE i < message_count - 1
      <4>1. UNCHANGED <<message_count, data>>
        BY <1>15 DEF GetShift
      <4>2. /\ message_queue' = [message_queue EXCEPT ![i] = message_queue[i + 1]]
            /\ i' = i + 1
        BY <1>15, <3>1 DEF GetShift
      <4>3. ASSUME NEW k \in 1 .. message_count
            PROVE  BeforeShift(c)'[k] = BeforeShift(c)[k]
        BY <3>1, <4>1, <4>2 DEF BeforeShift
      <4> QED BY <4>1, <4>3 DEF BeforeShift
    <3>2. CASE ~(i < message_count - 1)
      BY <1>15, <3>2 DEF GetShift, BeforeShift
    <3> QED BY <3>1, <3>2
  <2>3. Offered' = Offered /\ Taken' = Taken
    BY <1>15 DEF GetShift, Offered, Taken
  <2> QED BY <2>1, <2>2, <2>3, FifoShifting, ShiftingPrime DEF Abstract!vars
<1>16. ASSUME NEW c \in Consumers, GetCount(c) PROVE Abstract!Next
  <2>1. Shifting(c) /\ Quiet'
    BY <1>16 DEF GetCount, Quiet
  <2>2. message_count > 0 /\ i = message_count - 1
    BY <1>16 DEF GetCount, Tested
  <2>3. Fifo = BeforeShift(c) /\ Fifo' = Contents'
    BY <2>1, FifoShifting, QuietPrime
  <2>4. Fifo # <<>> /\ Head(Fifo) = data[c]
    <3>1. 1 \in 1 .. message_count /\ Fifo[1] = data[c]
      BY <2>2, <2>3 DEF BeforeShift
    <3> QED BY <3>1, FifoType
  <2>5. Contents' = Tail(BeforeShift(c))
    BY <1>16, <2>2 DEF GetCount, Contents, BeforeShift
  <2>6. Taken[c] = NoMessage /\ Taken' = [Taken EXCEPT ![c] = data[c]]
    BY <1>16 DEF GetCount, Taken
  <2>7. Offered' = Offered
    BY <1>16 DEF GetCount, Offered
  <2>8. Abstract!Take(c)
    BY <2>3, <2>4, <2>5, <2>6, <2>7 DEF Abstract!Take
  <2> QED BY <2>8 DEF Abstract!Next
<1>17. ASSUME NEW c \in Consumers, FreeMessage(c) PROVE Abstract!Next
  <2>1. Fifo' = Fifo
    <3>1. Shifting(c)' <=> Shifting(c)
      BY <1>17 DEF FreeMessage
    <3>2. CASE Quiet
      <4>1. Quiet'
        BY <1>17, <3>2 DEF FreeMessage, Quiet
      <4> QED BY <1>17, <3>2, <4>1, FifoQuiet, QuietPrime DEF FreeMessage, Contents
    <3>3. ASSUME NEW d \in Consumers, Shifting(d) PROVE Fifo' = Fifo
      <4>1. Shifting(d)' /\ data'[d] = data[d]
        BY <1>17, <3>3 DEF FreeMessage
      <4>2. BeforeShift(d)' = BeforeShift(d)
        BY <1>17, <4>1 DEF FreeMessage, BeforeShift
      <4> QED BY <3>3, <4>1, <4>2, FifoShifting, ShiftingPrime
    <3> QED BY <3>2, <3>3 DEF Quiet
  <2>2. Taken[c] # NoMessage /\ Taken' = [Taken EXCEPT ![c] = NoMessage]
    BY <1>17 DEF FreeMessage, Taken, Carries
  <2>3. Offered' = Offered
    BY <1>17 DEF FreeMessage, Offered
  <2>4. Abstract!Drop(c)
    BY <2>1, <2>2, <2>3 DEF Abstract!Drop
  <2> QED BY <2>4 DEF Abstract!Next
<1>18. ASSUME UNCHANGED vars PROVE UNCHANGED Abstract!vars
  <2>1. Fifo' = Fifo
    BY <1>18, FifoFrame DEF vars
  <2> QED BY <1>18, <2>1 DEF vars, Offered, Taken, Abstract!vars
<1> QED
  BY <1>1, <1>2, <1>3, <1>4, <1>5, <1>6, <1>7, <1>8, <1>9, <1>10, <1>11, <1>12, <1>13, <1>14, <1>15, <1>16, <1>17, <1>18
  DEF Next, PutStep, GetStep

(* Every behaviour of the two mutexed critical sections is, seen by the    *)
(* threads that call them, a behaviour of the lossy first-in first-out     *)
(* queue: no message is duplicated, reordered or lost but by a full queue. *)
THEOREM Refinement == Spec => ImplementsLossyQueue
<1>1. Init => Abstract!Init
  BY InitRefinement
<1>2. Inv /\ Inv' /\ [Next]_vars => [Abstract!Next]_(Abstract!vars)
  BY NextRefinement
<1> QED BY <1>1, <1>2, Invariance, PTL DEF Spec, Abstract!Spec, ImplementsLossyQueue
=============================================================================
