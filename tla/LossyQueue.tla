----------------------------- MODULE LossyQueue -----------------------------
(***************************************************************************)
(* What the message queue promises to the threads that use it, with no     *)
(* mutex, condition variable or array in sight: a bounded first-in         *)
(* first-out queue.  Putting never blocks and drops the message when the   *)
(* queue is full; taking blocks while it is empty.                         *)
(***************************************************************************)
EXTENDS QueueOps

CONSTANTS Producers,    \* threads that call enqueue_message
          Consumers,    \* threads that call dequeue_message
          Message,      \* the messages
          NoMessage     \* stands for the absence of a message

VARIABLES fifo,         \* the messages in the queue, oldest first
          offered,      \* what a producer inside enqueue_message brings
          taken         \* what a consumer was given and has not dropped yet

vars == <<fifo, offered, taken>>

Init == /\ fifo = <<>>
        /\ offered = [p \in Producers |-> NoMessage]
        /\ taken = [c \in Consumers |-> NoMessage]

(* A producer calls enqueue_message.                                       *)
Offer(p, m) == /\ offered[p] = NoMessage
               /\ offered' = [offered EXCEPT ![p] = m]
               /\ UNCHANGED <<fifo, taken>>

(* The message takes effect, all at once, or is dropped.                   *)
Put(p) == /\ offered[p] # NoMessage
          /\ fifo' = Enqueue(fifo, offered[p])
          /\ offered' = [offered EXCEPT ![p] = NoMessage]
          /\ UNCHANGED taken

(* A consumer is given the oldest message, which leaves the queue.         *)
Take(c) == /\ taken[c] = NoMessage
           /\ fifo # <<>>
           /\ taken' = [taken EXCEPT ![c] = Head(fifo)]
           /\ fifo' = Tail(fifo)
           /\ UNCHANGED offered

(* The consumer is done with it.                                           *)
Drop(c) == /\ taken[c] # NoMessage
           /\ taken' = [taken EXCEPT ![c] = NoMessage]
           /\ UNCHANGED <<fifo, offered>>

Next == \/ \E p \in Producers : Put(p) \/ \E m \in Message : Offer(p, m)
        \/ \E c \in Consumers : Take(c) \/ Drop(c)

Spec == Init /\ [][Next]_vars
=============================================================================
