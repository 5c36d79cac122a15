------------------------------ MODULE QueueOps ------------------------------
(***************************************************************************)
(* The message queue of a control-plane instance as a value: the sequence  *)
(* of the messages in message_queue[0 .. message_count - 1].  What the two *)
(* critical sections of ut_control_plane.c do to that value is stated here *)
(* once; MessageQueue shows, at the level of the mutex and the condition   *)
(* variable, that each behaves as one atomic application of it.            *)
(***************************************************************************)
EXTENDS Naturals, Sequences

CONSTANT MaxMessages    \* MAX_MESSAGES: the slots of message_queue

ASSUME MaxMessagesAssumption == MaxMessages \in Nat \ {0}

(* enqueue_message tests this under the mutex before it stores anything.   *)
HasRoom(q) == Len(q) < MaxMessages

(* Mutant: the message is stored at index 0.                               *)
EnqueueInFront(q, m) == IF HasRoom(q) THEN <<m>> \o q ELSE q

(* The effect of enqueue_message: the message goes behind the others, or   *)
(* is dropped without a word to the caller when every slot is taken.       *)
Enqueue(q, m) == IF HasRoom(q) THEN Append(q, m) ELSE q
=============================================================================
