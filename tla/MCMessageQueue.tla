--------------------------- MODULE MCMessageQueue ---------------------------
(***************************************************************************)
(* MessageQueue with the threads of one plane: two producers, the          *)
(* libwebsockets thread and the client that stops the plane, and one       *)
(* consumer, the state machine.  Three slots let the shift take two steps. *)
(***************************************************************************)
EXTENDS MessageQueue
=============================================================================
