------------------------ MODULE ControlPlaneService ------------------------
(***************************************************************************)
(* What a control plane promises to the test that runs it, with no threads *)
(* that come and go, no flag that they read and no joins: one server with  *)
(* a bounded line of messages.  It takes them in the order in which they   *)
(* arrived, one at a time; a message is lost only when the line is full.   *)
(* A request to stop stands in the same line, so that what is in front of  *)
(* it is still handled, and is lost like a message when there is no room.  *)
(* Once it is handled nothing is taken any more, in later runs neither.    *)
(***************************************************************************)
EXTENDS Naturals, Sequences

CONSTANTS MaxMessages,  \* the length of the line
          Arrival,      \* the messages that carry a payload
          ExitRequest,  \* the request to stop
          NoMessage     \* stands for the absence of a message

VARIABLES plane,        \* "none", "stopped", "started", "stopping" or "gone"
          line,         \* what waits to be handled, oldest first
          coming,       \* what has been received and is not in line yet
          handling,     \* what is being handled
          ended,        \* a request to stop has been handled
          seen,         \* what has ever been received
          memory        \* what is allocated

vars == <<plane, line, coming, handling, ended, seen, memory>>

Init == /\ plane = "none"
        /\ line = <<>>
        /\ coming = NoMessage
        /\ handling = NoMessage
        /\ ended = FALSE
        /\ seen = {}
        /\ memory = {}

HasRoom == Len(line) < MaxMessages

Create == /\ plane = "none"
          /\ plane' = "stopped"
          /\ UNCHANGED <<line, coming, handling, ended, seen, memory>>

Start == /\ plane = "stopped"
         /\ plane' = "started"
         /\ UNCHANGED <<line, coming, handling, ended, seen, memory>>

(* The call of Stop, up to where it waits.                                 *)
Stop == /\ plane = "started"
        /\ plane' = "stopping"
        /\ line' = IF HasRoom THEN Append(line, ExitRequest) ELSE line
        /\ UNCHANGED <<coming, handling, ended, seen, memory>>

(* Stop returns: nothing is being received, and nothing handled.           *)
Return == /\ plane = "stopping"
          /\ ended
          /\ coming = NoMessage
          /\ handling = NoMessage
          /\ plane' = "stopped"
          /\ UNCHANGED <<line, coming, handling, ended, seen, memory>>

(* The line goes, and the memory of what stands in it stays.               *)
Exit == /\ plane = "stopped"
        /\ plane' = "gone"
        /\ line' = <<>>
        /\ UNCHANGED <<coming, handling, ended, seen, memory>>

(* A plane that was started again receives nothing.                        *)
Arrive(m) == /\ plane = "stopping" \/ (plane = "started" /\ ~ended)
             /\ coming = NoMessage
             /\ m \notin seen
             /\ coming' = m
             /\ seen' = seen \cup {m}
             /\ memory' = memory \cup {m}
             /\ UNCHANGED <<plane, line, handling, ended>>

Accept == /\ coming # NoMessage
          /\ HasRoom
          /\ line' = Append(line, coming)
          /\ coming' = NoMessage
          /\ UNCHANGED <<plane, handling, ended, seen, memory>>

(* Nobody is told, and nobody frees the payload.                           *)
Lose == /\ coming # NoMessage
        /\ ~HasRoom
        /\ coming' = NoMessage
        /\ UNCHANGED <<plane, line, handling, ended, seen, memory>>

Take == /\ plane \in {"started", "stopping"}
        /\ ~ended
        /\ handling = NoMessage
        /\ line # <<>>
        /\ handling' = Head(line)
        /\ line' = Tail(line)
        /\ UNCHANGED <<plane, coming, ended, seen, memory>>

(* The callbacks have been called, and the payload is freed.               *)
Finish == /\ handling # NoMessage
          /\ handling' = NoMessage
          /\ ended' = (ended \/ handling = ExitRequest)
          /\ memory' = memory \ {handling}
          /\ UNCHANGED <<plane, line, coming, seen>>

Next == \/ Create \/ Start \/ Stop \/ Return \/ Exit
        \/ \E m \in Arrival : Arrive(m)
        \/ Accept \/ Lose \/ Take \/ Finish

Spec == Init /\ [][Next]_vars
=============================================================================
