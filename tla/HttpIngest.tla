----------------------------- MODULE HttpIngest -----------------------------
(***************************************************************************)
(* How the bytes of a request become the payload of a message: the         *)
(* callbacks libwebsockets makes for a session, callback_http or, in the   *)
(* WEBSOCKET_SERVER build, callback_echo.  One thread makes them all, one  *)
(* after the other, for sessions whose bytes arrive interleaved.           *)
(*                                                                         *)
(* libwebsockets and the network are the environment.  A body arrives in   *)
(* chunks of any size; a connection may be lost at any time, and its       *)
(* session data with it; it may also stay and carry another request, the   *)
(* data left as the callbacks leave it.  The URI decides nothing: the      *)
(* callbacks take the body of a request whatever LWS_CALLBACK_HTTP         *)
(* compared.  enqueue_message and what follows are ControlPlane's.         *)
(***************************************************************************)
EXTENDS Naturals, Sequences

CONSTANTS Session,              \* connections libwebsockets serves
          MaxRequests,          \* bound: requests that arrive in all
          MaxBody,              \* bound: bytes of a body
          MaxPostDataSize,      \* MAX_POST_DATA_SIZE
          None                  \* no request

ASSUME BoundAssumption == MaxRequests \in Nat /\ MaxBody \in Nat
ASSUME SizeAssumption == MaxPostDataSize \in Nat \ {0}

Request == 1 .. MaxRequests
ASSUME NoneAssumption == None \notin Request

(* A byte is known by its request and its place in the body.               *)
Byte == [of : Request, at : 1 .. MaxBody]
Bytes(r, from, to) == [k \in 1 .. (to + 1) - from |->
                         [of |-> r, at |-> from + k - 1]]

VARIABLES
  server,       \* the build: "http" or "websocket"
  arrived,      \* requests that have begun
  request,      \* the request a session carries
  received,     \* how many bytes of its body have arrived
  post_data,    \* the post_data_len bytes collected in the session data
  starved,      \* history: sessions in which malloc failed at completion
  handed,       \* history: the payloads given to enqueue_message
  refused       \* history: requests found too large, as in handed

vars == <<server, arrived, request, received, post_data, starved, handed,
          refused>>

Init == /\ server \in {"http", "websocket"}
        /\ arrived = 0
        /\ request = [s \in Session |-> None]
        /\ received = [s \in Session |-> 0]
        /\ post_data = [s \in Session |-> <<>>]
        /\ starved = {}
        /\ handed = <<>>
        /\ refused = {}

-----------------------------------------------------------------------------
(* A request begins: LWS_CALLBACK_HTTP, or a message on a WebSocket.       *)
Begin(s) == /\ request[s] = None
            /\ arrived < MaxRequests
            /\ arrived' = arrived + 1
            /\ request' = [request EXCEPT ![s] = arrived + 1]
            /\ UNCHANGED <<server, received, post_data, starved, handed, refused>>

(* A connection ends, for whatever reason, and its session data goes; the  *)
(* next one in its place starts with zeroes.                               *)
Closes(s) == /\ request' = [request EXCEPT ![s] = None]
             /\ received' = [received EXCEPT ![s] = 0]
             /\ post_data' = [post_data EXCEPT ![s] = <<>>]
             /\ starved' = starved \ {s}

Disconnect(s) == /\ Closes(s)
                 /\ UNCHANGED <<server, arrived, handed, refused>>

(* The next len bytes of the body of the request a session carries.        *)
Chunk(s, len) == Bytes(request[s], received[s] + 1, received[s] + len)

Comes(s, len) == /\ request[s] # None
                 /\ received[s] + len <= MaxBody

Arrives(s, len) == /\ Comes(s, len)
                   /\ received' = [received EXCEPT ![s] = @ + len]
                   /\ UNCHANGED <<server, arrived, request>>

(* Mutant: the buffer may be filled to the last byte.                      *)
FitsOffByOne(s, len) == Len(post_data[s]) + len <= MaxPostDataSize

Fits(s, len) == Len(post_data[s]) + len < MaxPostDataSize

(* LWS_CALLBACK_HTTP_BODY: the chunk goes behind what is there.            *)
HttpBody(s, len) == /\ server = "http"
                    /\ Fits(s, len)
                    /\ Arrives(s, len)
                    /\ post_data' = [post_data EXCEPT ![s] = @ \o Chunk(s, len)]
                    /\ UNCHANGED <<starved, handed, refused>>

(* It returns -1 when the body is too large: the connection is closed.     *)
HttpBodyTooLarge(s, len) ==
  /\ server = "http"
  /\ Comes(s, len)
  /\ ~Fits(s, len)
  /\ refused' = refused \cup {[request |-> request[s],
                               size |-> received[s] + len,
                               clean |-> s \notin starved]}
  /\ Closes(s)
  /\ UNCHANGED <<server, arrived, handed>>

(* All of a body has come: the request is over.                            *)
Completes(s) == /\ request[s] # None
                /\ request' = [request EXCEPT ![s] = None]
                /\ received' = [received EXCEPT ![s] = 0]
                /\ UNCHANGED <<server, arrived, refused>>

Hand(s, message) == handed' = Append(handed, [request |-> request[s],
                                              message |-> message,
                                              size |-> received[s],
                                              clean |-> s \notin starved])

(* Mutant: the buffer is not reset.                                        *)
HttpBodyCompletionKeeps(s) == /\ server = "http"
                              /\ Completes(s)
                              /\ Hand(s, post_data[s])
                              /\ UNCHANGED <<post_data, starved>>

(* LWS_CALLBACK_HTTP_BODY_COMPLETION: the payload is a copy of the buffer, *)
(* which is reset.                                                         *)
HttpBodyCompletion(s) == /\ server = "http"
                         /\ Completes(s)
                         /\ Hand(s, post_data[s])
                         /\ post_data' = [post_data EXCEPT ![s] = <<>>]
                         /\ UNCHANGED starved

(* When malloc fails the bytes stay where they are.                        *)
HttpBodyNoMemory(s) == /\ server = "http"
                       /\ Completes(s)
                       /\ starved' = starved \cup {s}
                       /\ UNCHANGED <<post_data, handed>>

(* LWS_CALLBACK_RECEIVE: every chunk is a payload of its own; when malloc  *)
(* fails it is lost (or assert ends the process).                          *)
EchoReceive(s, len) == /\ server = "websocket"
                       /\ Arrives(s, len)
                       /\ \/ Hand(s, Chunk(s, len))
                          \/ UNCHANGED handed
                       /\ UNCHANGED <<post_data, starved, refused>>

(* The message on a WebSocket is over.                                     *)
EchoEnd(s) == /\ server = "websocket"
              /\ Completes(s)
              /\ UNCHANGED <<post_data, starved, handed>>

Next == \E s \in Session :
          \/ Begin(s)
          \/ Disconnect(s)
          \/ \E len \in 1 .. MaxBody : \/ HttpBody(s, len)
                                       \/ HttpBodyTooLarge(s, len)
                                       \/ EchoReceive(s, len)
          \/ HttpBodyCompletion(s)
          \/ HttpBodyNoMemory(s)
          \/ EchoEnd(s)

Spec == Init /\ [][Next]_vars

-----------------------------------------------------------------------------
Payload == [request : Request, message : Seq(Byte), size : 0 .. MaxBody,
            clean : BOOLEAN]

(* Every variable keeps its type; what a session has collected leaves the  *)
(* byte of the buffer that the terminator of the payload needs.            *)
TypeOK == /\ server \in {"http", "websocket"}
          /\ arrived \in 0 .. MaxRequests
          /\ request \in [Session -> Request \cup {None}]
          /\ received \in [Session -> 0 .. MaxBody]
          /\ post_data \in [Session -> Seq(Byte)]
          /\ \A s \in Session : Len(post_data[s]) < MaxPostDataSize
          /\ starved \subseteq Session
          /\ handed \in Seq(Payload)
          /\ refused \subseteq [request : Request, size : Nat, clean : BOOLEAN]

(* What callback_http hands over is the body of one request, whole and     *)
(* alone, however the bodies of other sessions came in between, whatever   *)
(* the connection carried or lost before; what it refuses had more than    *)
(* MAX_POST_DATA_SIZE - 1 bytes, and is never handed over.  After malloc   *)
(* has failed in a connection the bytes that were kept come in front, and  *)
(* less may be refused.                                                    *)
BodyWholeOrRefused ==
  server = "http" =>
    /\ \A k \in DOMAIN handed :
         LET h == handed[k]
             front == Len(h.message) - h.size
         IN /\ Len(h.message) >= h.size
            /\ SubSeq(h.message, front + 1, Len(h.message)) =
                 Bytes(h.request, 1, h.size)
            /\ h.clean => front = 0
            /\ \A x \in refused : x.request # h.request
    /\ \A x \in refused : x.clean => x.size >= MaxPostDataSize

(* No byte of a request is handed over twice, nor before one in front of   *)
(* it: in the WebSocket build, too, where a message may come in pieces.    *)
BytesInOrderOnce ==
  \A j, k \in DOMAIN handed :
    \A a \in DOMAIN handed[j].message, b \in DOMAIN handed[k].message :
      LET x == handed[j].message[a]
          y == handed[k].message[b]
      IN (j < k \/ (j = k /\ a < b)) /\ x.of = y.of => x.at < y.at
=============================================================================
