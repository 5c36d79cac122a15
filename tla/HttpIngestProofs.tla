-------------------------- MODULE HttpIngestProofs --------------------------
(***************************************************************************)
(* What TLAPS proves of HttpIngest, for every set of sessions, every       *)
(* number of requests and every size of a body and of the buffer: type     *)
(* correctness, that a payload is the whole body of one request or the     *)
(* request is refused, and that no byte is handed over twice or out of     *)
(* order.  All three follow from the inductive invariant Inv.              *)
(***************************************************************************)
EXTENDS HttpIngest, SequenceTheorems, TLAPS

-----------------------------------------------------------------------------
(* The inductive invariant.                                                *)

(* A request is carried by one session at a time.                          *)
Carried == \A s \in Session :
             /\ request[s] # None => request[s] <= arrived
             /\ request[s] = None => received[s] = 0
             /\ \A t \in Session : request[s] = request[t] /\ s # t => request[s] = None

(* A message ends with the first n bytes of a request.                     *)
EndsWith(message, r, n) ==
  /\ n <= Len(message)
  /\ \A k \in 1 .. n : message[Len(message) - n + k] = [of |-> r, at |-> k]

(* What a session has collected ends with all it has received of its       *)
(* request; before it is only what a failed malloc has left.               *)
Collected ==
  \A s \in Session :
    /\ server = "http" => /\ EndsWith(post_data[s], request[s], received[s])
                          /\ s \notin starved => Len(post_data[s]) = received[s]
    /\ server = "websocket" => post_data[s] = <<>>

(* The bytes of a message that are of one request are in order.            *)
InOrder(message) ==
  \A a, b \in DOMAIN message :
    a < b /\ message[a].of = message[b].of => message[a].at < message[b].at

(* The bytes a session has collected are in order, of requests no other    *)
(* session carries or has bytes of, and received.                          *)
Own ==
  \A s \in Session :
    /\ InOrder(post_data[s])
    /\ \A a \in DOMAIN post_data[s] :
         LET x == post_data[s][a]
         IN /\ x.of <= arrived
            /\ x.of = request[s] => x.at <= received[s]
            /\ \A t \in Session \ {s} :
                 /\ x.of # request[t]
                 /\ \A b \in DOMAIN post_data[t] : x.of # post_data[t][b].of

(* The bytes handed over are of requests that no session carries or has    *)
(* bytes of, or, where a message comes in pieces, received before.         *)
Past ==
  \A j \in DOMAIN handed : \A a \in DOMAIN handed[j].message :
    LET x == handed[j].message[a]
    IN /\ x.of <= arrived
       /\ \A s \in Session :
            /\ x.of = request[s] => server = "websocket" /\ x.at <= received[s]
            /\ \A b \in DOMAIN post_data[s] : x.of # post_data[s][b].of

(* A payload is what a session had collected when its request was over.    *)
HandedWhole ==
  server = "http" =>
    \A j \in DOMAIN handed :
      LET h == handed[j]
      IN /\ EndsWith(h.message, h.request, h.size)
         /\ h.clean => Len(h.message) = h.size
         /\ h.request <= arrived
         /\ \A s \in Session : request[s] # h.request
         /\ \A x \in refused : x.request # h.request

RefusedForGood ==
  \A x \in refused : /\ x.clean => x.size >= MaxPostDataSize
                     /\ x.request <= arrived
                     /\ \A s \in Session : request[s] # x.request

Inv == /\ TypeOK /\ Carried /\ Collected /\ Own /\ Past /\ HandedWhole
       /\ RefusedForGood /\ BytesInOrderOnce

-----------------------------------------------------------------------------
LEMMA InitInv == Init => Inv
<1> SUFFICES ASSUME Init PROVE Inv
  OBVIOUS
<1>1. <<>> \in Seq(Byte) /\ <<>> \in Seq(Payload) /\ Len(<<>>) = 0 /\ DOMAIN <<>> = {}
  BY EmptySeq
<1>2. TypeOK
  BY <1>1, BoundAssumption, SizeAssumption DEF Init, TypeOK
<1>3. Carried /\ Collected
  BY <1>1, NoneAssumption DEF Init, Carried, Collected, EndsWith
<1>4. Own /\ Past /\ HandedWhole /\ RefusedForGood /\ BytesInOrderOnce
  BY <1>1 DEF Init, Own, InOrder, Past, HandedWhole, RefusedForGood, BytesInOrderOnce
<1> QED
  BY <1>2, <1>3, <1>4 DEF Inv

(* What the elements of the sequences are.                                 *)
LEMMA ElementTypes ==
  ASSUME TypeOK
  PROVE  /\ arrived \in Nat
         /\ \A s \in Session : /\ request[s] = None \/ request[s] \in Request
                               /\ received[s] \in Nat /\ received[s] <= MaxBody
                               /\ post_data[s] \in Seq(Byte)
                               /\ Len(post_data[s]) \in Nat
                               /\ DOMAIN post_data[s] = 1 .. Len(post_data[s])
                               /\ \A a \in DOMAIN post_data[s] :
                                   post_data[s][a].of \in Request /\ post_data[s][a].at \in Nat
         /\ handed \in Seq(Payload) /\ Len(handed) \in Nat
         /\ DOMAIN handed = 1 .. Len(handed)
         /\ \A j \in DOMAIN handed :
              /\ handed[j].request \in Request /\ handed[j].size \in Nat
              /\ handed[j].message \in Seq(Byte) /\ Len(handed[j].message) \in Nat
              /\ DOMAIN handed[j].message = 1 .. Len(handed[j].message)
              /\ \A a \in DOMAIN handed[j].message :
                   handed[j].message[a].of \in Request /\ handed[j].message[a].at \in Nat
<1>1. \A q \in Seq(Byte) : /\ Len(q) \in Nat /\ DOMAIN q = 1 .. Len(q)
                           /\ \A a \in DOMAIN q : q[a].of \in Request /\ q[a].at \in Nat
  <2> SUFFICES ASSUME NEW q \in Seq(Byte)
               PROVE  /\ Len(q) \in Nat /\ DOMAIN q = 1 .. Len(q)
                      /\ \A a \in DOMAIN q : q[a].of \in Request /\ q[a].at \in Nat
    OBVIOUS
  <2>1. Len(q) \in Nat /\ DOMAIN q = 1 .. Len(q)
    BY LenProperties
  <2>2. \A a \in DOMAIN q : q[a] \in Byte
    BY <2>1, ElementOfSeq
  <2> QED
    BY <2>1, <2>2, BoundAssumption DEF Byte
<1>2. Len(handed) \in Nat /\ DOMAIN handed = 1 .. Len(handed)
  BY LenProperties DEF TypeOK
<1>3. \A j \in DOMAIN handed : handed[j] \in Payload
  BY <1>2, ElementOfSeq DEF TypeOK
<1>4. \A j \in DOMAIN handed : /\ handed[j].request \in Request /\ handed[j].size \in Nat
                               /\ handed[j].message \in Seq(Byte)
  BY <1>3, BoundAssumption DEF Payload
<1>5. /\ arrived \in Nat
      /\ \A s \in Session : /\ request[s] = None \/ request[s] \in Request
                            /\ received[s] \in Nat /\ received[s] <= MaxBody
                            /\ post_data[s] \in Seq(Byte)
  BY BoundAssumption DEF TypeOK
<1> HIDE DEF TypeOK
<1>6. \A s \in Session : /\ Len(post_data[s]) \in Nat
                              /\ DOMAIN post_data[s] = 1 .. Len(post_data[s])
                              /\ \A a \in DOMAIN post_data[s] :
                                   post_data[s][a].of \in Request /\ post_data[s][a].at \in Nat
  BY <1>1, <1>5
<1>7. \A j \in DOMAIN handed :
              /\ Len(handed[j].message) \in Nat
              /\ DOMAIN handed[j].message = 1 .. Len(handed[j].message)
              /\ \A a \in DOMAIN handed[j].message :
                   handed[j].message[a].of \in Request /\ handed[j].message[a].at \in Nat
  BY <1>1, <1>4
<1> QED
  BY <1>2, <1>4, <1>5, <1>6, <1>7 DEF TypeOK

(* The next bytes of a body, one by one.                                   *)
LEMMA ChunkBytes ==
  ASSUME TypeOK, NEW s \in Session, NEW len \in 1 .. MaxBody, Comes(s, len)
  PROVE  /\ Chunk(s, len) \in Seq(Byte)
         /\ Len(Chunk(s, len)) = len
         /\ \A k \in 1 .. len : Chunk(s, len)[k] = [of |-> request[s], at |-> received[s] + k]
         /\ request[s] \in Request /\ received[s] + len \in 0 .. MaxBody
         /\ len \in Nat
<1>1. len \in Nat /\ received[s] \in Nat /\ request[s] \in Request
      /\ received[s] + len <= MaxBody
  BY BoundAssumption DEF TypeOK, Comes
<1>2. Chunk(s, len) = [k \in 1 .. len |-> [of |-> request[s], at |-> received[s] + k]]
  BY <1>1 DEF Chunk, Bytes
<1>3. \A k \in 1 .. len : [of |-> request[s], at |-> received[s] + k] \in Byte
  BY <1>1, BoundAssumption DEF Byte
<1> QED
  BY <1>1, <1>2, <1>3, BoundAssumption, SeqDef

(* A step that changes nothing but the state of one session, which begins  *)
(* a request, preserves the invariant.                                     *)
LEMMA BeginPreserves ==
  ASSUME Inv, NEW s \in Session, Begin(s)
  PROVE  Inv'
<1>1. /\ request[s] = None /\ arrived < MaxRequests /\ arrived' = arrived + 1
      /\ request' = [request EXCEPT ![s] = arrived + 1]
      /\ UNCHANGED <<server, received, post_data, starved, handed, refused>>
  BY DEF Begin
<1>2. arrived \in Nat /\ arrived' \in Request /\ arrived' # None
  BY <1>1, BoundAssumption, NoneAssumption DEF Inv, TypeOK, Request
<1>3. \A t \in Session : request'[t] = IF t = s THEN arrived + 1 ELSE request[t]
  BY <1>1 DEF Inv, TypeOK
<1>4. TypeOK'
  BY <1>1, <1>2, BoundAssumption DEF Inv, TypeOK, Request
<1>5. \A t \in Session : request[t] # arrived + 1
  <2> SUFFICES ASSUME NEW t \in Session, request[t] = arrived + 1 PROVE FALSE
    OBVIOUS
  <2>1. request[t] # None
    BY <1>1, <1>2
  <2> QED
    BY <1>2, <2>1 DEF Inv, Carried
<1>6. Carried'
  BY <1>1, <1>2, <1>3, <1>5, NoneAssumption DEF Inv, TypeOK, Carried, Request
<1>7. received[s] = 0
  BY <1>1 DEF Inv, Carried
<1>8. Collected'
  BY <1>1, <1>3, <1>7 DEF Inv, Collected, EndsWith
<1>9. \A t \in Session : \A a \in DOMAIN post_data[t] : post_data[t][a].of \in Nat
  BY ElementTypes DEF Inv, Request
<1>10. Own'
  BY <1>1, <1>2, <1>3, <1>9 DEF Inv, Own, InOrder
<1>11. \A j \in DOMAIN handed : \A a \in DOMAIN handed[j].message : handed[j].message[a].of \in Nat
  BY ElementTypes DEF Inv, Request
<1>12. Past'
  BY <1>1, <1>2, <1>3, <1>11 DEF Inv, Past
<1>13. \A j \in DOMAIN handed : handed[j].request \in Nat
  BY ElementTypes DEF Inv, Request
<1>14. HandedWhole'
  BY <1>1, <1>2, <1>3, <1>13 DEF Inv, HandedWhole, EndsWith
<1>15. RefusedForGood'
  BY <1>1, <1>2, <1>3 DEF Inv, TypeOK, Request, RefusedForGood
<1>16. BytesInOrderOnce'
  BY <1>1 DEF Inv, BytesInOrderOnce
<1> QED
  BY <1>4, <1>6, <1>8, <1>10, <1>12, <1>14, <1>15, <1>16 DEF Inv

-----------------------------------------------------------------------------
(* A session lets go of its request and of what it has collected.          *)
LEMMA LettingGo ==
  ASSUME Inv, NEW s \in Session,
         request' = [request EXCEPT ![s] = None],
         received' = [received EXCEPT ![s] = 0],
         post_data' = [post_data EXCEPT ![s] = <<>>],
         starved' \subseteq Session, starved \ {s} \subseteq starved',
         UNCHANGED <<server, arrived>>
  PROVE  /\ request' \in [Session -> Request \cup {None}]
         /\ received' \in [Session -> 0 .. MaxBody]
         /\ post_data' \in [Session -> Seq(Byte)]
         /\ \A t \in Session : Len(post_data'[t]) < MaxPostDataSize
         /\ \A t \in Session : /\ request'[t] = IF t = s THEN None ELSE request[t]
                               /\ received'[t] = IF t = s THEN 0 ELSE received[t]
                               /\ post_data'[t] = IF t = s THEN <<>> ELSE post_data[t]
         /\ Carried' /\ Collected' /\ Own'
<1>1. \A t \in Session : /\ request'[t] = IF t = s THEN None ELSE request[t]
                         /\ received'[t] = IF t = s THEN 0 ELSE received[t]
                         /\ post_data'[t] = IF t = s THEN <<>> ELSE post_data[t]
  <2>1. /\ request \in [Session -> Request \cup {None}]
        /\ received \in [Session -> 0 .. MaxBody]
        /\ post_data \in [Session -> Seq(Byte)]
    BY DEF Inv, TypeOK
  <2> QED
    BY <2>1
<1>2. <<>> \in Seq(Byte) /\ Len(<<>>) = 0 /\ DOMAIN <<>> = {}
  BY EmptySeq
<1>3. /\ request' \in [Session -> Request \cup {None}]
      /\ received' \in [Session -> 0 .. MaxBody]
      /\ post_data' \in [Session -> Seq(Byte)]
      /\ \A t \in Session : Len(post_data'[t]) < MaxPostDataSize
  BY <1>1, <1>2, BoundAssumption, SizeAssumption DEF Inv, TypeOK
<1>4. Carried'
  BY <1>1 DEF Inv, Carried
<1>5. Collected'
  <2>1. EndsWith(<<>>, None, 0)
    BY <1>2 DEF EndsWith
  <2>2. ASSUME NEW t \in Session
        PROVE  /\ server = "http" => /\ EndsWith(post_data'[t], request'[t], received'[t])
                                     /\ t \notin starved' => Len(post_data'[t]) = received'[t]
               /\ server = "websocket" => post_data'[t] = <<>>
    <3>1. CASE t = s
      BY <1>1, <1>2, <2>1, <3>1
    <3>2. CASE t # s
      BY <1>1, <3>2 DEF Inv, Collected
    <3> QED
      BY <3>1, <3>2
  <2> QED
    BY <2>2 DEF Collected, EndsWith
<1>6. \A t \in Session : \A a \in DOMAIN post_data[t] : post_data[t][a].of # None
  BY ElementTypes, NoneAssumption DEF Inv
<1>7. Own'
  BY <1>1, <1>2, <1>6 DEF Inv, Own, InOrder
<1> QED
  BY <1>1, <1>3, <1>4, <1>5, <1>7

(* What was handed over stays behind when a session lets go.               *)
LEMMA PastStays ==
  ASSUME Inv, NEW s \in Session,
         \A t \in Session : /\ request'[t] = IF t = s THEN None ELSE request[t]
                            /\ received'[t] = IF t = s THEN 0 ELSE received[t]
                            /\ post_data'[t] = IF t = s THEN <<>> ELSE post_data[t],
         UNCHANGED <<server, arrived, handed>>
  PROVE  Past' /\ BytesInOrderOnce'
<1>1. \A j \in DOMAIN handed : \A a \in DOMAIN handed[j].message :
        handed[j].message[a].of # None
  BY ElementTypes, NoneAssumption DEF Inv
<1>2. DOMAIN <<>> = {}
  OBVIOUS
<1>3. Past'
  <2> SUFFICES ASSUME NEW j \in DOMAIN handed, NEW a \in DOMAIN handed[j].message
               PROVE  LET x == handed[j].message[a]
                      IN /\ x.of <= arrived
                         /\ \A t \in Session :
                              /\ x.of = request'[t] => server = "websocket" /\ x.at <= received'[t]
                              /\ \A b \in DOMAIN post_data'[t] : x.of # post_data'[t][b].of
    BY DEF Past
  <2> DEFINE x == handed[j].message[a]
  <2>1. /\ x.of <= arrived
        /\ \A t \in Session :
             /\ x.of = request[t] => server = "websocket" /\ x.at <= received[t]
             /\ \A b \in DOMAIN post_data[t] : x.of # post_data[t][b].of
    BY DEF Inv, Past
  <2>2. x.of # None
    BY <1>1
  <2> HIDE DEF x
  <2>3. ASSUME NEW t \in Session
        PROVE  /\ x.of = request'[t] => server = "websocket" /\ x.at <= received'[t]
               /\ \A b \in DOMAIN post_data'[t] : x.of # post_data'[t][b].of
    <3>1. CASE t = s
      BY <1>2, <2>2, <3>1
    <3>2. CASE t # s
      BY <2>1, <3>2
    <3> QED
      BY <3>1, <3>2
  <2> QED
    BY <2>1, <2>3 DEF x
<1>4. BytesInOrderOnce'
  BY DEF Inv, BytesInOrderOnce
<1> QED
  BY <1>3, <1>4

(* A connection is lost.                                                   *)
LEMMA DisconnectPreserves ==
  ASSUME Inv, NEW s \in Session, Disconnect(s)
  PROVE  Inv'
<1>1. /\ request' = [request EXCEPT ![s] = None]
      /\ received' = [received EXCEPT ![s] = 0]
      /\ post_data' = [post_data EXCEPT ![s] = <<>>]
      /\ starved' = starved \ {s}
      /\ UNCHANGED <<server, arrived, handed, refused>>
  BY DEF Disconnect, Closes
<1>2. starved' \subseteq Session /\ starved \ {s} \subseteq starved'
  BY <1>1 DEF Inv, TypeOK
<1>3. /\ request' \in [Session -> Request \cup {None}]
      /\ received' \in [Session -> 0 .. MaxBody]
      /\ post_data' \in [Session -> Seq(Byte)]
      /\ \A t \in Session : Len(post_data'[t]) < MaxPostDataSize
      /\ \A t \in Session : /\ request'[t] = IF t = s THEN None ELSE request[t]
                            /\ received'[t] = IF t = s THEN 0 ELSE received[t]
                            /\ post_data'[t] = IF t = s THEN <<>> ELSE post_data[t]
      /\ Carried' /\ Collected' /\ Own'
  BY <1>1, <1>2, LettingGo
<1>4. TypeOK'
  BY <1>1, <1>2, <1>3 DEF Inv, TypeOK
<1>5. Past' /\ BytesInOrderOnce'
  BY <1>1, <1>3, PastStays
<1>6. HandedWhole'
  BY <1>1, <1>3, ElementTypes, NoneAssumption DEF Inv, HandedWhole, EndsWith
<1>7. \A x \in refused : x.request # None
  BY NoneAssumption DEF Inv, TypeOK
<1>8. RefusedForGood'
  BY <1>1, <1>3, <1>7 DEF Inv, RefusedForGood
<1> QED
  BY <1>3, <1>4, <1>5, <1>6, <1>8 DEF Inv

(* A body is too large: the connection is closed.                          *)
LEMMA HttpBodyTooLargePreserves ==
  ASSUME Inv, NEW s \in Session, NEW len \in 1 .. MaxBody, HttpBodyTooLarge(s, len)
  PROVE  Inv'
<1> DEFINE r == [request |-> request[s], size |-> received[s] + len,
                 clean |-> s \notin starved]
<1>1. /\ request' = [request EXCEPT ![s] = None]
      /\ received' = [received EXCEPT ![s] = 0]
      /\ post_data' = [post_data EXCEPT ![s] = <<>>]
      /\ starved' = starved \ {s}
      /\ refused' = refused \cup {r}
      /\ server = "http" /\ Comes(s, len) /\ ~Fits(s, len)
      /\ UNCHANGED <<server, arrived, handed>>
  BY DEF HttpBodyTooLarge, Closes
<1>2. starved' \subseteq Session /\ starved \ {s} \subseteq starved'
  BY <1>1 DEF Inv, TypeOK
<1>3. /\ request' \in [Session -> Request \cup {None}]
      /\ received' \in [Session -> 0 .. MaxBody]
      /\ post_data' \in [Session -> Seq(Byte)]
      /\ \A t \in Session : Len(post_data'[t]) < MaxPostDataSize
      /\ \A t \in Session : /\ request'[t] = IF t = s THEN None ELSE request[t]
                            /\ received'[t] = IF t = s THEN 0 ELSE received[t]
                            /\ post_data'[t] = IF t = s THEN <<>> ELSE post_data[t]
      /\ Carried' /\ Collected' /\ Own'
  BY <1>1, <1>2, LettingGo
<1>4. /\ request[s] \in Request /\ received[s] + len \in Nat
      /\ r \in [request : Request, size : Nat, clean : BOOLEAN]
      /\ r.request = request[s] /\ r.size = received[s] + len
      /\ r.clean = (s \notin starved)
  BY <1>1, ChunkBytes DEF Inv
<1>5. request[s] # None
  BY <1>4, NoneAssumption
<1> HIDE DEF r
<1>6. TypeOK'
  BY <1>1, <1>2, <1>3, <1>4 DEF Inv, TypeOK
<1>7. Past' /\ BytesInOrderOnce'
  BY <1>1, <1>3, PastStays
<1>8. HandedWhole'
  BY <1>1, <1>3, <1>4, ElementTypes, NoneAssumption DEF Inv, HandedWhole, EndsWith
<1>9. RefusedForGood'
  <2>1. ASSUME NEW x \in refused
        PROVE  /\ x.clean => x.size >= MaxPostDataSize
               /\ x.request <= arrived
               /\ \A t \in Session : request'[t] # x.request
    <3>1. x.request # None
      BY NoneAssumption DEF Inv, TypeOK
    <3> QED
      BY <1>3, <3>1 DEF Inv, RefusedForGood
  <2>2. r.clean => r.size >= MaxPostDataSize
    BY <1>1, <1>4, SizeAssumption, ElementTypes DEF Inv, Collected, Fits
  <2>3. r.request <= arrived
    BY <1>4, <1>5 DEF Inv, Carried
  <2>4. \A t \in Session : request'[t] # r.request
    BY <1>3, <1>4, <1>5 DEF Inv, Carried
  <2> QED
    BY <1>1, <2>1, <2>2, <2>3, <2>4 DEF RefusedForGood
<1> QED
  BY <1>3, <1>6, <1>7, <1>8, <1>9 DEF Inv

-----------------------------------------------------------------------------
(* A request is over, and the session keeps what it has: nothing, or what  *)
(* malloc has left.                                                        *)
LEMMA OverPreserves ==
  ASSUME Inv, NEW s \in Session, Completes(s), UNCHANGED <<post_data, handed>>,
         starved' \subseteq Session, starved \subseteq starved',
         server = "http" => s \in starved'
  PROVE  Inv'
<1>1. /\ request' = [request EXCEPT ![s] = None]
      /\ received' = [received EXCEPT ![s] = 0]
      /\ UNCHANGED <<server, arrived, refused>>
  BY DEF Completes
<1>2. /\ request \in [Session -> Request \cup {None}]
      /\ received \in [Session -> 0 .. MaxBody]
  BY DEF Inv, TypeOK
<1>3. \A t \in Session : /\ request'[t] = IF t = s THEN None ELSE request[t]
                         /\ received'[t] = IF t = s THEN 0 ELSE received[t]
  BY <1>1, <1>2
<1>4. /\ request' \in [Session -> Request \cup {None}]
      /\ received' \in [Session -> 0 .. MaxBody]
  BY <1>1, <1>2, BoundAssumption
<1>5. TypeOK'
  BY <1>1, <1>4 DEF Inv, TypeOK
<1>6. Carried'
  BY <1>1, <1>3 DEF Inv, Carried
<1>7. Collected'
  <2>1. EndsWith(post_data[s], None, 0)
    BY ElementTypes DEF Inv, EndsWith
  <2>2. ASSUME NEW t \in Session
        PROVE  /\ server = "http" => /\ EndsWith(post_data[t], request'[t], received'[t])
                                     /\ t \notin starved' => Len(post_data[t]) = received'[t]
               /\ server = "websocket" => post_data[t] = <<>>
    <3>1. CASE t = s
      BY <1>3, <2>1, <3>1 DEF Inv, Collected
    <3>2. CASE t # s
      BY <1>3, <3>2 DEF Inv, Collected
    <3> QED
      BY <3>1, <3>2
  <2> QED
    BY <1>1, <2>2 DEF Collected, EndsWith
<1>8. \A t \in Session : \A a \in DOMAIN post_data[t] : post_data[t][a].of # None
  BY ElementTypes, NoneAssumption DEF Inv
<1>9. Own'
  BY <1>1, <1>3, <1>8 DEF Inv, Own, InOrder
<1>10. \A j \in DOMAIN handed : /\ handed[j].request # None
                                /\ \A a \in DOMAIN handed[j].message :
                                     handed[j].message[a].of # None
  BY ElementTypes, NoneAssumption DEF Inv
<1>11. Past'
  BY <1>1, <1>3, <1>10 DEF Inv, Past
<1>12. HandedWhole'
  BY <1>1, <1>3, <1>10 DEF Inv, HandedWhole, EndsWith
<1>13. \A x \in refused : x.request # None
  BY NoneAssumption DEF Inv, TypeOK
<1>14. RefusedForGood'
  BY <1>1, <1>3, <1>13 DEF Inv, RefusedForGood
<1>15. BytesInOrderOnce'
  BY DEF Inv, BytesInOrderOnce
<1> QED
  BY <1>5, <1>6, <1>7, <1>9, <1>11, <1>12, <1>14, <1>15 DEF Inv

LEMMA HttpBodyNoMemoryPreserves ==
  ASSUME Inv, NEW s \in Session, HttpBodyNoMemory(s)
  PROVE  Inv'
<1>1. /\ Completes(s) /\ UNCHANGED <<post_data, handed>>
      /\ starved' = starved \cup {s}
  BY DEF HttpBodyNoMemory
<1>2. starved' \subseteq Session
  BY <1>1 DEF Inv, TypeOK
<1> QED
  BY <1>1, <1>2, OverPreserves

LEMMA EchoEndPreserves ==
  ASSUME Inv, NEW s \in Session, EchoEnd(s)
  PROVE  Inv'
<1>1. /\ Completes(s) /\ UNCHANGED <<post_data, starved, handed>>
      /\ server = "websocket"
  BY DEF EchoEnd
<1>2. starved' \subseteq Session
  BY <1>1 DEF Inv, TypeOK
<1> QED
  BY <1>1, <1>2, OverPreserves

-----------------------------------------------------------------------------
(* A chunk goes behind what a session has collected.                       *)
LEMMA HttpBodyPreserves ==
  ASSUME Inv, NEW s \in Session, NEW len \in 1 .. MaxBody, HttpBody(s, len)
  PROVE  Inv'
<1> DEFINE old == post_data[s]
           new == old \o Chunk(s, len)
           r == request[s]
           n == received[s]
<1>1. /\ server = "http" /\ Comes(s, len) /\ Fits(s, len)
      /\ received' = [received EXCEPT ![s] = n + len]
      /\ post_data' = [post_data EXCEPT ![s] = new]
      /\ UNCHANGED <<server, arrived, request, starved, handed, refused>>
  BY DEF HttpBody, Arrives
<1>2. /\ Chunk(s, len) \in Seq(Byte) /\ Len(Chunk(s, len)) = len
      /\ \A k \in 1 .. len : Chunk(s, len)[k] = [of |-> r, at |-> n + k]
      /\ r \in Request /\ n + len \in 0 .. MaxBody /\ len \in Nat
  BY <1>1, ChunkBytes DEF Inv
<1>3. old \in Seq(Byte) /\ Len(old) \in Nat /\ n \in Nat /\ arrived \in Nat
      /\ DOMAIN old = 1 .. Len(old)
      /\ \A a \in 1 .. Len(old) : old[a].of \in Request /\ old[a].at \in Nat
  BY ElementTypes DEF Inv
<1>4. /\ new \in Seq(Byte) /\ Len(new) = Len(old) + len
      /\ \A k \in 1 .. Len(old) + len :
           new[k] = IF k <= Len(old) THEN old[k] ELSE Chunk(s, len)[k - Len(old)]
  BY <1>2, <1>3, ConcatProperties
<1>5. DOMAIN new = 1 .. Len(old) + len
  BY <1>4, LenProperties
<1> HIDE DEF new
<1>6. \A k \in 1 .. Len(old) : new[k] = old[k]
  BY <1>2, <1>3, <1>4
<1>7. \A k \in Len(old) + 1 .. Len(old) + len : new[k] = [of |-> r, at |-> n + k - Len(old)]
  BY <1>2, <1>3, <1>4
<1>b. ASSUME NEW k \in Len(old) + 1 .. Len(old) + len
      PROVE  new[k].of = r /\ new[k].at = n + k - Len(old)
  <2>1. new[k] = [of |-> r, at |-> n + k - Len(old)]
    BY <1>7
  <2> QED
    BY <2>1
<1>8. /\ received \in [Session -> 0 .. MaxBody]
      /\ post_data \in [Session -> Seq(Byte)]
  BY DEF Inv, TypeOK
<1>9. \A t \in Session : /\ received'[t] = IF t = s THEN n + len ELSE received[t]
                         /\ post_data'[t] = IF t = s THEN new ELSE post_data[t]
  BY <1>1, <1>8
<1>10. TypeOK'
  <2>1. received' \in [Session -> 0 .. MaxBody]
    BY <1>1, <1>2, <1>8
  <2>2. post_data' \in [Session -> Seq(Byte)]
    BY <1>1, <1>4, <1>8
  <2>3. \A t \in Session : Len(post_data'[t]) < MaxPostDataSize
    BY <1>1, <1>4, <1>9 DEF Inv, TypeOK, Fits
  <2> QED
    BY <1>1, <2>1, <2>2, <2>3 DEF Inv, TypeOK
<1>11. r # None /\ r <= arrived /\ \A t \in Session \ {s} : request[t] # r
  BY <1>2, NoneAssumption DEF Inv, Carried
<1>12. Carried'
  BY <1>1, <1>9, <1>11 DEF Inv, Carried
<1>13. Collected'
  <2>1. EndsWith(old, r, n) /\ (s \notin starved => Len(old) = n)
    BY <1>1 DEF Inv, Collected
  <2>2. n + len <= Len(new)
    BY <1>2, <1>3, <1>4, <2>1 DEF EndsWith
  <2>3. ASSUME NEW k \in 1 .. n + len
        PROVE  new[Len(new) - (n + len) + k] = [of |-> r, at |-> k]
    <3>1. Len(new) - (n + len) + k = Len(old) - n + k
      BY <1>2, <1>3, <1>4
    <3>2. CASE k <= n
      <4>1. Len(old) - n + k \in 1 .. Len(old) /\ k \in 1 .. n
        BY <1>2, <1>3, <2>1, <3>2 DEF EndsWith
      <4> QED
        BY <1>6, <2>1, <3>1, <4>1 DEF EndsWith
    <3>3. CASE k > n
      <4>1. Len(old) - n + k \in Len(old) + 1 .. Len(old) + len
        BY <1>2, <1>3, <3>3
      <4>2. n + (Len(old) - n + k) - Len(old) = k
        BY <1>3
      <4> QED
        BY <1>7, <3>1, <4>1, <4>2
    <3> QED
      BY <1>2, <1>3, <3>2, <3>3
  <2>4. EndsWith(new, r, n + len)
    BY <2>2, <2>3 DEF EndsWith
  <2>5. ASSUME NEW t \in Session
        PROVE  /\ EndsWith(post_data'[t], request[t], received'[t])
               /\ t \notin starved => Len(post_data'[t]) = received'[t]
    <3>1. CASE t = s
      BY <1>4, <1>9, <2>1, <2>4, <3>1
    <3>2. CASE t # s
      BY <1>1, <1>9, <3>2 DEF Inv, Collected
    <3> QED
      BY <3>1, <3>2
  <2> QED
    BY <1>1, <2>5 DEF Collected, EndsWith
<1>14. \A a \in DOMAIN new : \/ a \in DOMAIN old /\ new[a] = old[a]
                             \/ new[a].of = r
  <2> SUFFICES ASSUME NEW a \in DOMAIN new
               PROVE  \/ a \in DOMAIN old /\ new[a] = old[a]
                      \/ new[a].of = r
    OBVIOUS
  <2>1. a \in 1 .. Len(old) \/ a \in Len(old) + 1 .. Len(old) + len
    BY <1>2, <1>3, <1>5
  <2> QED
    BY <1>3, <1>6, <1>b, <2>1
<1>15. Own'
  <2>1. InOrder(new)
    <3> SUFFICES ASSUME NEW a \in DOMAIN new, NEW b \in DOMAIN new, a < b,
                        new[a].of = new[b].of
                 PROVE  new[a].at < new[b].at
      BY DEF InOrder
    <3>1. CASE b \in 1 .. Len(old)
      <4>1. a \in DOMAIN old /\ b \in DOMAIN old /\ new[a] = old[a] /\ new[b] = old[b]
        BY <1>2, <1>3, <1>5, <1>6, <3>1
      <4> QED
        BY <4>1 DEF Inv, Own, InOrder
    <3>2. CASE a \in 1 .. Len(old) /\ b \notin 1 .. Len(old)
      <4>1. b \in Len(old) + 1 .. Len(old) + len
        BY <1>2, <1>3, <1>5, <3>2
      <4>2. new[b].of = r /\ new[b].at = n + b - Len(old) /\ new[b].at > n
        BY <1>2, <1>3, <1>b, <4>1
      <4>3. new[a] = old[a] /\ a \in DOMAIN old
        BY <1>3, <1>6, <3>2
      <4>4. old[a].at <= n
        BY <4>2, <4>3 DEF Inv, Own
      <4> QED
        BY <1>2, <1>3, <3>2, <4>1, <4>2, <4>3, <4>4
    <3>3. CASE a \notin 1 .. Len(old)
      <4>1. /\ a \in Len(old) + 1 .. Len(old) + len
            /\ b \in Len(old) + 1 .. Len(old) + len
        BY <1>2, <1>3, <1>5, <3>3
      <4> QED
        BY <1>2, <1>3, <1>b, <4>1
    <3> QED
      BY <3>1, <3>2, <3>3
  <2>2. \A t \in Session : InOrder(post_data'[t])
    BY <1>9, <2>1 DEF Inv, Own
  <2>3. ASSUME NEW t \in Session, NEW a \in DOMAIN post_data'[t]
        PROVE  LET x == post_data'[t][a]
               IN /\ x.of <= arrived
                  /\ x.of = request[t] => x.at <= received'[t]
                  /\ \A u \in Session \ {t} :
                       /\ x.of # request[u]
                       /\ \A b \in DOMAIN post_data'[u] : x.of # post_data'[u][b].of
    <3> DEFINE x == post_data'[t][a]
    <3>1. CASE t = s
      <4>1. x = new[a] /\ a \in DOMAIN new
        BY <1>9, <3>1
      <4>2. CASE a \in 1 .. Len(old)
        <5>1. x = old[a] /\ a \in DOMAIN old
          BY <1>3, <1>6, <4>1, <4>2
        <5>2. /\ x.of <= arrived
              /\ x.of = r => x.at <= n
              /\ \A u \in Session \ {s} :
                   /\ x.of # request[u]
                   /\ \A b \in DOMAIN post_data[u] : x.of # post_data[u][b].of
          BY <5>1 DEF Inv, Own
        <5>3. x.at \in Nat
          BY <1>3, <4>2, <5>1
        <5> HIDE DEF x
        <5> QED
          BY <1>2, <1>3, <1>9, <3>1, <5>2, <5>3 DEF x
      <4>3. CASE a \notin 1 .. Len(old)
        <5>1. a \in Len(old) + 1 .. Len(old) + len
          BY <1>2, <1>3, <1>5, <4>1, <4>3
        <5>2. x.of = r /\ x.at = n + a - Len(old) /\ x.at <= n + len
          BY <1>2, <1>3, <1>b, <4>1, <5>1
        <5>3. \A u \in Session \ {s} : \A b \in DOMAIN post_data[u] : post_data[u][b].of # r
          BY DEF Inv, Own
        <5> HIDE DEF x
        <5> QED
          BY <1>9, <1>11, <3>1, <5>2, <5>3 DEF x
      <4> QED
        BY <4>2, <4>3
    <3>2. CASE t # s
      <4>1. x = post_data[t][a] /\ a \in DOMAIN post_data[t]
        BY <1>9, <3>2
      <4>2. /\ x.of <= arrived
            /\ x.of = request[t] => x.at <= received[t]
            /\ \A u \in Session \ {t} :
                 /\ x.of # request[u]
                 /\ \A b \in DOMAIN post_data[u] : x.of # post_data[u][b].of
        BY <4>1 DEF Inv, Own
      <4>3. \A b \in DOMAIN new : x.of # new[b].of
        BY <1>14, <3>2, <4>2
      <4> HIDE DEF x
      <4> QED
        BY <1>9, <3>2, <4>2, <4>3 DEF x
    <3> QED
      BY <3>1, <3>2
  <2> QED
    BY <1>1, <2>2, <2>3 DEF Own, InOrder
<1>16. Past'
  <2> SUFFICES ASSUME NEW j \in DOMAIN handed, NEW a \in DOMAIN handed[j].message,
                      NEW t \in Session
               PROVE  LET x == handed[j].message[a]
                      IN /\ x.of <= arrived
                         /\ x.of # request[t]
                         /\ \A b \in DOMAIN post_data'[t] : x.of # post_data'[t][b].of
    BY <1>1 DEF Inv, Past
  <2> DEFINE x == handed[j].message[a]
  <2>1. /\ x.of <= arrived /\ x.of # r /\ x.of # request[t]
        /\ \A b \in DOMAIN post_data[t] : x.of # post_data[t][b].of
        /\ \A b \in DOMAIN old : x.of # old[b].of
    BY <1>1 DEF Inv, Past
  <2> HIDE DEF x
  <2>2. \A b \in DOMAIN new : x.of # new[b].of
    BY <1>14, <2>1
  <2> QED
    BY <1>9, <2>1, <2>2 DEF x
<1>17. HandedWhole' /\ RefusedForGood' /\ BytesInOrderOnce'
  BY <1>1 DEF Inv, HandedWhole, EndsWith, RefusedForGood, BytesInOrderOnce
<1> QED
  BY <1>10, <1>12, <1>13, <1>15, <1>16, <1>17 DEF Inv

-----------------------------------------------------------------------------
(* A payload is handed over: it comes behind those before.                 *)
LEMMA HandedGrows ==
  ASSUME TypeOK, NEW h \in Payload, handed' = Append(handed, h)
  PROVE  /\ handed' \in Seq(Payload)
         /\ Len(handed) + 1 \in DOMAIN handed' /\ handed'[Len(handed) + 1] = h
         /\ \A j \in DOMAIN handed : /\ j \in DOMAIN handed' /\ handed'[j] = handed[j]
                                    /\ j < Len(handed) + 1
         /\ \A j \in DOMAIN handed' : j \in DOMAIN handed \/ j = Len(handed) + 1
         /\ DOMAIN handed' \subseteq Nat
<1>1. handed \in Seq(Payload) /\ Len(handed) \in Nat /\ DOMAIN handed = 1 .. Len(handed)
  BY ElementTypes
<1>2. /\ handed' \in Seq(Payload) /\ Len(handed') = Len(handed) + 1
      /\ \A j \in 1 .. Len(handed) : handed'[j] = handed[j]
      /\ handed'[Len(handed) + 1] = h
  BY <1>1, AppendProperties
<1>3. DOMAIN handed' = 1 .. Len(handed) + 1
  BY <1>2, LenProperties
<1> QED
  BY <1>1, <1>2, <1>3

(* A message in order, that comes later than what there is of the same     *)
(* requests, keeps the order.                                              *)
LEMMA OrderGrows ==
  ASSUME Inv, NEW h \in Payload, handed' = Append(handed, h), InOrder(h.message),
         \A j \in DOMAIN handed : \A a \in DOMAIN handed[j].message, b \in DOMAIN h.message :
           handed[j].message[a].of = h.message[b].of
             => handed[j].message[a].at < h.message[b].at
  PROVE  BytesInOrderOnce'
<1> SUFFICES ASSUME NEW j \in DOMAIN handed', NEW k \in DOMAIN handed',
                    NEW a \in DOMAIN handed'[j].message, NEW b \in DOMAIN handed'[k].message,
                    j < k \/ (j = k /\ a < b),
                    handed'[j].message[a].of = handed'[k].message[b].of
             PROVE  handed'[j].message[a].at < handed'[k].message[b].at
  BY DEF BytesInOrderOnce
<1> DEFINE n == Len(handed) + 1
<1>1. /\ n \in DOMAIN handed' /\ handed'[n] = h
      /\ \A i \in DOMAIN handed : handed'[i] = handed[i] /\ i < n
      /\ \A i \in DOMAIN handed' : i \in DOMAIN handed \/ i = n
      /\ DOMAIN handed' \subseteq Nat
  BY HandedGrows DEF Inv
<1> HIDE DEF n
<1>2. CASE k \in DOMAIN handed
  <2>1. j \in DOMAIN handed
    BY <1>1, <1>2
  <2> QED
    BY <1>1, <1>2, <2>1 DEF Inv, BytesInOrderOnce
<1>3. CASE k = n /\ j \in DOMAIN handed
  BY <1>1, <1>3
<1>4. CASE k = n /\ j = n
  BY <1>1, <1>4 DEF InOrder
<1> QED
  BY <1>1, <1>2, <1>3, <1>4

(* A body is complete: what the session has collected is the payload.      *)
LEMMA HttpBodyCompletionPreserves ==
  ASSUME Inv, NEW s \in Session, HttpBodyCompletion(s)
  PROVE  Inv'
<1> DEFINE h == [request |-> request[s], message |-> post_data[s],
                 size |-> received[s], clean |-> s \notin starved]
           n == Len(handed) + 1
<1>1. /\ server = "http" /\ request[s] # None
      /\ request' = [request EXCEPT ![s] = None]
      /\ received' = [received EXCEPT ![s] = 0]
      /\ post_data' = [post_data EXCEPT ![s] = <<>>]
      /\ handed' = Append(handed, h)
      /\ UNCHANGED <<server, arrived, starved, refused>>
  BY DEF HttpBodyCompletion, Completes, Hand
<1>2. starved' \subseteq Session /\ starved \ {s} \subseteq starved'
  BY <1>1 DEF Inv, TypeOK
<1>3. /\ request' \in [Session -> Request \cup {None}]
      /\ received' \in [Session -> 0 .. MaxBody]
      /\ post_data' \in [Session -> Seq(Byte)]
      /\ \A t \in Session : Len(post_data'[t]) < MaxPostDataSize
      /\ \A t \in Session : /\ request'[t] = IF t = s THEN None ELSE request[t]
                            /\ received'[t] = IF t = s THEN 0 ELSE received[t]
                            /\ post_data'[t] = IF t = s THEN <<>> ELSE post_data[t]
      /\ Carried' /\ Collected' /\ Own'
  BY <1>1, <1>2, LettingGo
<1>4. /\ h \in Payload /\ h.request = request[s] /\ h.message = post_data[s]
      /\ h.size = received[s] /\ h.clean = (s \notin starved)
  BY <1>1 DEF Inv, TypeOK, Payload
<1> HIDE DEF h
<1>5. /\ handed' \in Seq(Payload)
      /\ n \in DOMAIN handed' /\ handed'[n] = h
      /\ \A j \in DOMAIN handed : j \in DOMAIN handed' /\ handed'[j] = handed[j] /\ j < n
      /\ \A j \in DOMAIN handed' : j \in DOMAIN handed \/ j = n
      /\ DOMAIN handed' \subseteq Nat
  BY <1>1, <1>4, HandedGrows DEF Inv
<1> HIDE DEF n
<1>6. TypeOK'
  BY <1>1, <1>3, <1>5 DEF Inv, TypeOK
<1>7. \A t \in Session : \A a \in DOMAIN post_data[t] : post_data[t][a].of # None
  BY ElementTypes, NoneAssumption DEF Inv
<1>8. \A j \in DOMAIN handed : /\ handed[j].request # None
                               /\ \A a \in DOMAIN handed[j].message :
                                    handed[j].message[a].of # None
  BY ElementTypes, NoneAssumption DEF Inv
<1>9. DOMAIN <<>> = {}
  OBVIOUS
<1>10. Past'
  <2> SUFFICES ASSUME NEW j \in DOMAIN handed', NEW a \in DOMAIN handed'[j].message
               PROVE  LET x == handed'[j].message[a]
                      IN /\ x.of <= arrived
                         /\ \A t \in Session :
                              /\ x.of # request'[t]
                              /\ \A b \in DOMAIN post_data'[t] : x.of # post_data'[t][b].of
    BY <1>1 DEF Past
  <2> DEFINE x == handed'[j].message[a]
  <2>1. /\ x.of <= arrived /\ x.of # None
        /\ \A t \in Session \ {s} :
             /\ x.of # request[t]
             /\ \A b \in DOMAIN post_data[t] : x.of # post_data[t][b].of
    <3>1. CASE j \in DOMAIN handed
      BY <1>1, <1>5, <1>8, <3>1 DEF Inv, Past
    <3>2. CASE j = n
      BY <1>4, <1>5, <1>7, <3>2 DEF Inv, Own
    <3> QED
      BY <1>5, <3>1, <3>2
  <2> HIDE DEF x
  <2>2. ASSUME NEW t \in Session
        PROVE  /\ x.of # request'[t]
               /\ \A b \in DOMAIN post_data'[t] : x.of # post_data'[t][b].of
    <3>1. CASE t = s
      BY <1>3, <1>9, <2>1, <3>1
    <3>2. CASE t # s
      BY <1>3, <2>1, <3>2
    <3> QED
      BY <3>1, <3>2
  <2> QED
    BY <2>1, <2>2 DEF x
<1>11. HandedWhole'
  <2>1. ASSUME NEW j \in DOMAIN handed'
        PROVE  LET g == handed'[j]
               IN /\ EndsWith(g.message, g.request, g.size)
                  /\ g.clean => Len(g.message) = g.size
                  /\ g.request <= arrived
                  /\ \A t \in Session : request'[t] # g.request
                  /\ \A x \in refused : x.request # g.request
    <3>1. CASE j \in DOMAIN handed
      BY <1>1, <1>3, <1>5, <1>8, <3>1 DEF Inv, HandedWhole
    <3>2. CASE j = n
      <4>1. EndsWith(h.message, h.request, h.size) /\ (h.clean => Len(h.message) = h.size)
        BY <1>1, <1>4 DEF Inv, Collected
      <4>2. h.request <= arrived /\ h.request # None
            /\ \A t \in Session \ {s} : request[t] # h.request
        BY <1>1, <1>4 DEF Inv, Carried
      <4>3. \A x \in refused : x.request # h.request
        BY <1>4 DEF Inv, RefusedForGood
      <4> QED
        BY <1>3, <1>5, <3>2, <4>1, <4>2, <4>3
    <3> QED
      BY <1>5, <3>1, <3>2
  <2> QED
    BY <1>1, <2>1 DEF HandedWhole, EndsWith
<1>12. \A x \in refused : x.request # None
  BY NoneAssumption DEF Inv, TypeOK
<1>13. RefusedForGood'
  BY <1>1, <1>3, <1>12 DEF Inv, RefusedForGood
<1>14. BytesInOrderOnce'
  <2>1. InOrder(h.message)
    BY <1>4 DEF Inv, Own
  <2>2. \A j \in DOMAIN handed : \A a \in DOMAIN handed[j].message, b \in DOMAIN h.message :
          handed[j].message[a].of # h.message[b].of
    BY <1>4 DEF Inv, Past
  <2> QED
    BY <1>1, <1>4, <2>1, <2>2, OrderGrows
<1> QED
  BY <1>3, <1>6, <1>10, <1>11, <1>13, <1>14 DEF Inv

-----------------------------------------------------------------------------
(* A piece of a WebSocket message arrives: it is a payload, or it is lost. *)
LEMMA EchoReceivePreserves ==
  ASSUME Inv, NEW s \in Session, NEW len \in 1 .. MaxBody, EchoReceive(s, len)
  PROVE  Inv'
<1> DEFINE h == [request |-> request[s], message |-> Chunk(s, len),
                 size |-> received[s], clean |-> s \notin starved]
           n == Len(handed) + 1
<1>1. /\ server = "websocket" /\ Comes(s, len)
      /\ received' = [received EXCEPT ![s] = @ + len]
      /\ handed' = Append(handed, h) \/ handed' = handed
      /\ UNCHANGED <<server, arrived, request, post_data, starved, refused>>
  BY DEF EchoReceive, Arrives, Hand
<1>2. /\ Chunk(s, len) \in Seq(Byte) /\ Len(Chunk(s, len)) = len
      /\ \A k \in 1 .. len : Chunk(s, len)[k] = [of |-> request[s], at |-> received[s] + k]
      /\ request[s] \in Request /\ received[s] + len \in 0 .. MaxBody /\ len \in Nat
  BY <1>1, ChunkBytes DEF Inv
<1>3. /\ h \in Payload /\ h.message = Chunk(s, len)
  BY <1>2 DEF Inv, TypeOK, Payload
<1> HIDE DEF h
<1>4. received[s] \in Nat /\ arrived \in Nat
  BY ElementTypes DEF Inv
<1>5. DOMAIN h.message = 1 .. len
  BY <1>2, <1>3, LenProperties
<1>6. ASSUME NEW b \in DOMAIN h.message
      PROVE  /\ h.message[b].of = request[s]
             /\ h.message[b].at = received[s] + b
             /\ b \in 1 .. len
  BY <1>2, <1>3, <1>5
<1>7. received \in [Session -> 0 .. MaxBody]
  BY DEF Inv, TypeOK
<1>8. \A t \in Session : received'[t] = IF t = s THEN received[s] + len ELSE received[t]
  BY <1>1, <1>7
<1>9. handed' \in Seq(Payload)
  BY <1>1, <1>3, HandedGrows DEF Inv, TypeOK
<1>10. TypeOK'
  <2>1. received' \in [Session -> 0 .. MaxBody]
    BY <1>1, <1>2, <1>7
  <2> QED
    BY <1>1, <1>9, <2>1 DEF Inv, TypeOK
<1>11. /\ request[s] # None /\ request[s] <= arrived
       /\ \A t \in Session \ {s} : request[t] # request[s]
  BY <1>2, NoneAssumption DEF Inv, Carried
<1>12. Carried'
  BY <1>1, <1>8, <1>11 DEF Inv, Carried
<1>13. Collected' /\ HandedWhole' /\ RefusedForGood'
  BY <1>1 DEF Inv, Collected, HandedWhole, RefusedForGood
<1>14. \A t \in Session : post_data[t] = <<>> /\ DOMAIN post_data[t] = {}
  BY <1>1 DEF Inv, Collected
<1>15. Own'
  BY <1>1, <1>14 DEF Own, InOrder
<1>16. ASSUME NEW j \in DOMAIN handed, NEW a \in DOMAIN handed[j].message
       PROVE  /\ handed[j].message[a].of <= arrived /\ handed[j].message[a].at \in Nat
              /\ \A t \in Session : handed[j].message[a].of = request[t]
                                     => handed[j].message[a].at <= received[t]
  BY ElementTypes DEF Inv, Past
<1>17. CASE handed' = handed
  <2>1. Past'
    <3> SUFFICES ASSUME NEW j \in DOMAIN handed, NEW a \in DOMAIN handed[j].message
                 PROVE  LET x == handed[j].message[a]
                        IN /\ x.of <= arrived
                           /\ \A t \in Session : x.of = request[t] => x.at <= received'[t]
      BY <1>1, <1>14, <1>17 DEF Past
    <3> QED
      BY <1>2, <1>4, <1>8, <1>16
  <2>2. BytesInOrderOnce'
    BY <1>17 DEF Inv, BytesInOrderOnce
  <2> QED
    BY <1>10, <1>12, <1>13, <1>15, <2>1, <2>2 DEF Inv
<1>18. CASE handed' = Append(handed, h)
  <2>1. /\ n \in DOMAIN handed' /\ handed'[n] = h
        /\ \A j \in DOMAIN handed : handed'[j] = handed[j]
        /\ \A j \in DOMAIN handed' : j \in DOMAIN handed \/ j = n
    BY <1>3, <1>18, HandedGrows DEF Inv
  <2> HIDE DEF n
  <2>2. Past'
    <3> SUFFICES ASSUME NEW j \in DOMAIN handed', NEW a \in DOMAIN handed'[j].message
                 PROVE  LET x == handed'[j].message[a]
                        IN /\ x.of <= arrived
                           /\ \A t \in Session : x.of = request[t] => x.at <= received'[t]
      BY <1>1, <1>14 DEF Past
    <3>1. CASE j \in DOMAIN handed
      BY <1>2, <1>4, <1>8, <1>16, <2>1, <3>1
    <3>2. CASE j = n
      <4>1. /\ handed'[j].message[a].of = request[s]
            /\ handed'[j].message[a].at <= received[s] + len
        BY <1>2, <1>4, <1>6, <2>1, <3>2
      <4> QED
        BY <1>8, <1>11, <4>1
    <3> QED
      BY <2>1, <3>1, <3>2
  <2>3. BytesInOrderOnce'
    <3>1. InOrder(h.message)
      BY <1>2, <1>4, <1>6 DEF InOrder
    <3>2. \A j \in DOMAIN handed : \A a \in DOMAIN handed[j].message, b \in DOMAIN h.message :
            handed[j].message[a].of = h.message[b].of
              => handed[j].message[a].at < h.message[b].at
      BY <1>2, <1>4, <1>6, <1>16
    <3> QED
      BY <1>3, <1>18, <3>1, <3>2, OrderGrows
  <2> QED
    BY <1>10, <1>12, <1>13, <1>15, <2>2, <2>3 DEF Inv
<1> QED
  BY <1>1, <1>17, <1>18

-----------------------------------------------------------------------------
LEMMA NextPreserves == Inv /\ [Next]_vars => Inv'
<1> SUFFICES ASSUME Inv, [Next]_vars PROVE Inv'
  OBVIOUS
<1>1. CASE UNCHANGED vars
  BY <1>1 DEF vars, Inv, TypeOK, Carried, Collected, EndsWith, Own, InOrder, Past,
     HandedWhole, RefusedForGood, BytesInOrderOnce
<1>2. ASSUME NEW s \in Session,
             Begin(s) \/ Disconnect(s) \/ HttpBodyCompletion(s) \/ HttpBodyNoMemory(s)
               \/ EchoEnd(s)
      PROVE  Inv'
  BY <1>2, BeginPreserves, DisconnectPreserves, HttpBodyCompletionPreserves,
     HttpBodyNoMemoryPreserves, EchoEndPreserves
<1>3. ASSUME NEW s \in Session, NEW len \in 1 .. MaxBody,
             HttpBody(s, len) \/ HttpBodyTooLarge(s, len) \/ EchoReceive(s, len)
      PROVE  Inv'
  BY <1>3, HttpBodyPreserves, HttpBodyTooLargePreserves, EchoReceivePreserves
<1> QED
  BY <1>1, <1>2, <1>3 DEF Next

(* What the sessions, the payloads and the refused requests have to do     *)
(* with each other in every reachable state.                               *)
THEOREM Invariance == Spec => []Inv
BY InitInv, NextPreserves, PTL DEF Spec

(* Every variable keeps its type, and a session leaves the last byte of    *)
(* its buffer free (callback_http, ut_control_plane.c:323).                *)
THEOREM TypeCorrect == Spec => []TypeOK
<1>1. Inv => TypeOK
  BY DEF Inv
<1> QED
  BY <1>1, Invariance, PTL

(* Every payload of callback_http is the whole body of one request, behind *)
(* what a failed malloc has left if one did; a request that is refused had *)
(* too many bytes and is never handed over.                                *)
THEOREM BodyWholeOrRefusedAlways == Spec => []BodyWholeOrRefused
<1>1. Inv => BodyWholeOrRefused
  <2> SUFFICES ASSUME Inv, server = "http" PROVE BodyWholeOrRefused
    BY DEF BodyWholeOrRefused
  <2>1. ASSUME NEW j \in DOMAIN handed
        PROVE  LET h == handed[j]
                   front == Len(h.message) - h.size
               IN /\ Len(h.message) >= h.size
                  /\ SubSeq(h.message, front + 1, Len(h.message)) = Bytes(h.request, 1, h.size)
                  /\ h.clean => front = 0
                  /\ \A x \in refused : x.request # h.request
    <3> DEFINE m == handed[j].message
               r == handed[j].request
               size == handed[j].size
               front == Len(m) - size
    <3>1. /\ m \in Seq(Byte) /\ Len(m) \in Nat /\ size \in Nat /\ r \in Request
          /\ DOMAIN m = 1 .. Len(m)
      BY ElementTypes DEF Inv
    <3>2. /\ size <= Len(m)
          /\ \A k \in 1 .. size : m[front + k] = [of |-> r, at |-> k]
          /\ handed[j].clean => Len(m) = size
          /\ \A x \in refused : x.request # r
      BY DEF Inv, HandedWhole, EndsWith
    <3> HIDE DEF m, r, size
    <3>3. SubSeq(m, front + 1, Len(m)) = [k \in 1 .. size |-> m[front + k]]
      <4>1. 1 .. Len(m) + 1 - (front + 1) = 1 .. size
        BY <3>1
      <4>2. SubSeq(m, front + 1, Len(m))
              = [k \in 1 .. Len(m) + 1 - (front + 1) |-> m[k + (front + 1) - 1]]
        BY <3>1
      <4>3. \A k \in 1 .. size : k + (front + 1) - 1 = front + k
        BY <3>1
      <4> QED
        BY <4>1, <4>2, <4>3
    <3>4. Bytes(r, 1, size) = [k \in 1 .. size |-> [of |-> r, at |-> k]]
      BY <3>1 DEF Bytes
    <3>5. SubSeq(m, front + 1, Len(m)) = Bytes(r, 1, size)
      BY <3>2, <3>3, <3>4
    <3> QED
      BY <3>1, <3>2, <3>5 DEF m, r, size
  <2> QED
    BY <2>1 DEF Inv, RefusedForGood, BodyWholeOrRefused
<1> QED
  BY <1>1, Invariance, PTL

(* No byte of a request is handed over twice, nor before one in front of   *)
(* it, in either build.                                                    *)
THEOREM BytesInOrderOnceAlways == Spec => []BytesInOrderOnce
<1>1. Inv => BytesInOrderOnce
  BY DEF Inv
<1> QED
  BY <1>1, Invariance, PTL
=============================================================================
