------------------------- MODULE SerialClientsProofs -------------------------
(***************************************************************************)
(* Proofs about SocketConnections for clients that subscribe under an id   *)
(* only when their requests on it are answered, and may close at any time, *)
(* among any number of clients that pipeline, and about the manager's      *)
(* connections.                                                            *)
(***************************************************************************)
EXTENDS SocketConnectionsProofs

USE RequestAssumption

Serial(r) == r.sock \notin Pipelining
SameId(q, r) == q.sock = r.sock /\ q.id = r.id

\* While a subscribe is in service its id has no other subscribe and no close,
OneAwaiting ==
    \A q, r \in Request :
        /\ SameId(q, r) /\ Serial(q)
        /\ q.kind = "subscribe" /\ phase[q] \in {"dwn", "opened"}
        /\ r.kind # "process" /\ phase[r] \in Awaiting
        => q = r

\* and a request came over a connection.
FromSocket ==
    /\ \A s \in attached : sock[s] # "none"
    /\ \A r \in Request : phase[r] # "unsent" => sock[r.sock] # "none"

\* While a subscription is being opened its id is free, in the Map and on the
\* DWN's event stream.
FreeId ==
    \A r \in Request :
        /\ Serial(r) /\ r.kind = "subscribe"
        /\ phase[r] \in {"dwn", "opened"}
        => /\ subscriptions[r.sock][r.id] = Nil
           /\ \A h \in Request : SameId(h, r) /\ stream[h] = "open" => h = r

\* While a close request waits nothing new comes under its id.
ClosesOwn ==
    \A c \in Request :
        Serial(c) /\ phase[c] \in {"closing", "streamClosed"}
            => subscriptions[c.sock][c.id] \in {handle[c], Nil}

\* What runs was not refused, and the Map of a connection in service holds it,
\* also when its close() has failed.
OpenIsKept ==
    \A h \in Request : Serial(h) /\ stream[h] = "open" =>
        /\ phase[h] # "InternalError"
        /\ h.sock \in attached /\ phase[h] = "subscribed"
              => subscriptions[h.sock][h.id] = h

SerialInv == /\ OneAwaiting /\ FromSocket /\ FreeId /\ ClosesOwn /\ OpenIsKept
             /\ RunningIsReachable /\ OneStreamPerId

------------------------------------------------------------------------------
(* Messages                                                                *)

\* A request whose handling ends without a change of what connections hold.
Retires(r, p) ==
    /\ Become(r, p)
    /\ phase[r] \in {"unsent", "dwn", "opened", "closing"}
    /\ Serial(r) => phase[r] # "opened"
    /\ p \notin Awaiting \cup {"unsent", "subscribed"}
    /\ sock[r.sock] # "none"
    /\ UNCHANGED <<connVars, handle, stream>>

LEMMA RetireStep ==
    ASSUME TypeOK, Sound, SerialInv, NEW r \in Request, NEW p, Retires(r, p)
    PROVE  SerialInv'
<1>1. /\ phase'[r] = p
      /\ \A q \in Request : q # r => phase'[q] = phase[q]
      /\ UNCHANGED <<sock, attached, subscriptions, closers, handle, stream>>
  BY DEF Retires, Become, TypeOK, connVars
<1>2. p \notin Awaiting \cup {"unsent", "subscribed"} /\ sock[r.sock] # "none"
  BY DEF Retires
<1>3. Serial(r) => stream[r] # "open"
  BY DEF Retires, Sound, Agree, PhasesAgree
<1>4. OneAwaiting'
  BY <1>1, <1>2 DEF SerialInv, OneAwaiting, Serial, SameId, Awaiting
<1>5. FromSocket'
  BY <1>1, <1>2 DEF SerialInv, FromSocket
<1>6. FreeId'
  BY <1>1, <1>2 DEF SerialInv, FreeId, Serial, SameId, Awaiting
<1>7. ClosesOwn'
  BY <1>1, <1>2 DEF SerialInv, ClosesOwn, Serial, Awaiting
<1>8. OpenIsKept'
  BY <1>1, <1>2, <1>3 DEF SerialInv, OpenIsKept, Serial
<1>9. RunningIsReachable'
  BY <1>1, <1>2, <1>3
     DEF SerialInv, RunningIsReachable, Serial, Registered, Closing
<1>10. OneStreamPerId'
  BY <1>1 DEF SerialInv, OneStreamPerId
<1>. QED  BY <1>4, <1>5, <1>6, <1>7, <1>8, <1>9, <1>10 DEF SerialInv

LEMMA HandleSerial ==
    ASSUME TypeOK, Sound, SerialInv, NEW r \in Request, Handle(r)
    PROVE  SerialInv'
<1>1. /\ phase[r] = "unsent" /\ stream[r] = "none"
      /\ r.sock \in attached
      /\ Serial(r) /\ r.kind = "subscribe" => IdIsQuiet(r)
  BY DEF Handle, RefuseMessage, RouteFails, Process, Subscribe, CloseFound,
         CloseNotFound, Receives, Sound, Agree, PhasesAgree, Serial
<1>2. sock[r.sock] # "none"
  BY <1>1 DEF SerialInv, FromSocket
<1>3. CASE RefuseMessage(r)
  <2>1. PICK k \in DOMAIN Refusal : Become(r, Refusal[k])
    BY <1>3 DEF RefuseMessage
  <2>2. Retires(r, Refusal[k])
    BY <1>1, <1>2, <1>3, <2>1 DEF RefuseMessage, Retires, Refusal, Awaiting
  <2>. QED  BY <2>2, RetireStep
<1>4. CASE RouteFails(r)
  <2>1. Retires(r, "threw")
    BY <1>1, <1>2, <1>4 DEF RouteFails, Retires, Awaiting
  <2>. QED  BY <2>1, RetireStep
<1>5. CASE CloseNotFound(r)
  <2>1. Retires(r, "InvalidParams")
    BY <1>1, <1>2, <1>5 DEF CloseNotFound, Retires, Awaiting
  <2>. QED  BY <2>1, RetireStep
<1>6. CASE Subscribe(r) /\ hasSubscription(r.sock, r.id)
  <2>1. Retires(r, "InvalidParams")
    BY <1>1, <1>2, <1>6 DEF Subscribe, Retires, Awaiting
  <2>. QED  BY <2>1, RetireStep
<1>7. CASE \/ Process(r) \/ CloseFound(r)
           \/ Subscribe(r) /\ ~hasSubscription(r.sock, r.id)
  <2>1. /\ UNCHANGED <<sock, attached, subscriptions, closers, stream>>
        /\ \A q \in Request : q # r => /\ phase'[q] = phase[q]
                                       /\ handle'[q] = handle[q]
    BY <1>7 DEF Process, CloseFound, Subscribe, Become, TypeOK, connVars
  <2>2. \/ phase'[r] = "dwn" /\ r.kind = "process"
        \/ /\ phase'[r] = "dwn" /\ r.kind = "subscribe"
           /\ subscriptions[r.sock][r.id] = Nil
        \/ /\ phase'[r] = "closing" /\ r.kind = "close"
           /\ handle'[r] = subscriptions[r.sock][r.id]
           /\ subscriptions[r.sock][r.id] # Nil
    BY <1>7 DEF Process, CloseFound, Subscribe, Receives, Become, TypeOK,
                hasSubscription
  <2>3. OneAwaiting'
    <3>1. ASSUME NEW q \in Request, q # r, SameId(q, r), Serial(q),
                 q.kind = "subscribe", phase[q] \in {"dwn", "opened"}
          PROVE  r.kind = "process"
      BY <1>1, <2>2, <3>1
         DEF SerialInv, FreeId, IdIsQuiet, Awaiting, Serial, SameId
    <3>2. ASSUME NEW q \in Request, q # r, SameId(q, r), Serial(r),
                 r.kind = "subscribe"
          PROVE  phase[q] \notin Awaiting
      BY <1>1, <3>2 DEF IdIsQuiet, SameId
    <3>. QED
      BY <2>1, <3>1, <3>2 DEF SerialInv, OneAwaiting, Serial, SameId
  <2>4. FromSocket'
    BY <1>2, <2>1 DEF SerialInv, FromSocket
  <2>5. ASSUME Serial(r), phase'[r] = "dwn", r.kind = "subscribe",
               NEW h \in Request, SameId(h, r), stream[h] = "open"
        PROVE  FALSE
    <3>1. phase[h] \notin Awaiting /\ Serial(h)
      BY <1>1, <2>5 DEF IdIsQuiet, SameId, Serial
    <3>2. phase[h] \in {"subscribed", "InternalError"} /\ h.sock \in attached
      BY <1>1, <2>5, <3>1 DEF Sound, Agree, PhasesAgree, Awaiting, SameId
    <3>3. subscriptions[h.sock][h.id] = h
      BY <2>5, <3>1, <3>2 DEF SerialInv, OpenIsKept
    <3>. QED  BY <2>2, <2>5, <3>3 DEF SameId
  <2>6. FreeId'
    BY <2>1, <2>2, <2>5 DEF SerialInv, FreeId, Serial, SameId
  <2>7. ClosesOwn'
    BY <2>1, <2>2 DEF SerialInv, ClosesOwn, Serial
  <2>8. OpenIsKept'
    BY <1>1, <2>1 DEF SerialInv, OpenIsKept, Serial
  <2>9. RunningIsReachable'
    BY <1>1, <2>1 DEF SerialInv, RunningIsReachable, Registered, Closing
  <2>10. OneStreamPerId'
    BY <2>1 DEF SerialInv, OneStreamPerId
  <2>. QED  BY <2>3, <2>4, <2>6, <2>7, <2>8, <2>9, <2>10 DEF SerialInv
<1>. QED  BY <1>3, <1>4, <1>5, <1>6, <1>7 DEF Handle

LEMMA DwnSerial ==
    ASSUME TypeOK, Sound, SerialInv, NEW r \in Request, Dwn(r)
    PROVE  SerialInv'
<1>1. phase[r] \in {"dwn", "closing"} /\ sock[r.sock] # "none"
  BY DEF Dwn, DwnOpens, DwnReplies, DwnThrows, StreamCloses, StreamCloseFails,
         SerialInv, FromSocket
<1>2. CASE DwnReplies(r)
  <2>1. Retires(r, "ok")
    BY <1>1, <1>2 DEF DwnReplies, Retires, Awaiting
  <2>. QED  BY <2>1, RetireStep
<1>3. CASE DwnThrows(r) \/ StreamCloseFails(r)
  <2>1. Retires(r, "InternalError")
    BY <1>1, <1>3 DEF DwnThrows, StreamCloseFails, Retires, Awaiting
  <2>. QED  BY <2>1, RetireStep
<1>4. CASE DwnOpens(r)
  <2>1. /\ UNCHANGED <<sock, attached, subscriptions, closers, handle>>
        /\ phase[r] = "dwn" /\ r.kind = "subscribe"
        /\ phase'[r] = "opened" /\ stream'[r] = "open"
        /\ \A q \in Request : q # r => /\ phase'[q] = phase[q]
                                       /\ stream'[q] = stream[q]
    BY <1>4 DEF DwnOpens, Become, TypeOK, connVars
  <2>2. OneAwaiting'
    BY <2>1 DEF SerialInv, OneAwaiting, Serial, SameId, Awaiting
  <2>3. FromSocket'
    BY <1>1, <2>1 DEF SerialInv, FromSocket
  <2>4. FreeId'
    BY <2>1
       DEF SerialInv, FreeId, OneAwaiting, Serial, SameId, Awaiting
  <2>5. ClosesOwn'
    BY <2>1 DEF SerialInv, ClosesOwn, Serial
  <2>6. OpenIsKept'
    BY <2>1 DEF SerialInv, OpenIsKept, Serial
  <2>7. RunningIsReachable'
    BY <2>1 DEF SerialInv, RunningIsReachable, Registered, Closing
  <2>8. OneStreamPerId'
    BY <2>1 DEF SerialInv, OneStreamPerId, FreeId, Serial, SameId
  <2>. QED  BY <2>2, <2>3, <2>4, <2>5, <2>6, <2>7, <2>8 DEF SerialInv
<1>5. CASE StreamCloses(r)
  <2>1. /\ UNCHANGED <<sock, attached, subscriptions, closers, handle>>
        /\ phase[r] = "closing" /\ phase'[r] = "streamClosed"
        /\ \A q \in Request : /\ q # r => phase'[q] = phase[q]
                              /\ stream'[q] = "open" => stream[q] = "open"
    BY <1>5 DEF StreamCloses, Become, TypeOK, connVars
  <2>2. OneAwaiting'
    BY <2>1 DEF SerialInv, OneAwaiting, Serial, SameId, Awaiting
  <2>3. FromSocket'
    BY <1>1, <2>1 DEF SerialInv, FromSocket
  <2>4. FreeId'
    BY <2>1 DEF SerialInv, FreeId, Serial, SameId
  <2>5. ClosesOwn'
    BY <2>1 DEF SerialInv, ClosesOwn, Serial
  <2>6. OpenIsKept'
    BY <2>1 DEF SerialInv, OpenIsKept, Serial
  <2>7. RunningIsReachable'
    BY <2>1 DEF SerialInv, RunningIsReachable, Registered, Closing
  <2>8. OneStreamPerId'
    BY <2>1 DEF SerialInv, OneStreamPerId
  <2>. QED  BY <2>2, <2>3, <2>4, <2>5, <2>6, <2>7, <2>8 DEF SerialInv
<1>. QED  BY <1>2, <1>3, <1>4, <1>5 DEF Dwn

LEMMA ResumeSerial ==
    ASSUME TypeOK, Sound, SerialInv, NEW r \in Request, Resume(r)
    PROVE  SerialInv'
<1>1. phase[r] \in {"opened", "streamClosed"} /\ sock[r.sock] # "none"
  BY DEF Resume, AddSubscription, AddSubscriptionThrows, DeleteSubscription,
         SerialInv, FromSocket
<1>2. phase[r] = "opened" => r.kind = "subscribe"
  BY DEF Sound, Agree, PhasesAgree
<1>3. CASE AddSubscriptionThrows(r)
  <2>1. ~Serial(r)
    BY <1>2, <1>3
       DEF AddSubscriptionThrows, hasSubscription, SerialInv, FreeId
  <2>2. Retires(r, "InternalError")
    BY <1>1, <1>3, <2>1 DEF AddSubscriptionThrows, Retires, Awaiting
  <2>. QED  BY <2>2, RetireStep
<1>4. CASE AddSubscription(r)
  <2>1. /\ UNCHANGED <<sock, attached, closers, handle, stream>>
        /\ phase[r] = "opened" /\ phase'[r] = "subscribed"
        /\ subscriptions[r.sock][r.id] = Nil
        /\ subscriptions'[r.sock][r.id] = r
        /\ \A q \in Request : q # r => phase'[q] = phase[q]
        /\ \A s \in Socket, i \in SubId :
              s # r.sock \/ i # r.id => subscriptions'[s][i] = subscriptions[s][i]
    BY <1>4, RequestFields
       DEF AddSubscription, hasSubscription, Become, TypeOK
  <2>2. OneAwaiting'
    BY <2>1 DEF SerialInv, OneAwaiting, Serial, SameId, Awaiting
  <2>3. FromSocket'
    BY <1>1, <2>1 DEF SerialInv, FromSocket
  <2>4. \A q \in Request :
            q # r /\ Serial(q) /\ q.kind # "process" /\ phase[q] \in Awaiting =>
                subscriptions'[q.sock][q.id] = subscriptions[q.sock][q.id]
    BY <1>2, <2>1, RequestFields
       DEF SerialInv, OneAwaiting, Serial, SameId, Awaiting
  <2>5. FreeId'
    BY <2>1, <2>4 DEF SerialInv, FreeId, Serial, SameId, Awaiting
  <2>6. ClosesOwn'
    BY <2>1, <2>4
       DEF SerialInv, ClosesOwn, Serial, Awaiting, Sound, Agree, PhasesAgree
  <2>7. OpenIsKept'
    BY <2>1, RequestFields
       DEF SerialInv, OpenIsKept, Serial
  <2>8. \A h \in Request :
            h # r /\ h \in Registered(h.sock) => h \in Registered(h.sock)'
    BY <2>1, RequestFields DEF Registered
  <2>9. r \in Registered(r.sock)'
    BY <2>1, RequestFields DEF Registered
  <2>10. RunningIsReachable'
    BY <2>1, <2>8, <2>9 DEF SerialInv, RunningIsReachable, Closing
  <2>11. OneStreamPerId'
    BY <2>1 DEF SerialInv, OneStreamPerId
  <2>. QED  BY <2>2, <2>3, <2>5, <2>6, <2>7, <2>10, <2>11 DEF SerialInv
<1>5. CASE DeleteSubscription(r)
  <2>1. /\ UNCHANGED <<sock, attached, closers, handle, stream>>
        /\ phase[r] = "streamClosed" /\ phase'[r] = "ok"
        /\ \A q \in Request : q # r => phase'[q] = phase[q]
        /\ subscriptions'[r.sock][r.id] = Nil
        /\ \A s \in Socket, i \in SubId :
              s # r.sock \/ i # r.id => subscriptions'[s][i] = subscriptions[s][i]
    BY <1>5, RequestFields DEF DeleteSubscription, Become, TypeOK
  <2>2. Serial(r) => /\ subscriptions[r.sock][r.id] \in {handle[r], Nil}
                     /\ stream[handle[r]] = "closed"
    BY <2>1 DEF SerialInv, ClosesOwn, Sound, Agree, HandlesAgree, Found
  <2>3. OneAwaiting'
    BY <2>1 DEF SerialInv, OneAwaiting, Serial, SameId, Awaiting
  <2>4. FromSocket'
    BY <1>1, <2>1 DEF SerialInv, FromSocket
  <2>5. FreeId'
    BY <2>1, RequestFields DEF SerialInv, FreeId, Serial, SameId
  <2>6. ClosesOwn'
    BY <2>1, RequestFields DEF SerialInv, ClosesOwn, Serial
  <2>7. \A h \in Request : Serial(h) /\ stream[h] = "open"
                              /\ subscriptions[h.sock][h.id] = h
            => subscriptions'[h.sock][h.id] = h
    BY <2>1, <2>2, RequestFields DEF Serial
  <2>8. OpenIsKept'
    BY <2>1, <2>7 DEF SerialInv, OpenIsKept, Serial
  <2>9. \A h \in Request : h \in Registered(h.sock)
                              => subscriptions[h.sock][h.id] = h
    BY RequestFields DEF Registered, Sound, RegistryIsSound, TypeOK
  <2>10. \A h \in Request : subscriptions'[h.sock][h.id] = h
                              => h \in Registered(h.sock)'
    BY RequestFields DEF Registered
  <2>11. RunningIsReachable'
    BY <2>1, <2>7, <2>9, <2>10
       DEF SerialInv, RunningIsReachable, Serial, Closing
  <2>12. OneStreamPerId'
    BY <2>1 DEF SerialInv, OneStreamPerId
  <2>. QED  BY <2>3, <2>4, <2>5, <2>6, <2>8, <2>11, <2>12 DEF SerialInv
<1>. QED  BY <1>3, <1>4, <1>5 DEF Resume

------------------------------------------------------------------------------
(* Connections                                                             *)

LEMMA CloseConnectionsSerial ==
    ASSUME TypeOK, Sound, SerialInv, NEW S \in SUBSET Socket,
           NEW down \in SUBSET Socket, CloseConnections(S, down),
           UNCHANGED <<phase, handle, stream>>
    PROVE  SerialInv'
<1>1. /\ attached' = attached \ S
      /\ \A s \in Socket : sock[s] # "none" => sock'[s] # "none"
      /\ \A s \in Socket, i \in SubId :
            subscriptions'[s][i] = IF s \in S THEN Nil ELSE subscriptions[s][i]
  BY DEF CloseConnections, TypeOK
<1>2. OneAwaiting'
  BY DEF SerialInv, OneAwaiting, Serial, SameId
<1>3. FromSocket'
  BY <1>1, RequestFields DEF SerialInv, FromSocket, TypeOK
<1>4. FreeId'
  BY <1>1, RequestFields DEF SerialInv, FreeId, Serial, SameId
<1>5. ClosesOwn'
  BY <1>1, RequestFields DEF SerialInv, ClosesOwn, Serial
<1>6. OpenIsKept'
  BY <1>1, RequestFields DEF SerialInv, OpenIsKept, Serial
<1>7. ASSUME NEW h \in Request, h \in Registered(h.sock)
      PROVE  h \in Registered(h.sock)' \/ Closing(h)'
  <2>1. CASE h.sock \in S
    <3>1. h.sock \in Busy(S) /\ h \in Collect(h.sock)
      BY <1>7, <2>1 DEF Busy, Collect
    <3>2. [waits |-> Collect(h.sock), ok |-> TRUE] \in closers'[h.sock]
      BY <3>1, RequestFields DEF CloseConnections, TypeOK
    <3>. QED  BY <3>1, <3>2 DEF Closing
  <2>2. CASE h.sock \notin S
    BY <1>1, <1>7, <2>2, RequestFields DEF Registered
  <2>. QED  BY <2>1, <2>2
<1>8. \A h \in Request : Closing(h) => Closing(h)'
  BY RequestFields DEF Closing, CloseConnections, TypeOK
<1>9. RunningIsReachable'
  BY <1>7, <1>8 DEF SerialInv, RunningIsReachable
<1>10. OneStreamPerId'
  BY DEF SerialInv, OneStreamPerId
<1>. QED  BY <1>2, <1>3, <1>4, <1>5, <1>6, <1>9, <1>10 DEF SerialInv

LEMMA SettleSerial ==
    ASSUME TypeOK, Sound, SerialInv, NEW s \in Socket, NEW c \in closers[s],
           NEW h \in c.waits, AwaitedCloses(s, c, h) \/ AwaitedCloseFails(s, c, h)
    PROVE  SerialInv'
<1>1. c \in Closer /\ h \in Request
  BY DEF TypeOK, Closer
<1>2. PICK ok \in BOOLEAN : Settle(s, c, h, ok)
  BY <1>1 DEF AwaitedCloses, AwaitedCloseFails, Closer
<1>3. /\ UNCHANGED <<attached, subscriptions, phase, handle>>
      /\ \A t \in Socket : sock[t] # "none" => sock'[t] # "none"
      /\ \A q \in Request : /\ stream'[q] = "open" => stream[q] = "open"
                            /\ q # h => stream'[q] = stream[q]
      /\ h \in Faulty \/ stream'[h] # "open"
  BY <1>1 DEF AwaitedCloses, AwaitedCloseFails, TypeOK
<1>4. \A q \in Request : q # h /\ Closing(q) => Closing(q)'
  <2>. SUFFICES ASSUME NEW q \in Request, q # h, Closing(q)
                PROVE  Closing(q)'
    OBVIOUS
  <2>1. PICK d \in closers[q.sock] : q \in d.waits
    BY DEF Closing
  <2>2. CASE d \in closers'[q.sock]
    BY <2>1, <2>2 DEF Closing
  <2>3. CASE d \notin closers'[q.sock]
    <3>1. q.sock = s /\ d = c
      BY <1>2, <2>1, <2>3, RequestFields DEF Settle, TypeOK
    <3>2. [waits |-> c.waits \ {h}, ok |-> ok] \in closers'[s]
      <4>1. [waits |-> c.waits \ {h}, ok |-> ok] \in Closer
        BY <1>1, <2>1, <3>1 DEF Closer
      <4>2. closers'[s] = (closers[s] \ {c}) \cup
                            ({[waits |-> c.waits \ {h}, ok |-> ok]} \cap Closer)
        BY <1>2 DEF Settle, TypeOK
      <4>. QED  BY <4>1, <4>2
    <3>. QED  BY <2>1, <3>1, <3>2 DEF Closing
  <2>. QED  BY <2>2, <2>3
<1>5. OneAwaiting'
  BY <1>3 DEF SerialInv, OneAwaiting, Serial, SameId
<1>6. FromSocket'
  BY <1>3, RequestFields DEF SerialInv, FromSocket, TypeOK
<1>7. FreeId'
  BY <1>3 DEF SerialInv, FreeId, Serial, SameId
<1>8. ClosesOwn'
  BY <1>3 DEF SerialInv, ClosesOwn, Serial
<1>9. OpenIsKept'
  BY <1>3 DEF SerialInv, OpenIsKept, Serial
<1>10. RunningIsReachable'
  BY <1>3, <1>4 DEF SerialInv, RunningIsReachable, Registered
<1>11. OneStreamPerId'
  BY <1>3 DEF SerialInv, OneStreamPerId
<1>. QED  BY <1>5, <1>6, <1>7, <1>8, <1>9, <1>10, <1>11 DEF SerialInv

\* What the invariant depends on, but for the sockets.
LEMMA SerialUnchanged ==
    ASSUME SerialInv, FromSocket', UNCHANGED <<held, attached>>
    PROVE  SerialInv'
BY DEF held, SerialInv, OneAwaiting, FreeId, ClosesOwn, OpenIsKept,
       RunningIsReachable, OneStreamPerId, Serial, SameId, Registered, Closing

LEMMA ConnectSerial ==
    ASSUME TypeOK, Sound, SerialInv, NEW s \in Socket, Connect(s)
    PROVE  SerialInv'
<1>1. /\ sock[s] = "none" /\ attached' = attached \cup {s}
      /\ sock' = [sock EXCEPT ![s] = "open"]
      /\ UNCHANGED held
  BY DEF Connect, held
<1>2. FromSocket'
  BY <1>1, RequestFields DEF SerialInv, FromSocket, TypeOK, held
<1>3. \A r \in Request : r.sock = s => phase[r] = "unsent" /\ stream[r] = "none"
  BY <1>1 DEF SerialInv, FromSocket, Sound, Agree, PhasesAgree
<1>4. OpenIsKept'
  BY <1>1, <1>3 DEF SerialInv, OpenIsKept, Serial, held
<1>. QED
  BY <1>1, <1>2, <1>4
     DEF held, SerialInv, OneAwaiting, FreeId, ClosesOwn, RunningIsReachable,
         OneStreamPerId, Serial, SameId, Registered, Closing

LEMMA ConnectionSerial ==
    ASSUME TypeOK, Sound, SerialInv, NEW s \in Socket, Connection(s)
    PROVE  SerialInv'
<1>. {s} \in SUBSET Socket /\ {} \in SUBSET Socket
  OBVIOUS
<1>1. CASE Connect(s)
  BY <1>1, ConnectSerial
<1>2. CASE \/ Pong(s) \/ PeerGoesSilent(s) \/ PeerClosesUnheard(s)
           \/ Heartbeat(s) /\ isAlive[s]
  <2>1. FromSocket'
    BY <1>2, RequestFields
       DEF Pong, PeerGoesSilent, PeerClosesUnheard, Heartbeat, SerialInv,
           FromSocket, TypeOK
  <2>. QED
    BY <1>2, <2>1, SerialUnchanged
       DEF Pong, PeerGoesSilent, PeerClosesUnheard, Heartbeat, held
<1>3. CASE Heartbeat(s) /\ ~isAlive[s]
  BY <1>3, CloseConnectionsSerial DEF Heartbeat
<1>4. CASE PeerCloses(s) \/ SocketError(s)
  BY <1>4, CloseConnectionsSerial DEF PeerCloses, SocketError
<1>5. CASE ConnectionStreams(s)
  BY <1>5, SettleSerial DEF ConnectionStreams
<1>. QED  BY <1>1, <1>2, <1>3, <1>4, <1>5 DEF Connection

LEMMA NextSerial == TypeOK /\ Sound /\ SerialInv /\ [Next]_vars => SerialInv'
<1>. SUFFICES ASSUME TypeOK, Sound, SerialInv, [Next]_vars PROVE SerialInv'
  OBVIOUS
<1>1. CASE \E r \in Request : Handle(r) \/ Dwn(r) \/ Resume(r)
  BY <1>1, HandleSerial, DwnSerial, ResumeSerial
<1>2. CASE \E s \in Socket : Connection(s)
  BY <1>2, ConnectionSerial
<1>3. CASE WsApiClose \/ WsServerClosed
  <2>1. connections \in SUBSET Socket /\ {} \in SUBSET Socket
    BY DEF TypeOK
  <2>. QED  BY <1>3, <2>1, CloseConnectionsSerial DEF WsApiClose, WsServerClosed
<1>4. CASE UNCHANGED vars
  <2>1. FromSocket'
    BY <1>4 DEF vars, SerialInv, FromSocket
  <2>. QED  BY <1>4, <2>1, SerialUnchanged DEF vars, held
<1>. QED  BY <1>1, <1>2, <1>3, <1>4 DEF Next

LEMMA SerialHolds == Spec => []SerialInv
<1>1. Init => SerialInv
  BY DEF Init, SerialInv, OneAwaiting, FromSocket, FreeId, ClosesOwn,
         OpenIsKept, RunningIsReachable, OneStreamPerId, Awaiting
<1>. QED  BY <1>1, NextSerial, Typing, SoundInvariant, PTL DEF Spec

\* A subscription that runs is not forgotten, for clients that subscribe under a
\* quiet id, whatever other clients pipeline and whichever streams fail.
THEOREM Reachable == Spec => []RunningIsReachable
BY SerialHolds, PTL DEF SerialInv

\* For such a client an id never has two subscriptions, also when streams fail
\* to close.
THEOREM OneStream == Spec => []OneStreamPerId
BY SerialHolds, PTL DEF SerialInv

\* The comment in process-message.ts is true when all clients do: a subscribe
\* that is refused leaves no subscription open.
THEOREM Refused == ASSUME Pipelining = {} PROVE Spec => []RefusedIsNotOpen
<1>1. SerialInv => RefusedIsNotOpen
  BY DEF SerialInv, OpenIsKept, Serial, RefusedIsNotOpen
<1>. QED  BY <1>1, SerialHolds, PTL

------------------------------------------------------------------------------
(* The manager's connections                                               *)

\* What keeps a connection in the manager.
Waits(s) == s \in attached \/ closers[s] # {}

LEMMA CloseConnectionsWaits ==
    ASSUME TypeOK, NoZombie, NEW S \in SUBSET Socket,
           NEW down \in SUBSET Socket, CloseConnections(S, down)
    PROVE  NoZombie'
<1>. SUFFICES ASSUME NEW s \in connections' PROVE Waits(s)'
  BY DEF NoZombie, Waits
<1>1. s \in connections /\ s \in Socket /\ s \notin S \ Busy(S)
  BY DEF CloseConnections, onClose, TypeOK
<1>2. CASE s \in S
  <2>1. [waits |-> Collect(s), ok |-> TRUE] \in closers'[s]
    BY <1>1, <1>2 DEF CloseConnections
  <2>. QED  BY <2>1 DEF Waits
<1>3. CASE s \notin S
  <2>1. /\ s \in attached => s \in attached'
        /\ closers'[s] = closers[s]
    BY <1>1, <1>3 DEF CloseConnections, Busy
  <2>2. Waits(s)
    BY <1>1 DEF NoZombie, Waits
  <2>. QED  BY <2>1, <2>2 DEF Waits
<1>. QED  BY <1>2, <1>3

\* A close() of s is gone from its closers only when it has resolved, and then
\* onClose has run.
LEMMA SettleWaits ==
    ASSUME TypeOK, NoZombie, NEW s \in Socket, NEW c \in closers[s],
           NEW h \in c.waits, AwaitedCloses(s, c, h) \/ AwaitedCloseFails(s, c, h)
    PROVE  NoZombie'
<1>. SUFFICES ASSUME NEW t \in connections' PROVE Waits(t)'
  BY DEF NoZombie, Waits
<1>1. t \in connections /\ t \in Socket /\ UNCHANGED attached
  BY DEF AwaitedCloses, AwaitedCloseFails, onClose, TypeOK
<1>2. Waits(t)
  BY <1>1 DEF NoZombie, Waits
<1>3. CASE t # s
  <2>1. closers'[t] = closers[t]
    BY <1>1, <1>3 DEF AwaitedCloses, AwaitedCloseFails, Settle, TypeOK
  <2>. QED  BY <1>1, <1>2, <2>1 DEF Waits
<1>4. CASE t = s
  <2>1. c \in Closer
    BY DEF TypeOK
  <2>2. PICK ok \in BOOLEAN :
           /\ Settle(s, c, h, ok)
           /\ c.waits \ {h} = {} => ~ok
    <3>1. CASE AwaitedCloses(s, c, h)
      <4>1. c.ok \in BOOLEAN /\ Settle(s, c, h, c.ok)
        BY <2>1, <3>1 DEF AwaitedCloses, Closer
      <4>2. c.waits \ {h} = {} => ~c.ok
        <5>1. ~(c.ok /\ c.waits = {h})
          BY <1>4, <3>1 DEF AwaitedCloses, onClose
        <5>. QED  BY <5>1
      <4>. QED  BY <4>1, <4>2
    <3>2. CASE AwaitedCloseFails(s, c, h)
      BY <3>2 DEF AwaitedCloseFails
    <3>. QED  BY <3>1, <3>2
  <2>3. [waits |-> c.waits \ {h}, ok |-> ok] \in Closer
    BY <2>1, <2>2 DEF Closer
  <2>4. [waits |-> c.waits \ {h}, ok |-> ok] \in closers'[s]
    BY <2>2, <2>3 DEF Settle, TypeOK
  <2>. QED  BY <1>4, <2>4 DEF Waits
<1>. QED  BY <1>3, <1>4

LEMMA MessageWaits ==
    ASSUME NoZombie, NEW r \in Request, Handle(r) \/ Dwn(r) \/ Resume(r)
    PROVE  NoZombie'
<1>1. UNCHANGED <<connections, attached, closers>>
  BY DEF Handle, RefuseMessage, RouteFails, Process, Subscribe, CloseFound,
         CloseNotFound, Dwn, DwnOpens, DwnReplies, DwnThrows, StreamCloses,
         StreamCloseFails, Resume, AddSubscription, AddSubscriptionThrows,
         DeleteSubscription, connVars
<1>. QED  BY <1>1 DEF NoZombie

LEMMA ConnectionWaits ==
    ASSUME TypeOK, NoZombie, NEW s \in Socket, Connection(s)
    PROVE  NoZombie'
<1>. {s} \in SUBSET Socket /\ {} \in SUBSET Socket
  OBVIOUS
<1>1. CASE \/ Connect(s) \/ Pong(s) \/ PeerGoesSilent(s) \/ PeerClosesUnheard(s)
           \/ Heartbeat(s) /\ isAlive[s]
  BY <1>1
     DEF Connect, Pong, PeerGoesSilent, PeerClosesUnheard, Heartbeat, NoZombie
<1>2. CASE Heartbeat(s) /\ ~isAlive[s]
  BY <1>2, CloseConnectionsWaits DEF Heartbeat
<1>3. CASE PeerCloses(s) \/ SocketError(s)
  BY <1>3, CloseConnectionsWaits DEF PeerCloses, SocketError
<1>4. CASE ConnectionStreams(s)
  BY <1>4, SettleWaits DEF ConnectionStreams
<1>. QED  BY <1>1, <1>2, <1>3, <1>4 DEF Connection

\* The manager keeps no connection whose close() has finished, whatever its
\* clients pipeline and however its close() calls overlap, unless one of them has
\* rejected.
THEOREM Forgotten == Spec => []NoZombie
<1>1. Init => NoZombie
  BY DEF Init, NoZombie
<1>2. TypeOK /\ NoZombie /\ [Next]_vars => NoZombie'
  <2>. SUFFICES ASSUME TypeOK, NoZombie, [Next]_vars PROVE NoZombie'
    OBVIOUS
  <2>1. CASE \E r \in Request : Handle(r) \/ Dwn(r) \/ Resume(r)
    BY <2>1, MessageWaits
  <2>2. CASE \E s \in Socket : Connection(s)
    BY <2>2, ConnectionWaits
  <2>3. CASE WsApiClose \/ WsServerClosed
    <3>1. connections \in SUBSET Socket /\ {} \in SUBSET Socket
      BY DEF TypeOK
    <3>. QED  BY <2>3, <3>1, CloseConnectionsWaits DEF WsApiClose, WsServerClosed
  <2>4. CASE UNCHANGED vars
    BY <2>4 DEF vars, NoZombie
  <2>. QED  BY <2>1, <2>2, <2>3, <2>4 DEF Next
<1>. QED  BY <1>1, <1>2, Typing, PTL DEF Spec

------------------------------------------------------------------------------
(* What a client that takes turns sees.                                    *)

\* While a close request waits nothing runs under its id but what it closes,
CloseIsForOpen ==
    \A c, h \in Request :
        /\ Serial(c) /\ phase[c] \in {"closing", "streamClosed"}
        /\ SameId(h, c) /\ stream[h] = "open"
        => h = handle[c]

Gone == {s \in Socket : sock[s] # "none" /\ s \notin attached}

\* and a connection that is closing is out of service.
ClosingIsGone == \A s \in Socket : closers[s] # {} => s \in Gone

TurnsInv == CloseIsForOpen /\ ClosingIsGone

LEMMA InitTurns == Init => TurnsInv
BY DEF Init, TurnsInv, CloseIsForOpen, ClosingIsGone

\* What runs under an id of a connection in service is in the Map, unless it is
\* only being opened, and then the Map has nothing under the id.
LEMMA OpenIsHeld ==
    ASSUME Sound, SerialInv, NEW r \in Request, Serial(r), r.sock \in attached,
           NEW h \in Request, SameId(h, r), stream[h] = "open"
    PROVE  \/ phase[h] = "subscribed" /\ subscriptions[r.sock][r.id] = h
           \/ phase[h] = "opened" /\ ~hasSubscription(r.sock, r.id)
<1>1. Serial(h) /\ h.kind = "subscribe" /\ h.sock \in attached
  BY DEF SameId, Serial, Sound, Agree, PhasesAgree
<1>2. phase[h] \in {"opened", "subscribed"}
  BY <1>1 DEF Sound, Agree, PhasesAgree, SerialInv, OpenIsKept
<1>. QED
  BY <1>1, <1>2 DEF SerialInv, OpenIsKept, FreeId, SameId, hasSubscription

\* What the Map holds was acknowledged, and runs unless a close request under
\* its id has ended it and is about to remove it.
LEMMA HeldIsAcknowledged ==
    ASSUME TypeOK, Sound, NEW r \in Request, hasSubscription(r.sock, r.id)
    PROVE  LET h == subscriptions[r.sock][r.id]
           IN  /\ h \in Request /\ SameId(h, r)
               /\ h.kind = "subscribe" /\ phase[h] = "subscribed"
               /\ \/ stream[h] = "open"
                  \/ /\ stream[h] = "closed"
                     /\ \E c \in Request : /\ SameId(c, r) /\ c.kind = "close"
                                          /\ phase[c] = "streamClosed"
<1>. DEFINE h == subscriptions[r.sock][r.id]
<1>1. h \in Request
  BY RequestFields DEF hasSubscription, TypeOK
<1>2. /\ SameId(h, r) /\ h.kind = "subscribe" /\ phase[h] = "subscribed"
      /\ \/ stream[h] = "open"
         \/ \E c \in Request : phase[c] = "streamClosed" /\ handle[c] = h
  BY RequestFields DEF hasSubscription, Sound, RegistryIsSound, SameId
<1>. HIDE DEF h
<1>3. ASSUME NEW c \in Request, phase[c] = "streamClosed", handle[c] = h
      PROVE  SameId(c, r) /\ c.kind = "close" /\ stream[h] = "closed"
  BY <1>2, <1>3
     DEF Sound, Agree, HandlesAgree, PhasesAgree, Found, SameId
<1>4. /\ h \in Request /\ SameId(h, r)
      /\ h.kind = "subscribe" /\ phase[h] = "subscribed"
      /\ \/ stream[h] = "open"
         \/ /\ stream[h] = "closed"
            /\ \E c \in Request : /\ SameId(c, r) /\ c.kind = "close"
                                 /\ phase[c] = "streamClosed"
  BY <1>1, <1>2, <1>3
<1>. QED  BY <1>4 DEF h

\* What a step of a request's handling leaves alone.
LEMMA MessageFrame ==
    ASSUME TypeOK, NEW r \in Request, Handle(r) \/ Dwn(r) \/ Resume(r)
    PROVE  /\ UNCHANGED <<sock, attached, closers>>
           /\ \A q \in Request : q # r => /\ phase'[q] = phase[q]
                                          /\ handle'[q] = handle[q]
BY DEF Handle, RefuseMessage, RouteFails, Process, Subscribe, CloseFound,
       CloseNotFound, Receives, Dwn, DwnOpens, DwnReplies, DwnThrows,
       StreamCloses, StreamCloseFails, Resume, AddSubscription,
       AddSubscriptionThrows, DeleteSubscription, Become, TypeOK, connVars

LEMMA MessageTurns ==
    ASSUME TypeOK, Sound, SerialInv, TurnsInv, NEW r \in Request,
           Handle(r) \/ Dwn(r) \/ Resume(r)
    PROVE  TurnsInv'
<1>1. ClosingIsGone'
  BY MessageFrame DEF TurnsInv, ClosingIsGone, Gone
<1>2. CASE CloseFound(r)
  <2>1. /\ UNCHANGED stream
        /\ r.sock \in attached /\ hasSubscription(r.sock, r.id)
        /\ handle'[r] = subscriptions[r.sock][r.id]
    BY <1>2 DEF CloseFound, Receives, TypeOK
  <2>2. \A h \in Request : Serial(r) /\ SameId(h, r) /\ stream'[h] = "open"
                              => h = handle'[r]
    BY <2>1, OpenIsHeld
  <2>. QED
    BY <1>1, <2>1, <2>2, MessageFrame DEF TurnsInv, CloseIsForOpen, Serial, SameId
<1>3. CASE DwnOpens(r)
  <2>1. /\ phase[r] = "dwn" /\ phase'[r] = "opened" /\ UNCHANGED handle
        /\ \A q \in Request : q # r => stream'[q] = stream[q]
    BY <1>3 DEF DwnOpens, Become, TypeOK
  <2>2. \A c \in Request : /\ Serial(c) /\ SameId(r, c)
                           /\ phase[c] \in {"closing", "streamClosed"}
                           => FALSE
    BY <1>3, <2>1
       DEF SerialInv, OneAwaiting, Awaiting, SameId, Serial, DwnOpens, Sound,
           Agree, PhasesAgree
  <2>. QED
    BY <1>1, <2>1, <2>2, MessageFrame DEF TurnsInv, CloseIsForOpen, Serial, SameId
<1>4. CASE ~CloseFound(r) /\ ~DwnOpens(r)
  <2>1. /\ phase'[r] \in {"closing", "streamClosed"} =>
              phase[r] \in {"closing", "streamClosed"}
        /\ UNCHANGED handle
        /\ \A q \in Request : stream'[q] = "open" => stream[q] = "open"
    BY <1>4
       DEF Handle, RefuseMessage, RouteFails, Process, Subscribe,
           CloseNotFound, Receives, Dwn, DwnReplies, DwnThrows,
           StreamCloses, StreamCloseFails, Resume, AddSubscription,
           AddSubscriptionThrows, DeleteSubscription, Become, TypeOK, Refusal
  <2>. QED
    BY <1>1, <2>1, MessageFrame DEF TurnsInv, CloseIsForOpen, Serial, SameId
<1>. QED  BY <1>2, <1>3, <1>4

\* close() of connections that are there takes them out of service.
LEMMA CloseConnectionsTurns ==
    ASSUME TypeOK, Sound, SerialInv, TurnsInv, NEW S \in SUBSET Socket,
           NEW down \in SUBSET Socket, CloseConnections(S, down),
           UNCHANGED <<phase, handle, stream>>
    PROVE  TurnsInv' /\ Gone \subseteq Gone'
<1>1. /\ attached' = attached \ S
      /\ \A s \in Socket : sock[s] # "none" => sock'[s] # "none"
      /\ \A s \in Socket : s \notin Busy(S) => closers'[s] = closers[s]
  BY DEF CloseConnections, TypeOK
<1>2. Gone \subseteq Gone'
  BY <1>1 DEF Gone
<1>3. ASSUME NEW s \in Busy(S) PROVE s \in Gone'
  <2>1. PICK h \in Registered(s) : s \in S /\ s \in Socket
    BY <1>3 DEF Busy, Collect
  <2>2. h \in Request /\ h.sock = s /\ phase[h] = "subscribed"
    BY <2>1, RequestFields DEF Registered, Sound, RegistryIsSound, TypeOK
  <2>3. sock[s] # "none"
    BY <2>2 DEF SerialInv, FromSocket
  <2>. QED  BY <1>1, <2>1, <2>3 DEF Gone
<1>4. ClosingIsGone'
  BY <1>1, <1>2, <1>3 DEF TurnsInv, ClosingIsGone
<1>5. CloseIsForOpen'
  BY DEF TurnsInv, CloseIsForOpen, Serial, SameId
<1>. QED  BY <1>2, <1>4, <1>5 DEF TurnsInv

\* Nothing that a connection goes through puts it back into service.
LEMMA ConnectionTurns ==
    ASSUME TypeOK, Sound, SerialInv, TurnsInv, NEW s \in Socket, Connection(s)
    PROVE  /\ TurnsInv' /\ Gone \subseteq Gone'
           /\ ConnectionStreams(s) => Gone' = Gone
<1>. {s} \in SUBSET Socket /\ {} \in SUBSET Socket
  OBVIOUS
<1>1. CASE ConnectionStreams(s)
  <2>1. PICK c \in closers[s] : \E h \in c.waits :
                AwaitedCloses(s, c, h) \/ AwaitedCloseFails(s, c, h)
    BY <1>1 DEF ConnectionStreams
  <2>2. PICK h \in c.waits : AwaitedCloses(s, c, h) \/ AwaitedCloseFails(s, c, h)
    BY <2>1
  <2>3. s \in Gone /\ h \in Request
    BY <2>1 DEF TurnsInv, ClosingIsGone, TypeOK, Closer
  <2>4. /\ UNCHANGED <<attached, phase, handle>>
        /\ \A t \in Socket : /\ t # s => sock'[t] = sock[t] /\ closers'[t] = closers[t]
                             /\ sock[t] # "none" => sock'[t] # "none"
        /\ \A q \in Request : stream'[q] = "open" => stream[q] = "open"
    BY <2>2, <2>3 DEF AwaitedCloses, AwaitedCloseFails, Settle, TypeOK
  <2>5. Gone' = Gone
    BY <2>3, <2>4 DEF Gone
  <2>6. ClosingIsGone'
    BY <2>3, <2>4, <2>5 DEF TurnsInv, ClosingIsGone
  <2>7. CloseIsForOpen'
    BY <2>4 DEF TurnsInv, CloseIsForOpen, Serial, SameId
  <2>. QED  BY <2>5, <2>6, <2>7 DEF TurnsInv
<1>2. CASE \/ Heartbeat(s) /\ ~isAlive[s]
           \/ PeerCloses(s) \/ SocketError(s)
  BY <1>1, <1>2, CloseConnectionsTurns DEF Heartbeat, PeerCloses, SocketError
<1>3. CASE \/ Connect(s) \/ Pong(s) \/ PeerGoesSilent(s) \/ PeerClosesUnheard(s)
           \/ Heartbeat(s) /\ isAlive[s]
  <2>1. /\ UNCHANGED <<closers, phase, handle, stream>>
        /\ \/ attached' = attached
           \/ sock[s] = "none" /\ attached' = attached \cup {s}
        /\ \A t \in Socket : sock[t] # "none" => sock'[t] # "none"
    BY <1>3
       DEF Connect, Pong, PeerGoesSilent, PeerClosesUnheard, Heartbeat, TypeOK
  <2>2. Gone \subseteq Gone'
    BY <2>1 DEF Gone
  <2>3. TurnsInv'
    BY <2>1, <2>2 DEF TurnsInv, CloseIsForOpen, ClosingIsGone, Serial, SameId
  <2>. QED  BY <1>1, <2>2, <2>3
<1>. QED  BY <1>1, <1>2, <1>3 DEF Connection

LEMMA NextTurns ==
    TypeOK /\ Sound /\ SerialInv /\ TurnsInv /\ [Next]_vars => TurnsInv'
<1>. SUFFICES ASSUME TypeOK, Sound, SerialInv, TurnsInv, [Next]_vars
              PROVE  TurnsInv'
  OBVIOUS
<1>1. CASE \E r \in Request : Handle(r) \/ Dwn(r) \/ Resume(r)
  BY <1>1, MessageTurns
<1>2. CASE \E s \in Socket : Connection(s)
  BY <1>2, ConnectionTurns
<1>3. CASE WsApiClose \/ WsServerClosed
  <2>1. connections \in SUBSET Socket /\ {} \in SUBSET Socket
    BY DEF TypeOK
  <2>. QED  BY <1>3, <2>1, CloseConnectionsTurns DEF WsApiClose, WsServerClosed
<1>4. CASE UNCHANGED vars
  BY <1>4
     DEF vars, TurnsInv, CloseIsForOpen, ClosingIsGone, Gone, Serial, SameId
<1>. QED  BY <1>1, <1>2, <1>3, <1>4 DEF Next

------------------------------------------------------------------------------
(* The promise                                                             *)

Subs   == TakesTurns("subscribe")
Closes == TakesTurns("close")

seenReply  == [r \in Subs \cup Closes |-> Outcome(r)]
seenStream == [h \in Subs |-> stream[h]]

\* The requests that the promise is about.
LEMMA Turns ==
    ASSUME NEW r \in Request
    PROVE  /\ r \in Subs <=> Serial(r) /\ r.kind = "subscribe"
           /\ r \in Closes <=> Serial(r) /\ r.kind = "close"
           /\ ~(r \in Subs /\ r \in Closes)
BY DEF Subs, Closes, TakesTurns, Serial

LEMMA TurnsAreRequests == Subs \subseteq Request /\ Closes \subseteq Request
BY DEF Subs, Closes, TakesTurns

LEMMA InitPromise == Init => Promise!Init
<1>. SUFFICES ASSUME Init PROVE Promise!Init
  OBVIOUS
<1>1. seenReply = [r \in Subs \cup Closes |-> "none"]
  BY TurnsAreRequests DEF Init, seenReply, Outcome
<1>2. seenStream = [h \in Subs |-> "none"]
  BY TurnsAreRequests DEF Init, seenStream
<1>3. Gone = {}
  BY DEF Init, Gone
<1>. QED
  BY <1>1, <1>2, <1>3 DEF Promise!Init, seenReply, seenStream, Subs, Closes, Gone

\* A request that goes to another phase is answered, in the promise, with what
\* the phase is to it; other requests do not show.
LEMMA AnswerStep ==
    ASSUME TypeOK, NEW r \in Request, NEW p, Become(r, p),
           UNCHANGED <<stream, Gone>>, NEW a, a = Outcome(r)'
    PROVE  /\ r \in Subs \cup Closes => Promise!Answer(r, a)
           /\ r \notin Subs \cup Closes => UNCHANGED Promise!vars
<1>1. \A q \in Request : q # r => Outcome(q)' = Outcome(q)
  BY DEF Outcome, Become, TypeOK
<1>2. UNCHANGED seenStream
  BY DEF seenStream
<1>3. seenReply' = [q \in Subs \cup Closes |-> Outcome(q)']
  BY DEF seenReply, Subs, Closes, TakesTurns
<1>4. CASE r \in Subs \cup Closes
  <2>1. seenReply' = [seenReply EXCEPT ![r] = a]
    BY <1>1, <1>3, <1>4, TurnsAreRequests DEF seenReply
  <2>. QED
    BY <1>2, <1>4, <2>1
       DEF Promise!Answer, seenReply, seenStream, Subs, Closes, Gone
<1>5. CASE r \notin Subs \cup Closes
  <2>1. UNCHANGED seenReply
    BY <1>1, <1>3, <1>5, TurnsAreRequests DEF seenReply
  <2>. QED
    BY <1>2, <1>5, <2>1 DEF Promise!vars, seenReply, seenStream, Subs, Closes, Gone
<1>. QED  BY <1>4, <1>5

\* What the promise sees of a request is its outcome.
LEMMA Seen ==
    /\ \A r \in Subs \cup Closes : seenReply[r] = Outcome(r)
    /\ \A h \in Subs : seenStream[h] = stream[h]
    /\ \A r \in Request :
          /\ Promise!UnderId(r) = {h \in Subs : h.sock = r.sock /\ h.id = r.id}
          /\ Promise!Pending(r) =
                {q \in Subs \cup Closes :
                    q.sock = r.sock /\ q.id = r.id /\ Outcome(q) = "pending"}
          /\ \A x : Promise!Acknowledged(r, x) <=>
                \E h \in Subs : /\ h.sock = r.sock /\ h.id = r.id
                               /\ Outcome(h) = "success" /\ stream[h] = x
BY DEF seenReply, seenStream, Promise!UnderId, Promise!Pending,
       Promise!Acknowledged, Subs, Closes

\* On a connection in service the Map holds what is in use.
LEMMA InUseIsHeld ==
    ASSUME TypeOK, Sound, SerialInv, NEW r \in Request, Serial(r),
           r.sock \in attached, Promise!InUse(r)
    PROVE  hasSubscription(r.sock, r.id)
<1>1. PICK h \in Subs : /\ SameId(h, r) /\ Outcome(h) = "success"
                        /\ stream[h] = "open"
  BY Seen DEF Promise!InUse, SameId
<1>2. h \in Request /\ phase[h] # "opened"
  BY <1>1, TurnsAreRequests DEF Outcome, Awaiting
<1>. QED  BY <1>1, <1>2, OpenIsHeld DEF hasSubscription

\* What the Map holds is in use, unless a close is about to answer for its end.
LEMMA HeldIsInUse ==
    ASSUME TypeOK, Sound, NEW r \in Request, Serial(r),
           hasSubscription(r.sock, r.id)
    PROVE  \/ Promise!InUse(r)
           \/ /\ ~IdIsQuiet(r) /\ Promise!Pending(r) # {}
              /\ Promise!Acknowledged(r, "closed")
<1>. DEFINE h == subscriptions[r.sock][r.id]
<1>1. /\ h \in Request /\ SameId(h, r)
      /\ h.kind = "subscribe" /\ phase[h] = "subscribed"
      /\ \/ stream[h] = "open"
         \/ /\ stream[h] = "closed"
            /\ \E c \in Request : /\ SameId(c, r) /\ c.kind = "close"
                                 /\ phase[c] = "streamClosed"
  BY HeldIsAcknowledged
<1>. HIDE DEF h
<1>2. h \in Subs /\ Outcome(h) = "success"
  BY <1>1, Turns DEF SameId, Serial, Outcome, Awaiting
<1>3. CASE stream[h] = "open"
  BY <1>1, <1>2, <1>3, Seen DEF Promise!InUse, SameId
<1>4. CASE stream[h] = "closed"
  <2>1. PICK c \in Request : /\ SameId(c, r) /\ c.kind = "close"
                             /\ phase[c] = "streamClosed"
    BY <1>1, <1>4
  <2>2. c \in Closes /\ Outcome(c) = "pending"
    BY <2>1, Turns DEF SameId, Serial, Outcome, Awaiting
  <2>3. ~IdIsQuiet(r)
    BY <2>1 DEF IdIsQuiet, SameId, Awaiting
  <2>4. Promise!Pending(r) # {}
    BY <2>1, <2>2, Seen DEF SameId
  <2>5. Promise!Acknowledged(r, "closed")
    BY <1>1, <1>2, <1>4, Seen DEF SameId
  <2>. QED  BY <2>3, <2>4, <2>5
<1>. QED  BY <1>1, <1>3, <1>4

LEMMA HandlePromise ==
    ASSUME TypeOK, Sound, SerialInv, NEW r \in Request, Handle(r)
    PROVE  [Promise!Next]_(Promise!vars)
<1>1. UNCHANGED <<stream, Gone>>
  BY DEF Handle, RefuseMessage, RouteFails, Process, Subscribe, CloseFound,
         CloseNotFound, connVars, Gone
<1>2. PICK p : Become(r, p)
  BY DEF Handle, RefuseMessage, RouteFails, Process, Subscribe, CloseFound,
         CloseNotFound
<1>3. PICK a : a = Outcome(r)'
  OBVIOUS
<1>4. CASE r \notin Subs \cup Closes
  BY <1>1, <1>2, <1>3, <1>4, AnswerStep
<1>5. CASE r \in Subs \cup Closes
  <2>1. Serial(r) /\ r.kind \in {"subscribe", "close"}
    BY <1>5, Turns
  <2>2. /\ phase[r] = "unsent" /\ r.sock \in attached
        /\ \/ Subscribe(r) /\ r.kind = "subscribe" /\ IdIsQuiet(r)
           \/ (CloseFound(r) \/ CloseNotFound(r)) /\ r.kind = "close"
    BY <2>1 DEF Handle, RefuseMessage, RouteFails, Process, Subscribe,
                CloseFound, CloseNotFound, Receives, Refusal, Serial
  <2>3. Promise!Arrives(r)
    <3>1. Outcome(r) = "none" /\ r.sock \notin Gone
      BY <2>2 DEF Outcome, Gone
    <3>2. r \in Subs => Promise!Pending(r) = {}
      BY <2>2, Seen, Turns, TurnsAreRequests DEF IdIsQuiet, Outcome
    <3>. QED
      BY <1>5, <3>1, <3>2, Seen
         DEF Promise!Arrives, seenReply, Subs, Closes, Gone
  <2>4. a = IF r \in Closes <=> hasSubscription(r.sock, r.id)
              THEN "pending" ELSE "refused"
    BY <1>3, <1>5, <2>2, Turns
       DEF Subscribe, CloseFound, CloseNotFound, Become, Outcome, Awaiting, TypeOK
  <2>5. Promise!Answer(r, a)
    BY <1>1, <1>2, <1>3, <1>5, AnswerStep
  <2>6. CASE r \in Subs
    <3>1. Promise!InUse(r) <=> hasSubscription(r.sock, r.id)
      BY <2>1, <2>2, <2>6, InUseIsHeld, HeldIsInUse, Turns
    <3>2. r \notin Closes
      BY <2>6, Turns
    <3>3. CASE hasSubscription(r.sock, r.id)
      <4>1. Promise!TurnAway(r)
        BY <2>3, <2>4, <2>5, <2>6, <3>1, <3>2, <3>3
           DEF Promise!TurnAway, Subs, Closes
      <4>. QED  BY <1>5, <4>1 DEF Promise!Next, Subs, Closes
    <3>4. CASE ~hasSubscription(r.sock, r.id)
      <4>1. Promise!Ask(r)
        BY <2>3, <2>4, <2>5, <2>6, <3>1, <3>2, <3>4
           DEF Promise!Ask, Subs, Closes
      <4>. QED  BY <1>5, <4>1 DEF Promise!Next, Subs, Closes
    <3>. QED  BY <3>3, <3>4
  <2>7. CASE r \in Closes
    <3>1. r \notin Subs
      BY <2>7, Turns
    <3>2. CASE hasSubscription(r.sock, r.id)
      <4>1. \/ Promise!InUse(r)
            \/ Promise!Acknowledged(r, "closed") /\ Promise!Pending(r) # {}
        BY <2>1, <3>2, HeldIsInUse
      <4>2. Promise!Ask(r)
        BY <2>3, <2>4, <2>5, <2>7, <3>2, <4>1 DEF Promise!Ask, Subs, Closes
      <4>. QED  BY <1>5, <4>2 DEF Promise!Next, Subs, Closes
    <3>3. CASE ~hasSubscription(r.sock, r.id)
      <4>1. ~Promise!InUse(r)
        BY <2>1, <2>2, <3>3, InUseIsHeld
      <4>2. Promise!TurnAway(r)
        BY <2>3, <2>4, <2>5, <2>7, <3>1, <3>3, <4>1
           DEF Promise!TurnAway, Subs, Closes
      <4>. QED  BY <1>5, <4>2 DEF Promise!Next, Subs, Closes
    <3>. QED  BY <3>2, <3>3
  <2>. QED  BY <1>5, <2>6, <2>7
<1>. QED  BY <1>4, <1>5

\* A subscription that runs ends, in the promise, when it shows there.
LEMMA EndPromise ==
    ASSUME TypeOK, Sound, NEW h \in Request, phase[h] = "subscribed",
           stream' = [stream EXCEPT ![h] = "closed"],
           UNCHANGED <<seenReply, Gone>>,
           h \in Subs =>
              \/ h.sock \in Gone
              \/ \E c \in Closes : Outcome(c) = "pending" /\ SameId(h, c)
    PROVE  [Promise!Next]_(Promise!vars)
<1>1. stream[h] # "none" /\ h.kind = "subscribe"
  BY DEF Sound, Agree, PhasesAgree
<1>2. CASE h \in Subs /\ stream[h] = "open"
  <2>1. seenStream' = [seenStream EXCEPT ![h] = "closed"]
    <3>1. \A g \in Subs : stream'[g] = IF g = h THEN "closed" ELSE stream[g]
      BY TurnsAreRequests DEF TypeOK
    <3>2. seenStream' = [g \in Subs |-> stream'[g]]
      BY DEF seenStream, Subs, TakesTurns
    <3>. QED  BY <1>2, <3>1, <3>2 DEF seenStream
  <2>2. Outcome(h) = "success"
    BY <1>1 DEF Outcome, Awaiting
  <2>3. h.sock \in Gone \/ Promise!Pending(h) # {}
    BY <1>2, Seen, TurnsAreRequests DEF SameId
  <2>4. seenReply[h] = "success" /\ seenStream[h] = "open"
    BY <1>2, <2>2, Seen
  <2>5. Promise!End(h)
    BY <2>1, <2>3, <2>4 DEF Promise!End, seenReply, seenStream, Subs, Closes, Gone
  <2>. QED  BY <1>2, <2>5 DEF Promise!Next, Subs
<1>3. CASE ~(h \in Subs /\ stream[h] = "open")
  <2>1. \A g \in Subs : stream'[g] = stream[g]
    BY <1>1, <1>3, TurnsAreRequests DEF TypeOK
  <2>2. seenStream' = [g \in Subs |-> stream'[g]]
    BY DEF seenStream, Subs, TakesTurns
  <2>3. UNCHANGED seenStream
    BY <2>1, <2>2 DEF seenStream
  <2>. QED  BY <2>3 DEF Promise!vars, seenReply, seenStream, Subs, Closes, Gone
<1>. QED  BY <1>2, <1>3

LEMMA DwnPromise ==
    ASSUME TypeOK, Sound, SerialInv, TurnsInv, NEW r \in Request, Dwn(r)
    PROVE  [Promise!Next]_(Promise!vars)
<1>1. UNCHANGED Gone /\ (r \in Subs \cup Closes => Outcome(r) = "pending")
  BY DEF Dwn, DwnOpens, DwnReplies, DwnThrows, StreamCloses, StreamCloseFails,
         connVars, Gone, Outcome, Awaiting
<1>2. CASE DwnOpens(r)
  <2>1. /\ phase[r] = "dwn" /\ r.kind = "subscribe" /\ stream[r] = "none"
        /\ stream' = [stream EXCEPT ![r] = "open"]
        /\ phase' = [phase EXCEPT ![r] = "opened"]
    BY <1>2 DEF DwnOpens, Become, Sound, Agree, PhasesAgree
  <2>2. UNCHANGED seenReply
    <3>1. \A q \in Request : Outcome(q)' = Outcome(q)
      BY <2>1 DEF Outcome, Awaiting, TypeOK
    <3>2. seenReply' = [q \in Subs \cup Closes |-> Outcome(q)']
      BY DEF seenReply, Subs, Closes, TakesTurns
    <3>. QED  BY <3>1, <3>2, TurnsAreRequests DEF seenReply
  <2>3. seenStream' = [h \in Subs |-> IF h = r THEN "open" ELSE stream[h]]
    <3>1. \A h \in Subs : stream'[h] = IF h = r THEN "open" ELSE stream[h]
      BY <2>1, TurnsAreRequests DEF TypeOK
    <3>2. seenStream' = [h \in Subs |-> stream'[h]]
      BY DEF seenStream, Subs, TakesTurns
    <3>. QED  BY <3>1, <3>2
  <2>4. CASE r \in Subs
    <3>1. seenStream' = [seenStream EXCEPT ![r] = "open"]
      BY <2>3, <2>4 DEF seenStream
    <3>2. \A g \in Promise!UnderId(r) : seenStream[g] # "open"
      <4>1. \A g \in Subs : g.sock = r.sock /\ g.id = r.id => stream[g] # "open"
        BY <2>1, <2>4, Turns, TurnsAreRequests DEF SerialInv, FreeId, SameId
      <4>. QED  BY <4>1, Seen
    <3>3. seenReply[r] = "pending" /\ seenStream[r] = "none"
      BY <1>1, <2>1, <2>4, Seen
    <3>4. Promise!Open(r)
      BY <1>1, <2>2, <3>1, <3>2, <3>3
         DEF Promise!Open, seenReply, seenStream, Subs, Closes, Gone
    <3>. QED  BY <2>4, <3>4 DEF Promise!Next, Subs
  <2>5. CASE r \notin Subs
    <3>1. UNCHANGED seenStream
      BY <2>3, <2>5 DEF seenStream
    <3>. QED
      BY <1>1, <2>2, <3>1
         DEF Promise!vars, seenReply, seenStream, Subs, Closes, Gone
  <2>. QED  BY <2>4, <2>5
<1>3. CASE DwnReplies(r) \/ DwnThrows(r)
  <2>. PICK a : a = Outcome(r)'
    OBVIOUS
  <2>1. PICK p \in {"ok", "InternalError"} : Become(r, p)
    BY <1>3 DEF DwnReplies, DwnThrows
  <2>2. phase[r] = "dwn" /\ r \notin Closes /\ stream[r] = "none" /\ UNCHANGED stream
    BY <1>3, Turns DEF DwnReplies, DwnThrows, Sound, Agree, PhasesAgree
  <2>3. CASE r \in Subs
    <3>1. a = "refused"
      BY <2>1, <2>3, Turns DEF Become, Outcome, Awaiting, TypeOK
    <3>2. Promise!Answer(r, "refused")
      BY <1>1, <2>1, <2>2, <2>3, <3>1, AnswerStep
    <3>3. seenReply[r] = "pending" /\ seenStream[r] = "none"
      BY <1>1, <2>2, <2>3, Seen
    <3>4. Promise!Refuse(r)
      BY <3>2, <3>3 DEF Promise!Refuse, seenReply, seenStream, Subs, Closes
    <3>. QED  BY <2>3, <3>4 DEF Promise!Next, Subs
  <2>4. CASE r \notin Subs
    BY <1>1, <2>1, <2>2, <2>4, AnswerStep
  <2>. QED  BY <2>3, <2>4
<1>4. CASE StreamCloses(r) \/ StreamCloseFails(r)
  <2>. DEFINE h == handle[r]
  <2>1. /\ phase[r] = "closing" /\ r.kind = "close"
        /\ h \in Request /\ SameId(h, r) /\ phase[h] = "subscribed"
    BY <1>4 DEF StreamCloses, StreamCloseFails, Sound, Agree, PhasesAgree,
                HandlesAgree, Found, SameId
  <2>2. stream[h] # "none" /\ h.kind = "subscribe"
    BY <2>1 DEF Sound, Agree, PhasesAgree
  <2>3. /\ h \in Subs => r \in Closes
        /\ r \in Closes => h \in Subs
    BY <2>1, <2>2, Turns DEF SameId, Serial
  <2>4. CASE StreamCloses(r)
    <3>1. stream' = [stream EXCEPT ![h] = "closed"]
      BY <2>4 DEF StreamCloses
    <3>2. UNCHANGED seenReply
      <4>1. \A q \in Request : Outcome(q)' = Outcome(q)
        BY <2>4 DEF StreamCloses, Become, Outcome, Awaiting, TypeOK
      <4>2. seenReply' = [q \in Subs \cup Closes |-> Outcome(q)']
        BY DEF seenReply, Subs, Closes, TakesTurns
      <4>. QED  BY <4>1, <4>2, TurnsAreRequests DEF seenReply
    <3>. HIDE DEF h
    <3>. QED  BY <1>1, <2>1, <2>3, <3>1, <3>2, EndPromise
  <2>5. CASE StreamCloseFails(r) /\ r \in Closes
    <3>. PICK a : a = Outcome(r)'
      OBVIOUS
    <3>1. /\ h \in Faulty /\ Become(r, "InternalError") /\ UNCHANGED stream
      BY <2>5 DEF StreamCloseFails
    <3>2. a = "refused"
      BY <2>1, <3>1 DEF Become, Outcome, Awaiting, TypeOK
    <3>3. Promise!Answer(r, "refused")
      BY <1>1, <2>5, <3>1, <3>2, AnswerStep
    <3>4. Outcome(h) = "success"
      BY <2>1, <2>2 DEF Outcome, Awaiting
    <3>5. /\ seenReply[h] = "success" /\ seenReply[r] = "pending"
          /\ h \in Promise!UnderId(r) \cap Faulty
      BY <1>1, <2>1, <2>3, <2>5, <3>1, <3>4, Seen DEF SameId
    <3>. HIDE DEF h
    <3>6. Promise!CloseFails(r)
      BY <3>3, <3>5 DEF Promise!CloseFails, seenReply, Subs, Closes
    <3>. QED  BY <2>5, <3>6 DEF Promise!Next, Closes
  <2>6. CASE StreamCloseFails(r) /\ r \notin Closes
    <3>1. r \notin Subs
      BY <2>1, Turns
    <3>2. Become(r, "InternalError") /\ UNCHANGED stream
      BY <2>6 DEF StreamCloseFails
    <3>. QED  BY <1>1, <2>6, <3>1, <3>2, AnswerStep
  <2>. QED  BY <1>4, <2>4, <2>5, <2>6
<1>. QED  BY <1>2, <1>3, <1>4 DEF Dwn

LEMMA ResumePromise ==
    ASSUME TypeOK, Sound, SerialInv, TurnsInv, NEW r \in Request, Resume(r)
    PROVE  [Promise!Next]_(Promise!vars)
<1>. PICK a : a = Outcome(r)'
  OBVIOUS
<1>1. UNCHANGED <<stream, Gone>> /\ phase[r] \in {"opened", "streamClosed"}
  BY DEF Resume, AddSubscription, AddSubscriptionThrows, DeleteSubscription,
         connVars, Gone
<1>2. PICK p \in {"subscribed", "InternalError", "ok"} : Become(r, p)
  BY DEF Resume, AddSubscription, AddSubscriptionThrows, DeleteSubscription
<1>3. CASE r \notin Subs \cup Closes
  BY <1>1, <1>2, <1>3, AnswerStep
<1>4. CASE r \in Subs
  <2>1. phase[r] = "opened" /\ stream[r] = "open"
    BY <1>1, <1>4, Turns DEF Sound, Agree, PhasesAgree
  <2>2. ~hasSubscription(r.sock, r.id)
    BY <1>4, <2>1, Turns DEF SerialInv, FreeId, hasSubscription
  <2>3. Become(r, "subscribed")
    BY <2>1, <2>2 DEF Resume, AddSubscription, AddSubscriptionThrows,
                      DeleteSubscription
  <2>4. a = "success"
    BY <1>4, <2>3, Turns DEF Become, Outcome, Awaiting, TypeOK
  <2>5. Promise!Answer(r, "success")
    BY <1>1, <1>4, <2>3, <2>4, AnswerStep
  <2>6. seenReply[r] = "pending" /\ seenStream[r] = "open"
    BY <1>4, <2>1, Seen DEF Outcome, Awaiting
  <2>7. Promise!Acknowledge(r)
    BY <2>5, <2>6 DEF Promise!Acknowledge, seenReply, seenStream, Subs, Closes
  <2>. QED  BY <1>4, <2>7 DEF Promise!Next, Subs
<1>5. CASE r \in Closes
  <2>. DEFINE h == handle[r]
  <2>1. r.kind = "close" /\ Serial(r)
    BY <1>5, Turns
  <2>2. phase[r] = "streamClosed"
    BY <1>1, <2>1 DEF Sound, Agree, PhasesAgree
  <2>3. Become(r, "ok")
    BY <2>2 DEF Resume, AddSubscription, AddSubscriptionThrows, DeleteSubscription
  <2>4. /\ h \in Request /\ SameId(h, r)
        /\ phase[h] = "subscribed" /\ stream[h] = "closed"
    BY <2>2 DEF Sound, Agree, HandlesAgree, Found, SameId
  <2>5. h \in Subs /\ Outcome(h) = "success"
    BY <2>1, <2>4, Turns
       DEF Sound, Agree, PhasesAgree, SameId, Serial, Outcome, Awaiting
  <2>6. \A g \in Request : SameId(g, r) => stream[g] # "open"
    BY <2>1, <2>2, <2>4 DEF TurnsInv, CloseIsForOpen
  <2>7. a = "success"
    BY <2>1, <2>3 DEF Become, Outcome, Awaiting, TypeOK
  <2>8. Promise!Answer(r, "success")
    BY <1>1, <1>5, <2>3, <2>7, AnswerStep
  <2>9. seenReply[r] = "pending"
    BY <1>5, <2>2, Seen DEF Outcome, Awaiting
  <2>10. /\ \A g \in Promise!UnderId(r) : seenStream[g] # "open"
         /\ Promise!Acknowledged(r, "closed")
    <3>. HIDE DEF h
    <3>. QED  BY <2>4, <2>5, <2>6, Seen, TurnsAreRequests DEF SameId
  <2>11. Promise!CloseSucceeds(r)
    BY <2>8, <2>9, <2>10
       DEF Promise!CloseSucceeds, seenReply, seenStream, Subs, Closes
  <2>. QED  BY <1>5, <2>11 DEF Promise!Next, Closes
<1>. QED  BY <1>3, <1>4, <1>5

\* The end of a connection is all that shows of what happens to connections.
LEMMA LeavePromise ==
    ASSUME UNCHANGED <<phase, stream>>, Gone \subseteq Gone'
    PROVE  [Promise!Next]_(Promise!vars)
<1>1. UNCHANGED <<seenReply, seenStream>>
  BY DEF seenReply, seenStream, Outcome, Subs, Closes, TakesTurns
<1>2. Promise!Leave
  BY <1>1 DEF Promise!Leave, seenReply, seenStream, Subs, Closes, Gone
<1>. QED  BY <1>2 DEF Promise!Next

LEMMA ConnectionPromise ==
    ASSUME TypeOK, Sound, SerialInv, TurnsInv, NEW s \in Socket, Connection(s)
    PROVE  [Promise!Next]_(Promise!vars)
<1>1. Gone \subseteq Gone' /\ (ConnectionStreams(s) => Gone' = Gone)
  BY ConnectionTurns
<1>2. CASE ConnectionStreams(s)
  <2>1. PICK c \in closers[s] : \E h \in c.waits :
                AwaitedCloses(s, c, h) \/ AwaitedCloseFails(s, c, h)
    BY <1>2 DEF ConnectionStreams
  <2>2. PICK h \in c.waits : AwaitedCloses(s, c, h) \/ AwaitedCloseFails(s, c, h)
    BY <2>1
  <2>3. CASE AwaitedCloses(s, c, h)
    <3>1. h \in Request /\ h.sock = s /\ phase[h] = "subscribed"
      BY <2>1, <2>2 DEF TypeOK, Closer, Sound, Agree, ClosersAgree
    <3>2. s \in Gone
      BY <2>1 DEF TurnsInv, ClosingIsGone
    <3>3. /\ stream' = [stream EXCEPT ![h] = "closed"]
          /\ UNCHANGED phase
      BY <2>3 DEF AwaitedCloses
    <3>4. UNCHANGED seenReply
      BY <3>3 DEF seenReply, Outcome, Subs, Closes, TakesTurns
    <3>. QED  BY <1>1, <1>2, <3>1, <3>2, <3>3, <3>4, EndPromise
  <2>4. CASE AwaitedCloseFails(s, c, h)
    BY <1>1, <2>4, LeavePromise DEF AwaitedCloseFails
  <2>. QED  BY <2>2, <2>3, <2>4
<1>3. CASE ~ConnectionStreams(s)
  <2>1. UNCHANGED <<phase, stream>>
    BY <1>3 DEF Connection, Connect, Heartbeat, Pong, PeerGoesSilent,
                PeerCloses, PeerClosesUnheard, SocketError
  <2>. QED  BY <1>1, <2>1, LeavePromise
<1>. QED  BY <1>2, <1>3

LEMMA NextPromise ==
    TypeOK /\ Sound /\ SerialInv /\ TurnsInv /\ [Next]_vars
        => [Promise!Next]_(Promise!vars)
<1>. SUFFICES ASSUME TypeOK, Sound, SerialInv, TurnsInv, [Next]_vars
              PROVE  [Promise!Next]_(Promise!vars)
  OBVIOUS
<1>1. CASE \E r \in Request : Handle(r) \/ Dwn(r) \/ Resume(r)
  BY <1>1, HandlePromise, DwnPromise, ResumePromise
<1>2. CASE \E s \in Socket : Connection(s)
  BY <1>2, ConnectionPromise
<1>3. CASE WsApiClose \/ WsServerClosed
  <2>1. connections \in SUBSET Socket /\ {} \in SUBSET Socket
    BY DEF TypeOK
  <2>2. Gone \subseteq Gone'
    BY <1>3, <2>1, CloseConnectionsTurns DEF WsApiClose, WsServerClosed
  <2>. QED  BY <1>3, <2>2, LeavePromise DEF WsApiClose, WsServerClosed
<1>4. CASE UNCHANGED vars
  BY <1>4, LeavePromise DEF vars, Gone
<1>. QED  BY <1>1, <1>2, <1>3, <1>4 DEF Next

\* To a client that subscribes under an id only when its requests on it are
\* answered the server keeps the promise of Subscriptions, step by step, however
\* often the client closes and whatever others do.
THEOREM PromiseKept == Spec => TakingTurns
<1>1. Spec => []TurnsInv
  BY InitTurns, NextTurns, Typing, SoundInvariant, SerialHolds, PTL DEF Spec
<1>. QED
  BY <1>1, InitPromise, NextPromise, Typing, SoundInvariant, SerialHolds, PTL
     DEF Spec, TakingTurns, Promise!Spec
==============================================================================
