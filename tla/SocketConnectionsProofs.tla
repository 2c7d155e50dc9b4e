----------------------- MODULE SocketConnectionsProofs -----------------------
(***************************************************************************)
(* Proofs about SocketConnections, for any sockets, ids and requests.      *)
(***************************************************************************)
EXTENDS SocketConnections, TLAPS

USE RequestAssumption

\* A request belongs to a socket and names an id.
LEMMA RequestFields ==
    ASSUME NEW r \in Request
    PROVE  r.sock \in Socket /\ r.id \in SubId /\ r.kind \in Kind
OBVIOUS

\* An immediate refusal is a reply.
LEMMA RefusalIsReply == \A k \in DOMAIN Refusal : Refusal[k] \in Reply
BY DEF Refusal, Reply

\* Becoming another phase keeps `phase' a function into the phases.
LEMMA BecomeType ==
    ASSUME TypeOK, NEW r \in Request,
           NEW p \in {"unsent", "threw"} \cup Awaiting \cup Reply,
           Become(r, p)
    PROVE  phase' \in [Request -> {"unsent", "threw"} \cup Awaiting \cup Reply]
BY DEF TypeOK, Become

\* close() keeps the connections' state well-typed.
LEMMA CloseConnectionsType ==
    ASSUME TypeOK, NEW S \in SUBSET Socket, NEW down \in SUBSET Socket,
           CloseConnections(S, down)
    PROVE  /\ attached' \subseteq Socket
           /\ subscriptions' \in [Socket -> [SubId -> Request \cup {Nil}]]
           /\ closers' \in [Socket -> SUBSET Closer]
           /\ sock' \in [Socket -> {"none", "open", "closed"}]
           /\ connections' \subseteq Socket
<1>1. attached' \subseteq Socket /\ connections' \subseteq Socket
  BY DEF TypeOK, CloseConnections, onClose
<1>2. subscriptions' \in [Socket -> [SubId -> Request \cup {Nil}]]
  BY DEF TypeOK, CloseConnections
<1>3. sock' \in [Socket -> {"none", "open", "closed"}]
  BY DEF TypeOK, CloseConnections
<1>4. \A s \in Busy(S) : [waits |-> Collect(s), ok |-> TRUE] \in Closer
  <2>1. \A s \in Socket : Collect(s) \in SUBSET Request
    BY DEF TypeOK, Collect, Registered
  <2>. QED  BY <2>1 DEF Busy, Closer
<1>5. closers' \in [Socket -> SUBSET Closer]
  BY <1>4 DEF TypeOK, CloseConnections
<1>. QED  BY <1>1, <1>2, <1>3, <1>5

LEMMA SettleType ==
    ASSUME TypeOK, NEW s \in Socket, NEW c \in closers[s], NEW h \in c.waits,
           NEW ok \in BOOLEAN, Settle(s, c, h, ok)
    PROVE  closers' \in [Socket -> SUBSET Closer]
<1>1. c \in Closer
  BY DEF TypeOK
<1>2. {d \in {[waits |-> c.waits \ {h}, ok |-> ok]} : d.waits # {}} \subseteq Closer
  BY <1>1 DEF Closer
<1>. QED  BY <1>2 DEF TypeOK, Settle

\* The handling of a message keeps the types.
LEMMA HandleType == ASSUME TypeOK, NEW r \in Request, Handle(r) PROVE TypeOK'
<1>1. CASE RefuseMessage(r)
  BY <1>1, RefusalIsReply DEF RefuseMessage, Become, connVars, TypeOK
<1>2. CASE RouteFails(r)
  BY <1>2 DEF RouteFails, Become, connVars, TypeOK
<1>3. CASE Process(r)
  BY <1>3 DEF Process, Become, connVars, TypeOK, Awaiting
<1>4. CASE Subscribe(r)
  BY <1>4 DEF Subscribe, Become, connVars, TypeOK, Awaiting, Reply
<1>5. CASE CloseFound(r)
  BY <1>5, RequestFields
     DEF CloseFound, hasSubscription, Become, connVars, TypeOK, Awaiting
<1>6. CASE CloseNotFound(r)
  BY <1>6 DEF CloseNotFound, Become, connVars, TypeOK, Reply
<1>. QED  BY <1>1, <1>2, <1>3, <1>4, <1>5, <1>6 DEF Handle

\* So do the answers of the DWN and its event stream.
LEMMA DwnType == ASSUME TypeOK, NEW r \in Request, Dwn(r) PROVE TypeOK'
<1>1. CASE DwnOpens(r)
  BY <1>1 DEF DwnOpens, Become, connVars, TypeOK, Awaiting
<1>2. CASE DwnReplies(r)
  BY <1>2 DEF DwnReplies, Become, connVars, TypeOK, Reply
<1>3. CASE DwnThrows(r)
  BY <1>3 DEF DwnThrows, Become, connVars, TypeOK, Reply
<1>4. CASE StreamCloses(r)
  BY <1>4 DEF StreamCloses, Become, connVars, TypeOK, Awaiting
<1>5. CASE StreamCloseFails(r)
  BY <1>5 DEF StreamCloseFails, Become, connVars, TypeOK, Reply
<1>. QED  BY <1>1, <1>2, <1>3, <1>4, <1>5 DEF Dwn

\* So do the continuations.
LEMMA ResumeType == ASSUME TypeOK, NEW r \in Request, Resume(r) PROVE TypeOK'
<1>1. CASE AddSubscription(r)
  BY <1>1, RequestFields DEF AddSubscription, Become, TypeOK, Reply
<1>2. CASE AddSubscriptionThrows(r)
  BY <1>2 DEF AddSubscriptionThrows, Become, connVars, TypeOK, Reply
<1>3. CASE DeleteSubscription(r)
  BY <1>3, RequestFields DEF DeleteSubscription, Become, TypeOK, Reply
<1>. QED  BY <1>1, <1>2, <1>3 DEF Resume

\* So does everything that happens to a connection.
LEMMA ConnectionType ==
    ASSUME TypeOK, NEW s \in Socket, Connection(s) PROVE TypeOK'
<1>1. CASE Connect(s)
  BY <1>1 DEF Connect, TypeOK
<1>2. CASE Heartbeat(s)
  <2>1. {s} \in SUBSET Socket /\ {} \in SUBSET Socket
    OBVIOUS
  <2>2. CASE isAlive[s]
    BY <1>2, <2>2 DEF Heartbeat, TypeOK
  <2>3. CASE ~isAlive[s]
    BY <1>2, <2>1, <2>3, CloseConnectionsType DEF Heartbeat, TypeOK
  <2>. QED  BY <2>2, <2>3
<1>3. CASE Pong(s)
  BY <1>3 DEF Pong, TypeOK
<1>4. CASE PeerGoesSilent(s)
  BY <1>4 DEF PeerGoesSilent, TypeOK
<1>5. CASE PeerCloses(s)
  BY <1>5, CloseConnectionsType, {s} \in SUBSET Socket DEF PeerCloses, TypeOK
<1>6. CASE PeerClosesUnheard(s)
  BY <1>6 DEF PeerClosesUnheard, TypeOK
<1>7. CASE SocketError(s)
  BY <1>7, CloseConnectionsType, {s} \in SUBSET Socket DEF SocketError, TypeOK
<1>8. CASE ConnectionStreams(s)
  <2>1. PICK c \in closers[s] : \E h \in c.waits :
                AwaitedCloses(s, c, h) \/ AwaitedCloseFails(s, c, h)
    BY <1>8 DEF ConnectionStreams
  <2>2. PICK h \in c.waits : AwaitedCloses(s, c, h) \/ AwaitedCloseFails(s, c, h)
    BY <2>1
  <2>3. c \in Closer
    BY DEF TypeOK
  <2>4. CASE AwaitedCloses(s, c, h)
    <3>1. closers' \in [Socket -> SUBSET Closer]
      BY <2>3, <2>4, SettleType DEF AwaitedCloses, Closer
    <3>. QED  BY <2>4, <3>1 DEF AwaitedCloses, TypeOK, onClose
  <2>5. CASE AwaitedCloseFails(s, c, h)
    <3>1. closers' \in [Socket -> SUBSET Closer]
      BY <2>5, SettleType DEF AwaitedCloseFails
    <3>. QED  BY <2>5, <3>1 DEF AwaitedCloseFails, TypeOK
  <2>. QED  BY <2>2, <2>4, <2>5
<1>. QED
  BY <1>1, <1>2, <1>3, <1>4, <1>5, <1>6, <1>7, <1>8 DEF Connection

LEMMA ServerType ==
    ASSUME TypeOK, WsApiClose \/ WsServerClosed PROVE TypeOK'
<1>1. connections \in SUBSET Socket /\ {} \in SUBSET Socket
  BY DEF TypeOK
<1>2. CASE WsApiClose
  BY <1>1, <1>2, CloseConnectionsType DEF WsApiClose, TypeOK
<1>3. CASE WsServerClosed
  BY <1>1, <1>3, CloseConnectionsType DEF WsServerClosed, TypeOK
<1>. QED  BY <1>2, <1>3

\* The types of all variables (socket-connection.ts, connection-manager.ts).
THEOREM Typing == Spec => []TypeOK
<1>1. Init => TypeOK
  BY DEF Init, TypeOK
<1>2. TypeOK /\ [Next]_vars => TypeOK'
  <2>. SUFFICES ASSUME TypeOK, [Next]_vars PROVE TypeOK'
    OBVIOUS
  <2>1. CASE \E r \in Request : Handle(r) \/ Dwn(r) \/ Resume(r)
    BY <2>1, HandleType, DwnType, ResumeType
  <2>2. CASE \E s \in Socket : Connection(s)
    BY <2>2, ConnectionType
  <2>3. CASE WsApiClose \/ WsServerClosed
    BY <2>3, ServerType
  <2>4. CASE UNCHANGED vars
    BY <2>4 DEF vars, TypeOK
  <2>. QED  BY <2>1, <2>2, <2>3, <2>4 DEF Next
<1>. QED  BY <1>1, <1>2, PTL DEF Spec

------------------------------------------------------------------------------
(* What a connection holds.                                                *)

Agree == PhasesAgree /\ HandlesAgree /\ ClosersAgree

Sound == Agree /\ RegistryIsSound /\ CloseReplyIsTrue

\* What a step does that only lets request r go from one phase to another,
\* neither of which the closing of subscriptions knows.
Quietly(r, p) ==
    /\ Become(r, p)
    /\ phase[r] \notin {"opened", "subscribed", "closing", "streamClosed"}
    /\ p \notin {"opened", "subscribed", "closing", "streamClosed", "unsent"}
    /\ p = "dwn" => phase[r] = "unsent" /\ r.kind \in {"subscribe", "process"}
    /\ p = "ok" => r.kind # "close"
    /\ UNCHANGED <<connVars, handle, stream>>

\* A request that is neither acknowledged nor about to delete a reference may
\* change its phase without touching what the connections hold.
LEMMA RegistryKept ==
    ASSUME TypeOK, Sound, NEW r \in Request,
           phase[r] \notin {"subscribed", "streamClosed"},
           \A q \in Request : q # r => phase'[q] = phase[q],
           UNCHANGED <<subscriptions, closers, handle, stream>>
    PROVE  RegistryIsSound'
<1>. SUFFICES ASSUME NEW s \in Socket, NEW i \in SubId,
                     subscriptions[s][i] # Nil
              PROVE  LET h == subscriptions[s][i]
                     IN  /\ h.sock = s /\ h.id = i /\ h.kind = "subscribe"
                         /\ phase'[h] = "subscribed"
                         /\ ~Closing(h)
                         /\ \/ stream[h] = "open"
                            \/ \E c \in Request :
                                  phase'[c] = "streamClosed" /\ handle[c] = h
  BY DEF RegistryIsSound, Closing
<1>. DEFINE h == subscriptions[s][i]
<1>1. h \in Request
  BY DEF TypeOK
<1>2. /\ h.sock = s /\ h.id = i /\ h.kind = "subscribe"
      /\ phase[h] = "subscribed" /\ ~Closing(h)
      /\ \/ stream[h] = "open"
         \/ \E c \in Request : phase[c] = "streamClosed" /\ handle[c] = h
  BY DEF Sound, RegistryIsSound
<1>3. (\E c \in Request : phase[c] = "streamClosed" /\ handle[c] = h)
         => \E c \in Request : phase'[c] = "streamClosed" /\ handle[c] = h
  OBVIOUS
<1>. QED  BY <1>1, <1>2, <1>3

LEMMA QuietStep ==
    ASSUME TypeOK, Sound, NEW r \in Request, NEW p, Quietly(r, p),
           stream[r] = "none"
    PROVE  Sound'
<1>1. /\ UNCHANGED <<subscriptions, closers, handle, stream>>
      /\ phase' = [phase EXCEPT ![r] = p]
  BY DEF Quietly, Become, connVars
<1>2. \A q \in Request : q # r => phase'[q] = phase[q]
  BY <1>1 DEF TypeOK
<1>3. phase'[r] = p
  BY <1>1 DEF TypeOK
<1>4. PhasesAgree'
  BY <1>1, <1>2, <1>3 DEF Sound, Agree, PhasesAgree, Quietly
<1>5. HandlesAgree'
  BY <1>1, <1>2, <1>3 DEF Sound, Agree, HandlesAgree, Found, Quietly, TypeOK
<1>6. ClosersAgree'
  BY <1>1, <1>2, <1>3 DEF Sound, Agree, ClosersAgree, Quietly, TypeOK, Closer
<1>7. RegistryIsSound'
  BY <1>1, <1>2, RegistryKept DEF Quietly
<1>8. CloseReplyIsTrue'
  BY <1>1, <1>2, <1>3
     DEF Sound, CloseReplyIsTrue, Registered, Quietly, TypeOK
<1>. QED  BY <1>4, <1>5, <1>6, <1>7, <1>8 DEF Sound, Agree

LEMMA HandleSound ==
    ASSUME TypeOK, Sound, NEW r \in Request, Handle(r) PROVE Sound'
<1>1. phase[r] = "unsent" /\ stream[r] = "none"
  BY DEF Handle, RefuseMessage, RouteFails, Process, Subscribe, CloseFound,
         CloseNotFound, Receives, Sound, Agree, PhasesAgree
<1>2. CASE RefuseMessage(r)
  <2>1. PICK k \in DOMAIN Refusal : Receives(r, k) /\ Become(r, Refusal[k])
    BY <1>2 DEF RefuseMessage
  <2>2. Quietly(r, Refusal[k])
    BY <1>1, <1>2, <2>1 DEF RefuseMessage, Quietly, Refusal
  <2>. QED  BY <1>1, <2>2, QuietStep
<1>3. CASE RouteFails(r)
  <2>1. Quietly(r, "threw")
    BY <1>1, <1>3 DEF RouteFails, Quietly
  <2>. QED  BY <1>1, <2>1, QuietStep
<1>4. CASE Process(r)
  <2>1. Quietly(r, "dwn")
    BY <1>1, <1>4 DEF Process, Receives, Quietly
  <2>. QED  BY <1>1, <2>1, QuietStep
<1>5. CASE Subscribe(r)
  <2>1. Quietly(r, "dwn") \/ Quietly(r, "InvalidParams")
    BY <1>1, <1>5 DEF Subscribe, Receives, Quietly
  <2>. QED  BY <1>1, <2>1, QuietStep
<1>6. CASE CloseNotFound(r)
  <2>1. Quietly(r, "InvalidParams")
    BY <1>1, <1>6 DEF CloseNotFound, Quietly
  <2>. QED  BY <1>1, <2>1, QuietStep
<1>7. CASE CloseFound(r)
  <2>. DEFINE h == subscriptions[r.sock][r.id]
  <2>1. /\ UNCHANGED <<subscriptions, closers, stream>>
        /\ phase' = [phase EXCEPT ![r] = "closing"]
        /\ handle' = [handle EXCEPT ![r] = h]
        /\ r.kind = "close"
    BY <1>7 DEF CloseFound, Become, Receives, connVars
  <2>2. /\ h \in Request /\ h # r
        /\ h.sock = r.sock /\ h.id = r.id /\ phase[h] = "subscribed"
    <3>1. h # Nil
      BY <1>7 DEF CloseFound, hasSubscription
    <3>2. h \in Request \cup {Nil}
      BY RequestFields DEF TypeOK
    <3>. QED
      BY <1>1, <3>1, <3>2, RequestFields DEF Sound, RegistryIsSound
  <2>3. \A q \in Request : q # r => phase'[q] = phase[q] /\ handle'[q] = handle[q]
    BY <2>1 DEF TypeOK
  <2>4. phase'[r] = "closing" /\ handle'[r] = h
    BY <2>1 DEF TypeOK
  <2>5. PhasesAgree'
    BY <1>1, <2>1, <2>3, <2>4 DEF Sound, Agree, PhasesAgree
  <2>6. HandlesAgree'
    BY <1>1, <2>1, <2>2, <2>3, <2>4 DEF Sound, Agree, HandlesAgree, Found
  <2>7. ClosersAgree'
    BY <1>1, <2>1, <2>3, <2>4 DEF Sound, Agree, ClosersAgree, TypeOK, Closer
  <2>8. RegistryIsSound'
    BY <1>1, <2>1, <2>3, <2>4 DEF Sound, RegistryIsSound, Closing, TypeOK
  <2>9. CloseReplyIsTrue'
    BY <1>1, <2>1, <2>3, <2>4 DEF Sound, CloseReplyIsTrue, Registered
  <2>. QED  BY <2>5, <2>6, <2>7, <2>8, <2>9 DEF Sound, Agree
<1>. QED  BY <1>2, <1>3, <1>4, <1>5, <1>6, <1>7 DEF Handle

LEMMA DwnSound ==
    ASSUME TypeOK, Sound, NEW r \in Request, Dwn(r) PROVE Sound'
<1>1. phase[r] = "dwn" =>
          stream[r] = "none" /\ r.kind \in {"subscribe", "process"}
  BY DEF Sound, Agree, PhasesAgree
<1>2. CASE DwnReplies(r)
  <2>1. Quietly(r, "ok")
    BY <1>1, <1>2 DEF DwnReplies, Quietly
  <2>. QED  BY <1>1, <1>2, <2>1, QuietStep DEF DwnReplies
<1>3. CASE DwnThrows(r)
  <2>1. Quietly(r, "InternalError")
    BY <1>1, <1>3 DEF DwnThrows, Quietly
  <2>. QED  BY <1>1, <1>3, <2>1, QuietStep DEF DwnThrows
<1>4. CASE DwnOpens(r)
  <2>1. /\ UNCHANGED <<subscriptions, closers, handle>>
        /\ phase' = [phase EXCEPT ![r] = "opened"]
        /\ stream' = [stream EXCEPT ![r] = "open"]
        /\ phase[r] = "dwn" /\ r.kind = "subscribe"
    BY <1>4 DEF DwnOpens, Become, connVars
  <2>2. \A q \in Request : q # r => phase'[q] = phase[q] /\ stream'[q] = stream[q]
    BY <2>1 DEF TypeOK
  <2>3. phase'[r] = "opened" /\ stream'[r] = "open"
    BY <2>1 DEF TypeOK
  <2>4. PhasesAgree'
    BY <2>1, <2>2, <2>3 DEF Sound, Agree, PhasesAgree
  <2>5. HandlesAgree'
    BY <2>1, <2>2, <2>3 DEF Sound, Agree, HandlesAgree, Found
  <2>6. ClosersAgree'
    BY <2>1, <2>2, <2>3 DEF Sound, Agree, ClosersAgree, TypeOK, Closer
  <2>7. RegistryIsSound'
    BY <2>1, <2>2, <2>3 DEF Sound, RegistryIsSound, Closing, TypeOK
  <2>8. CloseReplyIsTrue'
    BY <2>1, <2>2, <2>3
       DEF Sound, Agree, HandlesAgree, Found, CloseReplyIsTrue, Registered
  <2>. QED  BY <2>4, <2>5, <2>6, <2>7, <2>8 DEF Sound, Agree
<1>5. CASE StreamCloses(r)
  <2>1. /\ UNCHANGED <<subscriptions, closers, handle>>
        /\ phase' = [phase EXCEPT ![r] = "streamClosed"]
        /\ stream' = [stream EXCEPT ![handle[r]] = "closed"]
        /\ phase[r] = "closing"
    BY <1>5 DEF StreamCloses, Become, connVars
  <2>2. /\ handle[r] \in Request
        /\ handle[r].sock = r.sock /\ handle[r].id = r.id
        /\ phase[handle[r]] = "subscribed" /\ r.kind = "close"
    BY <2>1 DEF Sound, Agree, HandlesAgree, PhasesAgree, Found
  <2>3. /\ \A q \in Request : q # r => phase'[q] = phase[q]
        /\ \A q \in Request : q # handle[r] => stream'[q] = stream[q]
    BY <2>1 DEF TypeOK
  <2>4. phase'[r] = "streamClosed" /\ stream'[handle[r]] = "closed"
    BY <2>1, <2>2 DEF TypeOK
  <2>5. stream[handle[r]] # "none"
    BY <2>2 DEF Sound, Agree, PhasesAgree
  <2>6. PhasesAgree'
    BY <2>1, <2>2, <2>3, <2>4, <2>5 DEF Sound, Agree, PhasesAgree
  <2>7. HandlesAgree'
    BY <2>1, <2>2, <2>3, <2>4 DEF Sound, Agree, HandlesAgree, Found
  <2>8. ClosersAgree'
    BY <2>1, <2>2, <2>3, <2>4 DEF Sound, Agree, ClosersAgree, TypeOK, Closer
  <2>9. RegistryIsSound'
    <3>. SUFFICES ASSUME NEW s \in Socket, NEW i \in SubId,
                         subscriptions[s][i] # Nil
                  PROVE  LET h == subscriptions[s][i]
                         IN  /\ h.sock = s /\ h.id = i /\ h.kind = "subscribe"
                             /\ phase'[h] = "subscribed"
                             /\ ~Closing(h)
                             /\ \/ stream'[h] = "open"
                                \/ \E c \in Request :
                                      phase'[c] = "streamClosed" /\ handle[c] = h
      BY <2>1 DEF RegistryIsSound, Closing
    <3>. DEFINE h == subscriptions[s][i]
    <3>1. h \in Request
      BY DEF TypeOK
    <3>2. /\ h.sock = s /\ h.id = i /\ h.kind = "subscribe"
          /\ phase[h] = "subscribed" /\ ~Closing(h)
      BY DEF Sound, RegistryIsSound
    <3>3. phase'[h] = "subscribed"
      BY <2>1, <2>3, <3>1, <3>2
    <3>4. CASE h = handle[r]
      BY <2>4, <3>2, <3>3, <3>4
    <3>5. CASE h # handle[r]
      <4>1. \/ stream[h] = "open"
            \/ \E c \in Request : phase[c] = "streamClosed" /\ handle[c] = h
        BY DEF Sound, RegistryIsSound
      <4>2. (\E c \in Request : phase[c] = "streamClosed" /\ handle[c] = h)
               => \E c \in Request : phase'[c] = "streamClosed" /\ handle[c] = h
        BY <2>1, <2>3
      <4>. QED  BY <2>3, <3>1, <3>2, <3>3, <3>5, <4>1, <4>2
    <3>. QED  BY <3>4, <3>5
  <2>10. CloseReplyIsTrue'
    BY <2>1, <2>2, <2>3, <2>4
       DEF Sound, Agree, HandlesAgree, Found, CloseReplyIsTrue, Registered
  <2>. QED  BY <2>6, <2>7, <2>8, <2>9, <2>10 DEF Sound, Agree
<1>6. CASE StreamCloseFails(r)
  <2>1. /\ UNCHANGED <<subscriptions, closers, handle, stream>>
        /\ phase' = [phase EXCEPT ![r] = "InternalError"]
        /\ phase[r] = "closing" /\ r.kind = "close"
    BY <1>6 DEF StreamCloseFails, Become, connVars, Sound, Agree, PhasesAgree
  <2>2. \A q \in Request : q # r => phase'[q] = phase[q]
    BY <2>1 DEF TypeOK
  <2>3. phase'[r] = "InternalError"
    BY <2>1 DEF TypeOK
  <2>4. PhasesAgree'
    BY <2>1, <2>2, <2>3 DEF Sound, Agree, PhasesAgree
  <2>5. HandlesAgree'
    BY <2>1, <2>2, <2>3 DEF Sound, Agree, HandlesAgree, Found
  <2>6. ClosersAgree'
    BY <2>1, <2>2, <2>3 DEF Sound, Agree, ClosersAgree, TypeOK, Closer
  <2>7. RegistryIsSound'
    BY <2>1, <2>2, RegistryKept
  <2>8. CloseReplyIsTrue'
    BY <2>1, <2>2, <2>3 DEF Sound, CloseReplyIsTrue, Registered
  <2>. QED  BY <2>4, <2>5, <2>6, <2>7, <2>8 DEF Sound, Agree
<1>. QED  BY <1>2, <1>3, <1>4, <1>5, <1>6 DEF Dwn

LEMMA ResumeSound ==
    ASSUME TypeOK, Sound, NEW r \in Request, Resume(r) PROVE Sound'
<1>. r.sock \in Socket /\ r.id \in SubId
  BY RequestFields
<1>1. CASE AddSubscription(r)
  <2>1. /\ UNCHANGED <<closers, handle, stream>>
        /\ phase' = [phase EXCEPT ![r] = "subscribed"]
        /\ subscriptions' = [subscriptions EXCEPT ![r.sock][r.id] = r]
        /\ phase[r] = "opened"
    BY <1>1 DEF AddSubscription, Become
  <2>2. stream[r] = "open" /\ r.kind = "subscribe" /\ ~Closing(r)
    BY <2>1 DEF Sound, Agree, PhasesAgree, ClosersAgree, Closing
  <2>3. \A q \in Request : q # r => phase'[q] = phase[q]
    BY <2>1 DEF TypeOK
  <2>4. phase'[r] = "subscribed"
    BY <2>1 DEF TypeOK
  <2>5. \A s \in Socket, i \in SubId : subscriptions'[s][i] =
            IF s = r.sock /\ i = r.id THEN r ELSE subscriptions[s][i]
    BY <2>1 DEF TypeOK
  <2>6. PhasesAgree'
    BY <2>1, <2>2, <2>3, <2>4 DEF Sound, Agree, PhasesAgree
  <2>7. HandlesAgree'
    BY <2>1, <2>3, <2>4 DEF Sound, Agree, HandlesAgree, Found
  <2>8. ClosersAgree'
    BY <2>1, <2>3, <2>4 DEF Sound, Agree, ClosersAgree, TypeOK, Closer
  <2>9. RegistryIsSound'
    <3>. SUFFICES ASSUME NEW s \in Socket, NEW i \in SubId,
                         subscriptions'[s][i] # Nil
                  PROVE  LET h == subscriptions'[s][i]
                         IN  /\ h.sock = s /\ h.id = i /\ h.kind = "subscribe"
                             /\ phase'[h] = "subscribed"
                             /\ ~Closing(h)
                             /\ \/ stream[h] = "open"
                                \/ \E c \in Request :
                                      phase'[c] = "streamClosed" /\ handle[c] = h
      BY <2>1 DEF RegistryIsSound, Closing
    <3>1. CASE s = r.sock /\ i = r.id
      BY <2>2, <2>4, <2>5, <3>1
    <3>2. CASE ~(s = r.sock /\ i = r.id)
      <4>. DEFINE h == subscriptions[s][i]
      <4>1. subscriptions'[s][i] = h /\ h \in Request
        BY <2>5, <3>2 DEF TypeOK
      <4>2. /\ h.sock = s /\ h.id = i /\ h.kind = "subscribe"
            /\ phase[h] = "subscribed" /\ ~Closing(h)
            /\ \/ stream[h] = "open"
               \/ \E c \in Request : phase[c] = "streamClosed" /\ handle[c] = h
        BY <4>1 DEF Sound, RegistryIsSound
      <4>3. (\E c \in Request : phase[c] = "streamClosed" /\ handle[c] = h)
               => \E c \in Request : phase'[c] = "streamClosed" /\ handle[c] = h
        BY <2>1, <2>3
      <4>4. phase'[h] = "subscribed"
        BY <2>3, <2>4, <4>1, <4>2
      <4>. QED  BY <4>1, <4>2, <4>3, <4>4
    <3>. QED  BY <3>1, <3>2
  <2>10. CloseReplyIsTrue'
    <3>. SUFFICES ASSUME NEW c \in Request, c.kind = "close", phase'[c] = "ok"
                  PROVE  /\ stream[handle[c]] = "closed"
                         /\ handle[c] \notin Registered(c.sock)'
      BY <2>1 DEF CloseReplyIsTrue
    <3>1. phase[c] = "ok"
      BY <2>3, <2>4
    <3>2. stream[handle[c]] = "closed" /\ handle[c] \notin Registered(c.sock)
      BY <3>1 DEF Sound, CloseReplyIsTrue
    <3>3. handle[c] # r
      BY <2>2, <3>2
    <3>4. \A i \in SubId : subscriptions'[c.sock][i] \in
                              {subscriptions[c.sock][i], r}
      BY <2>5, RequestFields
    <3>. QED  BY <3>2, <3>3, <3>4 DEF Registered
  <2>. QED  BY <2>6, <2>7, <2>8, <2>9, <2>10 DEF Sound, Agree
<1>2. CASE AddSubscriptionThrows(r)
  <2>1. /\ UNCHANGED <<subscriptions, closers, handle, stream>>
        /\ phase' = [phase EXCEPT ![r] = "InternalError"]
        /\ phase[r] = "opened"
    BY <1>2 DEF AddSubscriptionThrows, Become, connVars
  <2>2. \A q \in Request : q # r => phase'[q] = phase[q]
    BY <2>1 DEF TypeOK
  <2>3. phase'[r] = "InternalError"
    BY <2>1 DEF TypeOK
  <2>4. PhasesAgree'
    BY <2>1, <2>2, <2>3 DEF Sound, Agree, PhasesAgree
  <2>5. HandlesAgree'
    BY <2>1, <2>2, <2>3 DEF Sound, Agree, HandlesAgree, Found
  <2>6. ClosersAgree'
    BY <2>1, <2>2, <2>3 DEF Sound, Agree, ClosersAgree, TypeOK, Closer
  <2>7. RegistryIsSound'
    BY <2>1, <2>2, RegistryKept
  <2>8. CloseReplyIsTrue'
    BY <2>1, <2>2, <2>3 DEF Sound, CloseReplyIsTrue, Registered
  <2>. QED  BY <2>4, <2>5, <2>6, <2>7, <2>8 DEF Sound, Agree
<1>3. CASE DeleteSubscription(r)
  <2>1. /\ UNCHANGED <<closers, handle, stream>>
        /\ phase' = [phase EXCEPT ![r] = "ok"]
        /\ subscriptions' = [subscriptions EXCEPT ![r.sock][r.id] = Nil]
        /\ phase[r] = "streamClosed"
    BY <1>3 DEF DeleteSubscription, Become
  <2>2. /\ handle[r] \in Request /\ stream[handle[r]] = "closed"
        /\ handle[r].sock = r.sock /\ handle[r].id = r.id
        /\ stream[r] = "none"
    BY <2>1 DEF Sound, Agree, HandlesAgree, PhasesAgree, TypeOK, Found
  <2>3. \A q \in Request : q # r => phase'[q] = phase[q]
    BY <2>1 DEF TypeOK
  <2>4. phase'[r] = "ok"
    BY <2>1 DEF TypeOK
  <2>5. \A s \in Socket, i \in SubId : subscriptions'[s][i] =
            IF s = r.sock /\ i = r.id THEN Nil ELSE subscriptions[s][i]
    BY <2>1 DEF TypeOK
  <2>6. PhasesAgree'
    BY <2>1, <2>2, <2>3, <2>4 DEF Sound, Agree, PhasesAgree
  <2>7. HandlesAgree'
    BY <2>1, <2>3, <2>4 DEF Sound, Agree, HandlesAgree, Found
  <2>8. ClosersAgree'
    BY <2>1, <2>3, <2>4 DEF Sound, Agree, ClosersAgree, TypeOK, Closer
  <2>9. RegistryIsSound'
    <3>. SUFFICES ASSUME NEW s \in Socket, NEW i \in SubId,
                         subscriptions'[s][i] # Nil
                  PROVE  LET h == subscriptions'[s][i]
                         IN  /\ h.sock = s /\ h.id = i /\ h.kind = "subscribe"
                             /\ phase'[h] = "subscribed"
                             /\ ~Closing(h)
                             /\ \/ stream[h] = "open"
                                \/ \E c \in Request :
                                      phase'[c] = "streamClosed" /\ handle[c] = h
      BY <2>1 DEF RegistryIsSound, Closing
    <3>. DEFINE h == subscriptions[s][i]
    <3>1. subscriptions'[s][i] = h /\ h \in Request /\ ~(s = r.sock /\ i = r.id)
      BY <2>5 DEF TypeOK
    <3>2. /\ h.sock = s /\ h.id = i /\ h.kind = "subscribe"
          /\ phase[h] = "subscribed" /\ ~Closing(h)
          /\ \/ stream[h] = "open"
             \/ \E c \in Request : phase[c] = "streamClosed" /\ handle[c] = h
      BY <3>1 DEF Sound, RegistryIsSound
    <3>3. handle[r] # h
      BY <2>2, <3>1, <3>2
    <3>4. (\E c \in Request : phase[c] = "streamClosed" /\ handle[c] = h)
             => \E c \in Request : phase'[c] = "streamClosed" /\ handle[c] = h
      BY <2>3, <3>3
    <3>5. phase'[h] = "subscribed"
      BY <2>1, <2>3, <3>1, <3>2
    <3>. QED  BY <3>1, <3>2, <3>4, <3>5
  <2>10. CloseReplyIsTrue'
    <3>. SUFFICES ASSUME NEW c \in Request, c.kind = "close", phase'[c] = "ok"
                  PROVE  /\ stream[handle[c]] = "closed"
                         /\ handle[c] \notin Registered(c.sock)'
      BY <2>1 DEF CloseReplyIsTrue
    <3>1. CASE c = r
      <4>1. \A i \in SubId : subscriptions'[r.sock][i] # handle[r]
        BY <2>2, <2>5, RequestAssumption DEF Sound, RegistryIsSound
      <4>. QED  BY <2>2, <3>1, <4>1 DEF Registered
    <3>2. CASE c # r
      <4>1. stream[handle[c]] = "closed" /\ handle[c] \notin Registered(c.sock)
        BY <2>3, <3>2 DEF Sound, CloseReplyIsTrue
      <4>2. Registered(c.sock)' \subseteq Registered(c.sock)
        BY <2>5, RequestFields DEF Registered
      <4>. QED  BY <4>1, <4>2
    <3>. QED  BY <3>1, <3>2
  <2>. QED  BY <2>6, <2>7, <2>8, <2>9, <2>10 DEF Sound, Agree
<1>. QED  BY <1>1, <1>2, <1>3 DEF Resume

\* close() of connections moves what they hold to what they are closing.
LEMMA CloseConnectionsSound ==
    ASSUME TypeOK, Sound, NEW S \in SUBSET Socket, NEW down \in SUBSET Socket,
           CloseConnections(S, down), UNCHANGED <<phase, handle, stream>>
    PROVE  Sound'
<1>1. \A s \in Socket, i \in SubId : subscriptions'[s][i] =
          IF s \in S THEN Nil ELSE subscriptions[s][i]
  BY DEF CloseConnections
<1>2. \A s \in Socket : closers'[s] =
          IF s \in Busy(S)
          THEN closers[s] \cup {[waits |-> Collect(s), ok |-> TRUE]}
          ELSE closers[s]
  BY DEF CloseConnections
<1>3. PhasesAgree' /\ HandlesAgree'
  BY DEF Sound, Agree, PhasesAgree, HandlesAgree, Found
<1>4. ClosersAgree'
  <2>. SUFFICES ASSUME NEW s \in Socket, NEW c \in closers'[s], NEW h \in c.waits
                PROVE  h.sock = s /\ phase[h] = "subscribed"
    BY DEF ClosersAgree
  <2>1. CASE c \in closers[s]
    BY <2>1 DEF Sound, Agree, ClosersAgree
  <2>2. CASE c \notin closers[s]
    <3>1. c = [waits |-> Collect(s), ok |-> TRUE]
      BY <1>2, <2>2
    <3>2. h \in Registered(s)
      BY <3>1 DEF Collect
    <3>3. PICK i \in SubId : h = subscriptions[s][i] /\ h # Nil
      BY <3>2 DEF Registered
    <3>. QED  BY <3>3 DEF Sound, RegistryIsSound
  <2>. QED  BY <2>1, <2>2
<1>5. RegistryIsSound'
  <2>. SUFFICES ASSUME NEW s \in Socket, NEW i \in SubId, NEW h,
                       h = subscriptions'[s][i], h # Nil
                PROVE  /\ h.sock = s /\ h.id = i /\ h.kind = "subscribe"
                       /\ phase[h] = "subscribed"
                       /\ ~\E c \in closers'[h.sock] : h \in c.waits
                       /\ \/ stream[h] = "open"
                          \/ \E c \in Request :
                                phase[c] = "streamClosed" /\ handle[c] = h
    BY DEF RegistryIsSound, Closing
  <2>1. s \notin S /\ h = subscriptions[s][i]
    BY <1>1
  <2>2. closers'[s] = closers[s]
    BY <1>2, <2>1 DEF Busy
  <2>3. /\ h.sock = s /\ h.id = i /\ h.kind = "subscribe"
        /\ phase[h] = "subscribed" /\ ~Closing(h)
        /\ \/ stream[h] = "open"
           \/ \E c \in Request : phase[c] = "streamClosed" /\ handle[c] = h
    BY <2>1 DEF Sound, RegistryIsSound
  <2>. QED  BY <2>2, <2>3 DEF Closing
<1>6. CloseReplyIsTrue'
  <2>1. \A s \in Socket : Registered(s)' \subseteq Registered(s)
    BY <1>1 DEF Registered
  <2>. QED  BY <2>1, RequestFields DEF Sound, CloseReplyIsTrue
<1>. QED  BY <1>3, <1>4, <1>5, <1>6 DEF Sound, Agree

\* A close() that waits for less still waits for its own subscriptions only.
LEMMA SettleSound ==
    ASSUME TypeOK, Sound, NEW s \in Socket, NEW c \in closers[s],
           NEW h \in c.waits, NEW ok \in BOOLEAN, Settle(s, c, h, ok),
           UNCHANGED <<subscriptions, phase, handle>>,
           \/ UNCHANGED stream
           \/ stream' = [stream EXCEPT ![h] = "closed"]
    PROVE  Sound'
<1>1. c \in Closer /\ h \in Request
  BY DEF TypeOK, Closer
<1>2. h.sock = s /\ phase[h] = "subscribed"
  BY DEF Sound, Agree, ClosersAgree
<1>3. Closing(h)
  BY <1>2 DEF Closing
<1>4. stream[h] # "none" /\ \A q \in Request : q # h => stream'[q] = stream[q]
  BY <1>1, <1>2 DEF Sound, Agree, PhasesAgree, TypeOK
<1>5. stream'[h] \in {stream[h], "closed"}
  BY <1>1 DEF TypeOK
<1>6. \A t \in Socket : \A d \in closers'[t] :
          \E e \in closers[t] : d.waits \subseteq e.waits
  <2>. SUFFICES ASSUME NEW t \in Socket, NEW d \in closers'[t]
                PROVE  \E e \in closers[t] : d.waits \subseteq e.waits
    OBVIOUS
  <2>1. CASE d \in closers[t]
    BY <2>1
  <2>2. CASE d \notin closers[t]
    <3>1. t = s /\ d = [waits |-> c.waits \ {h}, ok |-> ok]
      BY <2>2 DEF Settle, TypeOK
    <3>. QED  BY <3>1
  <2>. QED  BY <2>1, <2>2
<1>7. PhasesAgree'
  BY <1>1, <1>2, <1>4, <1>5 DEF Sound, Agree, PhasesAgree
<1>8. HandlesAgree'
  BY <1>4, <1>5 DEF Sound, Agree, HandlesAgree, Found
<1>9. ClosersAgree'
  BY <1>6 DEF Sound, Agree, ClosersAgree
<1>10. \A q \in Request : q.sock \in Socket /\ Closing(q)' => Closing(q)
  BY <1>6 DEF Closing
<1>11. RegistryIsSound'
  <2>. SUFFICES ASSUME NEW t \in Socket, NEW i \in SubId,
                       subscriptions[t][i] # Nil
                PROVE  LET g == subscriptions[t][i]
                       IN  /\ g.sock = t /\ g.id = i /\ g.kind = "subscribe"
                           /\ phase[g] = "subscribed"
                           /\ ~Closing(g)'
                           /\ \/ stream'[g] = "open"
                              \/ \E d \in Request :
                                    phase[d] = "streamClosed" /\ handle[d] = g
    BY DEF RegistryIsSound, Closing
  <2>. DEFINE g == subscriptions[t][i]
  <2>1. g \in Request
    BY DEF TypeOK
  <2>2. /\ g.sock = t /\ g.id = i /\ g.kind = "subscribe"
        /\ phase[g] = "subscribed" /\ ~Closing(g)
        /\ \/ stream[g] = "open"
           \/ \E d \in Request : phase[d] = "streamClosed" /\ handle[d] = g
    BY DEF Sound, RegistryIsSound
  <2>3. g # h
    BY <1>3, <2>2
  <2>. QED  BY <1>4, <1>10, <2>1, <2>2, <2>3
<1>12. CloseReplyIsTrue'
  BY <1>4, <1>5
     DEF Sound, Agree, HandlesAgree, Found, CloseReplyIsTrue, Registered
<1>. QED  BY <1>7, <1>8, <1>9, <1>11, <1>12 DEF Sound, Agree

\* What Sound depends on.
held == <<subscriptions, closers, phase, handle, stream>>

LEMMA SoundUnchanged == ASSUME Sound, UNCHANGED held PROVE Sound'
BY DEF held, Sound, Agree, PhasesAgree, HandlesAgree, Found, ClosersAgree,
       RegistryIsSound, Closing, CloseReplyIsTrue, Registered

LEMMA ConnectionSound ==
    ASSUME TypeOK, Sound, NEW s \in Socket, Connection(s) PROVE Sound'
<1>. {s} \in SUBSET Socket /\ {} \in SUBSET Socket
  OBVIOUS
<1>1. CASE Connect(s) \/ Pong(s) \/ PeerGoesSilent(s) \/ PeerClosesUnheard(s)
  BY <1>1, SoundUnchanged
     DEF Connect, Pong, PeerGoesSilent, PeerClosesUnheard, held
<1>2. CASE Heartbeat(s) /\ isAlive[s]
  BY <1>2, SoundUnchanged DEF Heartbeat, held
<1>3. CASE Heartbeat(s) /\ ~isAlive[s]
  BY <1>3, CloseConnectionsSound DEF Heartbeat
<1>4. CASE PeerCloses(s) \/ SocketError(s)
  BY <1>4, CloseConnectionsSound DEF PeerCloses, SocketError
<1>5. CASE ConnectionStreams(s)
  <2>1. PICK c \in closers[s] : \E h \in c.waits :
                AwaitedCloses(s, c, h) \/ AwaitedCloseFails(s, c, h)
    BY <1>5 DEF ConnectionStreams
  <2>2. PICK h \in c.waits : AwaitedCloses(s, c, h) \/ AwaitedCloseFails(s, c, h)
    BY <2>1
  <2>3. c.ok \in BOOLEAN
    BY DEF TypeOK, Closer
  <2>4. CASE AwaitedCloses(s, c, h)
    BY <2>3, <2>4, SettleSound DEF AwaitedCloses
  <2>5. CASE AwaitedCloseFails(s, c, h)
    BY <2>5, SettleSound DEF AwaitedCloseFails
  <2>. QED  BY <2>2, <2>4, <2>5
<1>. QED  BY <1>1, <1>2, <1>3, <1>4, <1>5 DEF Connection

LEMMA ServerSound ==
    ASSUME TypeOK, Sound, WsApiClose \/ WsServerClosed PROVE Sound'
<1>1. connections \in SUBSET Socket /\ {} \in SUBSET Socket
  BY DEF TypeOK
<1>. QED  BY <1>1, CloseConnectionsSound DEF WsApiClose, WsServerClosed

LEMMA SoundInvariant == Spec => []Sound
<1>1. Init => Sound
  BY DEF Init, Sound, Agree, PhasesAgree, HandlesAgree, Found, ClosersAgree,
         RegistryIsSound, CloseReplyIsTrue
<1>2. TypeOK /\ Sound /\ [Next]_vars => Sound'
  <2>. SUFFICES ASSUME TypeOK, Sound, [Next]_vars PROVE Sound'
    OBVIOUS
  <2>1. CASE \E r \in Request : Handle(r) \/ Dwn(r) \/ Resume(r)
    BY <2>1, HandleSound, DwnSound, ResumeSound
  <2>2. CASE \E s \in Socket : Connection(s)
    BY <2>2, ConnectionSound
  <2>3. CASE WsApiClose \/ WsServerClosed
    BY <2>3, ServerSound
  <2>4. CASE UNCHANGED vars
    BY <2>4, SoundUnchanged DEF vars, held
  <2>. QED  BY <2>1, <2>2, <2>3, <2>4 DEF Next
<1>. QED  BY <1>1, <1>2, Typing, PTL DEF Spec

\* SocketConnection's Map holds acknowledged subscriptions only, under their
\* own id, and each still runs unless a close request is about to delete it.
THEOREM Registry == Spec => []RegistryIsSound
BY SoundInvariant, PTL DEF Sound

\* A success reply to rpc.subscribe.close is true, and stays true.
THEOREM CloseReply == Spec => []CloseReplyIsTrue
BY SoundInvariant, PTL DEF Sound
==============================================================================
