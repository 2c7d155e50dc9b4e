-------------------------- MODULE SocketConnections --------------------------
(***************************************************************************)
(* The WebSocket side of the server: WsApi, InMemoryConnectionManager, one *)
(* SocketConnection per client, and the two JSON-RPC handlers that run on  *)
(* a connection (handleDwnProcessMessage and handleSubscriptionsClose).    *)
(*                                                                         *)
(* A handler runs to its first await when the message arrives; what        *)
(* follows an await is an action of its own, because other messages, the   *)
(* heartbeat timer and the end of the connection run in between.  A        *)
(* subscribe request also names the event subscription that the DWN opens  *)
(* for it (its `close' function is what SocketConnection keeps).           *)
(***************************************************************************)
EXTENDS Naturals, FiniteSets

CONSTANTS
    Socket,       \* the WebSockets that may connect
    SubId,        \* the JSON-RPC ids under which clients subscribe
    Request,      \* the messages clients may send, each at most once
    Nil,          \* no request
    Pipelining,   \* the sockets whose client may subscribe under an id while
                  \* a request on it is unanswered
    Faulty        \* the subscriptions whose close() may reject (the event
                  \* stream is a plugin)

\* The kinds of message that are answered at once, and the answer.
Refusal == [empty         |-> "BadRequest",
            unparsable    |-> "BadRequest",
            write         |-> "InvalidParams",
            subscribeBare |-> "InvalidRequest",
            closeBare     |-> "InvalidRequest"]

Kind == {"subscribe", "process", "close", "unroutable"} \cup DOMAIN Refusal

ASSUME RequestAssumption ==
    /\ Request \subseteq [sock : Socket, id : SubId, kind : Kind, n : Nat]
    /\ Nil \notin Request
    /\ Pipelining \subseteq Socket
    /\ Faulty \subseteq Request

Awaiting == {"dwn", "opened", "closing", "streamClosed"}
Reply    == {"subscribed", "ok", "BadRequest", "InvalidParams",
             "InvalidRequest", "InternalError"}

VARIABLES
    sock,           \* state of each WebSocket
    clients,        \* the sockets in the WebSocketServer's own set of clients
    connections,    \* the sockets in the connection manager's Map
    attached,       \* the sockets that have their listeners and heartbeat
    isAlive,        \* the heartbeat's flag
    subscriptions,  \* each connection's Map from id to subscription
    closers,        \* the close() calls of a connection that wait or have
                    \* rejected
    phase,          \* how far the handling of each request is, or its reply
    handle,         \* the subscription that a close request is closing
    stream,         \* the subscriptions on the DWN's event stream
    silent,         \* the peers that stopped responding
    server          \* the WebSocketServer

connVars == <<sock, clients, connections, attached, isAlive, subscriptions,
              closers, silent, server>>
vars == <<sock, clients, connections, attached, isAlive, subscriptions,
          closers, phase, handle, stream, silent, server>>

Registered(s) == {subscriptions[s][i] : i \in SubId} \ {Nil}

\* What a close() waits for, and whether every stream so far did close: if not,
\* it has rejected.
Closer == {c \in [waits : SUBSET Request, ok : BOOLEAN] : c.waits = {} => ~c.ok}

TypeOK ==
    /\ sock \in [Socket -> {"none", "open", "closed"}]
    /\ clients \subseteq Socket
    /\ connections \subseteq Socket
    /\ attached \subseteq Socket
    /\ isAlive \in [Socket -> BOOLEAN]
    /\ subscriptions \in [Socket -> [SubId -> Request \cup {Nil}]]
    /\ closers \in [Socket -> SUBSET Closer]
    /\ phase \in [Request -> {"unsent", "threw"} \cup Awaiting \cup Reply]
    /\ handle \in [Request -> Request \cup {Nil}]
    /\ stream \in [Request -> {"none", "open", "closed"}]
    /\ silent \subseteq Socket
    /\ server \in {"listening", "closing", "closed"}

Init ==
    /\ sock = [s \in Socket |-> "none"]
    /\ clients = {}
    /\ connections = {}
    /\ attached = {}
    /\ isAlive = [s \in Socket |-> FALSE]
    /\ subscriptions = [s \in Socket |-> [i \in SubId |-> Nil]]
    /\ closers = [s \in Socket |-> {}]
    /\ phase = [r \in Request |-> "unsent"]
    /\ handle = [r \in Request |-> Nil]
    /\ stream = [r \in Request |-> "none"]
    /\ silent = {}
    /\ server = "listening"

------------------------------------------------------------------------------
(* Messages.  A message is handled only while the listeners are attached.  *)

\* A client that does not pipeline takes turns: it subscribes under an id when
\* its requests on that id are answered, as one does that has a new id for each
\* subscription.  It may close at any time, more than once.
IdIsQuiet(r) == \A q \in Request : (q.sock = r.sock /\ q.id = r.id)
                                       => phase[q] \notin Awaiting

Receives(r, k) ==
    /\ r.kind = k
    /\ phase[r] = "unsent"
    /\ r.sock \in attached
    /\ r.sock \notin silent
    /\ k = "subscribe" => r.sock \in Pipelining \/ IdIsQuiet(r)

\* Mutant: the Map is never consulted.
hasSubscriptionNever(s, i) == FALSE

\* SocketConnection.hasSubscription.
hasSubscription(s, i) == subscriptions[s][i] # Nil

Become(r, p) == phase' = [phase EXCEPT ![r] = p]

\* SocketConnection.message and the checks at the top of the two handlers:
\* the request is answered before anything is awaited.
RefuseMessage(r) ==
    /\ \E k \in DOMAIN Refusal : Receives(r, k) /\ Become(r, Refusal[k])
    /\ UNCHANGED <<connVars, handle, stream>>

\* No handler for the method, or a request without params: the router (or
\* the destructuring ahead of the handler's try) throws and message() rejects.
RouteFails(r) ==
    /\ Receives(r, "unroutable")
    /\ Become(r, "threw")
    /\ UNCHANGED <<connVars, handle, stream>>

\* handleDwnProcessMessage, up to `await dwn.processMessage'.
Process(r) ==
    /\ Receives(r, "process")
    /\ Become(r, "dwn")
    /\ UNCHANGED <<connVars, handle, stream>>

\* The same for a subscribe request, whose id must not be in the Map.
Subscribe(r) ==
    /\ Receives(r, "subscribe")
    /\ Become(r, IF hasSubscription(r.sock, r.id) THEN "InvalidParams"
                                                   ELSE "dwn")
    /\ UNCHANGED <<connVars, handle, stream>>

\* handleSubscriptionsClose, up to closeSubscription's `await close()'.
CloseFound(r) ==
    /\ Receives(r, "close")
    /\ hasSubscription(r.sock, r.id)
    /\ handle' = [handle EXCEPT ![r] = subscriptions[r.sock][r.id]]
    /\ Become(r, "closing")
    /\ UNCHANGED <<connVars, stream>>

CloseNotFound(r) ==
    /\ Receives(r, "close")
    /\ ~hasSubscription(r.sock, r.id)
    /\ Become(r, "InvalidParams")
    /\ UNCHANGED <<connVars, handle, stream>>

------------------------------------------------------------------------------
(* What follows an await.  None of it looks at the connection's state.     *)

\* The DWN opens the subscription; the handler has not resumed yet.
DwnOpens(r) ==
    /\ phase[r] = "dwn"
    /\ r.kind = "subscribe"
    /\ stream' = [stream EXCEPT ![r] = "open"]
    /\ Become(r, "opened")
    /\ UNCHANGED <<connVars, handle>>

\* The DWN replies without a subscription (a query, or a refused subscribe):
\* the reply is sent as it is.
DwnReplies(r) ==
    /\ phase[r] = "dwn"
    /\ Become(r, "ok")
    /\ UNCHANGED <<connVars, handle, stream>>

\* Mutant: no try around the handler's body.
DwnThrowsUncaught(r) ==
    /\ phase[r] = "dwn"
    /\ Become(r, "threw")
    /\ UNCHANGED <<connVars, handle, stream>>

\* dwn.processMessage rejects.
DwnThrows(r) ==
    /\ phase[r] = "dwn"
    /\ Become(r, "InternalError")
    /\ UNCHANGED <<connVars, handle, stream>>

\* addSubscription and the success reply.
AddSubscription(r) ==
    /\ phase[r] = "opened"
    /\ ~hasSubscription(r.sock, r.id)
    /\ subscriptions' = [subscriptions EXCEPT ![r.sock][r.id] = r]
    /\ Become(r, "subscribed")
    /\ UNCHANGED <<sock, clients, connections, attached, isAlive, closers,
                   handle, stream, silent, server>>

\* addSubscription throws: the id was taken while the DWN was working.
AddSubscriptionThrows(r) ==
    /\ phase[r] = "opened"
    /\ hasSubscription(r.sock, r.id)
    /\ Become(r, "InternalError")
    /\ UNCHANGED <<connVars, handle, stream>>

\* Mutant: closeSubscription does not await close().
StreamClosesLater(r) ==
    /\ phase[r] = "closing"
    /\ Become(r, "streamClosed")
    /\ UNCHANGED <<connVars, handle, stream>>

\* The close() that closeSubscription awaits resolves.
StreamCloses(r) ==
    /\ phase[r] = "closing"
    /\ stream' = [stream EXCEPT ![handle[r]] = "closed"]
    /\ Become(r, "streamClosed")
    /\ UNCHANGED <<connVars, handle>>

\* ... or rejects, and the reference is kept.
StreamCloseFails(r) ==
    /\ phase[r] = "closing"
    /\ handle[r] \in Faulty
    /\ Become(r, "InternalError")
    /\ UNCHANGED <<connVars, handle, stream>>

\* Mutant: the reference is not deleted.
DeleteSubscriptionNot(r) ==
    /\ phase[r] = "streamClosed"
    /\ Become(r, "ok")
    /\ UNCHANGED <<connVars, handle, stream>>

\* closeSubscription deletes what the Map holds under the id by now.
DeleteSubscription(r) ==
    /\ phase[r] = "streamClosed"
    /\ subscriptions' = [subscriptions EXCEPT ![r.sock][r.id] = Nil]
    /\ Become(r, "ok")
    /\ UNCHANGED <<sock, clients, connections, attached, isAlive, closers,
                   handle, stream, silent, server>>

------------------------------------------------------------------------------
(* The end of connections.                                                 *)

\* Mutant: the Map is emptied before close() looks into it.
CollectNothing(s) == {}

\* The subscriptions whose close() a closing connection calls.
Collect(s) == Registered(s)

\* The manager's onClose handler, for every connection in S.
onClose(S) == connections \ S

\* Mutant: a close() without subscriptions waits all the same.
AllBusy(S) == S

\* The connections in S whose close() has something to wait for.
Busy(S) == {s \in S : Collect(s) # {}}

\* SocketConnection.close() called for every socket in S, up to its
\* `await Promise.all': listeners and heartbeat are gone, the close() of
\* every registered subscription is called and the Map is emptied.  Without
\* subscriptions nothing is awaited, and the socket is closed and onClose
\* runs at once.  `down' are the sockets in S that are closed already.
CloseConnections(S, down) ==
    /\ attached' = attached \ S
    /\ subscriptions' = [s \in Socket |->
            IF s \in S THEN [i \in SubId |-> Nil] ELSE subscriptions[s]]
    /\ closers' = [s \in Socket |->
            IF s \in Busy(S)
            THEN closers[s] \cup {[waits |-> Collect(s), ok |-> TRUE]}
            ELSE closers[s]]
    /\ sock' = [s \in Socket |->
            IF s \in (S \ Busy(S)) \cup down THEN "closed" ELSE sock[s]]
    /\ connections' = onClose(S \ Busy(S))

\* The close() c of connection s with h taken off what it waits for: one that
\* resolves is over.
Settle(s, c, h, ok) ==
    closers' = [closers EXCEPT ![s] = (@ \ {c}) \cup
        ({[waits |-> c.waits \ {h}, ok |-> ok]} \cap Closer)]

\* Mutant: onClose runs only for a close() that had nothing to wait for.
AwaitedClosesOnly(s, c, h) ==
    /\ stream' = [stream EXCEPT ![h] = "closed"]
    /\ Settle(s, c, h, c.ok)
    /\ sock' = IF c.ok /\ c.waits = {h} THEN [sock EXCEPT ![s] = "closed"]
                                       ELSE sock
    /\ UNCHANGED <<connections, clients, attached, isAlive, subscriptions, phase,
                   handle, silent, server>>

\* One of the close() calls that c awaits resolves; after the last one the
\* socket is closed and onClose runs, unless one of the others rejected.
AwaitedCloses(s, c, h) ==
    /\ stream' = [stream EXCEPT ![h] = "closed"]
    /\ Settle(s, c, h, c.ok)
    /\ IF c.ok /\ c.waits = {h}
       THEN /\ sock' = [sock EXCEPT ![s] = "closed"]
            /\ connections' = onClose({s})
       ELSE UNCHANGED <<sock, connections>>
    /\ UNCHANGED <<clients, attached, isAlive, subscriptions, phase, handle,
                   silent, server>>

\* One of them rejects, and with it the whole of close().
AwaitedCloseFails(s, c, h) ==
    /\ h \in Faulty
    /\ Settle(s, c, h, FALSE)
    /\ UNCHANGED <<sock, clients, connections, attached, isAlive,
                   subscriptions, phase, handle, stream, silent, server>>

ConnectionStreams(s) ==
    \E c \in closers[s] : \E h \in c.waits :
        AwaitedCloses(s, c, h) \/ AwaitedCloseFails(s, c, h)

\* WebSocketServer 'connection': InMemoryConnectionManager.connect.
Connect(s) ==
    /\ server = "listening"
    /\ sock[s] = "none"
    /\ sock' = [sock EXCEPT ![s] = "open"]
    /\ clients' = clients \cup {s}
    /\ connections' = connections \cup {s}
    /\ attached' = attached \cup {s}
    /\ isAlive' = [isAlive EXCEPT ![s] = TRUE]
    /\ UNCHANGED <<subscriptions, closers, phase, handle, stream, silent,
                   server>>

\* Mutant: the flag is not cleared with the ping.
HeartbeatKeepsFlag(s) ==
    /\ s \in attached
    /\ ~isAlive[s]
    /\ CloseConnections({s}, {})
    /\ UNCHANGED <<clients, isAlive, phase, handle, stream, silent, server>>

\* The interval callback: close if no pong came since the last ping, then
\* clear the flag and ping.
Heartbeat(s) ==
    /\ s \in attached
    /\ isAlive' = [isAlive EXCEPT ![s] = FALSE]
    /\ \/ /\ isAlive[s]
          /\ UNCHANGED <<sock, connections, attached, subscriptions, closers>>
       \/ /\ ~isAlive[s]
          /\ CloseConnections({s}, {})
    /\ UNCHANGED <<clients, phase, handle, stream, silent, server>>

\* The peer answers a ping (automatically, as WebSocket prescribes).
Pong(s) ==
    /\ s \in attached \ silent
    /\ ~isAlive[s]
    /\ isAlive' = [isAlive EXCEPT ![s] = TRUE]
    /\ UNCHANGED <<sock, clients, connections, attached, subscriptions,
                   closers, phase, handle, stream, silent, server>>

\* The peer or the network stops responding without closing the connection.
PeerGoesSilent(s) ==
    /\ sock[s] = "open"
    /\ silent' = silent \cup {s}
    /\ UNCHANGED <<sock, clients, connections, attached, isAlive,
                   subscriptions, closers, phase, handle, stream, server>>

\* WebSocket 'close': the server's own listener, the older one, runs first.
PeerCloses(s) ==
    /\ s \in attached \ silent
    /\ clients' = clients \ {s}
    /\ CloseConnections({s}, {s})
    /\ UNCHANGED <<isAlive, phase, handle, stream, silent, server>>

\* The same after removeAllListeners: nobody hears of it, not even the
\* WebSocketServer, whose listener was on the same socket.
PeerClosesUnheard(s) ==
    /\ sock[s] = "open"
    /\ s \notin attached \cup silent
    /\ sock' = [sock EXCEPT ![s] = "closed"]
    /\ UNCHANGED <<clients, connections, attached, isAlive, subscriptions,
                   closers, phase, handle, stream, silent, server>>

\* WebSocket 'error': terminate, then close(), which takes the WebSocketServer's
\* 'close' listener away before the event comes.
SocketError(s) ==
    /\ s \in attached
    /\ CloseConnections({s}, {s})
    /\ UNCHANGED <<clients, isAlive, phase, handle, stream, silent, server>>

\* Mutant: only the WebSocketServer is closed.
WsApiCloseServer ==
    /\ server = "listening"
    /\ server' = "closing"
    /\ UNCHANGED <<sock, clients, connections, attached, isAlive,
                   subscriptions, closers, phase, handle, stream, silent>>

\* WsApi.close: no new connections, and closeAll().
WsApiClose ==
    /\ server = "listening"
    /\ server' = "closing"
    /\ CloseConnections(connections, {})
    /\ UNCHANGED <<clients, isAlive, phase, handle, stream, silent>>

\* WebSocketServer 'close', when its last client is gone: closeAll() again.
WsServerClosed ==
    /\ server = "closing"
    /\ clients = {}
    /\ server' = "closed"
    /\ CloseConnections(connections, {})
    /\ UNCHANGED <<clients, isAlive, phase, handle, stream, silent>>

------------------------------------------------------------------------------

Handle(r) ==
    \/ RefuseMessage(r) \/ RouteFails(r) \/ Process(r) \/ Subscribe(r)
    \/ CloseFound(r) \/ CloseNotFound(r)

Resume(r) ==
    \/ AddSubscription(r) \/ AddSubscriptionThrows(r) \/ DeleteSubscription(r)

Dwn(r) ==
    \/ DwnOpens(r) \/ DwnReplies(r) \/ DwnThrows(r)
    \/ StreamCloses(r) \/ StreamCloseFails(r)

Connection(s) ==
    \/ Connect(s) \/ Heartbeat(s) \/ Pong(s) \/ PeerGoesSilent(s)
    \/ PeerCloses(s) \/ PeerClosesUnheard(s) \/ SocketError(s)
    \/ ConnectionStreams(s)

Next ==
    \/ \E r \in Request : Handle(r) \/ Dwn(r) \/ Resume(r)
    \/ \E s \in Socket : Connection(s)
    \/ WsApiClose
    \/ WsServerClosed

Spec == Init /\ [][Next]_vars

\* The event loop runs every continuation and every timer that is due, and
\* the DWN settles every promise it gave.
Fairness ==
    /\ \A r \in Request : WF_vars(Dwn(r)) /\ WF_vars(Resume(r))
    /\ \A s \in Socket : WF_vars(Heartbeat(s)) /\ WF_vars(ConnectionStreams(s))

FairSpec == Spec /\ Fairness

------------------------------------------------------------------------------
(* What is correct.                                                        *)

Closing(h) == \E c \in closers[h.sock] : h \in c.waits

\* What a Map holds under an id is a subscription that was acknowledged under
\* that id on that connection.  It still runs, unless a close request has
\* ended it and is about to remove it; no close() of the connection is ending
\* it as well (addSubscription, closeSubscription, close).
RegistryIsSound ==
    \A s \in Socket, i \in SubId :
        LET h == subscriptions[s][i]
        IN  h # Nil =>
            /\ h.sock = s /\ h.id = i /\ h.kind = "subscribe"
            /\ phase[h] = "subscribed"
            /\ ~Closing(h)
            /\ \/ stream[h] = "open"
               \/ \E c \in Request : phase[c] = "streamClosed" /\ handle[c] = h

\* A success reply to rpc.subscribe.close is true for good: the subscription
\* that the request found has ended and the connection does not hold it.
CloseReplyIsTrue ==
    \A c \in Request : (c.kind = "close" /\ phase[c] = "ok") =>
        stream[handle[c]] = "closed" /\ handle[c] \notin Registered(c.sock)

\* A subscription that runs on the DWN is not forgotten: its handler has yet to
\* register it, or its connection's Map holds it, or its connection is closing
\* it.  (The leaks of clients that pipeline and of streams that fail to close
\* are excluded here.  That the Map of a connection that has ended may hold one
\* is ClosedIsClean's subject.)
RunningIsReachable ==
    \A h \in Request :
        (stream[h] = "open" /\ h.sock \notin Pipelining /\ h \notin Faulty) =>
            phase[h] = "opened" \/ h \in Registered(h.sock) \/ Closing(h)

\* A client that does not pipeline never receives the events of two
\* subscriptions under one id: hasSubscription and the await between it and
\* addSubscription are enough for such a client.
OneStreamPerId ==
    \A g, h \in Request :
        (/\ g.sock = h.sock /\ g.id = h.id /\ g.sock \notin Pipelining
         /\ stream[g] = "open" /\ stream[h] = "open") => g = h

\* The manager forgets a connection whose close() has finished, whatever second
\* close(), closeAll or late subscription came in between: one it still has is in
\* service, or a close() of it is waiting, or one has rejected.
NoZombie == \A s \in connections : s \in attached \/ closers[s] # {}

\* What the invariants above rest on: how far a request has come tells what
\* became of its subscription,
PhasesAgree ==
    \A r \in Request :
        /\ phase[r] \in {"unsent", "dwn"} => stream[r] = "none"
        /\ phase[r] = "opened" => stream[r] = "open"
        /\ phase[r] = "subscribed" => stream[r] # "none"
        /\ phase[r] = "dwn" => r.kind \in {"subscribe", "process"}
        /\ phase[r] \in {"closing", "streamClosed"} => r.kind = "close"
        /\ stream[r] # "none" =>
              /\ r.kind = "subscribe"
              /\ phase[r] \in {"opened", "subscribed", "InternalError"}

Found(c) == \/ phase[c] \in {"closing", "streamClosed"}
            \/ c.kind = "close" /\ phase[c] = "ok"

\* a close request works on an acknowledged subscription under its own id,
HandlesAgree ==
    \A c \in Request : Found(c) =>
        /\ handle[c] \in Request
        /\ handle[c].sock = c.sock /\ handle[c].id = c.id
        /\ phase[handle[c]] = "subscribed"
        /\ phase[c] # "closing" => stream[handle[c]] = "closed"

\* and so does the close() of a connection.
ClosersAgree ==
    \A s \in Socket : \A c \in closers[s] : \A h \in c.waits :
        h.sock = s /\ phase[h] = "subscribed"

\* The handler of every message that the router accepted replies.
HandlersReply ==
    \A r \in Request : (phase[r] \in Awaiting) ~> (phase[r] \in Reply)

\* The comment on the heartbeat: a peer that stops answering pings has its
\* connection closed.
SilentPeerIsDropped ==
    \A s \in Socket : (s \in silent) ~> (sock[s] = "closed")

\* closeAll closes every connection, the ones in the middle of closing too.
CloseAllCloses ==
    (server # "listening") ~> (\A s \in Socket : sock[s] # "open")

\* process-message.ts: a subscribe that is refused because its id is taken
\* does not leave its subscription open on the DWN.
RefusedIsNotOpen ==
    \A h \in Request : phase[h] = "InternalError" => stream[h] # "open"

\* SocketConnection.close cleans up any listeners or subscriptions: what still
\* runs for a closed connection is about to be closed or is only opening.
ClosedIsClean ==
    \A h \in Request : (stream[h] = "open" /\ sock[h.sock] = "closed") =>
                            Closing(h) \/ phase[h] = "opened"

------------------------------------------------------------------------------
(* What a client that takes turns sees of it.                              *)

TakesTurns(kind) == {r \in Request : r.kind = kind /\ r.sock \notin Pipelining}

\* What became of a request that asks for a subscription or for its end.
Outcome(r) ==
    IF phase[r] = "unsent" THEN "none"
    ELSE IF phase[r] \in Awaiting THEN "pending"
    ELSE IF phase[r] = (IF r.kind = "close" THEN "ok" ELSE "subscribed")
         THEN "success"
         ELSE "refused"

Promise == INSTANCE Subscriptions WITH
    Sub    <- TakesTurns("subscribe"),
    Close  <- TakesTurns("close"),
    reply  <- [r \in TakesTurns("subscribe") \cup TakesTurns("close") |->
                   Outcome(r)],
    stream <- [h \in TakesTurns("subscribe") |-> stream[h]],
    gone   <- {s \in Socket : sock[s] # "none" /\ s \notin attached}

\* To clients that subscribe under an id only when their requests on it are
\* answered the server keeps the promise of Subscriptions: what they subscribed
\* to opens, ends and is answered for in that order, also when they close once
\* more or too early, whatever other clients pipeline, whichever streams fail to
\* close, and however connections end in between.
TakingTurns == Promise!Spec
==============================================================================
