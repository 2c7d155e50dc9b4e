--------------------------- MODULE ServerLifecycle ---------------------------
(***************************************************************************)
(* DwnServer.start and stop, the process handlers that call stop, the HTTP *)
(* server that HttpApi starts and closes, the WebSocketServer on top of it *)
(* and the HttpServerShutdownHandler, with the TCP connections of clients. *)
(* start is called once at a time; stop may be called at any time, by a    *)
(* signal or by the program that embeds the server, and again before an    *)
(* earlier call has returned.                                              *)
(*                                                                         *)
(* An http.Server that is closed (node 20) stops listening, ends the idle  *)
(* connections and emits `close' when the last connection has ended, the   *)
(* upgraded ones included; a server that is not listening any more calls   *)
(* back with an error, then.  The `close' event of a WebSocket may come    *)
(* after the one of the server: WsApi.close may still find subscriptions   *)
(* to close, and rejects when one of them does.                            *)
(***************************************************************************)
EXTENDS Naturals

CONSTANTS
    Stop,              \* the calls of stop()
    Conn,              \* the TCP connections of clients
    Staying,           \* those whose client, once it has a WebSocket, stays
    Nobody,            \* no call
    WebSocketSupport,  \* config.webSocketSupport
    MaxStarts,         \* bound on the calls of start()
    MaxRequests        \* bound on the requests on each connection

ASSUME LifecycleAssumption ==
    /\ Staying \subseteq Conn
    /\ Nobody \notin Stop
    /\ WebSocketSupport \in BOOLEAN
    /\ MaxStarts \in Nat
    /\ MaxRequests \in Nat

VARIABLES
    process,      \* running, exited by process.exit(0), or killed
    serverState,
    starting,     \* the await that the call of start() is in, or none
    starts,       \* how many calls of start() there were
    stop,         \* how far each call of stop() is
    bySignal,     \* the calls of stop() that process.exit(0) follows
    dwn,          \* this.dwn
    manager,      \* the HttpApi has a RegistrationManager
    http,         \* the http.Server of this.#httpApi
    closer,       \* the call whose server.close() closes or closed it
    ws,           \* the WebSocketServer takes connections
    handlers,     \* the process handlers are installed
    conn,         \* the state of each connection
    requests,     \* how many requests came on each connection
    managed,      \* the WebSockets in the connection manager, whose
                  \* SocketConnection may hold subscriptions
    cut           \* a connection was destroyed with a request in service

vars == <<process, serverState, starting, starts, stop, bySignal, dwn, manager,
          http, closer, ws, handlers, conn, requests, managed, cut>>

serverVars == <<serverState, starting, starts, stop, bySignal, dwn, manager,
                http, closer, ws, handlers>>
connVars == <<conn, requests, managed, cut>>

StopPhases == {"uncalled", "dwn", "http", "ws", "handler", "returned",
               "rejected"}
ConnStates == {"none", "idle", "busy", "abandoned", "upgraded"}

TypeOK ==
    /\ process \in {"running", "exited", "killed"}
    /\ serverState \in {"Stopped", "Started"}
    /\ starting \in {"none", "dwn", "http"}
    /\ starts \in 0 .. MaxStarts
    /\ stop \in [Stop -> StopPhases]
    /\ bySignal \subseteq Stop
    /\ dwn \in {"undefined", "open", "closed"}
    /\ manager \in BOOLEAN
    /\ http \in {"undefined", "listening", "closing", "closed"}
    /\ closer \in IF http \in {"closing", "closed"} THEN Stop ELSE {Nobody}
    /\ ws \in BOOLEAN
    /\ handlers \in BOOLEAN
    /\ conn \in [Conn -> ConnStates]
    /\ requests \in [Conn -> 0 .. MaxRequests]
    /\ managed \subseteq Conn
    /\ cut \in BOOLEAN

Init ==
    /\ process = "running"
    /\ serverState = "Stopped"
    /\ starting = "none"
    /\ starts = 0
    /\ stop = [c \in Stop |-> "uncalled"]
    /\ bySignal = {}
    /\ dwn = "undefined"
    /\ manager = FALSE
    /\ http = "undefined"
    /\ closer = Nobody
    /\ ws = FALSE
    /\ handlers = FALSE
    /\ conn = [k \in Conn |-> "none"]
    /\ requests = [k \in Conn |-> 0]
    /\ managed = {}
    /\ cut = FALSE

NoConnection == \A k \in Conn : conn[k] = "none"
Stopping == \E c \in Stop : stop[c] \in {"dwn", "http", "ws", "handler"}

------------------------------------------------------------------------------
(* start()                                                                 *)

\* Mutant: the state is set before the awaits.
startEarly ==
    /\ process = "running" /\ starting = "none" /\ serverState = "Stopped"
    /\ starts < MaxStarts
    /\ starts' = starts + 1
    /\ starting' = IF dwn = "undefined" THEN "dwn" ELSE "http"
    /\ manager' = FALSE
    /\ serverState' = "Started"
    /\ UNCHANGED <<process, stop, bySignal, dwn, http, closer, ws, handlers,
                   connVars>>

\* A call on a started server returns at once, also while stop() is under way.
\* The DWN is created only if it hasn't been.
start ==
    /\ process = "running" /\ starting = "none" /\ serverState = "Stopped"
    /\ starts < MaxStarts
    /\ starts' = starts + 1
    /\ starting' = IF dwn = "undefined" THEN "dwn" ELSE "http"
    /\ manager' = FALSE
    /\ UNCHANGED <<process, serverState, stop, bySignal, dwn, http, closer, ws,
                   handlers, connVars>>

\* RegistrationManager.create, the event stream and Dwn.create.
createDwn ==
    /\ process = "running" /\ starting = "dwn"
    /\ starting' = "http"
    /\ dwn' = "open"
    /\ manager' = TRUE
    /\ UNCHANGED <<process, serverState, starts, stop, bySignal, http, closer,
                   ws, handlers, connVars>>

\* Mutant: the http.Server of the last start is taken again.
createHttpApiAgain ==
    /\ process = "running" /\ starting = "http"
    /\ starting' = "none"
    /\ http' = "listening"
    /\ ws' = WebSocketSupport
    /\ handlers' = TRUE
    /\ serverState' = "Started"
    /\ UNCHANGED <<process, starts, stop, bySignal, dwn, manager, closer,
                   connVars>>

\* HttpApi.create has resolved; from listen() to the end of start() nothing
\* else runs.
createHttpApi ==
    /\ process = "running" /\ starting = "http"
    /\ starting' = "none"
    /\ http' = "listening"
    /\ closer' = Nobody
    /\ ws' = WebSocketSupport
    /\ handlers' = TRUE
    /\ serverState' = "Started"
    /\ UNCHANGED <<process, starts, stop, bySignal, dwn, manager, connVars>>

\* A plugin, a store or the TTL cache cannot be opened: start() rejects.
StartFails ==
    /\ process = "running" /\ starting /= "none"
    /\ starting' = "none"
    /\ UNCHANGED <<process, serverState, starts, stop, bySignal, dwn, manager,
                   http, closer, ws, handlers, connVars>>

\* The port is in use: the error event has no listener and the process no
\* handler yet.
ListenFails ==
    /\ process = "running" /\ starting = "http"
    /\ process' = "killed"
    /\ UNCHANGED <<serverVars, connVars>>

------------------------------------------------------------------------------
(* stop()                                                                  *)

\* process.exit(0) follows a stop() that a signal handler called and that has
\* returned.
ExitAfter(c, called) == process' = IF c \in called THEN "exited" ELSE process

\* A stop() that a signal handler called rejects: unhandledRejectionHandler logs
\* it, and kills the process by its absence.
Reject(c) ==
    /\ stop' = [stop EXCEPT ![c] = "rejected"]
    /\ process' = IF c \in bySignal /\ ~handlers THEN "killed" ELSE process

CallStop(c, called) ==
    /\ process = "running" /\ stop[c] = "uncalled"
    /\ bySignal' = called
    /\ IF serverState = "Stopped"
       THEN /\ stop' = [stop EXCEPT ![c] = "returned"]
            /\ ExitAfter(c, called)
       ELSE /\ stop' = [stop EXCEPT ![c] = "dwn"]
            /\ UNCHANGED process
    /\ UNCHANGED <<serverState, starting, starts, dwn, manager, http, closer, ws,
                   handlers, connVars>>

\* SIGINT or SIGTERM.
Signal(c) ==
    \/ handlers /\ CallStop(c, bySignal \cup {c})
    \/ /\ process = "running" /\ ~handlers
       /\ process' = "killed"
       /\ UNCHANGED <<serverVars, connVars>>

\* server.close() ends the connections that serve no request.
EndIdle == conn' = [k \in Conn |-> IF conn[k] = "idle" THEN "none" ELSE conn[k]]

\* dwn.close has resolved, and HttpApi.close calls server.close().
dwnClosed(c) ==
    /\ process = "running" /\ stop[c] = "dwn"
    /\ dwn' = "closed"
    /\ \/ /\ http = "listening"
          /\ http' = "closing"
          /\ closer' = c
          /\ stop' = [stop EXCEPT ![c] = "http"]
          /\ EndIdle
          /\ UNCHANGED process
       \/ /\ http = "closing"
          /\ stop' = [stop EXCEPT ![c] = "http"]
          /\ EndIdle
          /\ UNCHANGED <<process, http, closer>>
       \/ /\ http = "closed"
          /\ Reject(c)
          /\ UNCHANGED <<http, closer, conn>>
    /\ UNCHANGED <<serverState, starting, starts, bySignal, manager, ws,
                   handlers, requests, managed, cut>>

\* dwn.close rejects, and so does stop().
dwnCloseFails(c) ==
    /\ process = "running" /\ stop[c] = "dwn"
    /\ Reject(c)
    /\ UNCHANGED <<serverState, starting, starts, bySignal, dwn, manager, http,
                   closer, ws, handlers, connVars>>

\* What destroys the connections K cuts the requests that they serve.
Destroy(K) ==
    /\ conn' = [k \in Conn |-> IF k \in K THEN "none" ELSE conn[k]]
    /\ cut' = (cut \/ \E k \in K : conn[k] \in {"busy", "abandoned"})

\* Mutant: server.close() is not awaited.
serverClosedAtOnce ==
    /\ process = "running" /\ http = "closing"
    /\ http' = "closed"
    /\ stop' = [c \in Stop |-> IF stop[c] /= "http" THEN stop[c]
                               ELSE IF c = closer THEN "ws" ELSE "rejected"]
    /\ ws' = FALSE
    /\ Destroy(Conn)
    /\ UNCHANGED <<process, serverState, starting, starts, bySignal, dwn,
                   manager, closer, handlers, requests, managed>>

\* Mutant: the callback does nothing with an error.
serverClosedIgnoresError ==
    /\ process = "running" /\ http = "closing"
    /\ NoConnection
    /\ http' = "closed"
    /\ stop' = [stop EXCEPT ![closer] = "ws"]
    /\ ws' = FALSE
    /\ Destroy(Conn)
    /\ UNCHANGED <<process, serverState, starting, starts, bySignal, dwn,
                   manager, closer, handlers, requests, managed>>

\* The server emits `close': the call that closed it goes on to
\* closeAllConnections and WsApi.close, which closes what the connection
\* manager has, and the others reject.
serverClosed ==
    /\ process = "running" /\ http = "closing"
    /\ NoConnection
    /\ http' = "closed"
    /\ stop' = [c \in Stop |-> IF stop[c] /= "http" THEN stop[c]
                               ELSE IF c = closer THEN "ws" ELSE "rejected"]
    /\ ws' = FALSE
    /\ Destroy(Conn)
    /\ UNCHANGED <<process, serverState, starting, starts, bySignal, dwn,
                   manager, closer, handlers, requests, managed>>

\* A subscription's close() rejects, and with it WsApi.close and stop().
wsApiCloseFails(c) ==
    /\ process = "running" /\ stop[c] = "ws"
    /\ managed /= {}
    /\ Reject(c)
    /\ UNCHANGED <<serverState, starting, starts, bySignal, dwn, manager, http,
                   closer, ws, handlers, connVars>>

\* WsApi.close has resolved, and HttpServerShutdownHandler.stop destroys the
\* sockets that it takes for idle; its server.close() calls back.
shutdownHandlerStop(c) ==
    /\ process = "running" /\ stop[c] = "ws"
    /\ stop' = [stop EXCEPT ![c] = "handler"]
    /\ managed' = {}
    /\ Destroy({k \in Conn : conn[k] = "idle"})
    /\ UNCHANGED <<process, serverState, starting, starts, bySignal, dwn,
                   manager, http, closer, ws, handlers, requests>>

\* Mutant: the process handlers stay.
StopReturnsHandling(c) ==
    /\ process = "running" /\ stop[c] = "handler"
    /\ stop' = [stop EXCEPT ![c] = "returned"]
    /\ serverState' = "Stopped"
    /\ ExitAfter(c, bySignal)
    /\ UNCHANGED <<starting, starts, bySignal, dwn, manager, http, closer, ws,
                   handlers, connVars>>

\* removeProcessHandlers, and the end of stop().
StopReturns(c) ==
    /\ process = "running" /\ stop[c] = "handler"
    /\ stop' = [stop EXCEPT ![c] = "returned"]
    /\ handlers' = FALSE
    /\ serverState' = "Stopped"
    /\ ExitAfter(c, bySignal)
    /\ UNCHANGED <<starting, starts, bySignal, dwn, manager, http, closer, ws,
                   connVars>>

------------------------------------------------------------------------------
(* Clients                                                                 *)

Become(k, state) ==
    /\ conn' = [conn EXCEPT ![k] = state]
    /\ UNCHANGED <<process, serverVars, cut>>

Connect(k) ==
    /\ process = "running" /\ http = "listening" /\ conn[k] = "none"
    /\ Become(k, "idle") /\ UNCHANGED <<requests, managed>>

\* A handler that throws outside every try abandons its request: it is never
\* answered.
Request(k) ==
    /\ process = "running" /\ conn[k] = "idle" /\ requests[k] < MaxRequests
    /\ requests' = [requests EXCEPT ![k] = @ + 1]
    /\ Become(k, "busy") \/ Become(k, "abandoned")
    /\ UNCHANGED managed

Respond(k) ==
    /\ process = "running" /\ conn[k] = "busy"
    /\ Become(k, "idle") /\ UNCHANGED <<requests, managed>>

Upgrade(k) ==
    /\ process = "running" /\ conn[k] = "idle" /\ ws
    /\ managed' = managed \cup {k}
    /\ Become(k, "upgraded") /\ UNCHANGED requests

\* The client leaves, or the server's keep-alive timeout ends the connection.
Leave(k) ==
    /\ process = "running" /\ conn[k] /= "none"
    /\ k \in Staying => conn[k] /= "upgraded"
    /\ Become(k, "none") /\ UNCHANGED <<requests, managed>>

\* The WebSocket's `close' event comes, and SocketConnection.close takes over its
\* subscriptions.  (After WsApi.close nobody hears it.)
SocketClosed(k) ==
    /\ process = "running" /\ ws
    /\ k \in managed /\ conn[k] /= "upgraded"
    /\ managed' = managed \ {k}
    /\ UNCHANGED <<process, serverVars, conn, requests, cut>>

------------------------------------------------------------------------------
Next ==
    \/ start \/ createDwn \/ createHttpApi \/ StartFails \/ ListenFails
    \/ \E c \in Stop :
          \/ CallStop(c, bySignal) \/ Signal(c)
          \/ dwnClosed(c) \/ dwnCloseFails(c)
          \/ wsApiCloseFails(c) \/ shutdownHandlerStop(c) \/ StopReturns(c)
    \/ serverClosed
    \/ \E k \in Conn :
          Connect(k) \/ Request(k) \/ Respond(k) \/ Upgrade(k) \/ Leave(k)
          \/ SocketClosed(k)

Spec == Init /\ [][Next]_vars

\* Awaited calls settle, and every client leaves at last, or a timeout of its
\* own or of the server ends the connection.
Fairness ==
    /\ \A c \in Stop : /\ WF_vars(dwnClosed(c) \/ dwnCloseFails(c))
                       /\ WF_vars(wsApiCloseFails(c) \/ shutdownHandlerStop(c))
                       /\ WF_vars(StopReturns(c))
    /\ WF_vars(serverClosed)
    /\ \A k \in Conn : WF_vars(Leave(k))

FairSpec == Spec /\ Fairness

------------------------------------------------------------------------------
(* Properties                                                              *)

\* The WsApi.close of the call that closed the http.Server has rejected: nothing
\* can stop or start this server any more.
Stuck == http = "closed" /\ stop[closer] = "rejected"

\* A server that is Started, with no stop() under way, handles signals and
\* serves: whatever calls of stop() overlapped, failed in Dwn.close, rejected or
\* were repeated before, it listens for HTTP and WebSockets, and on its first
\* start it has a registration manager.  Only when a stop() has failed after the
\* http.Server had closed, in WsApi.close, the server is Started and closed.
StartedServes ==
    serverState = "Started" /\ ~Stopping =>
        /\ handlers
        /\ \/ http = "listening" /\ ws = WebSocketSupport
              /\ (starts = 1 => manager)
           \/ Stuck

\* A server that is Stopped, and that is not starting, leaves nothing behind:
\* it does not listen, has no connection, no WebSocket in its connection manager,
\* and handles no signal, so that a signal in this state kills the process as
\* usual.
StoppedIsClean ==
    serverState = "Stopped" =>
        /\ http \in {"undefined", "closed"}
        /\ NoConnection /\ managed = {}
        /\ ~handlers

\* The shutdown is graceful: the process exits by itself only when no
\* connection is left, and no request was cut off by the server.  So the
\* shutdown handler finds no socket, and what it takes for idle is.
GracefulExit ==
    /\ ~cut
    /\ process = "exited" => NoConnection /\ serverState = "Stopped"
    /\ \A c \in Stop : stop[c] \in {"ws", "handler"} => NoConnection

\* No wake-up of overlapping calls of stop() is lost: a call in HttpApi.close
\* waits for a `close' event that is still to come, together with the call that
\* it will take on; and when that one has gone on, nobody waits behind it, so
\* that the server is stopped once.
NoLostWakeUp ==
    \A c, d \in Stop :
        /\ stop[c] = "http" => http = "closing" /\ stop[closer] = "http"
        /\ stop[c] \in {"ws", "handler"} /\ stop[d] \in {"http", "ws", "handler"}
              => d = c

\* Every call of stop() settles or ends the process.
StopEnds ==
    \A c \in Stop :
        stop[c] \notin {"uncalled", "returned", "rejected"}
            ~> stop[c] \in {"returned", "rejected"} \/ process /= "running"
==============================================================================
