---------------------------- MODULE JsonRpcClient ----------------------------
(***************************************************************************)
(* JsonRpcSocket, the client of the WebSocket interface: request() with    *)
(* its timeout, subscribe() with the close() it returns, and the message   *)
(* listeners that both attach to the socket.  The server is any that keeps *)
(* the promise of Subscriptions: it answers late or never, and sends the   *)
(* events of a subscription from the moment that it has opened it, which   *)
(* is before it answers.  Messages to the client arrive in order.          *)
(*                                                                         *)
(* Ids are new ones: request() makes a uuid of its own, and so do the      *)
(* callers of subscribe().  A request is its own id, the id of a           *)
(* subscription is the subscription, and it is asked for once.             *)
(***************************************************************************)
EXTENDS Naturals, Sequences

CONSTANTS Here,       \* the socket of the client
          Call,       \* the calls of request()
          Sub,        \* the subscriptions
          Faulty,     \* those that the server may fail to close
          MaxEvents,  \* bound on the events of a subscription
          MaxCloses,  \* bound on the calls of its close()
          MaxInFlight \* bound on the messages on their way to the client

ASSUME ClientAssumption ==
    /\ MaxEvents \in Nat /\ MaxCloses \in Nat /\ MaxInFlight \in Nat
    /\ Faulty \subseteq Sub

\* The calls of the close() of one subscription, in their order.
Nth == 1 .. MaxCloses

subscribing(s) == [op |-> "subscribe", sock |-> Here, id |-> s]
closing(s, n) == [op |-> "close", sock |-> Here, id |-> s, n |-> n]
closingOnError(s) == [op |-> "closeOnError", sock |-> Here, id |-> s]

\* The requests that are sent: plain ones, the one that opens a subscription,
\* and the `rpc.subscribe.close' of each close() and of an error event.
Plain == [op : {"call"}, sock : {Here}, id : Call]
Subscribes == {subscribing(s) : s \in Sub}
ClosesOnError == {closingOnError(s) : s \in Sub}
Closes == {closing(s, n) : s \in Sub, n \in Nth} \cup ClosesOnError
Ask == Plain \cup Subscribes \cup Closes

VARIABLES
    socket,        \* the WebSocket of the client, "exited" with its process
    toServer,      \* the requests on their way to the server
    toClient,      \* the messages on their way to the client
    answer,        \* what the promise of each request is settled with
    listening,     \* the requests whose handleResponse is attached
    sub,           \* how far each subscription is for the client
    closeCall,     \* how far each call of its close() is
    subListening,  \* those whose socketEventListener is attached
    received,      \* the events that were passed to their listener
    reply, stream, gone,   \* the server, as Subscriptions has it
    sent           \* how many events the server has sent

Server == INSTANCE Subscriptions WITH
    Sub <- Subscribes, Close <- Closes,
    Faulty <- {subscribing(s) : s \in Faulty}

clientVars == <<socket, answer, listening, sub, closeCall, subListening, received>>
serverVars == <<reply, stream, gone, sent>>
vars == <<clientVars, toServer, toClient, serverVars>>

Response == [to : Ask, error : BOOLEAN]
Event == [event : Sub, n : 1 .. MaxEvents, error : BOOLEAN]

TypeOK ==
    /\ socket \in {"connecting", "open", "closed", "failed", "exited"}
    /\ toServer \subseteq Ask
    /\ toClient \in Seq(Response \cup Event)
    /\ answer \in [Ask -> {"unsent", "waiting", "ok", "error", "timedOut"}]
    /\ listening \subseteq Ask
    /\ sub \in [Sub -> {"none", "subscribing", "open", "refused", "failed"}]
    /\ closeCall \in [Sub -> [Nth -> {"none", "closing", "closed", "closeFailed"}]]
    /\ subListening \subseteq Sub
    /\ received \in [Sub -> Seq(1 .. MaxEvents)]
    /\ reply \in [Subscribes \cup Closes ->
                    {"none", "pending", "success", "refused"}]
    /\ stream \in [Subscribes -> {"none", "open", "closed"}]
    /\ gone \subseteq {Here}
    /\ sent \in [Sub -> 0 .. MaxEvents]

Init ==
    /\ socket = "connecting"
    /\ toServer = {}
    /\ toClient = <<>>
    /\ answer = [q \in Ask |-> "unsent"]
    /\ listening = {}
    /\ sub = [s \in Sub |-> "none"]
    /\ closeCall = [s \in Sub |-> [n \in Nth |-> "none"]]
    /\ subListening = {}
    /\ received = [s \in Sub |-> <<>>]
    /\ Server!Init
    /\ sent = [s \in Sub |-> 0]

------------------------------------------------------------------------------
(* The socket                                                              *)

\* connect() resolves with the open event or rejects with the error event; its
\* timer does nothing.
connect ==
    /\ socket = "connecting"
    /\ socket' \in {"open", "failed"}
    /\ UNCHANGED <<toServer, toClient, answer, listening, sub, closeCall,
                   subListening, received, serverVars>>

\* close(), or the other side or the network ends the connection.  What is on
\* its way may still arrive or be lost; no promise is settled.
SocketCloses ==
    /\ socket = "open"
    /\ socket' = "closed"
    /\ UNCHANGED <<toServer, toClient, answer, listening, sub, closeCall,
                   subListening, received, serverVars>>

------------------------------------------------------------------------------
(* request()                                                               *)

Connected == socket \in {"open", "closed"}
Running == socket /= "exited"

\* The listener is attached, then the request is sent; a closed socket drops
\* it.
request(q) ==
    /\ answer' = [answer EXCEPT ![q] = "waiting"]
    /\ listening' = listening \cup {q}
    /\ toServer' = IF socket = "open" THEN toServer \cup {q} ELSE toServer

CallRequest(c) ==
    LET q == [op |-> "call", sock |-> Here, id |-> c]
    IN  /\ Connected /\ answer[q] = "unsent"
        /\ request(q)
        /\ UNCHANGED <<socket, toClient, sub, closeCall, subListening, received,
                       serverVars>>

\* handleResponse
ReceiveResponse ==
    /\ Running
    /\ toClient /= <<>> /\ Head(toClient) \in Response
    /\ toClient' = Tail(toClient)
    /\ LET m == Head(toClient)
       IN  IF m.to \in listening
           THEN /\ listening' = listening \ {m.to}
                /\ answer' = [answer EXCEPT ![m.to] =
                                 IF m.error THEN "error" ELSE "ok"]
           ELSE UNCHANGED <<listening, answer>>
    /\ UNCHANGED <<socket, toServer, sub, closeCall, subListening, received,
                   serverVars>>

\* request() rejects.  Nobody handles that of a close() on error, and a process
\* that does not go on with an unhandled rejection, as node by default, exits.
Rejects(q) ==
    /\ Running /\ answer[q] = "waiting"
    /\ answer' = [answer EXCEPT ![q] = "timedOut"]
    /\ socket' \in {socket} \cup IF q \in ClosesOnError THEN {"exited"} ELSE {}
    /\ UNCHANGED <<toServer, toClient, sub, closeCall, subListening, received,
                   serverVars>>

\* Mutant: the listener stays when the request has timed out.
TimeoutKeepsListener(q) == Rejects(q) /\ UNCHANGED listening

\* Mutant: the timer does nothing once the socket is closed.
TimeoutWhenOpen(q) ==
    socket = "open" /\ Rejects(q) /\ listening' = listening \ {q}

\* Mutant: a request that is not answered in time is sent once more.
TimeoutSendsAgain(q) ==
    /\ Running /\ answer[q] = "waiting"
    /\ toServer' = toServer \cup {q}
    /\ UNCHANGED <<clientVars, toClient, serverVars>>

Timeout(q) == Rejects(q) /\ listening' = listening \ {q}

------------------------------------------------------------------------------
(* subscribe() and the close() that it returns                             *)

subscribe(s) ==
    /\ Connected /\ sub[s] = "none"
    /\ sub' = [sub EXCEPT ![s] = "subscribing"]
    /\ subListening' = subListening \cup {s}
    /\ request(subscribing(s))
    /\ UNCHANGED <<socket, toClient, closeCall, received, serverVars>>

\* Mutant: the answer is taken for the subscription.
SubscribeResumesAsIs(s) ==
    /\ Running
    /\ sub[s] = "subscribing" /\ answer[subscribing(s)] /= "waiting"
    /\ sub' = [sub EXCEPT ![s] = answer[subscribing(s)]]
    /\ UNCHANGED <<socket, toServer, toClient, answer, listening, closeCall,
                   subListening, received, serverVars>>

\* The promise of the request is settled.  When it timed out, subscribe()
\* rejects and its listener stays.
SubscribeResumes(s) ==
    /\ Running /\ sub[s] = "subscribing"
    /\ \/ /\ answer[subscribing(s)] = "ok"
          /\ sub' = [sub EXCEPT ![s] = "open"]
          /\ UNCHANGED subListening
       \/ /\ answer[subscribing(s)] = "error"
          /\ sub' = [sub EXCEPT ![s] = "refused"]
          /\ subListening' = subListening \ {s}
       \/ /\ answer[subscribing(s)] = "timedOut"
          /\ sub' = [sub EXCEPT ![s] = "failed"]
          /\ UNCHANGED subListening
    /\ UNCHANGED <<socket, toServer, toClient, answer, listening, closeCall,
                   received, serverVars>>

\* Mutant: the listener is attached when subscribe() has its answer.
HearsOnceOpen(s) == s \in subListening /\ sub[s] = "open"

Hears(s) == s \in subListening

\* socketEventListener.  Nobody waits for the request of an error event.
ReceiveEvent ==
    /\ Running
    /\ toClient /= <<>> /\ Head(toClient) \in Event
    /\ toClient' = Tail(toClient)
    /\ LET m == Head(toClient)
           s == m.event
       IN  /\ received' = IF Hears(s)
                          THEN [received EXCEPT ![s] = Append(@, m.n)]
                          ELSE received
           /\ IF Hears(s) /\ m.error
              THEN /\ subListening' = subListening \ {s}
                   /\ request(closingOnError(s))
              ELSE UNCHANGED <<subListening, answer, listening, toServer>>
    /\ UNCHANGED <<socket, sub, closeCall, serverVars>>

\* A close() that subscribe() has returned is called for the n-th time.
Called(s, n) ==
    /\ Running /\ sub[s] = "open"
    /\ closeCall[s][n] = "none"
    /\ \A m \in Nth : m < n => closeCall[s][m] /= "none"
    /\ closeCall' = [closeCall EXCEPT ![s][n] = "closing"]
    /\ UNCHANGED <<socket, toClient, sub, received, serverVars>>

\* Mutant: the listener goes on until the server has answered.
closeKeepsListener(s, n) ==
    /\ Called(s, n)
    /\ request(closing(s, n))
    /\ UNCHANGED subListening

close(s, n) ==
    /\ Called(s, n)
    /\ subListening' = subListening \ {s}
    /\ request(closing(s, n))

\* Mutant: the answer is not awaited.
CloseReturns(s, n) ==
    /\ Running /\ closeCall[s][n] = "closing"
    /\ closeCall' = [closeCall EXCEPT ![s][n] = "closed"]
    /\ UNCHANGED <<socket, toServer, toClient, answer, listening, sub,
                   subListening, received, serverVars>>

\* close() resolves whatever the answer says, and rejects when there is none.
CloseResumes(s, n) ==
    /\ Running /\ closeCall[s][n] = "closing"
    /\ \/ /\ answer[closing(s, n)] \in {"ok", "error"}
          /\ closeCall' = [closeCall EXCEPT ![s][n] = "closed"]
       \/ /\ answer[closing(s, n)] = "timedOut"
          /\ closeCall' = [closeCall EXCEPT ![s][n] = "closeFailed"]
    /\ UNCHANGED <<socket, toServer, toClient, answer, listening, sub,
                   subListening, received, serverVars>>

------------------------------------------------------------------------------
(* The server                                                              *)

Respond(q, error) ==
    /\ Len(toClient) < MaxInFlight
    /\ toClient' = Append(toClient, [to |-> q, error |-> error])

\* A request arrives.  A plain one is answered (with an error or not, which is
\* for its caller to look at), one for a subscription has to wait or is turned
\* away.
ServerTakes(q) ==
    /\ q \in toServer
    /\ toServer' = toServer \ {q}
    /\ \/ /\ q \in Plain
          /\ Respond(q, FALSE)
          /\ UNCHANGED <<reply, stream, gone>>
       \/ /\ q \notin Plain
          /\ \/ Server!Ask(q) /\ UNCHANGED toClient
             \/ Server!TurnAway(q) /\ Respond(q, TRUE)
    /\ UNCHANGED <<clientVars, sent>>

\* A subscription that the DWN refuses may be answered with a success response
\* around the DWN's reply.
ServerAnswersSubscribe(h) ==
    /\ \/ Server!Acknowledge(h) /\ Respond(h, FALSE)
       \/ Server!Refuse(h) /\ \E error \in BOOLEAN : Respond(h, error)
    /\ UNCHANGED <<clientVars, toServer, sent>>

ServerAnswersClose(c) ==
    /\ \/ Server!CloseSucceeds(c) /\ Respond(c, FALSE)
       \/ Server!CloseFails(c) /\ Respond(c, TRUE)
    /\ UNCHANGED <<clientVars, toServer, sent>>

\* The DWN opens a subscription, or one ends.
ServerStream(h) ==
    /\ Server!Open(h) \/ Server!End(h)
    /\ UNCHANGED <<clientVars, toServer, toClient, sent>>

\* The server takes the connection out of service.
ServerLeaves ==
    /\ gone' = {Here}
    /\ Server!Leave
    /\ UNCHANGED <<clientVars, toServer, toClient, sent>>

\* This server's events are no errors; those of others may be.
ServerSends(s) ==
    /\ stream[subscribing(s)] = "open" /\ sent[s] < MaxEvents
    /\ Len(toClient) < MaxInFlight
    /\ sent' = [sent EXCEPT ![s] = @ + 1]
    /\ \E error \in BOOLEAN :
          toClient' = Append(toClient,
                             [event |-> s, n |-> sent[s] + 1, error |-> error])
    /\ UNCHANGED <<clientVars, toServer, reply, stream, gone>>

------------------------------------------------------------------------------
Next ==
    \/ connect \/ SocketCloses \/ ReceiveResponse \/ ReceiveEvent
    \/ \E c \in Call : CallRequest(c)
    \/ \E q \in Ask : Timeout(q) \/ ServerTakes(q)
    \/ \E s \in Sub :
          \/ subscribe(s) \/ SubscribeResumes(s) \/ ServerSends(s)
          \/ \E n \in Nth : close(s, n) \/ CloseResumes(s, n)
    \/ \E h \in Subscribes : ServerAnswersSubscribe(h) \/ ServerStream(h)
    \/ \E c \in Closes : ServerAnswersClose(c)
    \/ ServerLeaves

Spec == Init /\ [][Next]_vars

\* Timers fire and settled promises resume their callers, as long as the process
\* runs; nothing is assumed of the server and the network.
Fairness ==
    /\ \A q \in Ask : WF_vars(Timeout(q))
    /\ \A s \in Sub : /\ WF_vars(SubscribeResumes(s))
                      /\ \A n \in Nth : WF_vars(CloseResumes(s, n))

FairSpec == Spec /\ Fairness

------------------------------------------------------------------------------
(* Properties                                                              *)

\* No event is lost or passed on twice or out of order: what a listener has got
\* is the first events of its subscription, also when they overtake the answer
\* to the subscribe request, and whatever is closed and times out meanwhile.
NoEventLost ==
    \A s \in Sub : received[s] = [i \in 1 .. Len(received[s]) |-> i]

\* The subscription is over for the caller: it called close(), got an error
\* event, or was refused.
Over(s) ==
    \/ sub[s] = "refused"
    \/ \E n \in Nth : closeCall[s][n] /= "none"
    \/ answer[closingOnError(s)] /= "unsent"

\* Once a subscription is over, its listener hears nothing more, although
\* events of it may be on their way and the server goes on until it is told.
NothingAfterClose ==
    [][\A s \in Sub : Over(s) => received'[s] = received[s]]_vars

\* A request's listener is attached to the socket exactly as long as its promise
\* waits, and subscriptions that are over leave none, in whatever order the
\* answers, the timers, the events and the end of the connection come.  (The
\* listener of a subscribe() that timed out does stay, for ever.)
NoListenerLeft ==
    /\ \A q \in Ask : q \in listening <=> answer[q] = "waiting"
    /\ \A s \in Sub : s \in subListening => sub[s] /= "none" /\ ~Over(s)

\* When a call of close() has resolved, the server has ended the subscription:
\* also when an error event or another call has asked for it a moment before, and
\* when the answer is an error, unless that tells of a close() that failed on the
\* server.
CloseEnds ==
    \A s \in Sub, n \in Nth : closeCall[s][n] = "closed" =>
        \/ stream[subscribing(s)] /= "open"
        \/ s \in Faulty /\ answer[closing(s, n)] = "error"

\* The server's promise covers what this client asks: a request arrives once,
\* and a subscribe while nothing else is asked for under its id.
AsksInTurn ==
    \A q \in toServer \ Plain :
        /\ reply[q] = "none"
        /\ q \in Subscribes => Server!Pending(q) = {}

\* Nothing waits for the client: no request, no subscribe() and no close().
Settled ==
    /\ \A q \in Ask : answer[q] /= "waiting"
    /\ \A s \in Sub : /\ sub[s] /= "subscribing"
                      /\ \A n \in Nth : closeCall[s][n] /= "closing"

\* Every request, and with it subscribe() and every close(), settles, also when
\* the connection ends before the answer; unless the process exits.
RequestsSettle == []<>(Settled \/ ~Running)
==============================================================================
