# A verification project for dwn-server

TLA+ models of `dwn-server` (the DWN server in TypeScript under `src/`), the TLC
configurations that check them on small instances, and TLAPS proofs of theorems
about them for instances of any size. Every definition is translated from the
source; `PROJECT.json` maps each one to its lines.

    tlc -workers 2 -config SocketSerial.cfg MCSocketConnections.tla
    tlapm SocketConnectionsProofs.tla

## 1. Inventory

`src/src/...` is abbreviated to `src/...` in this section.

**SocketConnection** (`src/connection/socket-connection.ts`, with the handlers
`dwn/process-message.ts` and `subscription/close.ts` that run on a connection).
State: a Map from JSON-RPC id to an open DWN subscription, the flag `isAlive`,
an interval timer, the listeners on the `ws` socket. Operations: `message`
(route a request, send the reply), `addSubscription`, `closeSubscription`,
`hasSubscription`, `close`, `pong`, `error`, the heartbeat. Everything that
waits (the DWN opening a subscription, the `close()` of a subscription) leaves a
gap in which other messages, the heartbeat and the end of the connection run.
Correct when: the Map holds acknowledged subscriptions that run; a success reply
to `rpc.subscribe.close` is true; no running subscription is forgotten; one id
has one subscription; a silent peer is dropped; every accepted request is
answered.

**InMemoryConnectionManager and WsApi** (`src/connection/connection-manager.ts`,
`src/ws-api.ts`). State: the Map of connections; the `WebSocketServer` with its
own set of clients. Operations: `connect`, the `onClose` handler, `closeAll`,
`WsApi.close`, the server's `connection` and `close` events. Correct when: a
connection whose `close()` has finished is forgotten; `closeAll` closes every
connection, also the ones that are closing already.

**JSON-RPC router and handlers** (`src/lib/json-rpc-router.ts`,
`src/json-rpc-api.ts`, `src/json-rpc-handlers/`, `src/lib/json-rpc.ts`). No state
of their own. They run on WebSockets (modelled) and for `POST /` (one request,
one reply, possibly a data stream). Correct when every request is answered.

**Web5ConnectServer and SqlTtlCache** (`src/web5-connect/`, behind the four
`/connect` routes of `src/http-api.ts`). State: the table `cacheEntries` and the
clean-up timer. Operations: `setWeb5ConnectRequest`/`Response`,
`getWeb5ConnectRequest`/`Response`, `insert`, `get`, `delete`,
`cleanUpExpiredEntries`. Inserts and most deletes are not awaited. Correct when:
what was accepted can be fetched until it expires, once, and never after that;
what nobody fetches is removed.

**ProofOfWorkManager and ProofOfWork** (`src/registration/proof-of-work*.ts`).
State: the challenge nonces, the response nonces of the last minute, the current
maximum hash value and the increment of a recovery, two timers. Operations:
`getProofOfWorkChallenge`, `verifyProofOfWork`, `recordProofOfWork`,
`refreshChallengeNonce`, `refreshMaximumAllowedHashValue`. Correct when: a
response nonce is not accepted twice in a minute; a challenge stays good for as
long as a client was promised; the difficulty is in range, and comes back to the
initial one.

**RegistrationManager and RegistrationStore** (`src/registration/`). State: the
terms of service and their hash; the table of tenants, which the servers of a
cluster share. Operations: handle a registration (terms, proof of work, upsert),
the tenant gate, start again with other terms. Correct when: a tenant whose
registration was answered with success is active on every server that demands
those terms; a tenant is active only under terms that it asked for; a challenge
of any server is taken by all of them, until it expires on all of them.

**HttpApi** (`src/http-api.ts`). State: the HTTP server; the routes hand each
request to the DWN, to the registration manager or to the Web5 Connect server.

**DwnServer lifecycle** (`src/dwn-server.ts`, `src/process-handlers.ts`,
`src/lib/http-server-shutdown-handler.ts`). State: `serverState`, the APIs, the
signal handlers, the TCP sockets and whether each is idle. Operations: `start`,
`stop`, the signals, `HttpServerShutdownHandler.stop`. Correct when: `stop` ends,
requests that are being served are answered, and the server can start again.

**JsonRpcSocket** (`src/json-rpc-socket.ts`), the client. State: message
listeners, one timer per request. Operations: `connect`, `request`, `subscribe`,
its `close`. Correct when: each call settles, with the answer to its own id, and
leaves no listener behind; no event of a subscription is lost, and none is heard
after `close()`.

**Storage, plugin loader, configuration** (`src/storage.ts`,
`src/plugin-loader.ts`, `src/config.ts`) and **metrics, errors, entry points**:
start-up wiring without state that changes.

How they interact: `WsApi` passes each new WebSocket to the connection manager,
which makes a `SocketConnection` with an `onClose` callback that removes it from
the manager. A connection calls the router, which calls a handler with the
connection in its context; the handler awaits the external DWN (`dwn-sdk-js`) and
calls `addSubscription` or `closeSubscription` back on the connection. The
heartbeat, `closeAll` and socket events call `close`. `HttpApi` calls the router
for `POST /`, and the Web5 Connect server, whose cache talks to a SQL database.
All of it shares one event loop: code between two awaits is atomic, and nothing
else is.

The behaviours that are hard to test, each at its line, are the `hazards` of
`PROJECT.json`.

## 2. Modules

| module | what it is |
| --- | --- |
| `SocketConnections` | WebSocket connections, their manager, `WsApi` and the two JSON-RPC handlers |
| `Subscriptions` | the abstract specification that `SocketConnections` implements for clients that take turns, and the server of `JsonRpcClient` |
| `MCSocketConnections` | its instances; four `.cfg` files |
| `SocketConnectionsProofs` | its theorems |
| `SerialClientsProofs` | its theorems about clients that do not pipeline, with the refinement of `Subscriptions`, and about closed connections |
| `Web5Connect` | Web5ConnectServer on SqlTtlCache, statement by statement |
| `Mailbox` | the abstract specification that `Web5Connect` implements |
| `MCWeb5Connect` | its instances; two `.cfg` files |
| `Web5ConnectProofs` | its theorems |
| `Web5MailboxProofs` | the theorems that it implements `Mailbox` and that objects are used once |
| `ProofOfWork` | ProofOfWorkManager without a challenge seed |
| `MCProofOfWork` | its instance |
| `ProofOfWorkProofs` | its theorems |
| `Registration` | tenant registration by a cluster of servers with one table and one challenge seed |
| `Tenancy` | the abstract specification that `Registration` implements |
| `MCRegistration` | its instances; two `.cfg` files |
| `RegistrationProofs` | its theorems, with the refinement of `Tenancy` |
| `ServerLifecycle` | `DwnServer.start` and `stop`, signals, the HTTP server and its connections |
| `MCServerLifecycle` | its instances; two `.cfg` files |
| `ServerLifecycleProofs` | its theorems |
| `JsonRpcClient` | `JsonRpcSocket` against any server that keeps the promise of `Subscriptions` |
| `MCJsonRpcClient` | its instance |
| `JsonRpcClientProofs` | its theorems |

The modules meet where the code calls across: `ServerLifecycle` keeps of a
WebSocket only that its TCP connection is upgraded, which `SocketConnections`
details; `Registration` takes from `ProofOfWork` that a proof may be refused for
the difficulty, and adds the challenges of a cluster, which `ProofOfWork` leaves
out. They are not conjoined into one state machine: they share no variable, and the
product would have more states than TLC can visit.

Client and server meet in `Subscriptions`. `SocketConnections` implements it for
clients that take turns (`TakingTurns`, proved as `PromiseKept`); `JsonRpcClient`
has it as its server (`Server`), whose actions are its own with a message added,
and takes nothing else from the server; and it keeps to what the promise asks of
a client (`AsksInTurn`, proved as `InTurn`). So what is proved about the client
holds of it with this server: that a resolved `close()` has ended the
subscription rests on the Map, the awaits and the order of the handlers only
through that promise.

### SocketConnections

One action per piece of code between two awaits. A request is a record (socket,
id, kind, number); `phase[r]` is how far its handling is, or its reply. A
subscribe request also names the subscription that the DWN opens for it, whose
state is `stream[r]`; `handle[c]` is the subscription that the close request `c`
found in the Map before its await.

| code | action |
| --- | --- |
| `SocketConnection.message` with an empty or unparsable message, a write, a subscribe or close without a subscription id | `RefuseMessage` |
| `JsonRpcRouter.handle` without a handler, or a handler that throws before its `try` | `RouteFails` |
| `handleDwnProcessMessage` up to `await dwn.processMessage` | `Process`, `Subscribe` |
| the DWN's answer | `DwnOpens`, `DwnReplies`, `DwnThrows` |
| the rest of the handler | `AddSubscription`, `AddSubscriptionThrows` |
| `handleSubscriptionsClose` up to the await in `closeSubscription` | `CloseFound`, `CloseNotFound` |
| after that await | `StreamCloses` or `StreamCloseFails`, `DeleteSubscription` |
| `SocketConnection.close` up to `await Promise.all` | `CloseConnections(S, down)`, inside `Heartbeat`, `PeerCloses`, `SocketError`, `WsApiClose`, `WsServerClosed` |
| what `Promise.all` awaits, and the rest of `close` (`onClose` included), or its rejection | `AwaitedCloses`, `AwaitedCloseFails` |
| `pong`, the heartbeat | `Pong`, `Heartbeat` |
| `InMemoryConnectionManager.connect` | `Connect` |

`close()` may be called again while one waits (by `closeAll`), so a connection
has a set of `closers`; each keeps the streams it still waits for and whether
one has failed. `CloseConnections` acts on a set because `closeAll` calls
`close()` on every connection before the first of them resumes. A call of
`close()` that has rejected stays among the `closers`, so that `NoZombie` can tell a
connection that a failed `close()` left in the manager from one that a finished
`close()` forgot to remove; the streams in `Faulty` may fail to close, and need not.

Two details of `ws` 8.18 matter and are modelled: `removeAllListeners()` in
`SocketConnection.close` also removes the `WebSocketServer`'s own `close`
listener from the socket, so the server's set `clients` keeps it (variable
`clients`, action `PeerClosesUnheard`); and the `close` event of the server comes
when `clients` is empty.

Abstracted: message contents (a kind says which way the handlers go), the reply
text, the forwarding of events to the client, metrics and logs. The await in
`message` between routing and sending has no effect on the connection's state
and is merged with the step before it. `DwnReplies` stands for a query and for a
subscribe that the DWN answers without a subscription. Any number of heartbeats
may pass between two steps. `WsApi.close` may be called at any time while the
server listens, as the tests of `WsApi` and of the connection manager do;
that `DwnServer.stop` reaches it only after `HttpApi.close` is in
`ServerLifecycle`.

`IdIsQuiet` is an assumption on clients, and no code of `src/` enforces it: a
`JsonRpcSocket` takes whatever id its caller gives to `subscribe`
(`json-rpc-socket.ts:111`), and `tests/ws-api.spec.ts:247-288` subscribes twice under
one. The properties about clients that take turns say nothing about those that do
not; these are the `Pipelining` sockets of `socket_pipelined` and
`socket_duplicate`.

`Subscriptions` says what a client may rely on that takes turns, that is, subscribes
under an id only when its requests on that id are answered, and closes whenever it
likes, more than once too. It says it in terms of what became of each request, which
subscriptions run and which sockets are out of service: a subscribe is turned away
at once only when its id is in use, and a close only when no acknowledged
subscription runs; a refused subscribe leaves nothing behind; an acknowledged
subscription ends only with its connection or while its client is closing it; and a
close succeeds only when the subscription has ended. A connection's Map, its flags
and timers, and the phases of a handler do not occur in it. The refinement mapping
(`Promise`) takes the requests of the clients that are not in `Pipelining`; a phase
in which the handler awaits something is "pending". The two deletions from the Map
are stutters of it, and so is everything that the pipelining clients do. It does not
promise that nothing is opened for a client that is gone, since the code does not
keep that (section 6, 2).

### Web5Connect and Mailbox

`rows` is the table, `statements` what was sent to the database and has not been
executed. `Set` is a POST (its insert is not awaited), `Fetch` and the three
`Fetch...` continuations are a GET cut at its await, `Insert`, `Select`,
`Delete` and `DeleteExpired` are the database, `CleanUp` the timer. Requests
(fresh keys) and responses (keys chosen by the client) share their code and so
their actions. `Restart` loses `statements` and drops the pending fetches; the
table stays. With `InOrder` the database executes statements in the order in
which they were sent, as one SQLite connection does; without it, in any order,
as a pool may. A cache error, JSON parsing and HTTP status codes other than 201,
200 and 404 are left out.

`Mailbox` says what this promises: an accepted object is handed out to one taker,
while it is fresh, and a restart may put back what was just handed out (the
delete that followed it can be lost). The refinement mapping takes the takers of
an object to be the fetches that returned it, except those whose delete was still
in flight at a restart: handing it out a second time would be a step that
`Mailbox` does not have.

### ProofOfWork

Time is in units; the two timers count down and run as soon as they are due.
Where the code keeps time stamps the model keeps ages. `getProofOfWorkChallenge`,
`verifyProofOfWork`, `refreshChallengeNonce` and `Reevaluate`
(`refreshMaximumAllowedHashValue` with `removeProofOfWorkOlderThanOneMinute`,
which it calls first) are the methods. The arithmetic is that of the code, with
its integer divisions in the code's order, over any scale and multiplier. A new
random nonce is one that is not in use. `ProofOfWork`'s hash is any number of
`Hash`. Timers are on time; the delays of a busy event loop only make periods
longer. The code divides a minute by the evaluation period as floats and passes the
quotient to `BigInt`, which throws a RangeError unless it is an integer:
`EvaluationsAssumption` says that the period divides a minute, as the default of ten
seconds does.

### Registration and Tenancy

| code | action |
| --- | --- |
| `GET /registration/proof-of-work` | `getProofOfWorkChallenge` |
| `handleRegistrationRequest` up to the statement of the store: terms, response nonce, challenge nonce, `recordProofOfWork` | `handleRegistrationRequest`, `RefuseRegistration` |
| the database executes the upsert; the answer, if the request still waits | `insertOrUpdateTenantRegistration` |
| the store rejects, or its connection is lost with the statement on its way | `StoreFails` |
| `refreshChallengeNonce` with a seed, on the timer of one server | `refreshChallengeNonce` |
| `RegistrationManager.create` on a server that stopped or crashed, perhaps with another terms file | `Restart` |

`isActiveTenant` reads and is an operator. A nonce derived from the seed is the
number of its refresh interval, which the code computes from the clock and the
period before it hashes it; a server takes the nonces of the interval before, of
its own and of the next. `used` holds the requests whose response nonce a server
has recorded, since each request keeps one solved proof and repeats it. A unit of
time is longer than a minute and an evaluation, so `Tick` forgets them. A request
may be accepted again, by another server or after a restart, while the statement
of its earlier attempt is still on its way, so `sent` holds pairs of a request and
an attempt. `contested` is a history variable: which requests met one of the same
tenant for other terms; which of the two counts then depends on the database. The
terms of a server without a file are `Undefined`; a missing value is stored as
`Null`, which is not `Undefined`. Request parsing, the SHA-256 of terms and the
wording of errors are left out. `ProofOfWorkEnabled` says whether the servers
have the proof-of-work gate: without it they have no route for a challenge, while
the POST demands a proof all the same, so that nobody can register. The runs enable
it.

`Tenancy` says what registration is for, without challenges, servers' memories,
attempts or time: what a server demands, which accepted requests may still take
effect, what each tenant has agreed to, and which requests were confirmed. A
request is confirmed in the step in which it takes effect, never before.

### ServerLifecycle

`stop[c]` is the await that a call of `stop()` is in: `dwn.close`, then
`HttpApi.close`, `WsApi.close` and `HttpServerShutdownHandler.stop`. `start` is cut
at `Dwn.create` (with `RegistrationManager.create`) and `HttpApi.create`; from
`listen()` to the end it does not wait. `CallStop` is a call by the program,
`Signal` one by SIGINT or SIGTERM, after which the process exits; without the
handlers a signal kills it. `dwnClosed`, `dwnCloseFails`, `serverClosed`,
`wsApiCloseFails`, `shutdownHandlerStop` and `StopReturns` are what follows each
await. A connection is idle, busy with a request, abandoned (its handler threw
outside every try and nothing will answer), or upgraded to a WebSocket. What
`http.Server.close` does is that of node 20: it ends idle connections, calls back
when the last one has ended, and calls back with an error in the calls that came
second: these reject.

`managed` are the WebSockets in the connection manager. The `close` event of a
WebSocket may come after its TCP connection has ended and after the `close` event of
the `http.Server` (`SocketClosed` is a step of its own), so `WsApi.close` may find
connections with subscriptions although no TCP connection is left. It closes them,
and rejects when a subscription's `close()` does (`wsApiCloseFails`; `Faulty` in
`SocketConnections`). What that leaves is `Stuck`: the server is Started, its HTTP
and WebSocket servers are closed, and its handlers installed. `start()` returns at
once because the server is Started, every later `stop()` rejects in
`HttpApi.close`, and SIGINT and SIGTERM end in a logged rejection, so that only
SIGKILL ends the process. `StartedServes` names this state as its one exception:
every other failure, overlap or repetition leaves a server that serves.

Left out: that the `close` event of the `WebSocketServer` calls `closeAll` too,
without awaiting it, so that a `close()` which fails there is an unhandled
rejection, which the process handlers log while they are installed; a second
`start()` while one is under way; the time that the `setTimeout`s of keep-alive take
(a client leaves at last); requests that follow one another on a connection before
the first is answered; what the closed DWN answers after a restart.

### JsonRpcClient

`answer[q]` is what the promise of request `q` was settled with, `listening` the
`handleResponse` listeners on the socket, `subListening` the `socketEventListener`s.
`request` attaches the listener and sends; `Timeout` is its timer; `subscribe` and
`SubscribeResumes`, `close` and `CloseResumes` are the two functions cut at their
await of `request`. `ReceiveResponse` and `ReceiveEvent` take the first message, as
the `ws` client calls its listeners. The `close()` of a subscription may be called
any number of times (`closeCall[s][n]` is its n-th call), each time with a request
of its own; each detaches the listener when it succeeds. An error event makes the
listener detach itself and send a close request, as the code does. Nobody awaits the
promise of that request: when its timer fires the rejection is unhandled, which ends
a Node process by default and is harmless where a handler is installed. `Rejects`
allows both; in the first case the socket is "exited" and nothing of the client runs
any more. The server is `Subscriptions`, with the requests of this client:
`ServerTakes` is the arrival of one, `ServerStream` the DWN, `ServerAnswers...` the
two handlers' replies, `ServerLeaves` the end of the connection on the server, and
`ServerSends` an event, from the moment that the subscription runs, which is before
the answer. A subscription that the DWN refuses may come back in a success response
around the DWN's reply, which the client takes for one that is open. What is on its
way when the connection ends may still arrive, or not. Ids are taken to be new ones:
`request` makes a `uuid`, while those of subscriptions are an assumption on the
callers of `subscribe`, which the code does not enforce. Whether a plain request is
answered with a result or an error makes no difference here, as `request` resolves
with either, and is left out. `connect` has no timer, since the code's `setTimeout`
returns `reject` without a call.

## 3. Runs

| run | instance | shows |
| --- | --- | --- |
| `socket_pipelined` | one socket, one id, seven requests that may overlap, every stream may fail to close | `RegistryIsSound`, `CloseReplyIsTrue`, `NoZombie`, `TypeOK` |
| `socket_serial` | two sockets, one id, two subscribes in turn and two closes at any time; with fairness | `RunningIsReachable`, `OneStreamPerId`, `HandlersReply`, `SilentPeerIsDropped`, `CloseAllCloses`, `TakingTurns` (implements `Subscriptions`) |
| `web5_mailbox` | two keys and objects, three fetches, ttl 1, clock to 2, one restart, one connection; with fairness | `FreshIsKept`, `OneTimeMailbox` (implements `Mailbox`), `ExpiredIsRemoved`, `TypeOK` |
| `proof_of_work` | four challenges, three responses, a minute of two evaluations, recovery over four | `ReuseWindow`, `ChallengeIsGood`, `DifficultyInRange`, `ComesBack`, `FasterIsHarder`, `TypeOK` |
| `registration` | two servers, one tenant, a request for each of two versions of the terms, period 2, clock to 6, one restart, two attempts | `RegisteredIsActive`, `OnlyAgreed`, `HandedOutIsTaken`, `ChallengeExpires`, `Tenancy` (implements `Tenancy`), `TypeOK` |
| `lifecycle` | three calls of `stop()`, two connections of one request each, two starts; with fairness | `StartedServes`, `StoppedIsClean`, `GracefulExit`, `NoLostWakeUp`, `StopEnds`, `TypeOK` |
| `client` | one call, one subscription that may fail to close, two calls of its `close()`, two events, two messages on their way to the client; with fairness | `NoEventLost`, `NothingAfterClose`, `NoListenerLeft`, `CloseEnds`, `AsksInTurn`, `RequestsSettle`, `TypeOK` |
| `socket_duplicate`, `socket_closed`, `web5_once`, `registration_open`, `lifecycle_staying` | the least that shows it | a statement of the docs or tests that the code does not keep, see section 6 |

Why the bounds are enough. *Sockets*: connections share nothing but the manager's
Map and the server's set of clients, so two tell the cases of `closeAll` apart; ids
of one connection share nothing but `close()`. Two subscribe and two close requests
under one id are what the known races need: the second subscribe overtakes the
first, or the second close deletes after a new subscribe. Every request is sent at
most once, which is what bounds the model. *Mailbox*: one object is fetched twice
and the other once; the clock goes one past the ttl, so that everything can expire;
deletes and clean-ups of the first fetch meet the second. *Proof of work*: the
counters of ages stop one past the last value that is compared (`MaxAge`, `MaxHeld`,
`MaxCalm`); three responses exceed the desired rate of one by two and by one, so two
different decreases occur; the run is exhaustive for these numbers, the bounds of
time being none. *Registration*: two servers are what it takes for one to be ahead
of the other in its interval, in its terms and in what it remembers; a clock of
three periods lets a challenge expire; two attempts let a statement of the first be
late for the second. Tenants share nothing, so one suffices. *Lifecycle*: the second
call of `stop()` shares the server that the first closes and the third comes after
one of them has rejected; a second start shows what the first left; one connection
serves a request while another is a WebSocket, and a connection may be made again
once it has ended. *Client*: two events are enough for one to overtake the answer to
the subscribe request and one to be on its way when the subscription ends; the one
subscription has four requests under its id, its own, those of two calls of
`close()` and that of an error event, which can be under way together. At most two
messages are on their way to the client at a time (`MaxInFlight`), so that an event
and an answer can be in either order; the server waits with the third. The theorems
have no such bound to rely on: they hold for any value of it. Two subscriptions
share only the socket.

`ComesBack` says that `BackEvaluations + 1` evaluations without an increase
bring the difficulty back. It is a claim about rounding: if the gap is smaller
than the number of evaluations the increment is 0. `LargeInitial` is what excludes
that, an initial maximum that is large against the number of evaluations, as any
256-bit maximum of use is; `MCProofOfWork` asserts that the instance meets it.
`FasterIsHarder` exempts maxima so small that their share of a decrease rounds to
nothing; the instance meets both sides of that bound.

Symmetry is used for challenges and responses in `proof_of_work` and for servers
and terms in `registration`: neither has a liveness property (`Tenancy` is an
initial predicate and a step predicate), and no constant expression picks an
element. `Init` of `Registration` names any server as the one that took no
request yet, so that none is special.

`CHECK_DEADLOCK FALSE`: in the socket models the server may be closed and every
client gone; in the mailbox the clock is bounded and the messages run out; a
process may have ended; a client may have no call left to make. `proof_of_work`
and `registration` do check for deadlock: at the bound of its clock
`Registration` may stutter (`Done`), and before it some step is always possible.

Every property has a mutant in `PROJECT.json`: an operator with a plausible bug
(a dropped guard, a missing reset, a swapped order) that the module defines just
before the true one. Putting it in place of the true one violates the property.

## 4. Fairness

`SocketConnections`: weak fairness for what the event loop runs by itself: the
continuation of a handler, the heartbeat's interval timer, the end of `close()`;
and for the DWN to settle each promise it gave (a database answers or fails).
Nothing is assumed of clients: they may never send, never answer a ping, never
close.

`Web5Connect`: the database executes, a fetch resumes when its select has been
executed, the clean-up timer fires and time passes. Nothing is assumed of
clients or restarts.

`ServerLifecycle`: what `stop()` awaits settles (the stores of the DWN close or
fail, the server emits `close` once no connection is left), and every client
leaves at last: it ends its connection, or a timeout of its own or of the server
does. That holds of the client of an abandoned request too, so that `StopEnds` says
nothing of how long it keeps a server from stopping. If a client
may stay, `stop()` waits for ever, which `lifecycle_staying` shows for a
WebSocket client that stays. Nothing makes a request be answered.

`JsonRpcClient`: timers fire, and a settled promise resumes who awaits it. Nothing
is assumed of the server and the network: `RequestsSettle` holds although no
answer ever comes, as long as the process runs.

`ProofOfWork` has no liveness property: `ComesBack` counts evaluations, which the
timers bound, and is an invariant. `Registration` has none either: nothing in the
code repeats a registration, the client has to.

## 5. Proofs

All theorems are for any value of the constants that satisfies the assumptions named
in the modules (`RequestAssumption`, `Web5Assumption`, `ProofOfWorkAssumption`,
`MultiplierAssumption`, `EvaluationsAssumption`, `RegistrationAssumption`,
`LifecycleAssumption`, `ClientAssumption`), and for behaviours of any length. Six
theorems assume more, and say so: `Active`, `Refused`, `Back`, `Harder`, `Once` and
the `Refinement` of `Mailbox`. `Spec` without fairness suffices.

**SocketConnectionsProofs** (any sockets, ids and requests, clients that
pipeline, streams that fail to close). `Typing`: the type invariant.
`Registry`: `RegistryIsSound`. `CloseReply`: `CloseReplyIsTrue`. Neither of the
last two is inductive. The invariant `Sound` adds to them what the module states as
`PhasesAgree` (how far a request is tells what became of its subscription: this
is why a subscription cannot be in the Map before its handler resumed),
`HandlesAgree` (a close request works on an acknowledged subscription with its
own socket and id) and `ClosersAgree` (so does a connection's `close()`). The
hard step is `DeleteSubscription`, which deletes by id after an await: another
subscription may be under that id by now, which must not make the reply of an
earlier close request false.

**SerialClientsProofs** (the same instances; the clients in question take turns, the
others may pipeline). `Reachable`: `RunningIsReachable`. `OneStream`:
`OneStreamPerId`. They rest on `Sound` and on an invariant of their own,
`SerialInv`: an id on which a subscribe is in service has no other in service, while
closes may overlap (`OneAwaiting`); while a subscription is being opened its id is
free in the Map and on the DWN (`FreeId`), so that `addSubscription` cannot throw;
while a close request waits nothing new comes under its id (`ClosesOwn`), so that
the delete after its await takes its own subscription; and a running subscription of
a connection in service is in its Map (`OpenIsKept`). `Forgotten`: `NoZombie`, for
all clients: a connection without listeners that the manager still has, has a
`close()` that waits or that has rejected. `Refused` (`RefusedIsNotOpen`): when no
client pipelines, the comment that `socket_duplicate` refutes is true; a refused
subscribe leaves nothing open.

`PromiseKept`: `TakingTurns`, the step simulation of `Subscriptions`. `TurnsInv`
adds to `SerialInv` that nothing runs under the id of a waiting close request but
what it closes (`CloseIsForOpen`), and that a connection whose `close()` waits is
out of service (`ClosingIsGone`), which is what permits it to end streams that no
client asked to end. The abstract specification does not know the Map. Why the
handlers, which look into it, still answer as promised is said by `InUseIsHeld` and
`HeldIsInUse`: on a connection in service the Map holds what is in use, and what it
holds is in use or has just been ended by a close request that is about to remove
and answer for it. In that gap a second close request may find what has ended
already; it waits, and succeeds, as the promise allows. The steps are sorted by what
they change: an answer (`AnswerStep`), a stream (`EndPromise`, `DwnPromise`), or
nothing but the sockets in service (`LeavePromise`).

**Web5ConnectProofs** (any keys, objects, fetches; the database executes in any
order). `Typing`. `Fresh`: `FreshIsKept`. The invariant is about the
statements in flight: an insert is of an accepted object with that object's
expiry, a select has a fetch that waits for it and no other select has the same,
a clean-up's time is in the past, and a delete's key is of an object that was
returned or has expired (`StatementsOK`, `OneSelect`), and about the rows in the
table and in the fetches (`RowsOK`, `FoundOK`): it is why a delete that executes
late cannot hit an object that alone has its key. Since it does not use
`InOrder`, it covers pools of connections, which the run does not.

**Web5MailboxProofs** (any keys, objects and fetches; one database connection).
`Refinement`: `OneTimeMailbox`, the step simulation of `Mailbox`. The step that
matters is the answer with an object, which must find no taker: no other
fetch that was answered has found the same object. `TakenIsGone` says why: an
object that was handed out and is still in the table has its delete in the queue,
ahead of every select of its key (`DeleteAhead`), which one connection executes in
order; and one fetch of a patient key is in service at a time (`OneFetch`), so
none can have found it before the delete was sent. An insert may not bring the
object back: it is the only one of its object, which nobody has stored or found
(`OnceInserted`). Every statement that is sent or executed shifts the queue; four
lemmas say what that leaves of `DeleteAhead` and `OnceInserted`. `Once` (`UsedOnce`)
is the claim of the docs that `web5_once` refutes, for clients that all are
patient: two fetches that returned one object are the same fetch. It follows from
`TakenIsGone`, because a fetch that returned an object has found it
(`SentIsFound`).

**ProofOfWorkProofs** (any periods, target, multiplier and scale, subject to
`MultiplierAssumption`: the multiplier is less than the evaluations in a minute;
the server uses 1 and 6). `Typing`, `Difficulty` (`DifficultyInRange`), `Reuse`
(`ReuseWindow`), `ChallengeGood` (`ChallengeIsGood`). The invariant adds to these
what ties an age to a timer: an entry of the Map was accepted no longer ago than
a minute and the time since the last evaluation, which is when the Map was pruned
(`RecentSince`); and a challenge that a client holds is the current one, or the
previous one and then handed out before the last refresh, or older than a period
(`HeldSince`).
The arithmetic lemmas bound the integer divisions: the amount taken off in one
evaluation is less than the maximum.

`Back` (`ComesBack`, assuming `LargeInitial`) needs no sum over the evaluations of
the way back. Its invariant `Recovery` says what one of them leaves: while the
maximum is below the initial one and no increment is chosen, the difference is at
least `Gap`, the product of the number of evaluations and one less; and once the
increment is chosen, the evaluations that are left, and one more, make up for the
difference. That a decrease reaches `Gap` at once is `DecreaseIsLarge`: the share
that is taken off is at least a part of `Scale + 1` of the maximum
(`ShareOfMaximum`). That the rounded increment suffices, with one evaluation for
the remainder, is `FirstStepBack`; it is here that a gap below `Gap` would fail.
`Harder` (`FasterIsHarder`, assuming that the desired rate is no larger than the
scale) is `ShareOfMaximum` again, for maxima that are small.

**RegistrationProofs** (any servers, tenants, terms, requests, period, restarts and
attempts). `Typing`. `ChallengeTaken` (`HandedOutIsTaken`) and `ChallengeForgotten`
(`ChallengeExpires`) follow from `Clocks`: a server refreshed no longer than a
period ago, and the interval of a challenge that was handed out has begun; the
rest is arithmetic of the quotient by the period. `Agreed` (`OnlyAgreed`): a row,
or a statement on its way, comes from an accepted request (`RowsAreAgreed`).
`Active` (`RegisteredIsActive`): assuming that every server has a terms file
(`Undefined \notin Configured`, without which the property is false, see section
6), an uncontested request that waits or was answered has no rival's statement on
its way, and once it was answered the row has its terms (`Kept`). `Refinement`:
every step of `Registration` is a step of `Tenancy` or leaves its variables alone.

**ServerLifecycleProofs** (any number of calls of `stop()`, connections, requests
and starts). `Typing`, `Serves` (`StartedServes`), `Clean` (`StoppedIsClean`),
`Graceful` (`GracefulExit`), `WakeUps` (`NoLostWakeUp`, the safety that `StopEnds`
rests on: whoever waits has somebody to wake it). The invariant ties each call to
the state of the server (`Lifecycle`): only the call whose `server.close()` came
first gets past `HttpApi.close`, and it is the one that takes the server from
Started to Stopped; the calls that overlap it wait with it and reject. `FirstStart`
is why the first server has a registration manager, and `Connections` why the
shutdown handler finds no socket to destroy. `Serves` has to name `Stuck`, the one
state in which a Started server does not serve; the invariant shows that it takes
the call that closed the `http.Server`, and that call's rejection in `WsApi.close`,
to get there.

**JsonRpcClientProofs** (any calls, subscriptions and events, any number of calls of
`close()`). `Typing`, `Delivery` (`NoEventLost`), `Listeners` (`NoListenerLeft`),
`Closed` (`CloseEnds`), `Silence` (`NothingAfterClose`, an action property). For
`NoEventLost` the invariant describes the messages on their way: the events of a
subscription that is listened to continue what was received, in order and without a
gap, up to the last one that was sent (`Hearing`, `Sending`). For `CloseEnds` it
follows an answer back to the request: what the client was told, the server has
decided (`Opening`), so that `close()` is called when the subscribe request is
answered for good; a close that succeeds finds the subscription ended, one that is
turned away finds none that runs, and one that fails is of a faulty stream
(`Closing`). Nobody calls the `close()` of a subscription that `subscribe` has not
returned (`Unopened`). `InTurn` (`AsksInTurn`) rests on `Served`: a request on its
way is new to the server, since each is sent once, and the close request of an error
event follows an event, which follows the subscribe request. `TimeoutSendsAgain`, a
client that retries, breaks it: the order that the promise needs is kept because
nothing is sent twice. `AnyServer` says that the server's part of every behaviour is
one of `Subscriptions`, so that nothing else is assumed of it.

Only model-checked: liveness (`HandlersReply`, `SilentPeerIsDropped`,
`CloseAllCloses`, `ExpiredIsRemoved`, `StopEnds`, `RequestsSettle`), which needs
fairness and is beyond the prover. Every invariant, every action property and
every refinement that a run checks is proved.

## 6. Where the code and its docs differ

1. `socket_duplicate`: two subscribe requests under one id in flight at once both
   pass the check ahead of the await. The second is refused by `addSubscription`
   and its subscription stays open on the DWN, which the comment in
   `process-message.ts:65-67` says the check prevents.
2. `socket_closed`: a connection that ends while the DWN opens a subscription
   does not close it: it is added to the Map of the closed connection.
   `socket-connection.ts:93` says `close` cleans up any subscriptions.
3. `web5_once`: two fetches of one key at a time both return the object; the
   comments in `web5-connect-server.ts` say that it can be used once.
4. `registration_open`: without a terms-of-service file a registration stores
   NULL, which `isActiveTenant` compares with `undefined`
   (`registration-manager.ts:144`): the tenant that was told of success never
   becomes active. `src/README.md:330` says that each gate can be enabled by
   itself.
5. `lifecycle_staying`: `stop()` waits for every connection to end before it
   closes the WebSockets (`dwn-server.ts:146`), so with a WebSocket client that
   stays it never ends, on SIGINT and SIGTERM either.
   `tests/process-handler.spec.ts` says that it should stop.

Seen while modelling, and in no run of their own because they are one line of code
or need an external failure: a WebSocket request with an unknown method is never
answered (`json-rpc-router.ts:48` calls `undefined`), and over HTTP it keeps its
connection busy (`abandoned` in `ServerLifecycle`); the connect timeout of
`JsonRpcSocket` returns `reject` (`json-rpc-socket.ts:59`); a `subscribe()` that
times out leaves its listener (exempted in `NoListenerLeft`); after a restart the
server starts with a closed DWN and without a registration manager (`StartedServes`
claims one for the first start); in a cluster a proof of work can be used once on
each server; a challenge lives for one to two refresh intervals of ten minutes on a
single server and for up to three in a cluster, where `src/README.md:334` says that
it expires after five minutes; a `stop()` that fails in `WsApi.close` leaves a
server that can be neither stopped nor started (`Stuck`); without the proof-of-work
gate the POST still demands a proof (`http-api.ts:371-376`), which nobody can have.

The passing properties state what holds beside these: they name the clients
(`Pipelining`, `Patient`, `Staying`) and streams (`Faulty`) to which each does not
apply; `Active` names the configuration.

## 7. Not modelled, and why

- The read and query routes of `HttpApi`: they keep no state and only call the
  DWN. One of them has a race, a query followed by a read of what it found
  (`http-api.ts:183`), but both sides of it would be external.
- `POST /` with a data stream: the body and the reply are piped between the
  socket and the DWN, without state of the server. That a request is answered or
  abandoned is in `ServerLifecycle`.
- An insert of `SqlTtlCache` that fails: nobody is told, and the object that was
  accepted is not there. `FreshIsKept` is about inserts that are late.
- Four hazards have no property because the code does what they warn of, and nobody
  in the repository says otherwise: a request that is never answered
  (`json-rpc-router.ts:48`), a proof of work that another server or a restarted one
  takes again (`proof-of-work-manager.ts:22`), a later start on a closed DWN without a
  registration manager (`dwn-server.ts:93`), and the listener of a `subscribe` that
  timed out (`json-rpc-socket.ts:125`). Each is in the models, and the properties
  hold beside it.
- Overlapping calls of `start()`: the second server would be out of reach of any
  later `stop()`, and nothing in the repository makes such calls.
- What a DWN does after it was closed, which is up to its stores.
- Storage, plugin loading, configuration, metrics, types: no state that changes.
- The DWN, `ws`, the SQL database and the network are external: modelled by
  what the code in `src/` sees of them.
- The SQL width of `expiry` (32 bits in some dialects), which depends on the
  database.

## 8. Plan

Done: `SocketConnections` over `Subscriptions`, `Web5Connect` over `Mailbox`,
`ProofOfWork`, `Registration` over `Tenancy` (with the seeded challenges of a
cluster), `ServerLifecycle`, `JsonRpcClient`; the theorems of section 5, with the
three step simulations.

Client and server are tied together through `Subscriptions`. Left: `start()` called
twice at a time, and `start()` during `stop()`.
