------------------------- MODULE JsonRpcClientProofs -------------------------
(***************************************************************************)
(* Proofs about JsonRpcClient, for any number of requests and              *)
(* subscriptions and any number of events.                                 *)
(***************************************************************************)
EXTENDS JsonRpcClient, SequenceTheorems, TLAPS

USE ClientAssumption

\* What is on its way was sent, and nothing is sent for a subscription that was
\* not asked for.
Sent ==
    /\ \A q \in toServer : answer[q] /= "unsent"
    /\ \A i \in 1 .. Len(toClient) :
          toClient[i] \in Response => answer[toClient[i].to] /= "unsent"
    /\ \A s \in Sub : sub[s] = "none" =>
          answer[subscribing(s)] = "unsent" /\ answer[closingOnError(s)] = "unsent"

Asked == Subscribes \cup Closes

\* What is asked for was sent, and once; only what the server works on has a
\* stream, and an event is the first a close() on error is sent for.
Served ==
    /\ \A q \in Asked : reply[q] /= "none" => answer[q] /= "unsent"
    /\ \A q \in toServer \ Plain : reply[q] = "none"
    /\ \A h \in Subscribes : reply[h] \in {"none", "refused"} => stream[h] = "none"
    /\ \A s \in Sub :
          /\ answer[closingOnError(s)] /= "unsent" => reply[subscribing(s)] /= "none"
          /\ \A n \in Nth :
                closeCall[s][n] = "none" => answer[closing(s, n)] = "unsent"

\* Only a subscription that is open for the client has a close() to call.
Unopened ==
    \A s \in Sub, n \in Nth : sub[s] /= "open" => closeCall[s][n] = "none"

Decided(q) == reply[q] \in {"success", "refused"}

\* The client gets the answers that the server has given, and calls close() when
\* it has that to its subscribe request.
Opening ==
    /\ \A i \in 1 .. Len(toClient) : \A q \in Asked :
          toClient[i] \in Response /\ toClient[i].to = q => Decided(q)
    /\ \A q \in Asked : answer[q] \in {"ok", "error"} => Decided(q)
    /\ \A s \in Sub :
          sub[s] = "open" \/ (\E n \in Nth : answer[closing(s, n)] /= "unsent")
              => Decided(subscribing(s))

Ended(s) == Decided(subscribing(s)) /\ stream[subscribing(s)] /= "open"

\* The server answers a request of close() when the subscription has ended, or
\* has failed to.
Closing ==
    /\ \A i \in 1 .. Len(toClient) : \A s \in Sub, n \in Nth :
          toClient[i] \in Response /\ toClient[i].to = closing(s, n)
          /\ ~toClient[i].error
              => reply[closing(s, n)] = "success"
    /\ \A s \in Sub, n \in Nth :
          /\ answer[closing(s, n)] = "ok" => reply[closing(s, n)] = "success"
          /\ reply[closing(s, n)] = "success" => Ended(s)
          /\ reply[closing(s, n)] = "refused" => Ended(s) \/ s \in Faulty
          /\ closeCall[s][n] = "closed" => answer[closing(s, n)] \in {"ok", "error"}

\* Message i on its way to the client is the n-th event of s.
EventAt(i, s, n) ==
    toClient[i] \in Event /\ toClient[i].event = s /\ toClient[i].n = n

\* The server sends what it opened, and the client gets no more than that.
Sending ==
    \A s \in Sub :
       /\ stream[subscribing(s)] = "none" => sent[s] = 0
       /\ Len(received[s]) <= sent[s]
       /\ \A i \in 1 .. Len(toClient) : \A n \in 1 .. MaxEvents :
             EventAt(i, s, n) => n <= sent[s]

\* The events of a subscription on their way are those after the last one that
\* was received, in order and without a gap, up to the last one that was sent.
Waiting(s) ==
    /\ \A i \in 1 .. Len(toClient) : \A n \in 1 .. MaxEvents :
          EventAt(i, s, n) =>
             /\ Len(received[s]) < n
             /\ \/ n = Len(received[s]) + 1
                \/ \E j \in 1 .. Len(toClient) : j < i /\ EventAt(j, s, n - 1)
    /\ \A i, j \in 1 .. Len(toClient) : \A m, n \in 1 .. MaxEvents :
          i < j /\ EventAt(i, s, m) /\ EventAt(j, s, n) => m < n
    /\ stream[subscribing(s)] = "open" =>
          \/ sent[s] = Len(received[s])
          \/ \E i \in 1 .. Len(toClient) : EventAt(i, s, sent[s])

Hearing == \A s \in subListening : Waiting(s)

IInv ==
    /\ NoListenerLeft /\ Sent /\ Served /\ Unopened /\ Opening /\ Closing
    /\ NoEventLost /\ Sending /\ Hearing

------------------------------------------------------------------------------
\* The requests for one subscription.
Its(s) ==
    {subscribing(s), closingOnError(s)} \cup {closing(s, n) : n \in Nth}

LEMMA AskTypes ==
    ASSUME NEW s \in Sub
    PROVE  /\ subscribing(s) \in Subscribes /\ subscribing(s) \in Ask
           /\ closingOnError(s) \in Closes /\ closingOnError(s) \in Ask
           /\ subscribing(s) /= closingOnError(s)
           /\ \A n \in Nth :
                 /\ closing(s, n) \in Closes /\ closing(s, n) \in Ask
                 /\ subscribing(s) /= closing(s, n)
                 /\ closing(s, n) /= closingOnError(s)
<1>1. subscribing(s) \in Subscribes /\ closingOnError(s) \in ClosesOnError
  BY DEF Subscribes, ClosesOnError
<1>2. \A n \in Nth : closing(s, n) \in Closes
  BY DEF Closes
<1>3. subscribing(s) /= closingOnError(s)
  BY DEF subscribing, closingOnError
<1>4. \A n \in Nth :
         subscribing(s) /= closing(s, n) /\ closing(s, n) /= closingOnError(s)
  BY DEF subscribing, closing, closingOnError
<1>. QED
  BY <1>1, <1>2, <1>3, <1>4 DEF Ask, Closes

LEMMA AskInjective ==
    ASSUME NEW s \in Sub, NEW t \in Sub, s /= t
    PROVE  /\ subscribing(s) /= subscribing(t)
           /\ closingOnError(s) /= closingOnError(t)
           /\ subscribing(s) /= closingOnError(t)
           /\ \A m, n \in Nth : closing(s, m) /= closing(t, n)
           /\ \A n \in Nth : /\ subscribing(s) /= closing(t, n)
                             /\ closing(s, n) /= closingOnError(t)
BY DEF subscribing, closing, closingOnError

LEMMA CloseInjective ==
    ASSUME NEW s \in Sub, NEW t \in Sub, NEW m \in Nth, NEW n \in Nth,
           closing(s, m) = closing(t, n)
    PROVE  s = t /\ m = n
BY DEF closing

\* A request is plain, or one of those of a subscription.
LEMMA AskCases ==
    /\ Plain \cap Asked = {} /\ Subscribes \cap Closes = {}
    /\ Ask = Plain \cup Asked
    /\ \A q \in Asked : \E s \in Sub : q \in Its(s)
BY DEF Plain, Ask, Asked, Its, Subscribes, Closes, ClosesOnError, subscribing,
       closing, closingOnError

LEMMA PlainIs ==
    ASSUME NEW c \in Call
    PROVE  /\ [op |-> "call", sock |-> Here, id |-> c] \in Plain
           /\ [op |-> "call", sock |-> Here, id |-> c] \in Ask
           /\ \A s \in Sub :
                 /\ [op |-> "call", sock |-> Here, id |-> c] /= subscribing(s)
                 /\ [op |-> "call", sock |-> Here, id |-> c] /= closingOnError(s)
                 /\ \A n \in Nth :
                       [op |-> "call", sock |-> Here, id |-> c] /= closing(s, n)
BY DEF Plain, Ask, subscribing, closing, closingOnError

\* A subscription's requests have its id, and the subscription is alone there.
LEMMA UnderIdIs ==
    ASSUME NEW s \in Sub, NEW q \in Its(s)
    PROVE  /\ Server!UnderId(q) = {subscribing(s)}
           /\ \A x : Server!Acknowledged(q, x) <=>
                 reply[subscribing(s)] = "success" /\ stream[subscribing(s)] = x
           /\ \A p \in Server!Pending(q) : p \in Its(s) /\ reply[p] = "pending"
<1>0. q.sock = Here /\ q.id = s
  BY DEF Its, subscribing, closing, closingOnError
<1>1. Server!UnderId(q) = {subscribing(s)}
  BY <1>0 DEF Server!UnderId, Subscribes, subscribing
<1>2. \A x : Server!Acknowledged(q, x) <=>
          reply[subscribing(s)] = "success" /\ stream[subscribing(s)] = x
  BY <1>1 DEF Server!Acknowledged
<1>3. ASSUME NEW p \in Server!Pending(q)
      PROVE  p \in Its(s) /\ reply[p] = "pending"
  BY <1>0, <1>3 DEF Server!Pending, Its, Subscribes, Closes, ClosesOnError,
                    subscribing, closing, closingOnError
<1>. QED
  BY <1>1, <1>2, <1>3

LEMMA EventIsNoResponse ==
    ASSUME NEW e \in Event
    PROVE  e \notin Response
<1>1. e.n \in 1 .. MaxEvents /\ DOMAIN e = {"event", "n", "error"}
  BY DEF Event
<1>2. ASSUME e \in Response
      PROVE  FALSE
  <2>1. DOMAIN e = {"to", "error"}
    BY <1>2 DEF Response
  <2>. QED
    BY <1>1, <2>1
<1>. QED
  BY <1>2

\* The messages that stay when the first one is received.
LEMMA TailMessages ==
    ASSUME TypeOK, toClient /= <<>>, toClient' = Tail(toClient)
    PROVE  /\ toClient' \in Seq(Response \cup Event)
           /\ Len(toClient') = Len(toClient) - 1
           /\ \A i \in 1 .. Len(toClient') :
                 toClient'[i] = toClient[i + 1] /\ i + 1 \in 1 .. Len(toClient)
           /\ Head(toClient) = toClient[1] /\ 1 \in 1 .. Len(toClient)
<1>1. toClient \in Seq(Response \cup Event)
  BY DEF TypeOK
<1>. QED
  BY <1>1

\* The messages after one is sent.
LEMMA AppendMessage ==
    ASSUME TypeOK, NEW m \in Response \cup Event, toClient' = Append(toClient, m)
    PROVE  /\ toClient' \in Seq(Response \cup Event)
           /\ Len(toClient') = Len(toClient) + 1
           /\ \A i \in 1 .. Len(toClient) : toClient'[i] = toClient[i]
           /\ toClient'[Len(toClient) + 1] = m
           /\ Len(toClient) \in Nat
<1>1. toClient \in Seq(Response \cup Event)
  BY DEF TypeOK
<1>. QED
  BY <1>1

LEMMA RequestSteps ==
    ASSUME TypeOK, NEW q \in Ask, request(q)
    PROVE  /\ answer'[q] = "waiting"
           /\ \A p \in Ask \ {q} : answer'[p] = answer[p]
           /\ toServer' \subseteq toServer \cup {q}
BY DEF request, TypeOK

\* A response settles its request, or comes too late.
LEMMA ResponseSteps ==
    ASSUME TypeOK, ReceiveResponse
    PROVE  \E q \in Ask :
              /\ Head(toClient) \in Response /\ q = Head(toClient).to
              /\ \/ UNCHANGED <<listening, answer>>
                 \/ /\ q \in listening
                    /\ listening' = listening \ {q}
                    /\ answer' = [answer EXCEPT ![q] =
                                     IF Head(toClient).error THEN "error" ELSE "ok"]
              /\ UNCHANGED <<socket, toServer, sub, closeCall, subListening,
                             received, serverVars>>
<1>1. PICK q \in Ask : Head(toClient) \in Response /\ q = Head(toClient).to
  BY DEF ReceiveResponse, Response
<1>. QED
  BY <1>1 DEF ReceiveResponse

\* The steps of the server on its own.
ServerMoves ==
    \/ \E h \in Subscribes : ServerAnswersSubscribe(h) \/ ServerStream(h)
    \/ \E c \in Closes : ServerAnswersClose(c)
    \/ ServerLeaves

\* What the server tells of request q: the answer it has decided on.
Told(q, m) ==
    /\ m \in Response /\ m.to = q
    /\ q \in Asked => Decided(q)'
    /\ q \in Closes /\ ~m.error => reply'[q] = "success"

LEMMA AnswerIs ==
    ASSUME TypeOK, NEW q \in Ask, NEW a, Server!Answer(q, a), q \in Asked
    PROVE  /\ reply'[q] = a /\ UNCHANGED <<stream, gone>>
           /\ \A p \in Asked : p /= q => reply'[p] = reply[p]
BY DEF Server!Answer, TypeOK, Asked

LEMMA ResponseIs ==
    ASSUME NEW q \in Ask, NEW error \in BOOLEAN, Respond(q, error)
    PROVE  \E m \in Response : /\ toClient' = Append(toClient, m)
                              /\ m.to = q /\ m.error = error
<1>1. [to |-> q, error |-> error] \in Response
  BY DEF Response
<1>. QED
  BY <1>1 DEF Respond

LEMMA TakesSteps ==
    ASSUME TypeOK, NEW q \in Ask, ServerTakes(q)
    PROVE  /\ UNCHANGED <<clientVars, stream, gone, sent>>
           /\ q \in toServer /\ toServer' = toServer \ {q}
           /\ \/ UNCHANGED toClient
              \/ \E m : toClient' = Append(toClient, m) /\ Told(q, m)
           /\ \A p \in Asked :
                 \/ reply'[p] = reply[p]
                 \/ p = q /\ \/ reply'[p] = "pending"
                             \/ reply'[p] = "refused" /\ Server!TurnAway(p)
<1>1. /\ UNCHANGED <<clientVars, sent>>
      /\ q \in toServer /\ toServer' = toServer \ {q}
  BY DEF ServerTakes
<1>2. CASE q \in Plain
  <2>1. Respond(q, FALSE)
    BY <1>2 DEF ServerTakes
  <2>2. UNCHANGED <<reply, stream, gone>> /\ q \notin Asked /\ q \notin Closes
    BY <1>2, AskCases DEF ServerTakes, Asked
  <2>. QED
    BY <1>1, <2>1, <2>2, ResponseIs DEF Told
<1>3. CASE q \notin Plain
  <2>1. q \in Asked
    BY <1>3, AskCases
  <2>2. CASE Server!Ask(q) /\ UNCHANGED toClient
    <3>1. Server!Answer(q, "pending")
      BY <2>2 DEF Server!Ask
    <3>. QED
      BY <1>1, <2>1, <2>2, <3>1, AnswerIs
  <2>3. CASE Server!TurnAway(q) /\ Respond(q, TRUE)
    <3>1. Server!Answer(q, "refused")
      BY <2>3 DEF Server!TurnAway
    <3>2. PICK m \in Response :
             toClient' = Append(toClient, m) /\ m.to = q /\ m.error = TRUE
      BY <2>3, ResponseIs
    <3>3. reply'[q] = "refused"
      BY <2>1, <3>1, AnswerIs
    <3>4. Told(q, m)
      BY <3>2, <3>3 DEF Told, Decided
    <3>. QED
      BY <1>1, <2>1, <2>3, <3>1, <3>2, <3>4, AnswerIs
  <2>. QED
    BY <1>3, <2>2, <2>3 DEF ServerTakes
<1>. QED
  BY <1>2, <1>3

LEMMA MovesSteps ==
    ASSUME TypeOK, ServerMoves
    PROVE  /\ UNCHANGED <<clientVars, toServer, sent>>
           /\ \/ UNCHANGED toClient
              \/ \E q \in Asked : \E m : /\ toClient' = Append(toClient, m)
                                       /\ Told(q, m) /\ reply[q] = "pending"
                                       /\ UNCHANGED stream
           /\ \A q \in Asked :
                 \/ reply'[q] = reply[q]
                 \/ /\ reply[q] = "pending"
                    /\ \/ reply'[q] = "success"
                       \/ reply'[q] = "refused"
                    /\ UNCHANGED stream
                    /\ q \in Subscribes =>
                          (reply'[q] = "refused" => stream[q] = "none")
                    /\ q \in Closes =>
                          \/ reply'[q] = "success" /\ Server!CloseSucceeds(q)
                          \/ reply'[q] = "refused" /\ Server!CloseFails(q)
           /\ \A h \in Subscribes :
                 \/ stream'[h] = stream[h]
                 \/ /\ stream[h] = "none" /\ stream'[h] = "open"
                    /\ reply[h] = "pending" /\ UNCHANGED reply
                 \/ stream[h] = "open" /\ stream'[h] = "closed"
<1>1. ASSUME NEW h \in Subscribes, ServerAnswersSubscribe(h)
      PROVE  \E m :
                /\ toClient' = Append(toClient, m) /\ m \in Response /\ m.to = h
                /\ UNCHANGED <<stream, clientVars, toServer, sent>>
                /\ reply[h] = "pending"
                /\ \/ reply'[h] = "success"
                   \/ reply'[h] = "refused" /\ stream[h] = "none"
                /\ \A p \in Asked : p /= h => reply'[p] = reply[p]
  <2>1. h \in Ask /\ h \in Asked
    BY DEF Ask, Asked
  <2>2. PICK error \in BOOLEAN : Respond(h, error)
    BY <1>1 DEF ServerAnswersSubscribe
  <2>3. PICK m \in Response : toClient' = Append(toClient, m) /\ m.to = h
    BY <2>1, <2>2, ResponseIs
  <2>4. /\ reply[h] = "pending"
        /\ \/ Server!Answer(h, "success")
           \/ Server!Answer(h, "refused") /\ stream[h] = "none"
    BY <1>1 DEF ServerAnswersSubscribe, Server!Acknowledge, Server!Refuse
  <2>. QED
    BY <1>1, <2>1, <2>3, <2>4, AnswerIs DEF ServerAnswersSubscribe
<1>2. ASSUME NEW c \in Closes, ServerAnswersClose(c)
      PROVE  \E m :
                /\ toClient' = Append(toClient, m) /\ m \in Response /\ m.to = c
                /\ UNCHANGED <<stream, clientVars, toServer, sent>>
                /\ reply[c] = "pending"
                /\ \/ reply'[c] = "success" /\ Server!CloseSucceeds(c)
                   \/ reply'[c] = "refused" /\ Server!CloseFails(c) /\ m.error
                /\ \A p \in Asked : p /= c => reply'[p] = reply[p]
  <2>1. c \in Ask /\ c \in Asked
    BY DEF Ask, Asked
  <2>2. CASE Server!CloseSucceeds(c) /\ Respond(c, FALSE)
    <3>1. PICK m \in Response : toClient' = Append(toClient, m) /\ m.to = c
      BY <2>1, <2>2, ResponseIs
    <3>2. reply[c] = "pending" /\ Server!Answer(c, "success")
      BY <2>2 DEF Server!CloseSucceeds
    <3>. QED
      BY <1>2, <2>1, <2>2, <3>1, <3>2, AnswerIs DEF ServerAnswersClose
  <2>3. CASE Server!CloseFails(c) /\ Respond(c, TRUE)
    <3>1. PICK m \in Response :
             toClient' = Append(toClient, m) /\ m.to = c /\ m.error = TRUE
      BY <2>1, <2>3, ResponseIs
    <3>2. reply[c] = "pending" /\ Server!Answer(c, "refused")
      BY <2>3 DEF Server!CloseFails
    <3>. QED
      BY <1>2, <2>1, <2>3, <3>1, <3>2, AnswerIs DEF ServerAnswersClose
  <2>. QED
    BY <1>2, <2>2, <2>3 DEF ServerAnswersClose
<1>3. CASE \E h \in Subscribes : ServerAnswersSubscribe(h)
  BY <1>1, <1>3, AskCases DEF Told, Decided, Ask, Asked
<1>4. CASE \E c \in Closes : ServerAnswersClose(c)
  BY <1>2, <1>4, AskCases DEF Told, Decided, Ask, Asked
<1>5. CASE ServerLeaves \/ \E h \in Subscribes : ServerStream(h)
  BY <1>5
     DEF ServerLeaves, ServerStream, Server!Open, Server!End, Server!Leave, TypeOK
<1>. QED
  BY <1>3, <1>4, <1>5 DEF ServerMoves

LEMMA SendSteps ==
    ASSUME TypeOK, NEW s \in Sub, ServerSends(s)
    PROVE  \E m \in Event :
              /\ toClient' = Append(toClient, m)
              /\ m.event = s /\ m.n = sent[s] + 1
<1>1. sent[s] + 1 \in 1 .. MaxEvents
  BY DEF ServerSends, TypeOK
<1>2. PICK error \in BOOLEAN :
         toClient' = Append(toClient,
                            [event |-> s, n |-> sent[s] + 1, error |-> error])
  BY DEF ServerSends
<1>3. [event |-> s, n |-> sent[s] + 1, error |-> error] \in Event
  BY <1>1 DEF Event
<1>. QED
  BY <1>2, <1>3

\* What receiving an event does: it ends the subscription s, or only passes the
\* message on.
LEMMA EventSteps ==
    ASSUME TypeOK, ReceiveEvent
    PROVE  \E s \in Sub :
              /\ Head(toClient) \in Event /\ s = Head(toClient).event
              /\ received' = IF s \in subListening
                             THEN [received EXCEPT
                                      ![s] = Append(@, Head(toClient).n)]
                             ELSE received
              /\ \/ UNCHANGED <<subListening, answer, listening, toServer>>
                 \/ /\ s \in subListening
                    /\ subListening' = subListening \ {s}
                    /\ request(closingOnError(s))
              /\ UNCHANGED <<socket, sub, closeCall, serverVars>>
<1>1. Head(toClient) \in Event
  BY DEF ReceiveEvent
<1>2. Head(toClient).event \in Sub
  BY <1>1 DEF Event
<1>. QED
  BY <1>1, <1>2 DEF ReceiveEvent, Hears

LEMMA InitTypeOK == Init => TypeOK
<1>1. 0 \in 0 .. MaxEvents
  OBVIOUS
<1>2. <<>> \in Seq(Response \cup Event) /\ <<>> \in Seq(1 .. MaxEvents)
  OBVIOUS
<1>. QED
  BY <1>1, <1>2 DEF Init, TypeOK, Server!Init

LEMMA InitIInv == Init => IInv
<1>. SUFFICES ASSUME Init PROVE IInv
  OBVIOUS
<1>1. Len(toClient) = 0 /\ toServer = {}
  BY DEF Init
<1>2. \A q \in Asked : reply[q] = "none" /\ answer[q] = "unsent"
  BY AskCases DEF Init, Server!Init, Asked
<1>3. \A h \in Subscribes : stream[h] = "none"
  BY DEF Init, Server!Init
<1>4. \A s \in Sub :
         /\ sub[s] = "none"
         /\ subscribing(s) \in Asked /\ closingOnError(s) \in Asked
         /\ \A n \in Nth : closeCall[s][n] = "none" /\ closing(s, n) \in Asked
  BY AskTypes DEF Init, Asked
<1>5. NoListenerLeft
  BY DEF Init, NoListenerLeft
<1>6. Sent /\ Served /\ Unopened
  BY <1>1, <1>2, <1>3, <1>4 DEF Sent, Served, Unopened
<1>7. Opening /\ Closing
  BY <1>1, <1>2, <1>4 DEF Opening, Closing
<1>8. NoEventLost /\ Sending /\ Hearing
  BY <1>1 DEF Init, NoEventLost, Sending, Hearing
<1>. QED
  BY <1>5, <1>6, <1>7, <1>8 DEF IInv

------------------------------------------------------------------------------
(* Typing                                                                  *)

LEMMA NextTypeOK == TypeOK /\ [Next]_vars => TypeOK'
<1>. SUFFICES ASSUME TypeOK, [Next]_vars
              PROVE  TypeOK'
  OBVIOUS
<1>1. CASE connect
  BY <1>1 DEF connect, TypeOK, serverVars
<1>2. CASE SocketCloses
  BY <1>2 DEF SocketCloses, TypeOK, serverVars
<1>3. CASE ReceiveResponse
  <2>1. Head(toClient) \in Response
    BY <1>3 DEF ReceiveResponse
  <2>2. Head(toClient).to \in Ask
    BY <2>1 DEF Response
  <2>3. toClient' \in Seq(Response \cup Event)
    BY <1>3, TailMessages DEF ReceiveResponse
  <2>. QED
    BY <1>3, <2>2, <2>3 DEF ReceiveResponse, TypeOK, serverVars
<1>4. CASE ReceiveEvent
  <2>1. Head(toClient) \in Event
    BY <1>4 DEF ReceiveEvent
  <2>2. Head(toClient).event \in Sub /\ Head(toClient).n \in 1 .. MaxEvents
    BY <2>1 DEF Event
  <2>3. toClient' \in Seq(Response \cup Event)
    BY <1>4, TailMessages DEF ReceiveEvent
  <2>5. received' \in [Sub -> Seq(1 .. MaxEvents)]
    BY <1>4, <2>2 DEF ReceiveEvent, TypeOK
  <2>6. PICK s \in Sub :
           /\ \/ UNCHANGED <<subListening, answer, listening, toServer>>
              \/ /\ subListening' = subListening \ {s}
                 /\ request(closingOnError(s))
           /\ UNCHANGED <<socket, sub, closeCall, serverVars>>
    BY <1>4, EventSteps
  <2>7. closingOnError(s) \in Ask
    BY AskTypes
  <2>8. /\ subListening' \subseteq Sub /\ listening' \subseteq Ask
        /\ toServer' \subseteq Ask
        /\ answer' \in [Ask -> {"unsent", "waiting", "ok", "error", "timedOut"}]
    BY <2>6, <2>7 DEF request, TypeOK
  <2>. QED
    BY <2>3, <2>5, <2>6, <2>8 DEF TypeOK, serverVars
<1>5. ASSUME NEW c \in Call, CallRequest(c)
      PROVE  TypeOK'
  BY <1>5, PlainIs DEF CallRequest, request, TypeOK, serverVars
<1>6. ASSUME NEW q \in Ask, Timeout(q)
      PROVE  TypeOK'
  BY <1>6 DEF Timeout, Rejects, TypeOK, serverVars
<1>7. ASSUME NEW q \in Ask, ServerTakes(q)
      PROVE  TypeOK'
  <2>1. toClient' \in Seq(Response \cup Event)
    BY <1>7, TakesSteps, AppendMessage DEF Told, TypeOK
  <2>2. /\ UNCHANGED <<clientVars, stream, gone, sent>>
        /\ toServer' \subseteq toServer
    BY <1>7, TakesSteps
  <2>3. reply' \in [Subscribes \cup Closes ->
                       {"none", "pending", "success", "refused"}]
    BY <1>7 DEF ServerTakes, Server!Ask, Server!TurnAway, Server!Answer, TypeOK
  <2>. QED
    BY <2>1, <2>2, <2>3 DEF clientVars, TypeOK
<1>8. ASSUME NEW s \in Sub, subscribe(s)
      PROVE  TypeOK'
  BY <1>8, AskTypes DEF subscribe, request, TypeOK, serverVars
<1>9. ASSUME NEW s \in Sub, SubscribeResumes(s)
      PROVE  TypeOK'
  BY <1>9 DEF SubscribeResumes, TypeOK, serverVars
<1>10. ASSUME NEW s \in Sub, NEW n \in Nth, close(s, n)
       PROVE  TypeOK'
  BY <1>10, AskTypes DEF close, Called, request, TypeOK, serverVars
<1>11. ASSUME NEW s \in Sub, NEW n \in Nth, CloseResumes(s, n)
       PROVE  TypeOK'
  <2>1. \E x \in {"closed", "closeFailed"} :
           closeCall' = [closeCall EXCEPT ![s][n] = x]
    BY <1>11 DEF CloseResumes
  <2>2. closeCall' \in [Sub -> [Nth -> {"none", "closing", "closed", "closeFailed"}]]
    BY <2>1 DEF TypeOK
  <2>. QED
    BY <1>11, <2>2 DEF CloseResumes, TypeOK, serverVars
<1>12. CASE ServerMoves
  <2>1. toClient' \in Seq(Response \cup Event)
    BY <1>12, MovesSteps, AppendMessage DEF Told, TypeOK
  <2>2. UNCHANGED <<clientVars, toServer, sent>>
    BY <1>12, MovesSteps
  <2>3. /\ reply' \in [Subscribes \cup Closes ->
                       {"none", "pending", "success", "refused"}]
        /\ stream' \in [Subscribes -> {"none", "open", "closed"}]
        /\ gone' \subseteq {Here}
    BY <1>12
       DEF ServerMoves, ServerAnswersSubscribe, ServerAnswersClose,
           ServerStream, ServerLeaves, Server!Acknowledge, Server!Refuse,
           Server!CloseSucceeds, Server!CloseFails, Server!Open, Server!End,
           Server!Leave, Server!Answer, TypeOK
  <2>. QED
    BY <2>1, <2>2, <2>3 DEF clientVars, TypeOK
<1>13. ASSUME NEW s \in Sub, ServerSends(s)
       PROVE  TypeOK'
  <2>1. sent[s] + 1 \in 1 .. MaxEvents
    BY <1>13 DEF ServerSends, TypeOK
  <2>2. PICK error \in BOOLEAN :
           toClient' = Append(toClient,
                              [event |-> s, n |-> sent[s] + 1, error |-> error])
    BY <1>13 DEF ServerSends
  <2>3. [event |-> s, n |-> sent[s] + 1, error |-> error] \in Event
    BY <2>1 DEF Event
  <2>4. toClient' \in Seq(Response \cup Event)
    BY <2>2, <2>3, AppendMessage
  <2>. QED
    BY <1>13, <2>1, <2>4 DEF ServerSends, TypeOK, clientVars
<1>14. CASE UNCHANGED vars
  BY <1>14 DEF vars, clientVars, serverVars, TypeOK
<1>. QED
  BY <1>1, <1>2, <1>3, <1>4, <1>5, <1>6, <1>7, <1>8, <1>9, <1>10, <1>11,
     <1>12, <1>13, <1>14 DEF Next, ServerMoves

------------------------------------------------------------------------------
(* Listeners                                                               *)

LEMMA NextListeners ==
    TypeOK /\ NoListenerLeft /\ Sent /\ Unopened /\ [Next]_vars => NoListenerLeft'
<1>. SUFFICES ASSUME TypeOK, NoListenerLeft, Sent, Unopened, [Next]_vars
              PROVE  NoListenerLeft'
  OBVIOUS
<1>. USE AskTypes, AskInjective DEF NoListenerLeft, Over
<1>1. CASE connect
  BY <1>1 DEF connect
<1>2. CASE SocketCloses
  BY <1>2 DEF SocketCloses
<1>3. CASE ReceiveResponse
  <2>1. PICK q \in Ask : q = Head(toClient).to
    BY <1>3 DEF ReceiveResponse, Response
  <2>2. CASE q \notin listening
    BY <1>3, <2>1, <2>2 DEF ReceiveResponse
  <2>3. CASE q \in listening
    <3>1. /\ listening' = listening \ {q}
          /\ \/ answer' = [answer EXCEPT ![q] = "ok"]
             \/ answer' = [answer EXCEPT ![q] = "error"]
          /\ UNCHANGED <<sub, closeCall, subListening>>
      BY <1>3, <2>1, <2>3 DEF ReceiveResponse
    <3>. QED
      BY <2>3, <3>1 DEF TypeOK
  <2>. QED
    BY <2>2, <2>3
<1>4. CASE ReceiveEvent
  <2>1. PICK s \in Sub :
           /\ \/ UNCHANGED <<subListening, answer, listening>>
              \/ /\ s \in subListening
                 /\ subListening' = subListening \ {s}
                 /\ request(closingOnError(s))
           /\ UNCHANGED <<sub, closeCall>>
    BY <1>4, EventSteps
  <2>2. CASE UNCHANGED <<subListening, answer, listening>>
    BY <2>1, <2>2
  <2>3. CASE /\ subListening' = subListening \ {s}
             /\ request(closingOnError(s))
    <3>1. answer' = [answer EXCEPT ![closingOnError(s)] = "waiting"]
          /\ listening' = listening \cup {closingOnError(s)}
      BY <2>3 DEF request
    <3>. QED
      BY <2>1, <2>3, <3>1 DEF TypeOK
  <2>. QED
    BY <2>1, <2>2, <2>3
<1>5. ASSUME NEW c \in Call, CallRequest(c)
      PROVE  NoListenerLeft'
  BY <1>5, PlainIs DEF CallRequest, request, TypeOK
<1>6. ASSUME NEW q \in Ask, Timeout(q)
      PROVE  NoListenerLeft'
  BY <1>6 DEF Timeout, Rejects, TypeOK
<1>7. ASSUME NEW q \in Ask, ServerTakes(q)
      PROVE  NoListenerLeft'
  BY <1>7 DEF ServerTakes, clientVars
<1>8. ASSUME NEW s \in Sub, subscribe(s)
      PROVE  NoListenerLeft'
  BY <1>8 DEF subscribe, request, TypeOK, Sent, Unopened
<1>9. ASSUME NEW s \in Sub, SubscribeResumes(s)
      PROVE  NoListenerLeft'
  BY <1>9 DEF SubscribeResumes, TypeOK
<1>10. ASSUME NEW s \in Sub, NEW n \in Nth, close(s, n)
       PROVE  NoListenerLeft'
  BY <1>10 DEF close, Called, request, TypeOK
<1>11. ASSUME NEW s \in Sub, NEW n \in Nth, CloseResumes(s, n)
       PROVE  NoListenerLeft'
  <2>1. UNCHANGED <<answer, listening, sub, subListening>>
    BY <1>11 DEF CloseResumes
  <2>2. closeCall[s][n] = "closing"
    BY <1>11 DEF CloseResumes
  <2>. HIDE DEF NoListenerLeft, Over
  <2>3. PICK x : closeCall' = [closeCall EXCEPT ![s][n] = x]
    BY <1>11 DEF CloseResumes
  <2>4. ASSUME NEW t \in Sub, NEW m \in Nth, closeCall'[t][m] /= closeCall[t][m]
        PROVE  t = s /\ m = n
    BY <2>3, <2>4 DEF TypeOK
  <2>5. \A t \in Sub, m \in Nth :
           closeCall'[t][m] /= "none" => closeCall[t][m] /= "none"
    BY <2>2, <2>4
  <2>. QED
    BY <2>1, <2>5 DEF NoListenerLeft, Over
<1>12. CASE ServerMoves
  BY <1>12, MovesSteps DEF clientVars
<1>13. ASSUME NEW s \in Sub, ServerSends(s)
       PROVE  NoListenerLeft'
  BY <1>13 DEF ServerSends, clientVars
<1>14. CASE UNCHANGED vars
  BY <1>14 DEF vars, clientVars
<1>. QED
  BY <1>1, <1>2, <1>3, <1>4, <1>5, <1>6, <1>7, <1>8, <1>9, <1>10, <1>11,
     <1>12, <1>13, <1>14 DEF Next, ServerMoves

------------------------------------------------------------------------------
(* Requests                                                                *)

LEMMA NextSent ==
    TypeOK /\ NoListenerLeft /\ Sent /\ Served /\ [Next]_vars => Sent'
<1>. SUFFICES ASSUME TypeOK, NoListenerLeft, Sent, Served, [Next]_vars
              PROVE  Sent'
  OBVIOUS
<1>. USE AskTypes, AskInjective DEF Sent
<1>0. \A i \in 1 .. Len(toClient) :
         toClient[i] \in Response => toClient[i].to \in Ask
  BY DEF Response
<1>1. CASE connect
  BY <1>1 DEF connect
<1>2. CASE SocketCloses
  BY <1>2 DEF SocketCloses
<1>3. CASE ReceiveResponse
  <2>1. \A q \in Ask : answer'[q] = "unsent" <=> answer[q] = "unsent"
    BY <1>3, ResponseSteps DEF TypeOK, NoListenerLeft
  <2>2. toClient /= <<>> /\ toClient' = Tail(toClient)
        /\ UNCHANGED <<toServer, sub>>
    BY <1>3 DEF ReceiveResponse
  <2>3. \A i \in 1 .. Len(toClient') :
           toClient'[i] = toClient[i + 1] /\ i + 1 \in 1 .. Len(toClient)
    BY <2>2, TailMessages
  <2>4. \A q \in toServer' : answer'[q] /= "unsent"
    BY <2>1, <2>2 DEF TypeOK
  <2>5. \A i \in 1 .. Len(toClient') :
           toClient'[i] \in Response => answer'[toClient'[i].to] /= "unsent"
    BY <1>0, <2>1, <2>3
  <2>6. \A s \in Sub : sub'[s] = "none" =>
           answer'[subscribing(s)] = "unsent"
           /\ answer'[closingOnError(s)] = "unsent"
    BY <2>1, <2>2
  <2>. QED
    BY <2>4, <2>5, <2>6
<1>4. CASE ReceiveEvent
  <2>1. toClient /= <<>> /\ toClient' = Tail(toClient)
    BY <1>4 DEF ReceiveEvent
  <2>2. \A i \in 1 .. Len(toClient') :
           toClient'[i] = toClient[i + 1] /\ i + 1 \in 1 .. Len(toClient)
    BY <2>1, TailMessages
  <2>3. PICK s \in Sub :
           /\ \/ UNCHANGED <<answer, toServer>>
              \/ s \in subListening /\ request(closingOnError(s))
           /\ UNCHANGED sub
    BY <1>4, EventSteps
  <2>4. CASE UNCHANGED <<answer, toServer>>
    BY <2>2, <2>3, <2>4
  <2>5. CASE s \in subListening /\ request(closingOnError(s))
    <3>1. /\ answer'[closingOnError(s)] = "waiting"
          /\ \A q \in Ask \ {closingOnError(s)} : answer'[q] = answer[q]
          /\ toServer' \subseteq toServer \cup {closingOnError(s)}
      BY <2>5, RequestSteps
    <3>2. sub[s] /= "none"
      BY <2>5 DEF NoListenerLeft
    <3>3. \A q \in Ask : answer[q] /= "unsent" => answer'[q] /= "unsent"
      BY <3>1
    <3>4. \A q \in toServer' : answer'[q] /= "unsent"
      BY <3>1, <3>3 DEF TypeOK
    <3>5. \A i \in 1 .. Len(toClient') :
             toClient'[i] \in Response => answer'[toClient'[i].to] /= "unsent"
      BY <1>0, <2>2, <3>3
    <3>6. ASSUME NEW t \in Sub, sub'[t] = "none"
          PROVE  answer'[subscribing(t)] = "unsent"
                 /\ answer'[closingOnError(t)] = "unsent"
      <4>1. t /= s
        BY <2>3, <3>2, <3>6
      <4>. QED
        BY <2>3, <3>1, <3>6, <4>1
    <3>. QED
      BY <3>4, <3>5, <3>6
  <2>. QED
    BY <2>3, <2>4, <2>5
<1>5. ASSUME NEW c \in Call, CallRequest(c)
      PROVE  Sent'
  <2>1. PICK q \in Ask :
           /\ request(q) /\ UNCHANGED <<toClient, sub>>
           /\ \A s \in Sub : q /= subscribing(s) /\ q /= closingOnError(s)
    BY <1>5, PlainIs DEF CallRequest
  <2>2. /\ answer'[q] = "waiting"
        /\ \A p \in Ask \ {q} : answer'[p] = answer[p]
        /\ toServer' \subseteq toServer \cup {q}
    BY <2>1, RequestSteps
  <2>. QED
    BY <1>0, <2>1, <2>2 DEF TypeOK
<1>6. ASSUME NEW q \in Ask, Timeout(q)
      PROVE  Sent'
  BY <1>0, <1>6 DEF Timeout, Rejects, TypeOK
<1>7. ASSUME NEW q \in Ask, ServerTakes(q)
      PROVE  Sent'
  <2>1. q \in toServer /\ toServer' \subseteq toServer
        /\ UNCHANGED <<answer, sub>>
    BY <1>7, TakesSteps DEF clientVars
  <2>2. CASE UNCHANGED toClient
    BY <2>1, <2>2
  <2>3. ASSUME NEW m, toClient' = Append(toClient, m), Told(q, m)
        PROVE  Sent'
    BY <2>1, <2>3, AppendMessage DEF Told
  <2>. QED
    BY <1>7, <2>2, <2>3, TakesSteps
<1>8. ASSUME NEW s \in Sub, subscribe(s)
      PROVE  Sent'
  <2>1. request(subscribing(s)) /\ UNCHANGED toClient
        /\ sub' = [sub EXCEPT ![s] = "subscribing"]
    BY <1>8 DEF subscribe
  <2>2. /\ answer'[subscribing(s)] = "waiting"
        /\ \A q \in Ask \ {subscribing(s)} : answer'[q] = answer[q]
        /\ toServer' \subseteq toServer \cup {subscribing(s)}
    BY <2>1, RequestSteps
  <2>3. \A q \in Ask : answer[q] /= "unsent" => answer'[q] /= "unsent"
    BY <2>2
  <2>4. \A q \in toServer' : answer'[q] /= "unsent"
    BY <2>2, <2>3 DEF TypeOK
  <2>5. \A i \in 1 .. Len(toClient') :
           toClient'[i] \in Response => answer'[toClient'[i].to] /= "unsent"
    BY <1>0, <2>1, <2>3
  <2>6. ASSUME NEW t \in Sub, sub'[t] = "none"
        PROVE  answer'[subscribing(t)] = "unsent"
               /\ answer'[closingOnError(t)] = "unsent"
    <3>1. t /= s
      BY <2>1, <2>6 DEF TypeOK
    <3>2. sub[t] = "none"
      BY <2>1, <2>6, <3>1 DEF TypeOK
    <3>3. subscribing(t) /= subscribing(s) /\ closingOnError(t) /= subscribing(s)
      BY <3>1, AskInjective, Zenon
    <3>. QED
      BY <2>2, <3>2, <3>3
  <2>. QED
    BY <2>4, <2>5, <2>6
<1>9. ASSUME NEW s \in Sub, SubscribeResumes(s)
      PROVE  Sent'
  BY <1>9 DEF SubscribeResumes, TypeOK
<1>10. ASSUME NEW s \in Sub, NEW n \in Nth, close(s, n)
       PROVE  Sent'
  <2>1. request(closing(s, n)) /\ UNCHANGED <<toClient, sub>> /\ sub[s] = "open"
    BY <1>10 DEF close, Called
  <2>2. /\ answer'[closing(s, n)] = "waiting"
        /\ \A q \in Ask \ {closing(s, n)} : answer'[q] = answer[q]
        /\ toServer' \subseteq toServer \cup {closing(s, n)}
    BY <2>1, RequestSteps
  <2>3. \A t \in Sub : /\ subscribing(t) /= closing(s, n)
                       /\ closingOnError(t) /= closing(s, n)
    BY DEF subscribing, closing, closingOnError
  <2>. QED
    BY <1>0, <2>1, <2>2, <2>3 DEF TypeOK
<1>11. ASSUME NEW s \in Sub, NEW n \in Nth, CloseResumes(s, n)
       PROVE  Sent'
  BY <1>11 DEF CloseResumes, TypeOK
<1>12. CASE ServerMoves
  <2>1. UNCHANGED <<answer, sub, toServer>>
    BY <1>12, MovesSteps DEF clientVars
  <2>2. CASE UNCHANGED toClient
    BY <2>1, <2>2
  <2>3. ASSUME NEW q \in Asked, NEW m, toClient' = Append(toClient, m),
               Told(q, m), reply[q] = "pending"
        PROVE  Sent'
    <3>1. answer[q] /= "unsent"
      BY <2>3 DEF Served
    <3>. QED
      BY <2>1, <2>3, <3>1, AppendMessage DEF Told
  <2>. QED
    BY <1>12, <2>2, <2>3, MovesSteps
<1>13. ASSUME NEW s \in Sub, ServerSends(s)
       PROVE  Sent'
  <2>1. UNCHANGED <<toServer, answer, sub>>
    BY <1>13 DEF ServerSends, clientVars
  <2>2. PICK m \in Event : toClient' = Append(toClient, m)
    BY <1>13, SendSteps
  <2>. QED
    BY <2>1, <2>2, AppendMessage, EventIsNoResponse
<1>14. CASE UNCHANGED vars
  BY <1>14 DEF vars, clientVars
<1>. QED
  BY <1>1, <1>2, <1>3, <1>4, <1>5, <1>6, <1>7, <1>8, <1>9, <1>10, <1>11,
     <1>12, <1>13, <1>14 DEF Next, ServerMoves

------------------------------------------------------------------------------
(* The requests that the server works on                                   *)

LEMMA Quiet ==
    ASSUME [Next]_vars
    PROVE  \/ UNCHANGED <<toClient, received, serverVars>>
           \/ ReceiveResponse \/ ReceiveEvent
           \/ \E q \in Ask : ServerTakes(q)
           \/ ServerMoves
           \/ \E s \in Sub : ServerSends(s)
BY DEF Next, vars, clientVars, connect, SocketCloses, CallRequest, Timeout, Rejects,
       subscribe, SubscribeResumes, close, Called, CloseResumes, ServerMoves

\* What happens to a request and to a subscription on the server.
LEMMA ReplySteps ==
    ASSUME TypeOK, Served, [Next]_vars, NEW q \in Asked, reply'[q] /= reply[q]
    PROVE  \/ /\ reply[q] = "none" /\ q \in toServer /\ q \notin toServer'
              /\ UNCHANGED stream
              /\ \/ reply'[q] = "pending"
                 \/ reply'[q] = "refused" /\ Server!TurnAway(q)
           \/ /\ reply[q] = "pending" /\ UNCHANGED stream
              /\ \/ reply'[q] = "success"
                 \/ reply'[q] = "refused"
              /\ q \in Subscribes =>
                    (reply'[q] = "refused" => stream[q] = "none")
              /\ q \in Closes =>
                    \/ reply'[q] = "success" /\ Server!CloseSucceeds(q)
                    \/ reply'[q] = "refused" /\ Server!CloseFails(q)
<1>1. ASSUME NEW p \in Ask, ServerTakes(p)
      PROVE  /\ reply[q] = "none" /\ q \in toServer /\ q \notin toServer'
             /\ UNCHANGED stream
             /\ \/ reply'[q] = "pending"
                \/ reply'[q] = "refused" /\ Server!TurnAway(q)
  <2>1. /\ p = q /\ q \in toServer /\ q \notin toServer' /\ UNCHANGED stream
        /\ \/ reply'[q] = "pending"
           \/ reply'[q] = "refused" /\ Server!TurnAway(q)
    BY <1>1, TakesSteps
  <2>2. reply[q] = "none"
    BY <2>1, AskCases DEF Served
  <2>. QED
    BY <2>1, <2>2
<1>2. CASE ServerMoves
  BY <1>2, MovesSteps
<1>3. CASE UNCHANGED serverVars
  BY <1>3 DEF serverVars
<1>4. CASE ReceiveResponse \/ ReceiveEvent \/ \E s \in Sub : ServerSends(s)
  BY <1>4 DEF ReceiveResponse, ReceiveEvent, ServerSends, serverVars
<1>. QED
  BY <1>1, <1>2, <1>3, <1>4, Quiet

LEMMA StreamSteps ==
    ASSUME TypeOK, [Next]_vars, NEW h \in Subscribes, stream'[h] /= stream[h]
    PROVE  \/ /\ stream[h] = "none" /\ stream'[h] = "open"
              /\ reply[h] = "pending" /\ UNCHANGED reply
           \/ stream[h] = "open" /\ stream'[h] = "closed"
<1>1. ASSUME NEW p \in Ask, ServerTakes(p)
      PROVE  FALSE
  BY <1>1, TakesSteps
<1>2. CASE ServerMoves
  BY <1>2, MovesSteps
<1>3. CASE UNCHANGED serverVars
  BY <1>3 DEF serverVars
<1>4. CASE ReceiveResponse \/ ReceiveEvent \/ \E s \in Sub : ServerSends(s)
  BY <1>4 DEF ReceiveResponse, ReceiveEvent, ServerSends, serverVars
<1>. QED
  BY <1>1, <1>2, <1>3, <1>4, Quiet

\* What the server has decided stays so, and so does the end of a subscription.
LEMMA DecidedStays ==
    ASSUME TypeOK, Served, [Next]_vars, NEW q \in Asked, Decided(q)
    PROVE  Decided(q)' /\ reply'[q] = reply[q]
BY ReplySteps DEF Decided

LEMMA EndedStays ==
    ASSUME TypeOK, Served, [Next]_vars, NEW s \in Sub, Ended(s)
    PROVE  Ended(s)'
<1>1. subscribing(s) \in Subscribes /\ subscribing(s) \in Asked
  BY AskTypes DEF Asked
<1>2. Decided(subscribing(s)) /\ stream[subscribing(s)] /= "open"
  BY DEF Ended
<1>3. Decided(subscribing(s))'
  BY <1>1, <1>2, DecidedStays
<1>4. stream'[subscribing(s)] /= "open"
  BY <1>1, <1>2, StreamSteps DEF Decided
<1>. QED
  BY <1>3, <1>4 DEF Ended

\* Every response on its way was so before, or the server sends it now.
LEMMA MessageSteps ==
    ASSUME TypeOK, [Next]_vars, NEW i \in 1 .. Len(toClient'),
           toClient'[i] \in Response
    PROVE  \/ \E j \in 1 .. Len(toClient) : toClient'[i] = toClient[j]
           \/ \E q \in Ask : Told(q, toClient'[i])
<1>. DEFINE Shown == \/ \E j \in 1 .. Len(toClient) : toClient'[i] = toClient[j]
                     \/ \E q \in Ask : Told(q, toClient'[i])
<1>1. CASE UNCHANGED toClient
  BY <1>1
<1>2. CASE toClient /= <<>> /\ toClient' = Tail(toClient)
  BY <1>2, TailMessages
<1>3. ASSUME NEW q \in Ask, NEW m, toClient' = Append(toClient, m), Told(q, m)
      PROVE  Shown
  <2>1. m \in Response
    BY <1>3 DEF Told
  <2>2. \/ i \in 1 .. Len(toClient) /\ toClient'[i] = toClient[i]
        \/ toClient'[i] = m
    BY <1>3, <2>1, AppendMessage
  <2>. QED
    BY <1>3, <2>2
<1>4. ASSUME NEW q \in Ask, ServerTakes(q)
      PROVE  Shown
  BY <1>1, <1>3, <1>4, TakesSteps
<1>5. CASE ServerMoves
  BY <1>1, <1>3, <1>5, MovesSteps, AskCases
<1>6. ASSUME NEW s \in Sub, ServerSends(s)
      PROVE  Shown
  <2>1. PICK m \in Event : toClient' = Append(toClient, m)
    BY <1>6, SendSteps
  <2>. QED
    BY <2>1, AppendMessage, EventIsNoResponse
<1>7. CASE ReceiveResponse \/ ReceiveEvent
  BY <1>2, <1>7 DEF ReceiveResponse, ReceiveEvent
<1>. QED
  BY <1>1, <1>4, <1>5, <1>6, <1>7, Quiet

\* An event that is received with its listener attached is the next one.
LEMMA HeadIsNext ==
    ASSUME TypeOK, Hearing, ReceiveEvent, Head(toClient).event \in subListening
    PROVE  /\ Head(toClient).n = Len(received[Head(toClient).event]) + 1
           /\ EventAt(1, Head(toClient).event, Head(toClient).n)
           /\ Head(toClient).n \in 1 .. MaxEvents
<1>1. Head(toClient) = toClient[1] /\ 1 \in 1 .. Len(toClient)
  BY TailMessages DEF ReceiveEvent
<1>2. Head(toClient) \in Event /\ Head(toClient).n \in 1 .. MaxEvents
  BY DEF ReceiveEvent, Event
<1>3. EventAt(1, Head(toClient).event, Head(toClient).n)
  BY <1>1, <1>2 DEF EventAt
<1>4. Waiting(Head(toClient).event)
  BY DEF Hearing
<1>5. ~ \E j \in 1 .. Len(toClient) : j < 1
  OBVIOUS
<1>. QED
  BY <1>1, <1>2, <1>3, <1>4, <1>5 DEF Waiting

\* How the promise of a request changes: it is sent, its timer fires, or a
\* response settles it.
Changed(q) ==
    \/ /\ answer'[q] = "waiting"
       /\ \A s \in Sub :
             /\ \A n \in Nth : q = closing(s, n) => close(s, n)
             /\ q = closingOnError(s) =>
                   ReceiveEvent /\ s = Head(toClient).event /\ s \in subListening
    \/ answer'[q] = "timedOut" /\ answer[q] = "waiting"
    \/ \E j \in 1 .. Len(toClient) :
          /\ toClient[j] \in Response /\ toClient[j].to = q
          /\ answer'[q] = IF toClient[j].error THEN "error" ELSE "ok"

LEMMA AnswerChanges ==
    ASSUME TypeOK, [Next]_vars, NEW q \in Ask, answer'[q] /= answer[q]
    PROVE  Changed(q)
<1>1. CASE ReceiveResponse
  <2>1. PICK p \in Ask :
           /\ Head(toClient) \in Response /\ p = Head(toClient).to
           /\ \/ UNCHANGED answer
              \/ answer' = [answer EXCEPT ![p] =
                               IF Head(toClient).error THEN "error" ELSE "ok"]
    BY <1>1, ResponseSteps
  <2>2. p = q /\ answer'[q] = IF Head(toClient).error THEN "error" ELSE "ok"
    BY <2>1 DEF TypeOK
  <2>3. Head(toClient) = toClient[1] /\ 1 \in 1 .. Len(toClient)
    BY <1>1, TailMessages DEF ReceiveResponse
  <2>. QED
    BY <2>1, <2>2, <2>3 DEF Changed
<1>2. CASE ReceiveEvent
  <2>1. PICK s \in Sub :
           /\ s = Head(toClient).event
           /\ \/ UNCHANGED answer
              \/ s \in subListening /\ request(closingOnError(s))
    BY <1>2, EventSteps
  <2>2. s \in subListening /\ closingOnError(s) = q /\ answer'[q] = "waiting"
    BY <2>1, AskTypes, RequestSteps
  <2>3. \A t \in Sub, n \in Nth : closing(t, n) /= closingOnError(s)
    BY DEF closing, closingOnError
  <2>4. \A t \in Sub : closingOnError(t) = closingOnError(s) => t = s
    BY AskInjective
  <2>. QED
    BY <1>2, <2>1, <2>2, <2>3, <2>4 DEF Changed
<1>3. ASSUME NEW c \in Call, CallRequest(c)
      PROVE  Changed(q)
  <2>1. PICK p \in Ask :
           /\ request(p)
           /\ \A s \in Sub : /\ p /= closingOnError(s)
                             /\ \A n \in Nth : p /= closing(s, n)
    BY <1>3, PlainIs DEF CallRequest
  <2>2. p = q /\ answer'[q] = "waiting"
    BY <2>1, RequestSteps
  <2>. QED
    BY <2>1, <2>2 DEF Changed
<1>4. ASSUME NEW p \in Ask, Timeout(p)
      PROVE  Changed(q)
  BY <1>4 DEF Timeout, Rejects, TypeOK, Changed
<1>5. ASSUME NEW s \in Sub, subscribe(s)
      PROVE  Changed(q)
  <2>1. q = subscribing(s) /\ answer'[q] = "waiting"
    BY <1>5, AskTypes, RequestSteps DEF subscribe
  <2>2. \A t \in Sub :
           /\ closingOnError(t) /= subscribing(s)
           /\ \A n \in Nth : closing(t, n) /= subscribing(s)
    BY DEF closing, closingOnError, subscribing
  <2>. QED
    BY <2>1, <2>2 DEF Changed
<1>6. ASSUME NEW s \in Sub, NEW n \in Nth, close(s, n)
      PROVE  Changed(q)
  <2>1. q = closing(s, n) /\ answer'[q] = "waiting"
    BY <1>6, AskTypes, RequestSteps DEF close
  <2>2. \A t \in Sub, m \in Nth : closing(t, m) = closing(s, n) => t = s /\ m = n
    BY CloseInjective
  <2>3. \A t \in Sub : closingOnError(t) /= closing(s, n)
    BY DEF closing, closingOnError
  <2>. QED
    BY <1>6, <2>1, <2>2, <2>3 DEF Changed
<1>7. CASE UNCHANGED answer
  BY <1>7
<1>8. CASE ServerMoves \/ \E p \in Ask : ServerTakes(p)
  BY <1>7, <1>8, TakesSteps, MovesSteps DEF clientVars
<1>. QED
  BY <1>1, <1>2, <1>3, <1>4, <1>5, <1>6, <1>7, <1>8
     DEF Next, vars, clientVars, connect, SocketCloses, SubscribeResumes,
         CloseResumes, ServerMoves, ServerSends

\* How a subscription comes to be open for the client, and a call of its close()
\* to be made and to resolve.
LEMMA SubChanges ==
    ASSUME TypeOK, [Next]_vars, NEW s \in Sub
    PROVE  /\ sub'[s] = "open" => sub[s] = "open" \/ answer[subscribing(s)] = "ok"
           /\ sub[s] = "open" => sub'[s] = "open"
<1>. DEFINE Shown ==
       /\ sub'[s] = "open" => sub[s] = "open" \/ answer[subscribing(s)] = "ok"
       /\ sub[s] = "open" => sub'[s] = "open"
<1>1. ASSUME NEW t \in Sub, SubscribeResumes(t)
      PROVE  Shown
  BY <1>1 DEF SubscribeResumes, TypeOK
<1>2. ASSUME NEW t \in Sub, subscribe(t)
      PROVE  Shown
  BY <1>2 DEF subscribe, TypeOK
<1>3. ASSUME UNCHANGED sub
      PROVE  Shown
  BY <1>3
<1>4. ASSUME ServerMoves \/ \E p \in Ask : ServerTakes(p)
      PROVE  Shown
  BY <1>3, <1>4, TakesSteps, MovesSteps DEF clientVars
<1>. QED
  BY <1>1, <1>2, <1>3, <1>4
     DEF Next, vars, clientVars, connect, SocketCloses, ReceiveResponse,
         ReceiveEvent, CallRequest, Timeout, Rejects, close, Called,
         CloseResumes, ServerMoves, ServerSends

LEMMA CallChanges ==
    ASSUME TypeOK, [Next]_vars, NEW s \in Sub, NEW n \in Nth
    PROVE  /\ closeCall'[s][n] = "closed" =>
                 \/ closeCall[s][n] = "closed"
                 \/ answer[closing(s, n)] \in {"ok", "error"}
           /\ closeCall'[s][n] = "none" => closeCall[s][n] = "none" /\ ~close(s, n)
           /\ closeCall'[s][n] /= "none" => closeCall[s][n] /= "none" \/ sub[s] = "open"
<1>. DEFINE Shown ==
       /\ closeCall'[s][n] = "closed" =>
             \/ closeCall[s][n] = "closed"
             \/ answer[closing(s, n)] \in {"ok", "error"}
       /\ closeCall'[s][n] = "none" => closeCall[s][n] = "none"
       /\ closeCall'[s][n] /= "none" => closeCall[s][n] /= "none" \/ sub[s] = "open"
<1>1. ASSUME NEW t \in Sub, NEW m \in Nth, CloseResumes(t, m)
      PROVE  Shown
  <2>1. CASE t = s /\ m = n
    BY <1>1, <2>1 DEF CloseResumes, TypeOK
  <2>2. CASE ~(t = s /\ m = n)
    <3>1. closeCall'[s][n] = closeCall[s][n]
      BY <1>1, <2>2 DEF CloseResumes, TypeOK
    <3>. QED
      BY <3>1
  <2>. QED
    BY <2>1, <2>2
<1>2. ASSUME NEW t \in Sub, NEW m \in Nth, close(t, m)
      PROVE  Shown
  BY <1>2 DEF close, Called, TypeOK
<1>3. ASSUME UNCHANGED closeCall
      PROVE  Shown
  BY <1>3
<1>4. ASSUME ServerMoves \/ \E p \in Ask : ServerTakes(p)
      PROVE  Shown
  BY <1>3, <1>4, TakesSteps, MovesSteps DEF clientVars
<1>5. Shown
  BY <1>1, <1>2, <1>3, <1>4
     DEF Next, vars, clientVars, connect, SocketCloses, ReceiveResponse,
         ReceiveEvent, CallRequest, Timeout, Rejects, subscribe,
         SubscribeResumes, ServerMoves, ServerSends
<1>6. close(s, n) => closeCall'[s][n] = "closing"
  BY DEF close, Called, TypeOK
<1>. QED
  BY <1>5, <1>6

LEMMA NextUnopened ==
    TypeOK /\ Unopened /\ [Next]_vars => Unopened'
BY SubChanges, CallChanges DEF Unopened

\* A request is on its way from the moment that it is sent, once.
LEMMA NewRequests ==
    ASSUME TypeOK, NoListenerLeft, Sent, Served, [Next]_vars,
           NEW q \in toServer', q \notin toServer
    PROVE  q \in Plain \/ answer[q] = "unsent"
<1>1. CASE ReceiveEvent
  <2>1. PICK s \in Sub :
           \/ UNCHANGED toServer
           \/ s \in subListening /\ request(closingOnError(s))
    BY <1>1, EventSteps
  <2>2. q = closingOnError(s) /\ s \in subListening
    BY <2>1, AskTypes, RequestSteps
  <2>. QED
    BY <2>2 DEF NoListenerLeft, Over
<1>2. ASSUME NEW c \in Call, CallRequest(c)
      PROVE  q \in Plain
  BY <1>2, PlainIs, RequestSteps DEF CallRequest
<1>3. ASSUME NEW s \in Sub, subscribe(s)
      PROVE  answer[q] = "unsent"
  BY <1>3, AskTypes, RequestSteps DEF subscribe, Sent
<1>4. ASSUME NEW s \in Sub, NEW n \in Nth, close(s, n)
      PROVE  answer[q] = "unsent"
  BY <1>4, AskTypes, RequestSteps DEF close, Called, Served
<1>5. CASE ServerMoves \/ \E p \in Ask : ServerTakes(p)
  BY <1>5, TakesSteps, MovesSteps
<1>. QED
  BY <1>1, <1>2, <1>3, <1>4, <1>5
     DEF Next, vars, connect, SocketCloses, ReceiveResponse, Timeout, Rejects,
         SubscribeResumes, CloseResumes, ServerMoves, ServerSends

LEMMA NextServed ==
    TypeOK /\ NoListenerLeft /\ Sent /\ Served /\ Sending /\ Hearing /\ [Next]_vars
        => Served'
<1>. SUFFICES ASSUME TypeOK, NoListenerLeft, Sent, Served, Sending, Hearing,
                     [Next]_vars
              PROVE  Served'
  OBVIOUS
<1>1. ASSUME NEW q \in Asked, reply'[q] /= "none"
      PROVE  answer'[q] /= "unsent"
  <2>1. q \in Ask
    BY AskCases
  <2>2. answer[q] /= "unsent"
    <3>1. reply[q] /= "none" \/ q \in toServer
      BY <1>1, ReplySteps
    <3>. QED
      BY <3>1 DEF Served, Sent
  <2>. QED
    BY <2>1, <2>2, AnswerChanges DEF Changed
<1>2. ASSUME NEW q \in toServer', q \notin Plain
      PROVE  reply'[q] = "none"
  <2>1. q \in Asked
    BY <1>2, NextTypeOK, AskCases DEF TypeOK
  <2>2. reply[q] = "none"
    BY <1>2, <2>1, NewRequests DEF Served
  <2>3. CASE q \in toServer
    BY <2>1, <2>2, ReplySteps
  <2>4. CASE q \notin toServer
    BY <2>1, <2>2, <2>4, ReplySteps
  <2>. QED
    BY <2>3, <2>4
<1>3. ASSUME NEW h \in Subscribes, reply'[h] \in {"none", "refused"}
      PROVE  stream'[h] = "none"
  <2>1. h \in Asked
    BY DEF Asked
  <2>2. CASE reply'[h] = reply[h]
    <3>1. stream[h] = "none"
      BY <1>3, <2>2 DEF Served
    <3>. QED
      BY <1>3, <2>2, <3>1, StreamSteps
  <2>3. CASE reply'[h] /= reply[h]
    BY <1>3, <2>1, <2>3, ReplySteps DEF Served
  <2>. QED
    BY <2>2, <2>3
<1>4. ASSUME NEW s \in Sub, answer'[closingOnError(s)] /= "unsent"
      PROVE  reply'[subscribing(s)] /= "none"
  <2>1. subscribing(s) \in Asked /\ subscribing(s) \in Subscribes
        /\ closingOnError(s) \in Ask
    BY AskTypes DEF Asked
  <2>2. reply[subscribing(s)] /= "none"
    <3>1. CASE answer[closingOnError(s)] /= "unsent"
      BY <3>1 DEF Served
    <3>2. CASE answer[closingOnError(s)] = "unsent"
      <4>1. Changed(closingOnError(s))
        BY <1>4, <2>1, <3>2, AnswerChanges
      <4>2. ReceiveEvent /\ s = Head(toClient).event /\ s \in subListening
        BY <3>2, <4>1 DEF Changed, Sent
      <4>3. EventAt(1, s, Head(toClient).n) /\ Head(toClient).n \in 1 .. MaxEvents
        BY <4>2, HeadIsNext
      <4>4. 1 \in 1 .. Len(toClient)
        BY <4>2, TailMessages DEF ReceiveEvent
      <4>5. sent[s] /= 0
        BY <4>3, <4>4 DEF Sending, TypeOK
      <4>6. stream[subscribing(s)] /= "none"
        BY <4>5 DEF Sending
      <4>. QED
        BY <2>1, <4>6 DEF Served
    <3>. QED
      BY <3>1, <3>2
  <2>. QED
    BY <2>1, <2>2, ReplySteps
<1>5. ASSUME NEW s \in Sub, NEW n \in Nth, closeCall'[s][n] = "none"
      PROVE  answer'[closing(s, n)] = "unsent"
  <2>1. answer[closing(s, n)] = "unsent" /\ ~close(s, n)
    BY <1>5, CallChanges DEF Served
  <2>2. CASE answer'[closing(s, n)] /= answer[closing(s, n)]
    <3>1. closing(s, n) \in Ask /\ Changed(closing(s, n))
      BY <2>2, AskTypes, AnswerChanges
    <3>. QED
      BY <2>1, <3>1 DEF Changed, Sent
  <2>. QED
    BY <2>1, <2>2
<1>. QED
  BY <1>1, <1>2, <1>3, <1>4, <1>5 DEF Served

LEMMA NextOpening ==
    TypeOK /\ Sent /\ Served /\ Opening /\ [Next]_vars => Opening'
<1>. SUFFICES ASSUME TypeOK, Sent, Served, Opening, [Next]_vars
              PROVE  Opening'
  OBVIOUS
<1>1. ASSUME NEW i \in 1 .. Len(toClient'), NEW q \in Asked,
             toClient'[i] \in Response, toClient'[i].to = q
      PROVE  Decided(q)'
  <2>1. ASSUME NEW j \in 1 .. Len(toClient), toClient'[i] = toClient[j]
        PROVE  Decided(q)'
    BY <1>1, <2>1, DecidedStays DEF Opening
  <2>2. ASSUME NEW p \in Ask, Told(p, toClient'[i])
        PROVE  Decided(q)'
    BY <1>1, <2>2 DEF Told
  <2>. QED
    BY <1>1, <2>1, <2>2, MessageSteps
<1>2. ASSUME NEW q \in Asked, answer'[q] \in {"ok", "error"}
      PROVE  Decided(q)'
  <2>1. CASE answer[q] = answer'[q]
    BY <1>2, <2>1, DecidedStays DEF Opening
  <2>2. CASE answer[q] /= answer'[q]
    <3>1. Changed(q)
      BY <2>2, AskCases, AnswerChanges
    <3>2. PICK j \in 1 .. Len(toClient) :
             toClient[j] \in Response /\ toClient[j].to = q
      BY <1>2, <3>1 DEF Changed
    <3>. QED
      BY <3>2, DecidedStays DEF Opening
  <2>. QED
    BY <2>1, <2>2
<1>3. ASSUME NEW s \in Sub,
             sub'[s] = "open" \/ \E n \in Nth : answer'[closing(s, n)] /= "unsent"
      PROVE  Decided(subscribing(s))'
  <2>1. subscribing(s) \in Asked /\ \A n \in Nth : closing(s, n) \in Ask
    BY AskTypes DEF Asked
  <2>2. CASE sub[s] = "open" \/ \E n \in Nth : answer[closing(s, n)] /= "unsent"
    <3>1. Decided(subscribing(s))
      BY <2>2 DEF Opening
    <3>. QED
      BY <2>1, <3>1, DecidedStays
  <2>3. CASE sub'[s] = "open" /\ sub[s] /= "open"
    <3>1. answer[subscribing(s)] = "ok"
      BY <2>3, SubChanges
    <3>. QED
      BY <2>1, <3>1, DecidedStays DEF Opening
  <2>4. ASSUME NEW n \in Nth, answer'[closing(s, n)] /= "unsent",
               answer[closing(s, n)] = "unsent"
        PROVE  Decided(subscribing(s))'
    <3>1. Changed(closing(s, n))
      BY <2>1, <2>4, AnswerChanges
    <3>2. close(s, n)
      BY <2>4, <3>1 DEF Changed, Sent
    <3>3. Decided(subscribing(s))
      BY <3>2 DEF close, Called, Opening
    <3>. QED
      BY <2>1, <3>3, DecidedStays
  <2>. QED
    BY <1>3, <2>2, <2>3, <2>4
<1>. QED
  BY <1>1, <1>2, <1>3 DEF Opening

\* The answer to close() stays what it is.
LEMMA SettledStays ==
    ASSUME TypeOK, Sent, Served, [Next]_vars, NEW s \in Sub, NEW n \in Nth,
           answer[closing(s, n)] \in {"ok", "error"}
    PROVE  answer'[closing(s, n)] \in {"ok", "error"}
<1>1. CASE answer'[closing(s, n)] = answer[closing(s, n)]
  BY <1>1
<1>2. CASE answer'[closing(s, n)] /= answer[closing(s, n)]
  <2>1. Changed(closing(s, n))
    BY <1>2, AskTypes, AnswerChanges
  <2>2. ~close(s, n)
    BY DEF close, Called, Served
  <2>. QED
    BY <2>1, <2>2 DEF Changed
<1>. QED
  BY <1>1, <1>2

LEMMA NextClosing ==
    TypeOK /\ Sent /\ Served /\ Opening /\ Closing /\ [Next]_vars => Closing'
<1>. SUFFICES ASSUME TypeOK, Sent, Served, Opening, Closing, [Next]_vars
              PROVE  Closing'
  OBVIOUS
<1>0. \A s \in Sub, n \in Nth :
         /\ closing(s, n) \in Ask /\ closing(s, n) \in Asked
         /\ closing(s, n) \in Closes /\ closing(s, n) \in Its(s)
         /\ subscribing(s) \in Subscribes
  BY AskTypes DEF Asked, Its
<1>1. ASSUME NEW s \in Sub, NEW n \in Nth, reply[closing(s, n)] = "success"
      PROVE  reply'[closing(s, n)] = "success"
  BY <1>0, <1>1, DecidedStays DEF Decided
<1>2. ASSUME NEW i \in 1 .. Len(toClient'), NEW s \in Sub, NEW n \in Nth,
             toClient'[i] \in Response, toClient'[i].to = closing(s, n),
             ~toClient'[i].error
      PROVE  reply'[closing(s, n)] = "success"
  <2>1. ASSUME NEW j \in 1 .. Len(toClient), toClient'[i] = toClient[j]
        PROVE  reply'[closing(s, n)] = "success"
    BY <1>1, <1>2, <2>1 DEF Closing
  <2>2. ASSUME NEW p \in Ask, Told(p, toClient'[i])
        PROVE  reply'[closing(s, n)] = "success"
    BY <1>0, <1>2, <2>2 DEF Told
  <2>. QED
    BY <1>2, <2>1, <2>2, MessageSteps
<1>3. ASSUME NEW s \in Sub, NEW n \in Nth, answer'[closing(s, n)] = "ok"
      PROVE  reply'[closing(s, n)] = "success"
  <2>1. CASE answer[closing(s, n)] = "ok"
    BY <1>1, <2>1 DEF Closing
  <2>2. CASE answer[closing(s, n)] /= "ok"
    <3>1. Changed(closing(s, n))
      BY <1>0, <1>3, <2>2, AnswerChanges
    <3>2. PICK j \in 1 .. Len(toClient) :
             /\ toClient[j] \in Response /\ toClient[j].to = closing(s, n)
             /\ ~toClient[j].error
      BY <1>3, <3>1 DEF Changed
    <3>. QED
      BY <1>1, <3>2 DEF Closing
  <2>. QED
    BY <2>1, <2>2
<1>4. ASSUME NEW s \in Sub, NEW n \in Nth, reply'[closing(s, n)] = "success"
      PROVE  Ended(s)'
  <2>1. Ended(s)
    <3>1. CASE reply[closing(s, n)] = "success"
      BY <3>1 DEF Closing
    <3>2. CASE reply[closing(s, n)] /= "success"
      <4>1. Server!CloseSucceeds(closing(s, n))
        BY <1>0, <1>4, <3>2, ReplySteps
      <4>2. reply[subscribing(s)] = "success" /\ stream[subscribing(s)] = "closed"
        BY <1>0, <4>1, UnderIdIs DEF Server!CloseSucceeds
      <4>. QED
        BY <4>2 DEF Ended, Decided
    <3>. QED
      BY <3>1, <3>2
  <2>. QED
    BY <2>1, EndedStays
<1>5. ASSUME NEW s \in Sub, NEW n \in Nth, reply'[closing(s, n)] = "refused"
      PROVE  Ended(s)' \/ s \in Faulty
  <2>1. Ended(s) \/ s \in Faulty
    <3>1. CASE reply[closing(s, n)] = "refused"
      BY <3>1 DEF Closing
    <3>2. CASE reply[closing(s, n)] = "none" /\ closing(s, n) \in toServer
               /\ Server!TurnAway(closing(s, n))
      <4>1. ~Server!InUse(closing(s, n))
        BY <1>0, <3>2, AskCases DEF Server!TurnAway
      <4>2. ~(reply[subscribing(s)] = "success" /\ stream[subscribing(s)] = "open")
        BY <1>0, <4>1, UnderIdIs DEF Server!InUse
      <4>3. Decided(subscribing(s))
        BY <3>2 DEF Sent, Opening
      <4>4. stream[subscribing(s)] /= "open"
        BY <1>0, <4>2, <4>3 DEF Decided, Served
      <4>. QED
        BY <4>3, <4>4 DEF Ended
    <3>3. CASE Server!CloseFails(closing(s, n))
      <4>1. PICK t \in Faulty : subscribing(t) \in Server!UnderId(closing(s, n))
        BY <3>3 DEF Server!CloseFails
      <4>2. subscribing(t) = subscribing(s)
        BY <1>0, <4>1, UnderIdIs
      <4>. QED
        BY <4>2, AskInjective
    <3>. QED
      BY <1>0, <1>5, <3>1, <3>2, <3>3, ReplySteps, AskCases
  <2>. QED
    BY <2>1, EndedStays
<1>6. ASSUME NEW s \in Sub, NEW n \in Nth, closeCall'[s][n] = "closed"
      PROVE  answer'[closing(s, n)] \in {"ok", "error"}
  <2>1. answer[closing(s, n)] \in {"ok", "error"}
    BY <1>6, CallChanges DEF Closing
  <2>. QED
    BY <2>1, SettledStays
<1>. QED
  BY <1>2, <1>3, <1>4, <1>5, <1>6 DEF Closing

------------------------------------------------------------------------------
(* Events                                                                  *)

\* The messages that are appended, and the event that is.
LEMMA EventAfterAppend ==
    ASSUME TypeOK, NEW m \in Response \cup Event, toClient' = Append(toClient, m),
           NEW s \in Sub, NEW i \in 1 .. Len(toClient'), NEW n \in 1 .. MaxEvents
    PROVE  /\ i \in 1 .. Len(toClient) => (EventAt(i, s, n)' <=> EventAt(i, s, n))
           /\ i \notin 1 .. Len(toClient) =>
                 /\ i = Len(toClient) + 1
                 /\ EventAt(i, s, n)' <=> m \in Event /\ m.event = s /\ m.n = n
BY AppendMessage DEF EventAt

LEMMA EventAfterTail ==
    ASSUME TypeOK, toClient /= <<>>, toClient' = Tail(toClient),
           NEW s \in Sub, NEW i \in 1 .. Len(toClient'), NEW n \in 1 .. MaxEvents
    PROVE  /\ EventAt(i, s, n)' <=> EventAt(i + 1, s, n)
           /\ i + 1 \in 1 .. Len(toClient)
BY TailMessages DEF EventAt

LEMMA NextNoEventLost ==
    TypeOK /\ Hearing /\ NoEventLost /\ [Next]_vars => NoEventLost'
<1>. SUFFICES ASSUME TypeOK, Hearing, NoEventLost, [Next]_vars
              PROVE  NoEventLost'
  OBVIOUS
<1>1. CASE ReceiveEvent
  <2>1. PICK s \in Sub :
           /\ s = Head(toClient).event
           /\ received' = IF s \in subListening
                          THEN [received EXCEPT ![s] = Append(@, Head(toClient).n)]
                          ELSE received
    BY <1>1, EventSteps
  <2>2. CASE s \notin subListening
    BY <2>1, <2>2 DEF NoEventLost
  <2>3. CASE s \in subListening
    <3>1. /\ Head(toClient).n = Len(received[s]) + 1
          /\ Head(toClient).n \in 1 .. MaxEvents
      BY <1>1, <2>1, <2>3, HeadIsNext
    <3>2. received[s] \in Seq(1 .. MaxEvents)
      BY DEF TypeOK
    <3>3. received'[s] = Append(received[s], Len(received[s]) + 1)
      BY <2>1, <2>3, <3>1 DEF TypeOK
    <3>4. received[s] = [i \in 1 .. Len(received[s]) |-> i]
      BY DEF NoEventLost
    <3>5. received'[s] = [i \in 1 .. Len(received'[s]) |-> i]
      BY <3>1, <3>2, <3>3, <3>4
    <3>6. \A t \in Sub \ {s} : received'[t] = received[t]
      BY <2>1 DEF TypeOK
    <3>. QED
      BY <3>5, <3>6 DEF NoEventLost
  <2>. QED
    BY <2>2, <2>3
<1>2. CASE UNCHANGED received
  BY <1>2 DEF NoEventLost
<1>3. CASE ServerMoves \/ \E q \in Ask : ServerTakes(q)
  BY <1>2, <1>3, TakesSteps, MovesSteps DEF clientVars
<1>. QED
  BY <1>1, <1>2, <1>3, Quiet DEF ReceiveResponse, ServerSends, clientVars

\* The clauses of Sending for one subscription.
SendingOf(s) ==
    /\ stream[subscribing(s)] = "none" => sent[s] = 0
    /\ Len(received[s]) <= sent[s]
    /\ \A i \in 1 .. Len(toClient) : \A n \in 1 .. MaxEvents :
          EventAt(i, s, n) => n <= sent[s]

LEMMA NextSending ==
    TypeOK /\ Sending /\ Hearing /\ [Next]_vars => Sending'
<1>. SUFFICES ASSUME TypeOK, Sending, Hearing, [Next]_vars, NEW s \in Sub
              PROVE  SendingOf(s)'
  BY DEF Sending, SendingOf
<1>0. SendingOf(s) /\ subscribing(s) \in Subscribes
  BY AskTypes DEF Sending, SendingOf
<1>. USE DEF SendingOf
<1>1. CASE UNCHANGED <<toClient, received, serverVars>>
  BY <1>0, <1>1 DEF EventAt, serverVars
<1>2. CASE ReceiveResponse
  <2>1. /\ toClient /= <<>> /\ toClient' = Tail(toClient)
        /\ UNCHANGED <<received, stream, sent>>
    BY <1>2 DEF ReceiveResponse, serverVars
  <2>2. \A i \in 1 .. Len(toClient') : \A n \in 1 .. MaxEvents :
           EventAt(i, s, n)' => n <= sent[s]
    BY <1>0, <2>1, EventAfterTail
  <2>. QED
    BY <1>0, <2>1, <2>2
<1>3. CASE ReceiveEvent
  <2>1. /\ toClient /= <<>> /\ toClient' = Tail(toClient)
        /\ UNCHANGED <<stream, sent>>
    BY <1>3 DEF ReceiveEvent, serverVars
  <2>2. \A i \in 1 .. Len(toClient') : \A n \in 1 .. MaxEvents :
           EventAt(i, s, n)' => n <= sent[s]
    BY <1>0, <2>1, EventAfterTail
  <2>3. Len(received'[s]) <= sent[s]
    <3>1. PICK t \in Sub :
             /\ t = Head(toClient).event
             /\ received' = IF t \in subListening
                            THEN [received EXCEPT ![t] = Append(@, Head(toClient).n)]
                            ELSE received
      BY <1>3, EventSteps
    <3>2. CASE t \notin subListening \/ t /= s
      <4>1. received'[s] = received[s]
        BY <3>1, <3>2 DEF TypeOK
      <4>. QED
        BY <1>0, <4>1
    <3>3. CASE t \in subListening /\ t = s
      <4>1. /\ Head(toClient).n = Len(received[s]) + 1
            /\ EventAt(1, s, Head(toClient).n)
            /\ Head(toClient).n \in 1 .. MaxEvents
        BY <1>3, <3>1, <3>3, HeadIsNext
      <4>2. 1 \in 1 .. Len(toClient)
        BY <2>1, TailMessages
      <4>3. Len(received[s]) + 1 <= sent[s]
        BY <1>0, <4>1, <4>2
      <4>4. Len(received'[s]) = Len(received[s]) + 1
        BY <3>1, <3>3 DEF TypeOK
      <4>. QED
        BY <4>3, <4>4
    <3>. QED
      BY <3>2, <3>3
  <2>. QED
    BY <1>0, <2>1, <2>2, <2>3
<1>4. ASSUME UNCHANGED <<received, sent>>,
             UNCHANGED toClient
             \/ \E q \in Ask : \E m : toClient' = Append(toClient, m) /\ Told(q, m),
             stream[subscribing(s)] /= "none" => stream'[subscribing(s)] /= "none"
      PROVE  SendingOf(s)'
  <2>1. ASSUME UNCHANGED toClient, NEW i \in 1 .. Len(toClient'),
               NEW n \in 1 .. MaxEvents, EventAt(i, s, n)'
        PROVE  n <= sent[s]
    BY <1>0, <2>1 DEF EventAt
  <2>2. ASSUME NEW q \in Ask, NEW m, toClient' = Append(toClient, m), Told(q, m),
               NEW i \in 1 .. Len(toClient'), NEW n \in 1 .. MaxEvents,
               EventAt(i, s, n)'
        PROVE  n <= sent[s]
    <3>1. m \in Response
      BY <2>2 DEF Told
    <3>. QED
      BY <1>0, <2>2, <3>1, EventAfterAppend, EventIsNoResponse
  <2>. QED
    BY <1>0, <1>4, <2>1, <2>2
<1>5. ASSUME NEW q \in Ask, ServerTakes(q)
      PROVE  SendingOf(s)'
  BY <1>4, <1>5, TakesSteps DEF clientVars
<1>6. CASE ServerMoves
  <2>1. stream[subscribing(s)] /= "none" => stream'[subscribing(s)] /= "none"
    BY <1>0, StreamSteps
  <2>. QED
    BY <1>4, <1>6, <2>1, MovesSteps, AskCases DEF clientVars
<1>7. ASSUME NEW t \in Sub, ServerSends(t)
      PROVE  SendingOf(s)'
  <2>1. PICK m \in Event :
           toClient' = Append(toClient, m) /\ m.event = t /\ m.n = sent[t] + 1
    BY <1>7, SendSteps
  <2>2. /\ sent' = [sent EXCEPT ![t] = @ + 1] /\ stream[subscribing(t)] = "open"
        /\ UNCHANGED <<received, stream>>
    BY <1>7 DEF ServerSends, clientVars
  <2>3. /\ sent[s] \in Nat /\ sent'[s] \in Nat /\ sent[s] <= sent'[s]
        /\ s = t => sent'[s] = sent[s] + 1
    BY <2>2 DEF TypeOK
  <2>4. Len(received[s]) \in Nat
    BY DEF TypeOK
  <2>5. \A i \in 1 .. Len(toClient') : \A n \in 1 .. MaxEvents :
           EventAt(i, s, n)' => n <= sent'[s]
    BY <1>0, <2>1, <2>3, EventAfterAppend
  <2>6. stream'[subscribing(s)] = "none" => sent'[s] = 0
    BY <1>0, <2>2 DEF TypeOK
  <2>. QED
    BY <1>0, <2>2, <2>3, <2>4, <2>5, <2>6
<1>. QED
  BY <1>1, <1>2, <1>3, <1>5, <1>7, <1>6, Quiet

LEMMA EventNumber ==
    ASSUME TypeOK, NEW i \in 1 .. Len(toClient), NEW s \in Sub, NEW n,
           EventAt(i, s, n)
    PROVE  n \in 1 .. MaxEvents
BY DEF EventAt, Event

\* A message for somebody else is received.
LEMMA WaitingAfterOther ==
    ASSUME TypeOK, NEW s \in Sub, Waiting(s), toClient /= <<>>,
           toClient' = Tail(toClient), \A n \in 1 .. MaxEvents : ~EventAt(1, s, n),
           received'[s] = received[s], UNCHANGED <<stream, sent>>
    PROVE  Waiting(s)'
<1>1. /\ Len(toClient') = Len(toClient) - 1 /\ Len(toClient) \in Nat
      /\ Len(toClient') \in Nat
  BY TailMessages
<1>2. ASSUME NEW i \in 1 .. Len(toClient), NEW n \in 1 .. MaxEvents,
             EventAt(i, s, n)
      PROVE  i - 1 \in 1 .. Len(toClient') /\ EventAt(i - 1, s, n)'
  <2>1. i /= 1
    BY <1>2
  <2>2. i - 1 \in 1 .. Len(toClient')
    BY <1>1, <2>1
  <2>3. EventAt(i - 1, s, n)' <=> EventAt(i - 1 + 1, s, n)
    BY <2>2, EventAfterTail
  <2>. QED
    BY <1>2, <2>2, <2>3
<1>3. ASSUME NEW i \in 1 .. Len(toClient'), NEW n \in 1 .. MaxEvents,
             EventAt(i, s, n)'
      PROVE  /\ Len(received'[s]) < n
             /\ \/ n = Len(received'[s]) + 1
                \/ \E j \in 1 .. Len(toClient') : j < i /\ EventAt(j, s, n - 1)'
  <2>1. EventAt(i + 1, s, n) /\ i + 1 \in 1 .. Len(toClient)
    BY <1>3, EventAfterTail
  <2>2. /\ Len(received[s]) < n
        /\ \/ n = Len(received[s]) + 1
           \/ \E j \in 1 .. Len(toClient) : j < i + 1 /\ EventAt(j, s, n - 1)
    BY <2>1 DEF Waiting
  <2>3. ASSUME NEW j \in 1 .. Len(toClient), j < i + 1, EventAt(j, s, n - 1)
        PROVE  \E k \in 1 .. Len(toClient') : k < i /\ EventAt(k, s, n - 1)'
    <3>1. n - 1 \in 1 .. MaxEvents
      BY <2>3, EventNumber
    <3>2. j - 1 \in 1 .. Len(toClient') /\ EventAt(j - 1, s, n - 1)'
      BY <1>2, <2>3, <3>1
    <3>3. j - 1 < i
      BY <2>3
    <3>. QED
      BY <3>2, <3>3
  <2>. QED
    BY <2>2, <2>3
<1>4. ASSUME NEW i \in 1 .. Len(toClient'), NEW j \in 1 .. Len(toClient'),
             NEW m \in 1 .. MaxEvents, NEW n \in 1 .. MaxEvents,
             i < j, EventAt(i, s, m)', EventAt(j, s, n)'
      PROVE  m < n
  <2>1. EventAt(i + 1, s, m) /\ i + 1 \in 1 .. Len(toClient)
    BY <1>4, EventAfterTail
  <2>2. EventAt(j + 1, s, n) /\ j + 1 \in 1 .. Len(toClient)
    BY <1>4, EventAfterTail
  <2>3. i + 1 < j + 1
    BY <1>4
  <2>. QED
    BY <2>1, <2>2, <2>3 DEF Waiting
<1>5. ASSUME stream'[subscribing(s)] = "open"
      PROVE  \/ sent'[s] = Len(received'[s])
             \/ \E i \in 1 .. Len(toClient') : EventAt(i, s, sent[s])'
  <2>1. ASSUME NEW i \in 1 .. Len(toClient), EventAt(i, s, sent[s])
        PROVE  \E k \in 1 .. Len(toClient') : EventAt(k, s, sent[s])'
    <3>1. sent[s] \in 1 .. MaxEvents
      BY <2>1, EventNumber
    <3>2. i - 1 \in 1 .. Len(toClient') /\ EventAt(i - 1, s, sent[s])'
      BY <1>2, <2>1, <3>1
    <3>. QED
      BY <3>2 DEF EventAt
  <2>. QED
    BY <1>5, <2>1 DEF Waiting
<1>. QED
  BY <1>3, <1>4, <1>5 DEF Waiting

\* The next event is received.
LEMMA WaitingAfterNext ==
    ASSUME TypeOK, NEW s \in Sub, Waiting(s), toClient /= <<>>,
           toClient' = Tail(toClient), EventAt(1, s, Len(received[s]) + 1),
           Len(received'[s]) = Len(received[s]) + 1, Len(received[s]) + 1 <= sent[s],
           UNCHANGED <<stream, sent>>
    PROVE  Waiting(s)'
<1>1. /\ Len(toClient') = Len(toClient) - 1 /\ Len(toClient) \in Nat
      /\ Len(toClient') \in Nat /\ 1 \in 1 .. Len(toClient)
  BY TailMessages
<1>2. Len(received[s]) \in Nat /\ Len(received[s]) + 1 \in 1 .. MaxEvents
  BY <1>1, EventNumber DEF TypeOK
<1>3. ASSUME NEW i \in 1 .. Len(toClient), NEW n \in 1 .. MaxEvents,
             EventAt(i, s, n), i /= 1
      PROVE  i - 1 \in 1 .. Len(toClient') /\ EventAt(i - 1, s, n)'
  <2>1. i - 1 \in 1 .. Len(toClient')
    BY <1>1, <1>3
  <2>2. EventAt(i - 1, s, n)' <=> EventAt(i - 1 + 1, s, n)
    BY <2>1, EventAfterTail
  <2>. QED
    BY <1>3, <2>1, <2>2
<1>4. \A n \in 1 .. MaxEvents : EventAt(1, s, n) => n = Len(received[s]) + 1
  BY DEF EventAt
<1>5. ASSUME NEW i \in 1 .. Len(toClient'), NEW n \in 1 .. MaxEvents,
             EventAt(i, s, n)'
      PROVE  /\ Len(received'[s]) < n
             /\ \/ n = Len(received'[s]) + 1
                \/ \E j \in 1 .. Len(toClient') : j < i /\ EventAt(j, s, n - 1)'
  <2>1. EventAt(i + 1, s, n) /\ i + 1 \in 1 .. Len(toClient)
    BY <1>5, EventAfterTail
  <2>2. Len(received[s]) + 1 < n
    <3>1. 1 < i + 1
      OBVIOUS
    <3>. QED
      BY <1>1, <1>2, <2>1, <3>1 DEF Waiting
  <2>3. PICK j \in 1 .. Len(toClient) : j < i + 1 /\ EventAt(j, s, n - 1)
    BY <1>2, <2>1, <2>2 DEF Waiting
  <2>4. n - 1 \in 1 .. MaxEvents
    BY <2>3, EventNumber
  <2>5. CASE j = 1
    BY <1>4, <2>2, <2>3, <2>4, <2>5
  <2>6. CASE j /= 1
    <3>1. j - 1 \in 1 .. Len(toClient') /\ EventAt(j - 1, s, n - 1)'
      BY <1>3, <2>3, <2>4, <2>6
    <3>2. j - 1 < i
      BY <2>3
    <3>. QED
      BY <2>2, <3>1, <3>2
  <2>. QED
    BY <2>5, <2>6
<1>6. ASSUME NEW i \in 1 .. Len(toClient'), NEW j \in 1 .. Len(toClient'),
             NEW m \in 1 .. MaxEvents, NEW n \in 1 .. MaxEvents,
             i < j, EventAt(i, s, m)', EventAt(j, s, n)'
      PROVE  m < n
  <2>1. EventAt(i + 1, s, m) /\ i + 1 \in 1 .. Len(toClient)
    BY <1>6, EventAfterTail
  <2>2. EventAt(j + 1, s, n) /\ j + 1 \in 1 .. Len(toClient)
    BY <1>6, EventAfterTail
  <2>3. i + 1 < j + 1
    BY <1>6
  <2>. QED
    BY <2>1, <2>2, <2>3 DEF Waiting
<1>7. ASSUME stream'[subscribing(s)] = "open"
      PROVE  \/ sent'[s] = Len(received'[s])
             \/ \E i \in 1 .. Len(toClient') : EventAt(i, s, sent[s])'
  <2>1. PICK i \in 1 .. Len(toClient) : EventAt(i, s, sent[s])
    BY <1>2, <1>7 DEF Waiting
  <2>2. sent[s] \in 1 .. MaxEvents
    BY <2>1, EventNumber
  <2>3. CASE i = 1
    BY <1>4, <2>1, <2>2, <2>3
  <2>4. CASE i /= 1
    <3>1. i - 1 \in 1 .. Len(toClient') /\ EventAt(i - 1, s, sent[s])'
      BY <1>3, <2>1, <2>2, <2>4
    <3>. QED
      BY <3>1 DEF EventAt
  <2>. QED
    BY <2>3, <2>4
<1>. QED
  BY <1>5, <1>6, <1>7 DEF Waiting
\* A message for somebody else is sent.
LEMMA WaitingAfterSendingOther ==
    ASSUME TypeOK, NEW s \in Sub, Waiting(s), NEW m \in Response \cup Event,
           toClient' = Append(toClient, m), ~(m \in Event /\ m.event = s),
           received'[s] = received[s], sent'[s] = sent[s],
           stream'[subscribing(s)] = "open" => stream[subscribing(s)] = "open"
    PROVE  Waiting(s)'
<1>1. Len(toClient') = Len(toClient) + 1 /\ Len(toClient) \in Nat
  BY AppendMessage
<1>2. ASSUME NEW i \in 1 .. Len(toClient'), NEW n \in 1 .. MaxEvents,
             EventAt(i, s, n)'
      PROVE  i \in 1 .. Len(toClient) /\ EventAt(i, s, n)
  BY <1>2, EventAfterAppend
<1>3. ASSUME NEW i \in 1 .. Len(toClient), NEW n \in 1 .. MaxEvents,
             EventAt(i, s, n)
      PROVE  i \in 1 .. Len(toClient') /\ EventAt(i, s, n)'
  <2>1. i \in 1 .. Len(toClient')
    BY <1>1
  <2>. QED
    BY <1>3, <2>1, EventAfterAppend
<1>4. ASSUME NEW i \in 1 .. Len(toClient'), NEW n \in 1 .. MaxEvents,
             EventAt(i, s, n)'
      PROVE  /\ Len(received'[s]) < n
             /\ \/ n = Len(received'[s]) + 1
                \/ \E j \in 1 .. Len(toClient') : j < i /\ EventAt(j, s, n - 1)'
  <2>1. /\ Len(received[s]) < n
        /\ \/ n = Len(received[s]) + 1
           \/ \E j \in 1 .. Len(toClient) : j < i /\ EventAt(j, s, n - 1)
    BY <1>2, <1>4 DEF Waiting
  <2>2. ASSUME NEW j \in 1 .. Len(toClient), j < i, EventAt(j, s, n - 1)
        PROVE  j \in 1 .. Len(toClient') /\ EventAt(j, s, n - 1)'
    <3>1. n - 1 \in 1 .. MaxEvents
      BY <2>2, EventNumber
    <3>. QED
      BY <1>3, <2>2, <3>1
  <2>. QED
    BY <2>1, <2>2
<1>5. ASSUME NEW i \in 1 .. Len(toClient'), NEW j \in 1 .. Len(toClient'),
             NEW k \in 1 .. MaxEvents, NEW n \in 1 .. MaxEvents,
             i < j, EventAt(i, s, k)', EventAt(j, s, n)'
      PROVE  k < n
  BY <1>2, <1>5 DEF Waiting
<1>6. ASSUME stream'[subscribing(s)] = "open"
      PROVE  \/ sent'[s] = Len(received'[s])
             \/ \E i \in 1 .. Len(toClient') : EventAt(i, s, sent[s])'
  <2>1. ASSUME NEW i \in 1 .. Len(toClient), EventAt(i, s, sent[s])
        PROVE  i \in 1 .. Len(toClient') /\ EventAt(i, s, sent[s])'
    <3>1. sent[s] \in 1 .. MaxEvents
      BY <2>1, EventNumber
    <3>2. i \in 1 .. Len(toClient') /\ (\A n \in 1 .. MaxEvents :
             EventAt(i, s, n) => EventAt(i, s, n)')
      BY <1>3, <2>1
    <3>. QED
      BY <2>1, <3>1, <3>2 DEF EventAt
  <2>. QED
    BY <1>6, <2>1 DEF Waiting
<1>. QED
  BY <1>4, <1>5, <1>6 DEF Waiting

\* The server sends an event of s.
LEMMA WaitingAfterSending ==
    ASSUME TypeOK, Sending, NEW s \in Sub, Waiting(s), ServerSends(s)
    PROVE  Waiting(s)'
<1>1. PICK m \in Event :
         toClient' = Append(toClient, m) /\ m.event = s /\ m.n = sent[s] + 1
  BY SendSteps
<1>2. /\ Len(toClient') = Len(toClient) + 1 /\ Len(toClient) \in Nat
      /\ Len(toClient) + 1 \in 1 .. Len(toClient')
  BY <1>1, AppendMessage
<1>3. /\ UNCHANGED <<received, stream>> /\ stream[subscribing(s)] = "open"
      /\ sent'[s] = sent[s] + 1 /\ sent[s] \in Nat /\ Len(received[s]) \in Nat
      /\ sent[s] + 1 \in 1 .. MaxEvents
  BY DEF ServerSends, clientVars, TypeOK
<1>4. Len(received[s]) <= sent[s]
  BY DEF Sending
<1>5. ASSUME NEW i \in 1 .. Len(toClient), NEW n \in 1 .. MaxEvents,
             EventAt(i, s, n)
      PROVE  i \in 1 .. Len(toClient') /\ EventAt(i, s, n)'
  <2>1. i \in 1 .. Len(toClient')
    BY <1>2
  <2>. QED
    BY <1>1, <1>5, <2>1, EventAfterAppend
<1>6. ASSUME NEW i \in 1 .. Len(toClient'), NEW n \in 1 .. MaxEvents,
             EventAt(i, s, n)'
      PROVE  \/ i \in 1 .. Len(toClient) /\ EventAt(i, s, n) /\ n <= sent[s]
             \/ i = Len(toClient) + 1 /\ n = sent[s] + 1
  BY <1>1, <1>6, EventAfterAppend DEF Sending
<1>7. ASSUME NEW i \in 1 .. Len(toClient'), NEW n \in 1 .. MaxEvents,
             EventAt(i, s, n)'
      PROVE  /\ Len(received'[s]) < n
             /\ \/ n = Len(received'[s]) + 1
                \/ \E j \in 1 .. Len(toClient') : j < i /\ EventAt(j, s, n - 1)'
  <2>1. CASE i \in 1 .. Len(toClient) /\ EventAt(i, s, n)
    <3>1. /\ Len(received[s]) < n
          /\ \/ n = Len(received[s]) + 1
             \/ \E j \in 1 .. Len(toClient) : j < i /\ EventAt(j, s, n - 1)
      BY <2>1 DEF Waiting
    <3>2. ASSUME NEW j \in 1 .. Len(toClient), j < i, EventAt(j, s, n - 1)
          PROVE  j \in 1 .. Len(toClient') /\ EventAt(j, s, n - 1)'
      <4>1. n - 1 \in 1 .. MaxEvents
        BY <3>2, EventNumber
      <4>. QED
        BY <1>5, <3>2, <4>1
    <3>. QED
      BY <1>3, <3>1, <3>2
  <2>2. CASE i = Len(toClient) + 1 /\ n = sent[s] + 1
    <3>1. CASE sent[s] = Len(received[s])
      BY <1>3, <2>2, <3>1
    <3>2. CASE sent[s] /= Len(received[s])
      <4>1. PICK j \in 1 .. Len(toClient) : EventAt(j, s, sent[s])
        BY <1>3, <3>2 DEF Waiting
      <4>2. n - 1 = sent[s] /\ n - 1 \in 1 .. MaxEvents
        BY <1>3, <2>2, <4>1, EventNumber
      <4>3. EventAt(j, s, n - 1)
        BY <4>1, <4>2
      <4>4. j \in 1 .. Len(toClient') /\ EventAt(j, s, n - 1)' /\ j < i
        BY <1>2, <1>5, <2>2, <4>2, <4>3
      <4>5. Len(received'[s]) < n
        BY <1>3, <1>4, <2>2
      <4>. QED
        BY <4>4, <4>5
    <3>. QED
      BY <3>1, <3>2
  <2>. QED
    BY <1>6, <1>7, <2>1, <2>2
<1>8. ASSUME NEW i \in 1 .. Len(toClient'), NEW j \in 1 .. Len(toClient'),
             NEW k \in 1 .. MaxEvents, NEW n \in 1 .. MaxEvents,
             i < j, EventAt(i, s, k)', EventAt(j, s, n)'
      PROVE  k < n
  <2>1. i \in 1 .. Len(toClient) /\ EventAt(i, s, k) /\ k <= sent[s]
    BY <1>2, <1>6, <1>8
  <2>2. CASE j \in 1 .. Len(toClient) /\ EventAt(j, s, n)
    BY <1>8, <2>1, <2>2 DEF Waiting
  <2>3. CASE n = sent[s] + 1
    BY <1>3, <2>1, <2>3
  <2>. QED
    BY <1>6, <1>8, <2>2, <2>3
<1>9. \E i \in 1 .. Len(toClient') : EventAt(i, s, sent[s])'
  <2>1. sent'[s] = sent[s] + 1
    BY <1>3
  <2>. QED
    BY <1>1, <1>2, <2>1, AppendMessage DEF EventAt
<1>. QED
  BY <1>7, <1>8, <1>9 DEF Waiting

LEMMA NextHearing ==
    TypeOK /\ Sent /\ Served /\ Sending /\ Hearing /\ [Next]_vars => Hearing'
<1>. SUFFICES ASSUME TypeOK, Sent, Served, Sending, Hearing, [Next]_vars,
                     NEW s \in subListening'
              PROVE  Waiting(s)'
  BY DEF Hearing
<1>1. s \in Sub /\ subscribing(s) \in Subscribes /\ subscribing(s) \in Asked
  BY NextTypeOK, AskTypes DEF TypeOK, Asked
<1>2. CASE s \notin subListening
  <2>1. subscribe(s)
    <3>1. ASSUME NEW t \in Sub, subscribe(t)
          PROVE  subscribe(s)
      BY <1>2, <3>1 DEF subscribe
    <3>2. ~ ReceiveEvent
      BY <1>2, EventSteps
    <3>3. ~ (ServerMoves \/ \E q \in Ask : ServerTakes(q))
      BY <1>2, TakesSteps, MovesSteps DEF clientVars
    <3>. QED
      BY <1>2, <3>1, <3>2, <3>3
         DEF Next, vars, clientVars, connect, SocketCloses, ReceiveResponse,
             CallRequest, Timeout, Rejects, SubscribeResumes, close, Called,
             CloseResumes, ServerMoves, ServerSends
  <2>2. UNCHANGED <<toClient, received, stream, sent>> /\ sub[s] = "none"
    BY <2>1 DEF subscribe, serverVars
  <2>3. stream[subscribing(s)] = "none" /\ sent[s] = 0
    <3>1. reply[subscribing(s)] = "none"
      BY <1>1, <2>2 DEF Sent, Served
    <3>2. stream[subscribing(s)] = "none"
      BY <1>1, <3>1 DEF Served
    <3>. QED
      BY <1>1, <3>2 DEF Sending
  <2>4. \A i \in 1 .. Len(toClient) : \A n \in 1 .. MaxEvents : ~EventAt(i, s, n)
    BY <1>1, <2>3 DEF Sending
  <2>5. \A i \in 1 .. Len(toClient') : \A n \in 1 .. MaxEvents :
           ~ EventAt(i, s, n)'
    <3>1. toClient' = toClient
      BY <2>2
    <3>. QED
      BY <2>4, <3>1 DEF EventAt
  <2>6. stream'[subscribing(s)] /= "open"
    BY <2>2, <2>3
  <2>. QED
    BY <2>5, <2>6 DEF Waiting
<1>3. CASE s \in subListening
  <2>0. Waiting(s)
    BY <1>3 DEF Hearing
  <2>1. CASE UNCHANGED <<toClient, received, serverVars>>
    <3>1. /\ toClient' = toClient /\ received' = received
          /\ stream' = stream /\ sent' = sent
      BY <2>1 DEF serverVars
    <3>2. \A i, n : EventAt(i, s, n)' <=> EventAt(i, s, n)
      BY <3>1 DEF EventAt
    <3>3. \A i : EventAt(i, s, sent[s])' <=> EventAt(i, s, sent[s])
      BY <3>1 DEF EventAt
    <3>. QED
      BY <2>0, <3>1, <3>2, <3>3 DEF Waiting
  <2>2. CASE ReceiveResponse
    <3>1. /\ toClient /= <<>> /\ toClient' = Tail(toClient)
          /\ UNCHANGED <<received, stream, sent>>
      BY <2>2 DEF ReceiveResponse, serverVars
    <3>2. Head(toClient) \in Response /\ Head(toClient) = toClient[1]
      BY <2>2, <3>1, TailMessages DEF ReceiveResponse
    <3>3. \A n \in 1 .. MaxEvents : ~EventAt(1, s, n)
      BY <3>2, EventIsNoResponse DEF EventAt
    <3>. QED
      BY <1>1, <2>0, <3>1, <3>3, WaitingAfterOther
  <2>3. CASE ReceiveEvent
    <3>1. /\ toClient /= <<>> /\ toClient' = Tail(toClient)
          /\ UNCHANGED <<stream, sent>>
      BY <2>3 DEF ReceiveEvent, serverVars
    <3>2. PICK t \in Sub :
             /\ t = Head(toClient).event
             /\ received' = IF t \in subListening
                            THEN [received EXCEPT ![t] = Append(@, Head(toClient).n)]
                            ELSE received
      BY <2>3, EventSteps
    <3>3. Head(toClient) = toClient[1] /\ 1 \in 1 .. Len(toClient)
      BY <3>1, TailMessages
    <3>4. CASE t /= s
      <4>1. \A n \in 1 .. MaxEvents : ~EventAt(1, s, n)
        BY <3>2, <3>3, <3>4 DEF EventAt
      <4>2. received'[s] = received[s]
        BY <1>1, <3>2, <3>4 DEF TypeOK
      <4>. QED
        BY <1>1, <2>0, <3>1, <4>1, <4>2, WaitingAfterOther
    <3>5. CASE t = s
      <4>1. /\ Head(toClient).n = Len(received[s]) + 1
            /\ EventAt(1, s, Head(toClient).n)
            /\ Head(toClient).n \in 1 .. MaxEvents
        BY <1>3, <2>3, <3>2, <3>5, HeadIsNext
      <4>2. EventAt(1, s, Len(received[s]) + 1) /\ Len(received[s]) + 1 <= sent[s]
        BY <1>1, <3>3, <4>1 DEF Sending
      <4>3. Len(received'[s]) = Len(received[s]) + 1
        BY <1>1, <1>3, <3>2, <3>5 DEF TypeOK
      <4>. QED
        BY <1>1, <2>0, <3>1, <4>2, <4>3, WaitingAfterNext
    <3>. QED
      BY <3>4, <3>5
  <2>4. ASSUME UNCHANGED <<received, stream, sent>>, NEW q \in Ask, NEW m,
               toClient' = Append(toClient, m), Told(q, m)
        PROVE  Waiting(s)'
    <3>1. m \in Response
      BY <2>4 DEF Told
    <3>. QED
      BY <1>1, <2>0, <2>4, <3>1, EventIsNoResponse, WaitingAfterSendingOther
  <2>5. ASSUME UNCHANGED <<toClient, received, sent>>,
               \/ stream'[subscribing(s)] = stream[subscribing(s)]
               \/ stream[subscribing(s)] = "none"
               \/ stream'[subscribing(s)] /= "open"
        PROVE  Waiting(s)'
    <3>0. /\ toClient' = toClient /\ received' = received /\ sent' = sent
          /\ \A i, n : EventAt(i, s, n)' <=> EventAt(i, s, n)
          /\ \A i : EventAt(i, s, sent[s])' <=> EventAt(i, s, sent[s])
      BY <2>5 DEF EventAt
    <3>1. CASE stream'[subscribing(s)] = "open" /\ stream[subscribing(s)] = "none"
      <4>1. sent[s] = Len(received[s])
        BY <1>1, <3>1 DEF Sending, TypeOK
      <4>2. sent'[s] = Len(received'[s])
        BY <3>0, <4>1
      <4>3. \A i \in 1 .. Len(toClient') : \A n \in 1 .. MaxEvents :
               EventAt(i, s, n)' =>
                  /\ Len(received'[s]) < n
                  /\ \/ n = Len(received'[s]) + 1
                     \/ \E j \in 1 .. Len(toClient') : j < i /\ EventAt(j, s, n - 1)'
        BY <2>0, <3>0 DEF Waiting
      <4>4. \A i, j \in 1 .. Len(toClient') : \A m, n \in 1 .. MaxEvents :
               i < j /\ EventAt(i, s, m)' /\ EventAt(j, s, n)' => m < n
        BY <2>0, <3>0 DEF Waiting
      <4>. QED
        BY <4>2, <4>3, <4>4 DEF Waiting
    <3>2. CASE stream'[subscribing(s)] = "open" => stream[subscribing(s)] = "open"
      BY <2>0, <3>0, <3>2 DEF Waiting
    <3>. QED
      BY <1>1, <2>5, <3>1, <3>2
  <2>6. ASSUME NEW t \in Sub, ServerSends(t)
        PROVE  Waiting(s)'
    <3>1. CASE t = s
      BY <1>1, <2>0, <2>6, <3>1, WaitingAfterSending
    <3>2. CASE t /= s
      <4>1. PICK m \in Event : toClient' = Append(toClient, m) /\ m.event = t
        BY <2>6, SendSteps
      <4>2. /\ UNCHANGED <<received, stream>>
            /\ sent' = [sent EXCEPT ![t] = @ + 1]
        BY <2>6 DEF ServerSends, clientVars
      <4>. QED
        BY <1>1, <2>0, <3>2, <4>1, <4>2, WaitingAfterSendingOther DEF TypeOK
    <3>. QED
      BY <3>1, <3>2
  <2>7. ASSUME NEW q \in Ask, ServerTakes(q)
        PROVE  Waiting(s)'
    BY <2>4, <2>5, <2>7, TakesSteps DEF clientVars
  <2>8. CASE ServerMoves
    <3>1. UNCHANGED <<received, sent>>
      BY <2>8, MovesSteps DEF clientVars
    <3>2. CASE UNCHANGED toClient
      BY <1>1, <2>5, <3>1, <3>2, StreamSteps
    <3>3. ASSUME NEW q \in Asked, NEW m, toClient' = Append(toClient, m),
                 Told(q, m), UNCHANGED stream
          PROVE  Waiting(s)'
      BY <2>4, <3>1, <3>3, AskCases
    <3>. QED
      BY <2>8, <3>2, <3>3, MovesSteps
  <2>. QED
    BY <2>1, <2>2, <2>3, <2>6, <2>7, <2>8, Quiet
<1>. QED
  BY <1>2, <1>3

------------------------------------------------------------------------------
LEMMA Inductive == Spec => [](TypeOK /\ IInv)
<1>1. TypeOK /\ IInv /\ [Next]_vars => (TypeOK /\ IInv)'
  BY NextTypeOK, NextListeners, NextSent, NextServed, NextUnopened, NextOpening,
     NextClosing, NextNoEventLost, NextSending, NextHearing
     DEF IInv
<1>. QED
  BY <1>1, InitTypeOK, InitIInv, PTL DEF Spec

\* Every variable of JsonRpcClient has its type.
THEOREM Typing == Spec => []TypeOK
BY Inductive, PTL

\* A listener of a subscription gets its events without a gap, in order and
\* once, for any number of subscriptions and events under way at once.
THEOREM Delivery == Spec => []NoEventLost
<1>1. IInv => NoEventLost
  BY DEF IInv
<1>. QED
  BY <1>1, Inductive, PTL

\* Requests that are settled and subscriptions that are over leave no listener
\* on the socket.
THEOREM Listeners == Spec => []NoListenerLeft
<1>1. IInv => NoListenerLeft
  BY DEF IInv
<1>. QED
  BY <1>1, Inductive, PTL

\* Every call of close() that has resolved has ended the subscription on any server that
\* keeps the promise of Subscriptions, unless it fails to close it and says so.
THEOREM Closed == Spec => []CloseEnds
<1>1. TypeOK /\ IInv => CloseEnds
  <2>. SUFFICES ASSUME TypeOK, IInv, NEW s \in Sub, NEW n \in Nth,
                       closeCall[s][n] = "closed"
                PROVE  \/ stream[subscribing(s)] /= "open"
                       \/ s \in Faulty /\ answer[closing(s, n)] = "error"
    BY DEF CloseEnds
  <2>1. closing(s, n) \in Asked
    BY AskTypes DEF Asked
  <2>2. answer[closing(s, n)] \in {"ok", "error"}
    BY DEF IInv, Closing
  <2>3. CASE answer[closing(s, n)] = "ok"
    BY <2>3 DEF IInv, Closing, Ended
  <2>4. CASE answer[closing(s, n)] = "error"
    <3>1. Decided(closing(s, n))
      BY <2>1, <2>4 DEF IInv, Opening
    <3>. QED
      BY <2>4, <3>1 DEF IInv, Closing, Ended, Decided
  <2>. QED
    BY <2>2, <2>3, <2>4
<1>. QED
  BY <1>1, Inductive, PTL

\* The client keeps to its side of what Subscriptions promises: the server gets
\* each request once, and a subscribe while nothing else is asked for under its
\* id, whatever times out or is closed on error meanwhile.
THEOREM InTurn == Spec => []AsksInTurn
<1>1. TypeOK /\ IInv => AsksInTurn
  <2>. SUFFICES ASSUME TypeOK, IInv, NEW q \in toServer \ Plain
                PROVE  /\ reply[q] = "none"
                       /\ q \in Subscribes => Server!Pending(q) = {}
    BY DEF AsksInTurn
  <2>1. reply[q] = "none"
    BY DEF IInv, Served
  <2>2. ASSUME NEW s \in Sub, q = subscribing(s), NEW p \in Server!Pending(q)
        PROVE  FALSE
    <3>1. p \in Its(s) /\ reply[p] = "pending"
      BY <2>2, UnderIdIs DEF Its
    <3>2. closingOnError(s) \in Asked /\ \A n \in Nth : closing(s, n) \in Asked
      BY AskTypes DEF Asked
    <3>3. CASE \E n \in Nth : p = closing(s, n)
      <4>1. Decided(subscribing(s))
        BY <3>1, <3>2, <3>3 DEF IInv, Served, Opening
      <4>. QED
        BY <2>1, <2>2, <4>1 DEF Decided
    <3>4. CASE p = closingOnError(s)
      BY <2>1, <2>2, <3>1, <3>2, <3>4 DEF IInv, Served
    <3>. QED
      BY <2>1, <2>2, <3>1, <3>3, <3>4 DEF Its
  <2>3. q \in Subscribes => \E s \in Sub : q = subscribing(s)
    BY DEF Subscribes
  <2>. QED
    BY <2>1, <2>2, <2>3
<1>. QED
  BY <1>1, Inductive, PTL

\* Of the server nothing is assumed but its promise: every behaviour of the
\* client with its server is one of Subscriptions.
THEOREM AnyServer == Spec => Server!Spec
<1>1. Init => Server!Init
  BY DEF Init
<1>2. TypeOK /\ [Next]_vars => [Server!Next]_Server!vars
  <2>. SUFFICES ASSUME TypeOK, [Next]_vars
                PROVE  Server!Next \/ UNCHANGED <<reply, stream, gone>>
    BY DEF Server!vars
  <2>1. ASSUME NEW q \in Ask, ServerTakes(q)
        PROVE  Server!Next \/ UNCHANGED <<reply, stream, gone>>
    <3>1. q \notin Plain => q \in Subscribes \cup Closes
      BY AskCases DEF Asked
    <3>. QED
      BY <2>1, <3>1 DEF ServerTakes, Server!Next
  <2>2. CASE ServerMoves
    BY <2>2
       DEF ServerMoves, ServerAnswersSubscribe, ServerAnswersClose,
           ServerStream, ServerLeaves, Server!Next
  <2>3. CASE UNCHANGED <<reply, stream, gone>>
    BY <2>3
  <2>. QED
    BY <2>1, <2>2, <2>3, Quiet
       DEF ReceiveResponse, ReceiveEvent, ServerSends, serverVars
<1>. QED
  BY <1>1, <1>2, Typing, PTL DEF Spec, Server!Spec

\* A listener hears nothing once its subscription is over, whatever is on its
\* way.
THEOREM Silence == Spec => NothingAfterClose
<1>1. TypeOK /\ IInv /\ [Next]_vars
         => [\A s \in Sub : Over(s) => received'[s] = received[s]]_vars
  <2>. SUFFICES ASSUME TypeOK, IInv, [Next]_vars, NEW s \in Sub, Over(s)
                PROVE  received'[s] = received[s]
    OBVIOUS
  <2>1. s \notin subListening
    BY DEF IInv, NoListenerLeft
  <2>2. CASE ReceiveEvent
    BY <2>1, <2>2, EventSteps DEF TypeOK
  <2>3. CASE UNCHANGED received
    BY <2>3
  <2>4. CASE ServerMoves \/ \E q \in Ask : ServerTakes(q)
    BY <2>3, <2>4, TakesSteps, MovesSteps DEF clientVars
  <2>. QED
    BY <2>2, <2>3, <2>4, Quiet DEF ReceiveResponse, ServerSends, clientVars
<1>. QED
  BY <1>1, Inductive, PTL DEF Spec, NothingAfterClose
==============================================================================
