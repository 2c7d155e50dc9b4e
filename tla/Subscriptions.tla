---------------------------- MODULE Subscriptions ----------------------------
(***************************************************************************)
(* What the server promises a client that subscribes under an id only when *)
(* its requests on that id are answered, and that may close at any time.   *)
(* An id has one subscription at a time; a subscribe is turned away at     *)
(* once only when its id is in use, and leaves no subscription behind      *)
(* unless it succeeds; an acknowledged subscription ends only with its     *)
(* connection or while its client is closing it; a close is turned away    *)
(* only when no acknowledged subscription runs, and succeeds only when it  *)
(* has ended.                                                              *)
(*                                                                         *)
(* It does not promise that nothing is opened for a client that is gone:   *)
(* see ClosedIsClean in SocketConnections.                                 *)
(***************************************************************************)
CONSTANTS Sub,     \* the subscribe requests: records with a sock and an id
          Close,   \* the close requests, likewise
          Faulty   \* the subscriptions that may fail to close

VARIABLES reply,   \* what became of each request
          stream,  \* whether each subscription runs
          gone     \* the sockets that are out of service

vars == <<reply, stream, gone>>

Init ==
    /\ reply = [r \in Sub \cup Close |-> "none"]
    /\ stream = [h \in Sub |-> "none"]
    /\ gone = {}

UnderId(r) == {h \in Sub : h.sock = r.sock /\ h.id = r.id}

Acknowledged(r, state) ==
    \E h \in UnderId(r) : reply[h] = "success" /\ stream[h] = state

InUse(r) == Acknowledged(r, "open")

Pending(r) ==
    {q \in Sub \cup Close :
        q.sock = r.sock /\ q.id = r.id /\ reply[q] = "pending"}

Answer(r, a) ==
    /\ reply' = [reply EXCEPT ![r] = a]
    /\ UNCHANGED <<stream, gone>>

Arrives(r) ==
    /\ reply[r] = "none"
    /\ r.sock \notin gone
    /\ r \in Sub => Pending(r) = {}

\* A subscribe has to wait on an id that is free, a close on one in use or about
\* to become free.
Ask(r) ==
    /\ Arrives(r)
    /\ \/ r \in Sub /\ ~InUse(r)
       \/ /\ r \in Close
          /\ InUse(r) \/ (Acknowledged(r, "closed") /\ Pending(r) /= {})
    /\ Answer(r, "pending")

TurnAway(r) ==
    /\ Arrives(r)
    /\ r \in Sub <=> InUse(r)
    /\ Answer(r, "refused")

Open(h) ==
    /\ reply[h] = "pending"
    /\ stream[h] = "none"
    /\ \A g \in UnderId(h) : stream[g] # "open"
    /\ stream' = [stream EXCEPT ![h] = "open"]
    /\ UNCHANGED <<reply, gone>>

Acknowledge(h) ==
    /\ reply[h] = "pending"
    /\ stream[h] = "open"
    /\ Answer(h, "success")

Refuse(h) ==
    /\ reply[h] = "pending"
    /\ stream[h] = "none"
    /\ Answer(h, "refused")

End(h) ==
    /\ reply[h] = "success"
    /\ stream[h] = "open"
    /\ h.sock \in gone \/ Pending(h) /= {}
    /\ stream' = [stream EXCEPT ![h] = "closed"]
    /\ UNCHANGED <<reply, gone>>

CloseSucceeds(c) ==
    /\ reply[c] = "pending"
    /\ Acknowledged(c, "closed")
    /\ \A h \in UnderId(c) : stream[h] # "open"
    /\ Answer(c, "success")

CloseFails(c) ==
    /\ reply[c] = "pending"
    /\ \E h \in UnderId(c) \cap Faulty : reply[h] = "success"
    /\ Answer(c, "refused")

\* Connections end.
Leave ==
    /\ gone \subseteq gone'
    /\ UNCHANGED <<reply, stream>>

Next ==
    \/ \E r \in Sub \cup Close : Ask(r) \/ TurnAway(r)
    \/ \E h \in Sub : Open(h) \/ Acknowledge(h) \/ Refuse(h) \/ End(h)
    \/ \E c \in Close : CloseSucceeds(c) \/ CloseFails(c)
    \/ Leave

Spec == Init /\ [][Next]_vars
==============================================================================
