------------------------- MODULE MCSocketConnections -------------------------
(***************************************************************************)
(* Instances of SocketConnections for TLC.  Every message is sent at most  *)
(* once, so the sets below bound the runs; n tells messages of one kind    *)
(* apart.                                                                  *)
(***************************************************************************)
EXTENDS SocketConnections

CONSTANTS s1, s2, a

Msg(s, k, n) == [sock |-> s, id |-> a, kind |-> k, n |-> n]

\* Two subscribe and two close requests under one id: enough for a duplicate
\* that overtakes the first one, and for a close that overtakes the next
\* subscribe.  A stream may fail to close.
PipelinedRequests ==
    {Msg(s1, "subscribe", 1), Msg(s1, "subscribe", 2), Msg(s1, "close", 1),
     Msg(s1, "close", 2), Msg(s1, "process", 1), Msg(s1, "unroutable", 1),
     Msg(s1, "write", 1)}

\* A client that subscribes again when its id is quiet and closes at any time,
\* next to one that only connects.
SerialRequests ==
    {Msg(s1, "subscribe", 1), Msg(s1, "subscribe", 2), Msg(s1, "close", 1),
     Msg(s1, "close", 2)}

\* The least that shows what the code does against a comment on it.
DuplicateRequests == {Msg(s1, "subscribe", 1), Msg(s1, "subscribe", 2)}
OneSubscribe      == {Msg(s1, "subscribe", 1)}

None == {}
==============================================================================
