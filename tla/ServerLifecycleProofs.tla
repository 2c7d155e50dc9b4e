------------------------ MODULE ServerLifecycleProofs ------------------------
(***************************************************************************)
(* Proofs about ServerLifecycle, for any number of overlapping calls of    *)
(* stop(), of connections, of requests and of starts.                      *)
(***************************************************************************)
EXTENDS ServerLifecycle, TLAPS

USE LifecycleAssumption

\* How the calls of stop(), the state and the http.Server hang together.
Lifecycle ==
    /\ starting /= "none" => serverState = "Stopped"
    /\ serverState = "Started" => handlers
    /\ http = "undefined" => serverState = "Stopped"
    /\ http = "listening" => serverState = "Started"
    /\ http = "closing" => serverState = "Started" /\ stop[closer] = "http"
    /\ http = "closed" /\ serverState = "Started" =>
          stop[closer] \in {"ws", "handler", "rejected"}
    /\ \A c \in Stop : stop[c] = "http" => http = "closing"
    /\ \A c \in Stop : stop[c] \in {"ws", "handler"} =>
          http = "closed" /\ closer = c /\ serverState = "Started"
    /\ http = "listening" => ws = WebSocketSupport
    /\ ws => http \in {"listening", "closing"}

\* The first start creates the DWN with its registration manager.
FirstStart ==
    /\ starts = 0 => starting = "none" /\ dwn = "undefined"
                     /\ serverState = "Stopped" /\ http = "undefined"
    /\ starts = 1 /\ (starting = "http" \/ serverState = "Started") => manager

\* No connection outlives the http.Server, no WebSocket is left in the connection
\* manager by a WsApi.close that resolved, and no request is cut.
Connections ==
    /\ http \in {"undefined", "closed"} => NoConnection
    /\ ~cut
    /\ process = "exited" => serverState = "Stopped"
    /\ serverState = "Stopped" => ~handlers /\ managed = {}
    /\ \A c \in Stop : stop[c] = "handler" => managed = {}

IInv == Lifecycle /\ FirstStart /\ Connections

------------------------------------------------------------------------------
LEMMA InitTypeOK == Init => TypeOK
<1>1. 0 \in 0 .. MaxStarts /\ 0 \in 0 .. MaxRequests
  OBVIOUS
<1>2. [k \in Conn |-> 0] \in [Conn -> 0 .. MaxRequests]
  BY <1>1
<1>. QED
  BY <1>1, <1>2 DEF Init, TypeOK, StopPhases, ConnStates

LEMMA InitIInv == Init => IInv
BY DEF Init, IInv, Lifecycle, FirstStart, Connections, NoConnection

LEMMA NextTypeOK == TypeOK /\ IInv /\ [Next]_vars => TypeOK'
<1>. SUFFICES ASSUME TypeOK, IInv, [Next]_vars
              PROVE  TypeOK'
  OBVIOUS
<1>. USE DEF serverVars, connVars
<1>1. CASE start
  <2>1. starts' \in 0 .. MaxStarts
    BY <1>1 DEF start, TypeOK
  <2>. QED
    BY <1>1, <2>1 DEF start, TypeOK, StopPhases, ConnStates
<1>2. CASE createDwn
  BY <1>2 DEF createDwn, TypeOK, StopPhases, ConnStates
<1>3. CASE createHttpApi
  BY <1>3 DEF createHttpApi, TypeOK, StopPhases, ConnStates
<1>4. CASE StartFails
  BY <1>4 DEF StartFails, TypeOK, StopPhases, ConnStates
<1>5. CASE ListenFails
  BY <1>5 DEF ListenFails, TypeOK, StopPhases, ConnStates
<1>6. ASSUME NEW c \in Stop, CallStop(c, bySignal)
      PROVE  TypeOK'
  BY <1>6 DEF CallStop, ExitAfter, TypeOK, StopPhases, ConnStates
<1>7. ASSUME NEW c \in Stop, Signal(c)
      PROVE  TypeOK'
  BY <1>7 DEF Signal, CallStop, ExitAfter, TypeOK, StopPhases, ConnStates
<1>8. ASSUME NEW c \in Stop, dwnClosed(c)
      PROVE  TypeOK'
  BY <1>8 DEF dwnClosed, EndIdle, Reject, TypeOK, StopPhases, ConnStates
<1>9. ASSUME NEW c \in Stop, dwnCloseFails(c)
      PROVE  TypeOK'
  BY <1>9 DEF dwnCloseFails, Reject, TypeOK, StopPhases, ConnStates
<1>10. ASSUME NEW c \in Stop, shutdownHandlerStop(c)
      PROVE  TypeOK'
  BY <1>10 DEF shutdownHandlerStop, Destroy, TypeOK, StopPhases, ConnStates
<1>11. ASSUME NEW c \in Stop, StopReturns(c)
      PROVE  TypeOK'
  BY <1>11 DEF StopReturns, ExitAfter, TypeOK, StopPhases, ConnStates
<1>12. CASE serverClosed
  BY <1>12 DEF serverClosed, Destroy, TypeOK, StopPhases, ConnStates
<1>13. ASSUME NEW k \in Conn, Connect(k)
      PROVE  TypeOK'
  BY <1>13 DEF Connect, Become, TypeOK, StopPhases, ConnStates
<1>14. ASSUME NEW k \in Conn, Request(k)
      PROVE  TypeOK'
  BY <1>14 DEF Request, Become, TypeOK, StopPhases, ConnStates
<1>15. ASSUME NEW k \in Conn, Respond(k)
      PROVE  TypeOK'
  BY <1>15 DEF Respond, Become, TypeOK, StopPhases, ConnStates
<1>16. ASSUME NEW k \in Conn, Upgrade(k)
      PROVE  TypeOK'
  BY <1>16 DEF Upgrade, Become, TypeOK, StopPhases, ConnStates
<1>17. ASSUME NEW k \in Conn, Leave(k)
      PROVE  TypeOK'
  BY <1>17 DEF Leave, Become, TypeOK, StopPhases, ConnStates
<1>19. ASSUME NEW c \in Stop, wsApiCloseFails(c)
      PROVE  TypeOK'
  BY <1>19 DEF wsApiCloseFails, Reject, TypeOK, StopPhases, ConnStates
<1>20. ASSUME NEW k \in Conn, SocketClosed(k)
      PROVE  TypeOK'
  BY <1>20 DEF SocketClosed, TypeOK, StopPhases, ConnStates
<1>18. CASE UNCHANGED vars
  BY <1>18 DEF vars, TypeOK, StopPhases, ConnStates
<1>. QED
  BY <1>1, <1>2, <1>3, <1>4, <1>5, <1>6, <1>7, <1>8, <1>9, <1>10, <1>11,
     <1>12, <1>13, <1>14, <1>15, <1>16, <1>17, <1>18, <1>19, <1>20
     DEF Next

LEMMA NextLifecycle == TypeOK /\ IInv /\ [Next]_vars => Lifecycle'
<1>. SUFFICES ASSUME TypeOK, IInv, [Next]_vars
              PROVE  Lifecycle'
  OBVIOUS
<1>. USE DEF serverVars, connVars
<1>1. CASE start
  BY <1>1 DEF start, TypeOK, IInv, Lifecycle
<1>2. CASE createDwn
  BY <1>2 DEF createDwn, TypeOK, IInv, Lifecycle
<1>3. CASE createHttpApi
  BY <1>3 DEF createHttpApi, TypeOK, IInv, Lifecycle
<1>4. CASE StartFails
  BY <1>4 DEF StartFails, TypeOK, IInv, Lifecycle
<1>5. CASE ListenFails
  BY <1>5 DEF ListenFails, TypeOK, IInv, Lifecycle
<1>6. ASSUME NEW c \in Stop, CallStop(c, bySignal)
      PROVE  Lifecycle'
  BY <1>6 DEF CallStop, ExitAfter, TypeOK, IInv, Lifecycle
<1>7. ASSUME NEW c \in Stop, Signal(c)
      PROVE  Lifecycle'
  BY <1>7 DEF Signal, CallStop, ExitAfter, TypeOK, IInv, Lifecycle
<1>8. ASSUME NEW c \in Stop, dwnClosed(c)
      PROVE  Lifecycle'
  BY <1>8 DEF dwnClosed, EndIdle, Reject, TypeOK, IInv, Lifecycle
<1>9. ASSUME NEW c \in Stop, dwnCloseFails(c)
      PROVE  Lifecycle'
  BY <1>9 DEF dwnCloseFails, Reject, TypeOK, IInv, Lifecycle
<1>10. ASSUME NEW c \in Stop, shutdownHandlerStop(c)
      PROVE  Lifecycle'
  BY <1>10 DEF shutdownHandlerStop, Destroy, TypeOK, IInv, Lifecycle
<1>11. ASSUME NEW c \in Stop, StopReturns(c)
      PROVE  Lifecycle'
  BY <1>11 DEF StopReturns, ExitAfter, TypeOK, IInv, Lifecycle
<1>12. CASE serverClosed
  BY <1>12 DEF serverClosed, Destroy, TypeOK, IInv, Lifecycle
<1>13. ASSUME NEW k \in Conn, Connect(k)
      PROVE  Lifecycle'
  BY <1>13 DEF Connect, Become, TypeOK, IInv, Lifecycle
<1>14. ASSUME NEW k \in Conn, Request(k)
      PROVE  Lifecycle'
  BY <1>14 DEF Request, Become, TypeOK, IInv, Lifecycle
<1>15. ASSUME NEW k \in Conn, Respond(k)
      PROVE  Lifecycle'
  BY <1>15 DEF Respond, Become, TypeOK, IInv, Lifecycle
<1>16. ASSUME NEW k \in Conn, Upgrade(k)
      PROVE  Lifecycle'
  BY <1>16 DEF Upgrade, Become, TypeOK, IInv, Lifecycle
<1>17. ASSUME NEW k \in Conn, Leave(k)
      PROVE  Lifecycle'
  BY <1>17 DEF Leave, Become, TypeOK, IInv, Lifecycle
<1>19. ASSUME NEW c \in Stop, wsApiCloseFails(c)
      PROVE  Lifecycle'
  BY <1>19 DEF wsApiCloseFails, Reject, TypeOK, IInv, Lifecycle
<1>20. ASSUME NEW k \in Conn, SocketClosed(k)
      PROVE  Lifecycle'
  BY <1>20 DEF SocketClosed, TypeOK, IInv, Lifecycle
<1>18. CASE UNCHANGED vars
  BY <1>18 DEF vars, TypeOK, IInv, Lifecycle
<1>. QED
  BY <1>1, <1>2, <1>3, <1>4, <1>5, <1>6, <1>7, <1>8, <1>9, <1>10, <1>11,
     <1>12, <1>13, <1>14, <1>15, <1>16, <1>17, <1>18, <1>19, <1>20
     DEF Next

LEMMA NextFirstStart == TypeOK /\ IInv /\ [Next]_vars => FirstStart'
<1>. SUFFICES ASSUME TypeOK, IInv, [Next]_vars
              PROVE  FirstStart'
  OBVIOUS
<1>. USE DEF serverVars, connVars
<1>1. CASE start
  BY <1>1 DEF start, TypeOK, IInv, Lifecycle, FirstStart
<1>2. CASE createDwn
  BY <1>2 DEF createDwn, TypeOK, IInv, Lifecycle, FirstStart
<1>3. CASE createHttpApi
  BY <1>3 DEF createHttpApi, TypeOK, IInv, Lifecycle, FirstStart
<1>4. CASE StartFails
  BY <1>4 DEF StartFails, TypeOK, IInv, Lifecycle, FirstStart
<1>5. CASE ListenFails
  BY <1>5 DEF ListenFails, TypeOK, IInv, Lifecycle, FirstStart
<1>6. ASSUME NEW c \in Stop, CallStop(c, bySignal)
      PROVE  FirstStart'
  BY <1>6 DEF CallStop, ExitAfter, TypeOK, IInv, Lifecycle, FirstStart
<1>7. ASSUME NEW c \in Stop, Signal(c)
      PROVE  FirstStart'
  BY <1>7 DEF Signal, CallStop, ExitAfter, TypeOK, IInv, Lifecycle, FirstStart
<1>8. ASSUME NEW c \in Stop, dwnClosed(c)
      PROVE  FirstStart'
  BY <1>8 DEF dwnClosed, EndIdle, Reject, TypeOK, IInv, Lifecycle, FirstStart
<1>9. ASSUME NEW c \in Stop, dwnCloseFails(c)
      PROVE  FirstStart'
  BY <1>9 DEF dwnCloseFails, Reject, TypeOK, IInv, Lifecycle, FirstStart
<1>10. ASSUME NEW c \in Stop, shutdownHandlerStop(c)
      PROVE  FirstStart'
  BY <1>10 DEF shutdownHandlerStop, Destroy, TypeOK, IInv, Lifecycle, FirstStart
<1>11. ASSUME NEW c \in Stop, StopReturns(c)
      PROVE  FirstStart'
  BY <1>11 DEF StopReturns, ExitAfter, TypeOK, IInv, Lifecycle, FirstStart
<1>12. CASE serverClosed
  BY <1>12 DEF serverClosed, Destroy, TypeOK, IInv, Lifecycle, FirstStart
<1>13. ASSUME NEW k \in Conn, Connect(k)
      PROVE  FirstStart'
  BY <1>13 DEF Connect, Become, TypeOK, IInv, Lifecycle, FirstStart
<1>14. ASSUME NEW k \in Conn, Request(k)
      PROVE  FirstStart'
  BY <1>14 DEF Request, Become, TypeOK, IInv, Lifecycle, FirstStart
<1>15. ASSUME NEW k \in Conn, Respond(k)
      PROVE  FirstStart'
  BY <1>15 DEF Respond, Become, TypeOK, IInv, Lifecycle, FirstStart
<1>16. ASSUME NEW k \in Conn, Upgrade(k)
      PROVE  FirstStart'
  BY <1>16 DEF Upgrade, Become, TypeOK, IInv, Lifecycle, FirstStart
<1>17. ASSUME NEW k \in Conn, Leave(k)
      PROVE  FirstStart'
  BY <1>17 DEF Leave, Become, TypeOK, IInv, Lifecycle, FirstStart
<1>19. ASSUME NEW c \in Stop, wsApiCloseFails(c)
      PROVE  FirstStart'
  BY <1>19 DEF wsApiCloseFails, Reject, TypeOK, IInv, Lifecycle, FirstStart
<1>20. ASSUME NEW k \in Conn, SocketClosed(k)
      PROVE  FirstStart'
  BY <1>20 DEF SocketClosed, TypeOK, IInv, Lifecycle, FirstStart
<1>18. CASE UNCHANGED vars
  BY <1>18 DEF vars, TypeOK, IInv, Lifecycle, FirstStart
<1>. QED
  BY <1>1, <1>2, <1>3, <1>4, <1>5, <1>6, <1>7, <1>8, <1>9, <1>10, <1>11,
     <1>12, <1>13, <1>14, <1>15, <1>16, <1>17, <1>18, <1>19, <1>20
     DEF Next

LEMMA NextConnections == TypeOK /\ IInv /\ [Next]_vars => Connections'
<1>. SUFFICES ASSUME TypeOK, IInv, [Next]_vars
              PROVE  Connections'
  OBVIOUS
<1>. USE DEF serverVars, connVars
<1>1. CASE start
  BY <1>1 DEF start, TypeOK, IInv, Lifecycle, Connections, NoConnection
<1>2. CASE createDwn
  BY <1>2 DEF createDwn, TypeOK, IInv, Lifecycle, Connections, NoConnection
<1>3. CASE createHttpApi
  BY <1>3 DEF createHttpApi, TypeOK, IInv, Lifecycle, Connections, NoConnection
<1>4. CASE StartFails
  BY <1>4 DEF StartFails, TypeOK, IInv, Lifecycle, Connections, NoConnection
<1>5. CASE ListenFails
  BY <1>5 DEF ListenFails, TypeOK, IInv, Lifecycle, Connections, NoConnection
<1>6. ASSUME NEW c \in Stop, CallStop(c, bySignal)
      PROVE  Connections'
  BY <1>6 DEF CallStop, ExitAfter, TypeOK, IInv, Lifecycle, Connections, NoConnection
<1>7. ASSUME NEW c \in Stop, Signal(c)
      PROVE  Connections'
  BY <1>7 DEF Signal, CallStop, ExitAfter, TypeOK, IInv, Lifecycle, Connections, NoConnection
<1>8. ASSUME NEW c \in Stop, dwnClosed(c)
      PROVE  Connections'
  BY <1>8 DEF dwnClosed, EndIdle, Reject, TypeOK, IInv, Lifecycle, Connections, NoConnection
<1>9. ASSUME NEW c \in Stop, dwnCloseFails(c)
      PROVE  Connections'
  BY <1>9 DEF dwnCloseFails, Reject, TypeOK, IInv, Lifecycle, Connections, NoConnection
<1>10. ASSUME NEW c \in Stop, shutdownHandlerStop(c)
      PROVE  Connections'
  BY <1>10 DEF shutdownHandlerStop, Destroy, TypeOK, IInv, Lifecycle, Connections, NoConnection
<1>11. ASSUME NEW c \in Stop, StopReturns(c)
      PROVE  Connections'
  BY <1>11 DEF StopReturns, ExitAfter, TypeOK, IInv, Lifecycle, Connections, NoConnection
<1>12. CASE serverClosed
  BY <1>12 DEF serverClosed, Destroy, TypeOK, IInv, Lifecycle, Connections, NoConnection
<1>13. ASSUME NEW k \in Conn, Connect(k)
      PROVE  Connections'
  BY <1>13 DEF Connect, Become, TypeOK, IInv, Lifecycle, Connections, NoConnection
<1>14. ASSUME NEW k \in Conn, Request(k)
      PROVE  Connections'
  BY <1>14 DEF Request, Become, TypeOK, IInv, Lifecycle, Connections, NoConnection
<1>15. ASSUME NEW k \in Conn, Respond(k)
      PROVE  Connections'
  BY <1>15 DEF Respond, Become, TypeOK, IInv, Lifecycle, Connections, NoConnection
<1>16. ASSUME NEW k \in Conn, Upgrade(k)
      PROVE  Connections'
  BY <1>16 DEF Upgrade, Become, TypeOK, IInv, Lifecycle, Connections, NoConnection
<1>17. ASSUME NEW k \in Conn, Leave(k)
      PROVE  Connections'
  BY <1>17 DEF Leave, Become, TypeOK, IInv, Lifecycle, Connections, NoConnection
<1>19. ASSUME NEW c \in Stop, wsApiCloseFails(c)
      PROVE  Connections'
  BY <1>19 DEF wsApiCloseFails, Reject, TypeOK, IInv, Lifecycle, Connections,
                 NoConnection
<1>20. ASSUME NEW k \in Conn, SocketClosed(k)
      PROVE  Connections'
  BY <1>20 DEF SocketClosed, TypeOK, IInv, Lifecycle, Connections,
                 NoConnection
<1>18. CASE UNCHANGED vars
  BY <1>18 DEF vars, TypeOK, IInv, Lifecycle, Connections, NoConnection
<1>. QED
  BY <1>1, <1>2, <1>3, <1>4, <1>5, <1>6, <1>7, <1>8, <1>9, <1>10, <1>11,
     <1>12, <1>13, <1>14, <1>15, <1>16, <1>17, <1>18, <1>19, <1>20
     DEF Next

LEMMA Inductive == Spec => [](TypeOK /\ IInv)
<1>1. TypeOK /\ IInv /\ [Next]_vars => (TypeOK /\ IInv)'
  BY NextTypeOK, NextLifecycle, NextFirstStart, NextConnections DEF IInv
<1>. QED
  BY <1>1, InitTypeOK, InitIInv, PTL DEF Spec

------------------------------------------------------------------------------
\* Every variable of ServerLifecycle has its type, and only a server that was
\* closed has a call that closed it.
THEOREM Typing == Spec => []TypeOK
BY Inductive, PTL

\* However many calls of stop() overlap, reject and are repeated, a Started server
\* that none of them is stopping serves, unless a WsApi.close has failed.
THEOREM Serves == Spec => []StartedServes
<1>1. TypeOK /\ IInv => StartedServes
  BY DEF TypeOK, IInv, Lifecycle, FirstStart, StartedServes, Stopping,
         Stuck
<1>. QED
  BY <1>1, Inductive, PTL

\* A Stopped server leaves no listener, connection or process handler behind.
THEOREM Clean == Spec => []StoppedIsClean
<1>1. TypeOK /\ IInv => StoppedIsClean
  BY DEF TypeOK, IInv, Lifecycle, Connections, StoppedIsClean
<1>. QED
  BY <1>1, Inductive, PTL

\* The server never cuts a request, and the process exits by itself only when
\* every connection has ended.
THEOREM Graceful == Spec => []GracefulExit
<1>1. TypeOK /\ IInv => GracefulExit
  BY DEF TypeOK, IInv, Lifecycle, Connections, GracefulExit
<1>. QED
  BY <1>1, Inductive, PTL

\* A call of stop() that waits in HttpApi.close is waited for by an event that is
\* still to come, and at most one call gets past it, for any number of calls.
THEOREM WakeUps == Spec => []NoLostWakeUp
<1>1. IInv => NoLostWakeUp
  BY DEF IInv, Lifecycle, NoLostWakeUp
<1>. QED
  BY <1>1, Inductive, PTL
==============================================================================
