SPECIFICATION FairSpec
CONSTANTS
  s1 = s1
  s2 = s2
  a = a
  Nil = Nil
  Socket = {s1, s2}
  SubId = {a}
  Request <- SerialRequests
  Pipelining = {}
  Faulty <- None
\* The server may be closed and every client gone.
CHECK_DEADLOCK FALSE
INVARIANTS
  RunningIsReachable
  OneStreamPerId
PROPERTIES
  HandlersReply
  SilentPeerIsDropped
  CloseAllCloses
  TakingTurns
