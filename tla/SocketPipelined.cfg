SPECIFICATION Spec
CONSTANTS
  s1 = s1
  s2 = s2
  a = a
  Nil = Nil
  Socket = {s1}
  SubId = {a}
  Request <- PipelinedRequests
  Pipelining = {s1}
  Faulty <- PipelinedRequests
\* The server may be closed and every client gone.
CHECK_DEADLOCK FALSE
INVARIANTS
  TypeOK
  RegistryIsSound
  CloseReplyIsTrue
  NoZombie
