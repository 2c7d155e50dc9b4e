SPECIFICATION Spec
CONSTANTS
  s1 = s1
  s2 = s2
  a = a
  Nil = Nil
  Socket = {s1}
  SubId = {a}
  Request <- OneSubscribe
  Pipelining = {}
  Faulty <- None
CHECK_DEADLOCK FALSE
INVARIANT ClosedIsClean
