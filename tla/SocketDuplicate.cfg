SPECIFICATION Spec
CONSTANTS
  s1 = s1
  s2 = s2
  a = a
  Nil = Nil
  Socket = {s1}
  SubId = {a}
  Request <- DuplicateRequests
  Pipelining = {s1}
  Faulty <- None
CHECK_DEADLOCK FALSE
INVARIANT RefusedIsNotOpen
