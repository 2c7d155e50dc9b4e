SPECIFICATION Spec
CONSTANTS
  k1 = k1
  k2 = k2
  Nil = Nil
  Key = {k1}
  Mail <- OneMail
  Get <- TwoGets
  Patient = {}
  Ttl = 1
  InOrder = TRUE
  MaxTime = 1
  MaxRestarts = 0
CHECK_DEADLOCK FALSE
INVARIANT UsedOnce
