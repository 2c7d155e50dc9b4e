SPECIFICATION FairSpec
CONSTANTS
  k1 = k1
  k2 = k2
  Nil = Nil
  Key = {k1, k2}
  Mail <- BoxMail
  Get <- BoxGets
  Patient = {k1, k2}
  Ttl = 1
  InOrder = TRUE
  MaxTime = 2
  MaxRestarts = 1
\* The clock is bounded and the messages run out.
CHECK_DEADLOCK FALSE
INVARIANTS
  TypeOK
  FreshIsKept
PROPERTIES
  OneTimeMailbox
  ExpiredIsRemoved
