SPECIFICATION Spec
CONSTANTS
    s1 = s1
    s2 = s2
    d1 = d1
    t1 = t1
    t2 = t2
    Undefined = Undefined
    Null = Null
    NoRow = NoRow
    Server = {s1}
    Did = {d1}
    Terms = {t1}
    Configured = {Undefined}
    Request <- const_NoTermsRequest
    ProofOfWorkEnabled = TRUE
    Period = 2
    MaxTime = 4
    MaxRestarts = 0
    MaxTries = 1
INVARIANT RegisteredIsActive
