SPECIFICATION Spec
CONSTANTS
    s1 = s1
    s2 = s2
    d1 = d1
    t1 = t1
    t2 = t2
    Undefined = Undefined
    Null = Null
    NoRow = NoRow
    Server = {s1, s2}
    Did = {d1}
    Terms = {t1, t2}
    Configured = {t1, t2}
    Request <- const_Request
    ProofOfWorkEnabled = TRUE
    Period = 2
    MaxTime = 6
    MaxRestarts = 1
    MaxTries = 2
SYMMETRY const_Symmetry
INVARIANTS TypeOK RegisteredIsActive OnlyAgreed HandedOutIsTaken ChallengeExpires
PROPERTY Tenancy
