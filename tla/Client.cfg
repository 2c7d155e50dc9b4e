SPECIFICATION FairSpec
CONSTANTS
    here = here
    c1 = c1
    s1 = s1
    Here = here
    Call = {c1}
    Sub = {s1}
    Faulty = {s1}
    MaxEvents = 2
    MaxCloses = 2
    MaxInFlight = 2
INVARIANTS TypeOK NoEventLost NoListenerLeft CloseEnds AsksInTurn
PROPERTIES NothingAfterClose RequestsSettle
CHECK_DEADLOCK FALSE
