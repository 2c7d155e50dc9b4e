SPECIFICATION FairSpec
CONSTANTS
    c1 = c1
    c2 = c2
    c3 = c3
    k1 = k1
    k2 = k2
    Stop = {c1, c2, c3}
    Conn = {k1, k2}
    Staying = {}
    Nobody = Nobody
    WebSocketSupport = TRUE
    MaxStarts = 2
    MaxRequests = 1
INVARIANTS TypeOK StartedServes StoppedIsClean GracefulExit NoLostWakeUp
PROPERTY StopEnds
CHECK_DEADLOCK FALSE
