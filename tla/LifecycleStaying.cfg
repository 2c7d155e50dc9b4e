SPECIFICATION FairSpec
CONSTANTS
    c1 = c1
    c2 = c2
    c3 = c3
    k1 = k1
    k2 = k2
    Stop = {c1}
    Conn = {k1}
    Staying = {k1}
    Nobody = Nobody
    WebSocketSupport = TRUE
    MaxStarts = 1
    MaxRequests = 1
PROPERTY StopEnds
CHECK_DEADLOCK FALSE
