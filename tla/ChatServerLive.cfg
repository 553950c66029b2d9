SPECIFICATION FairSpec
CONSTANTS
    k1 = k1
    k2 = k2
    Conns = {k1, k2}
    Nobody = Nobody
    Messages = {rename, hello}
    Rename = rename
    Quotas <- MCQuotas
    MaxFailures = 0
    MaxStops = 0
    SendBuffer = 1
INVARIANTS SameOrder LinesComeBack
PROPERTIES GoneIsRemoved BroadcastEnds
CHECK_DEADLOCK FALSE
