SPECIFICATION Spec
CONSTANTS
    k1 = k1
    k2 = k2
    Conns = {k1, k2}
    Nobody = Nobody
    Messages = {rename}
    Rename = rename
    Quotas = {}
    MaxFailures = 2
    MaxStops = 1
    SendBuffer = 1
SYMMETRY ClientSymmetry
INVARIANTS TypeOK ListIntact FreedOnlyByRace OwnThread
CHECK_DEADLOCK FALSE
