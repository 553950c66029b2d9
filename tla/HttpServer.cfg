SPECIFICATION ServerSpec
CONSTANTS
    Producers = {main, handler}
    Consumers = {0, 1}
    Items = {NULL, a, b}
    InitialCapacity = 16
    MaxBacklog = 4
    NoThread = NoThread
    Uninit = Uninit
    NULL = NULL
    Owner = main
    Handler = handler
SYMMETRY ConnSymmetry
INVARIANTS ServerTypeOK OwnAnswer StopLosesAtMostOne CrashHasCause
CHECK_DEADLOCK FALSE
