SPECIFICATION ServerFairSpec
CONSTANTS
    Producers = {main, handler}
    Consumers = {0, 1}
    Items = {NULL, a}
    InitialCapacity = 16
    MaxBacklog = 4
    NoThread = NoThread
    Uninit = Uninit
    NULL = NULL
    Owner = main
    Handler = handler
PROPERTY StopsOnSignal
CHECK_DEADLOCK FALSE
