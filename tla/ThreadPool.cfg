SPECIFICATION PoolFairSpec
CONSTANTS
    Producers = {main}
    Consumers = {0, 1, 2}
    Items = {NULL, a, b}
    InitialCapacity = 20
    MaxBacklog = 5
    NoThread = NoThread
    Uninit = Uninit
    NULL = NULL
    Owner = main
INVARIANTS PoolTypeOK TaskAccounted PillPerWorker NoNullTask FreedIsQuiet
PROPERTIES Fifo DestroyReturns TaskIsDone
