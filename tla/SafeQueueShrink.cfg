SPECIFICATION FairSpec
CONSTANTS
    Producers = {p1}
    Consumers = {c1}
    Items = {a}
    InitialCapacity = 128
    MaxBacklog = 33
    NoThread = NoThread
    Uninit = Uninit
PROPERTY DequeueReturns
CHECK_DEADLOCK FALSE
