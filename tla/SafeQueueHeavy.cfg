SPECIFICATION Spec
CONSTANTS
    Producers = {p1}
    Consumers = {c1, c2}
    Items = {a}
    InitialCapacity = 2
    MaxBacklog = 5
    NoThread = NoThread
    Uninit = Uninit
INVARIANTS TypeOK LockDiscipline NoLostWakeup RingConsistent LossIsOldest
CHECK_DEADLOCK FALSE
