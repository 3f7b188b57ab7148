SPECIFICATION FairPageSpec
CONSTANTS
    Callers = {a, b}
    NoOne = NoOne
    Orphan = Orphan
    LockTtl = 2
    LockTimeout = 2
    CacheTtl = 1
    ProducerTime = 2
    MaxVersion = 1
    Attempts = 1
    RenderTime = 1
    EdgeTtl = 1
INVARIANTS
    LeaderHoldsLock
    OneProducerWhenCalm
    StalenessBounded
    FreshOnceInvalidated
PROPERTIES
    EveryCallReturns
