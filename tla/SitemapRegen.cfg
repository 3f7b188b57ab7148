SPECIFICATION FairSpec
CONSTANTS
    Leaders = {l1}
    NoEntry = NoEntry
    Attempts = 2
    Concurrency = 1
    MaxChanges = 1
INVARIANTS
    IdleQueueIsFresh
PROPERTIES
    RunsNeverGoBack
    EventuallyCurrent
