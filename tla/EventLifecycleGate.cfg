SPECIFICATION Spec
CONSTANTS
    Events = {e1, e2}
    Requests = {r1, r2}
    Categories = {c1}
    Texts = {t1}
    NoText = NoText
    Hidden = Hidden
    NoRequest = NoRequest
    NoEvent = NoEvent
    ReviewThreshold = 1
    MaxTime = 1
SYMMETRY Symmetric
INVARIANTS
    CompleteOncePublic
    PublishedOnlyIfEverEligible
    CachesPurgedAfterCommit
PROPERTIES
    UnreviewedOnlyAboveThreshold
