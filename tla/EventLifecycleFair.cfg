SPECIFICATION FairSpec
CONSTANTS
    Events = {e1}
    Requests = {r1, r2}
    Categories = {c1}
    Texts = {t1}
    NoText = NoText
    Hidden = Hidden
    NoRequest = NoRequest
    NoEvent = NoEvent
    ReviewThreshold = 0
    MaxTime = 3
INVARIANTS
    TimestampsAgree
PROPERTIES
    RefinesEventWorkflow
    RequestsFinish
