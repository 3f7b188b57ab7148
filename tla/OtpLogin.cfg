SPECIFICATION FairSpec
CONSTANTS
    MaxSends = 3
    Window = 3
    ShortWait = 1
    Timeout = 1
    CodeTtl = 4
    MaxAttempts = 2
INVARIANTS
    LatestCodeStands
PROPERTIES
    NoResendWithinWindow
    RefinesOneTimeCode
    RequestsEnd
