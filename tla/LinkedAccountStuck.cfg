SPECIFICATION FairSpec
CONSTANTS
    Retries = 1
    Attempts = 2
    Slots = 2
    MaxAccounts = 2
    MaxApprovals = 1
PROPERTIES
    RepeatedJobSkipsForAnAccount
