SPECIFICATION EmailFairSpec
CONSTANTS
    Users = {u1, u2}
    Addresses = {a1, a2}
    NoAddress = NoAddress
    MaxTokens = 2
    Attempts = 2
CHECK_DEADLOCK FALSE
INVARIANTS
    EmailTypeOK
    AddressIsProved
PROPERTIES
    NewestTokenVerifies
    MailIsSettled
