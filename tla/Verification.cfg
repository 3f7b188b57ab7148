SPECIFICATION Spec
CONSTANTS
    Types = {t1, t2}
    Copies = {c1, c2}
    Requests = {r1, r2}
    NoDocument = NoDocument
SYMMETRY Symmetric
INVARIANTS
    DecidedOnlyAfterComplete
    ReviewFieldsAgree
    VerifiedAsAudited
    SettledStatusFitsReadiness
    OneUploadedPerType
