SPECIFICATION Spec
CONSTANTS
    Types = {t1}
    Copies = {c1}
    Requests = {r1}
    NoDocument = NoDocument
SYMMETRY Symmetric
PROPERTIES
    ApprovedIsNeverChanged
