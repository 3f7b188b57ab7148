SPECIFICATION Spec
CONSTANTS
    Sids = {s1, s2}
SYMMETRY SidSymmetry
CHECK_DEADLOCK FALSE
INVARIANTS CookieHasRow RevokedIsGone RolesFollow
PROPERTIES DeletedStaysDeleted
