CONSTANTS
    Users = {u1, u2}
    Roles = {viewer, admin}
    Handlers = {h1, h2}
    AccessTTL = 1
    RefreshTTL = 2
    MaxTime = 3
    MaxRequests = 4
    MaxChanges = 1
    None = None
SYMMETRY Interchangeable
SPECIFICATION Spec
INVARIANT RetiredStaysOut
INVARIANT StaleClaimsRunOut
CHECK_DEADLOCK FALSE
