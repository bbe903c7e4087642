CONSTANTS
    Requests = {r1, r2}
    Users = {u1, u2}
    None = None
    AccessTtl = 2
    ResponseTtl = 1
    Delay = 1
SPECIFICATION Spec
SYMMETRY Symmetry
INVARIANT TypeOK
INVARIANT ResponsesAreRecent
PROPERTY BlockedIsLockedOut
