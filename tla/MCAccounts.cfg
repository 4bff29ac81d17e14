\* Four requests, two at a time; a tick is six hours.
CONSTANTS
    p = p
    q = q
    Requests = {p, q}
    MaxRequests = 4
    MaxRefreshes = 2
    AccessLifetime = 2
    RefreshLifetime = 4
SPECIFICATION Spec
SYMMETRY Interchangeable
INVARIANTS
    TypeOK
    NeverStuck
    StaysLoggedIn
