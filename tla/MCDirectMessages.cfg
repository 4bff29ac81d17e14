\* A page of each of two users, which send two messages and one; one system message.
CONSTANTS
    a = a
    b = b
    sys = sys
    n = n
    People = {a, b}
    System = sys
    Pages <- OneEach
    Notices = {n}
    ReceiverOf <- OneNotice
    MaxMessages <- TwoAndOne
    MaxVisits <- Once
SPECIFICATION Spec
INVARIANTS
    OneSession
    NoHoles
PROPERTY
    ShownEverywhere
\* Users need not do anything.
CHECK_DEADLOCK FALSE
