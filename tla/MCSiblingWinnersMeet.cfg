\* Three matches, two requests at a time, three in all, as the pages send them.
CONSTANTS
    Rounds = 2
    Requests = {q1, q2}
    MaxRequests = 3
SPECIFICATION UISpec
SYMMETRY Symmetry
INVARIANT
    SiblingWinnersMeet
\* Once all requests of the bound are answered nothing more arrives.
CHECK_DEADLOCK FALSE
