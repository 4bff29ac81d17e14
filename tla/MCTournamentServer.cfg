\* Three matches, two requests at a time, four in all, in any order.
CONSTANTS
    Rounds = 2
    Requests = {q1, q2}
    MaxRequests = 4
SPECIFICATION Spec
SYMMETRY Symmetry
INVARIANTS
    TypeOK
    StartableIffPaired
    SeatsAreWon
    NobodyMeetsThemselves
    RoundsAnnouncedWhenOver
    FinishedWhenAllReported
\* Once all requests of the bound are answered nothing more arrives.
CHECK_DEADLOCK FALSE
