\* One browser, one request at a time: all three rounds, and one request more than
\* the seven results.
CONSTANTS
    Rounds = 3
    Requests = {q1}
    MaxRequests = 8
SPECIFICATION SerialSpec
INVARIANTS
    AlwaysAMatchToStart
    LastFinishedRoundIsRight
PROPERTIES
    ImplementsKnockout
    FinalEndsTournament
\* After a delete every request answers 404.
CHECK_DEADLOCK FALSE
