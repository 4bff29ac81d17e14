\* Three visits of match pages, games to two.
CONSTANTS
    maxScore = 2
    MaxVisits = 3
SPECIFICATION Spec
INVARIANTS
    ResultsAreRight
    StaysOnItsPage
PROPERTY
    GoesOn
\* Users need not play.
CHECK_DEADLOCK FALSE
