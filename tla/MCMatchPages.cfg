\* Two tabs that open the match three times together.
CONSTANTS
    a = a
    b = b
    Tabs <- TwoTabs
    Requests <- TwoTabsRequests
    Rounds = 1
    MaxVisits = 3
    MaxRequests = 9
SPECIFICATION PatientSpec
INVARIANTS
    UnlockedWhenLeft
PROPERTY
    LeavingUnlocks
\* A match nobody opens any more.
CHECK_DEADLOCK FALSE
