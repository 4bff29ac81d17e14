\* Two pages are opened; with two reconnections no more than four sockets are needed.
CONSTANTS
    a = a
    b = b
    Targets = {a, b}
    MaxSockets = 4
    MaxPagesOpened = 2
SPECIFICATION TabSpec
INVARIANTS
    RetryBound
PROPERTY
    Recovers
\* Users need not open another page.
CHECK_DEADLOCK FALSE
