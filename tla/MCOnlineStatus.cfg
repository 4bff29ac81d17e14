\* One tab, which may overlap its own sockets; one after the other or at once.
CONSTANTS
    t1 = t1
    Tabs = {t1}
    MaxSockets = 2
SPECIFICATION Spec
INVARIANTS
    StatusIsRight
    FriendSeesStatus
PROPERTY
    LogoutEndsOnline
\* Users need not do anything.
CHECK_DEADLOCK FALSE
