--------------------------- MODULE MCOnlineStatus ---------------------------
EXTENDS OnlineStatus

CONSTANT t1
=============================================================================
