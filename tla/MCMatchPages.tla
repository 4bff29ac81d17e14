---------------------------- MODULE MCMatchPages ----------------------------
EXTENDS MatchPages, TLC

CONSTANTS a, b

OneTab == {a}
TwoTabs == {a, b}
OneTabRequests == OneTab \X Kinds
TwoTabsRequests == TwoTabs \X Kinds
=============================================================================
