---------------------------- MODULE MCFriendship ----------------------------
EXTENDS Friendship, TLC

CONSTANTS a, b, c, q

OneEachForTwo == (a :> {q}) @@ (b :> {q}) @@ (c :> {})
=============================================================================
