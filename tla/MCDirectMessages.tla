-------------------------- MODULE MCDirectMessages --------------------------
EXTENDS DirectMessages, TLC

CONSTANTS a, b, sys, n

OneEach == {<<a, b, 1>>, <<b, a, 1>>}
OneNotice == n :> a
TwoAndOne == (<<a, b, 1>> :> 2) @@ (<<b, a, 1>> :> 1)
Once == [p \in Pages |-> 1]
=============================================================================
