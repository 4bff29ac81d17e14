----------------------------- MODULE Relations ------------------------------
(***************************************************************************)
(* What friend requests promise: two users are strangers, one has asked    *)
(* the other, or they are friends.  Nothing is promised any more for two   *)
(* users whose requests about each other were once in progress together.   *)
(***************************************************************************)
CONSTANT Users

VARIABLE relation   \* of each pair of users

Pairs == {{u, v} : u, v \in Users}

Strangers == [is |-> "strangers"]
AskedBy(u) == [is |-> "asked", by |-> u]
AreFriends == [is |-> "friends"]
Raced == [is |-> "raced"]

Init == relation = [p \in Pairs |-> Strangers]

\* p is {u, v}.
Step(p, before, after) ==
    \/ before = Strangers /\ \E u \in p : after = AskedBy(u)                \* one asks
    \/ \E u \in p : before = AskedBy(u) /\ after \in {Strangers, AreFriends} \* withdrawn,
                                                                  \* declined or accepted
    \/ before = AreFriends /\ after = Strangers                             \* they part
    \/ after = Raced

Next ==
    \E p \in Pairs :
        /\ Step(p, relation[p], relation'[p])
        /\ \A o \in Pairs \ {p} : relation'[o] = relation[o]

Spec == Init /\ [][Next]_relation
=============================================================================
