------------------------------ MODULE Knockout ------------------------------
(***************************************************************************)
(* What a tournament promises its organizer, without requests, rows or     *)
(* threads: every match is decided once, between the winners of the two    *)
(* matches that feed it; the end of each round is announced once, in the   *)
(* order of the rounds; the tournament ends when everything is decided.    *)
(***************************************************************************)
EXTENDS Bracket

VARIABLES
    status,     \* "new", "open", "over" or "cancelled"
    winner,     \* winner[m], or NoOne while m is undecided
    announced   \* announced[r]: how often the organizer heard that round r is over

Init ==
    /\ status = "new"
    /\ winner = [m \in Match |-> NoOne]
    /\ announced = [r \in 1..Rounds |-> 0]

Contender1(m) == IF m.round = 1 THEN 2 * m.number - 1 ELSE winner[Feeder1(m)]
Contender2(m) == IF m.round = 1 THEN 2 * m.number ELSE winner[Feeder2(m)]

RoundDecided(r) == \A m \in Match : m.round = r => winner[m] # NoOne

Open ==
    /\ status = "new"
    /\ status' = "open"
    /\ UNCHANGED <<winner, announced>>

Decide(m) ==
    /\ status = "open"
    /\ winner[m] = NoOne
    /\ Contender1(m) # NoOne
    /\ Contender2(m) # NoOne
    /\ \E w \in {Contender1(m), Contender2(m)} : winner' = [winner EXCEPT ![m] = w]
    /\ UNCHANGED <<status, announced>>

Announce(r) ==
    /\ status = "open"
    /\ RoundDecided(r)
    /\ announced[r] = 0
    /\ \A earlier \in 1..(r - 1) : announced[earlier] = 1
    /\ announced' = [announced EXCEPT ![r] = 1]
    /\ UNCHANGED <<status, winner>>

Close ==
    /\ status = "open"
    /\ \A r \in 1..Rounds : announced[r] = 1
    /\ status' = "over"
    /\ UNCHANGED <<winner, announced>>

\* A tournament that is not over can be given up; its results go with it.
Cancel ==
    /\ status = "open"
    /\ status' = "cancelled"
    /\ winner' = [m \in Match |-> NoOne]
    /\ UNCHANGED announced

Next ==
    \/ Open
    \/ \E m \in Match : Decide(m)
    \/ \E r \in 1..Rounds : Announce(r)
    \/ Close
    \/ Cancel

Spec == Init /\ [][Next]_<<status, winner, announced>>
=============================================================================
