------------------------------ MODULE Bracket ------------------------------
(***************************************************************************)
(* The shape of a knockout bracket: which matches there are, where the     *)
(* winner of each plays next, and which seats lie below each.  Matches are *)
(* numbered the way Match.round_number and Match.match_number number them. *)
(***************************************************************************)
EXTENDS Integers

CONSTANT Rounds     \* the program always plays 3 rounds

ASSUME RoundsAssumption == Rounds \in 1..3

\* The blank player column.
NoOne == 0

\* Seats below a match of round r, and matches played in round r.
Width(r) == IF r = 1 THEN 2 ELSE IF r = 2 THEN 4 ELSE 8

MatchCount(r) == IF r = Rounds THEN 1 ELSE IF r + 1 = Rounds THEN 2 ELSE 4

Seats == 1..Width(Rounds)

Match == {m \in [round: 1..Rounds, number: 1..4] : m.number <= MatchCount(m.round)}

Final == [round |-> Rounds, number |-> 1]

\* Where the winner of m plays next, and in which of the two seats.
NextMatch(m) == [round |-> m.round + 1, number |-> (m.number + 1) \div 2]

\* Broken: odd and even exchanged.
GoesToPlayer1IfEven(m) == m.number % 2 = 0

GoesToPlayer1(m) == m.number % 2 = 1

\* The matches whose winners meet in m (m is not in round 1).
Feeder1(m) == [round |-> m.round - 1, number |-> 2 * m.number - 1]
Feeder2(m) == [round |-> m.round - 1, number |-> 2 * m.number]

\* The seats from which a player can reach m.
SeatsBelow(m) == ((m.number - 1) * Width(m.round) + 1)..(m.number * Width(m.round))

=============================================================================
