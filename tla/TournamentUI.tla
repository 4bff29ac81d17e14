---------------------------- MODULE TournamentUI ----------------------------
(***************************************************************************)
(* The tournament endpoints under the requests that the tournament pages   *)
(* send: results are posted only by a game that was opened with a Start    *)
(* link, which a page shows for a match that can start and is not finished *)
(* (StateBaseRound.js), and nothing fails.                                 *)
(*                                                                         *)
(* UISpec leaves the requests free to overlap: results of two matches, a   *)
(* result and the release of its page.  SerialSpec is the organizer in one *)
(* browser who waits for every answer before the next step, the order of   *)
(* calls of pong/tournament/tests/test_save_game_result.py; there the      *)
(* endpoints implement the knockout tournament.                            *)
(***************************************************************************)
EXTENDS TournamentServer

\* The Start link of m, and the check of PongApp.init when the page has loaded.
Startable(m) == matches[m].stored /\ matches[m].can_start /\ ~matches[m].is_finished

UIAccept(q) ==
    \/ \E m \in Match, player1Leads \in BOOLEAN : Startable(m) /\ GetMatch(q, m, player1Leads)
    \/ \E m \in Match : matches[m].can_start /\ GetToRelease(q, m)
    \/ \E m \in Match : Startable(m) /\ GetToPlay(q, m)
    \/ GetToDelete(q)

UINext ==
    \/ CreateTournament
    \/ \E q \in Requests : UIAccept(q) \/ Continue(q)

UISpec == Init /\ [][UINext]_vars

Quiet == \A q \in Requests : req[q].at = "idle"

SerialNext ==
    \/ CreateTournament
    \/ \E q \in Requests : (Quiet /\ UIAccept(q)) \/ Continue(q)

\* A thread that holds a request goes on with it; nobody has to send one.
SerialSpec == Init /\ [][SerialNext]_vars /\ \A q \in Requests : WF_vars(Continue(q))

-----------------------------------------------------------------------------
(* Without overlapping requests *)

\* The tables read as the tournament they stand for.
Status ==
    CASE life = "new"                                     -> "new"
      [] life = "deleted"                                 -> "cancelled"
      [] life = "created" /\ tournament.is_finished       -> "over"
      [] OTHER                                            -> "open"

Promise == INSTANCE Knockout
             WITH status <- Status, winner <- [m \in Match |-> matches[m].winner]

\* save_game_result, delete and creation implement the knockout tournament: each match is
\* decided once and between the right players, each round announced once and in order.
ImplementsKnockout == Promise!Spec

\* As long as the tournament is not over the organizer has a match to start: no order of
\* results leaves the bracket without one (assign_winner_to_next_match sets can_start).
AlwaysAMatchToStart ==
    Quiet /\ life = "created" /\ ~tournament.is_finished => \E m \in Match : Startable(m)

\* Once the final is stored as finished, the tournament is closed and its last round
\* announced (the tail of save_game_result), or it has been deleted.
FinalEndsTournament ==
    matches[Final].is_finished
      ~> \/ tournament.is_finished /\ announced[Rounds] = 1
         \/ life = "deleted"

\* last_finished_round always names the last round that is over, once the request that
\* ended it is done.
LastFinishedRoundIsRight ==
    Quiet /\ life = "created" =>
      \A r \in 1..Rounds :
         r <= tournament.last_finished_round
           <=> \A m \in Match : m.round = r => matches[m].is_finished

-----------------------------------------------------------------------------
(* With overlapping requests: what comments in the code say of them *)

\* GameMatch.js folds the is_playing flag when its page is left, and nothing else.  Not so:
\* release_match saves the row it has read, and with it the winner there was none of yet.
ReleaseOnlyFoldsTheFlag ==
    [][\A q \in Requests : SaveReleased(q) =>
          LET m == req[q].id
          IN  matches'[m] = [matches[m] EXCEPT !.is_playing = FALSE]]_vars

\* The winner of an odd match becomes player1 of the next one, that of an even match
\* player2; both there, it can start.
SiblingWinnersMeet ==
    Quiet /\ life = "created" =>
      \A m \in Match :
         m.round > 1 /\ matches[Feeder1(m)].is_finished /\ matches[Feeder2(m)].is_finished
           => matches[m].can_start
=============================================================================
