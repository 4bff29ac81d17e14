-------------------------- MODULE TournamentServer --------------------------
(***************************************************************************)
(* The tournament endpoints of the Django backend (pong/views/tournament,  *)
(* pong/views/navi_views.py) over the two tables they share.               *)
(*                                                                         *)
(* Every view runs in a thread of its own, in autocommit mode, and Django's*)
(* save() writes every column of the in-memory object: a request is        *)
(* therefore a sequence of single statements that carry a row read earlier.*)
(* One action below is one statement (or one transaction), req[q] is what  *)
(* the handler of request q holds between two of them.                     *)
(*                                                                         *)
(* One tournament is modelled.  A nickname is its seat in the list the     *)
(* tournament was created with (Tournament.clean requires the nicknames to *)
(* be distinct), and NoOne stands for the blank column.  Scores matter only*)
(* through the winner they decide.                                         *)
(***************************************************************************)
EXTENDS Bracket

CONSTANTS
    Requests,   \* requests that can be in flight at the same time
    MaxRequests \* bound: requests accepted in a behaviour

ASSUME MaxRequestsAssumption == MaxRequests \in Nat

-----------------------------------------------------------------------------
(* The tables *)

MatchRow ==
    [stored: BOOLEAN, player1: {NoOne} \union Seats, player2: {NoOne} \union Seats,
     winner: {NoOne} \union Seats, is_finished: BOOLEAN, can_start: BOOLEAN,
     is_playing: BOOLEAN]

TournamentRow ==
    [stored: BOOLEAN, is_finished: BOOLEAN, last_finished_round: {-1} \union 1..Rounds]

NoMatchRow ==
    [stored |-> FALSE, player1 |-> NoOne, player2 |-> NoOne, winner |-> NoOne,
     is_finished |-> FALSE, can_start |-> FALSE, is_playing |-> FALSE]

NoTournamentRow == [stored |-> FALSE, is_finished |-> FALSE, last_finished_round |-> -1]

\* What _create_matches stores for m: first-round matches have their players and can start.
NewMatchRow(m) ==
    LET first == m.round = 1
    IN  [NoMatchRow EXCEPT !.stored = TRUE,
                           !.player1 = IF first THEN 2 * m.number - 1 ELSE NoOne,
                           !.player2 = IF first THEN 2 * m.number ELSE NoOne,
                           !.can_start = first]

VARIABLES
    tournament, \* the row of the tournament
    matches,    \* matches[m] is the row of match m
    announced,  \* announced[r]: direct messages "round r is over" the organizer has (0, 1, many)
    req,        \* req[q]: the request q is serving and the rows it holds
    accepted,   \* requests accepted so far, kept for the bound alone
    life,       \* history: "new", then "created", then perhaps "deleted"
    reported    \* history: reported[m] is the set of winners ever stored for m

db   == <<tournament, matches, announced>>
hist == <<life, reported>>
vars == <<tournament, matches, announced, req, accepted, life, reported>>

Many == 2

Statement ==
    {"idle", "save_match", "load_tournament", "get_next", "save_next", "check_round",
     "save_round", "notify", "check_all", "save_all", "release", "play", "delete"}

\* id: the match addressed; mine, next: the rows of it and of the next match in memory;
\* tour: match.tournament, loaded on first use and kept by the match object.
Request ==
    [at: Statement, id: Match, mine: MatchRow, next: MatchRow, tour: TournamentRow]

IdleRequest ==
    [at |-> "idle", id |-> Final, mine |-> NoMatchRow, next |-> NoMatchRow,
     tour |-> NoTournamentRow]

\* A free thread takes a request and holds r after its first statement.
Take(q, r) ==
    /\ req[q].at = "idle"
    /\ accepted < MaxRequests
    /\ accepted' = accepted + 1
    /\ req' = [req EXCEPT ![q] = r]
    /\ UNCHANGED <<db, hist>>

\* A request goes on holding r, or ends.
Proceed(q, r) == req' = [req EXCEPT ![q] = r] /\ UNCHANGED accepted

Finish(q) == Proceed(q, IdleRequest)

TypeOK ==
    /\ tournament \in TournamentRow
    /\ matches \in [Match -> MatchRow]
    /\ announced \in [1..Rounds -> 0..Many]
    /\ req \in [Requests -> Request]
    /\ accepted \in 0..MaxRequests
    /\ life \in {"new", "created", "deleted"}
    /\ reported \in [Match -> SUBSET ({NoOne} \union Seats)]

Init ==
    /\ tournament = NoTournamentRow
    /\ matches = [m \in Match |-> NoMatchRow]
    /\ announced = [r \in 1..Rounds |-> 0]
    /\ req = [q \in Requests |-> IdleRequest]
    /\ accepted = 0
    /\ life = "new"
    /\ reported = [m \in Match |-> {}]

-----------------------------------------------------------------------------
(* Creation: one transaction stores the tournament and all its matches. *)

CreateTournament ==
    /\ life = "new"
    /\ life' = "created"
    /\ tournament' = [NoTournamentRow EXCEPT !.stored = TRUE]
    /\ matches' = [m \in Match |-> NewMatchRow(m)]
    /\ UNCHANGED <<announced, req, accepted, reported>>

-----------------------------------------------------------------------------
(* Statements shared by the handlers *)

\* save() of a match updates its row, or inserts it again when the row is gone; the
\* foreign key refuses that insert once the tournament is gone too, and the handler fails.
StoreMatch(m, row) ==
    /\ tournament.stored
    /\ matches' = [matches EXCEPT ![m] = row]
    /\ UNCHANGED <<tournament, announced>>

MatchStatements == {"save_match", "save_next", "release", "play"}

MatchRefused(q) ==
    /\ req[q].at \in MatchStatements
    /\ ~tournament.stored
    /\ Finish(q)
    /\ UNCHANGED <<db, hist>>

\* save() of a tournament updates its row or inserts it again: nothing refuses that one
\* but the limit on the number of tournaments, which every save checks (see Abort).
StoreTournament(row) ==
    /\ tournament' = row
    /\ UNCHANGED <<matches, announced>>

\* The handler ends between two statements: an exception (the tournament limit, the
\* database) answers 400, or the server dies. What was stored stays stored.
Abort(q) ==
    /\ req[q].at # "idle"
    /\ Finish(q)
    /\ UNCHANGED <<db, hist>>

-----------------------------------------------------------------------------
(* save_game_result *)

\* The winner the posted scores decide; a draw goes to player2.
WinnerOf(row, player1Leads) == IF player1Leads THEN row.player1 ELSE row.player2

\* Reads the match and fills in the result in memory.
GetMatch(q, m, player1Leads) ==
    /\ matches[m].stored
    /\ Take(q, [IdleRequest EXCEPT
                  !.at = "save_match", !.id = m,
                  !.mine = [matches[m] EXCEPT !.winner = WinnerOf(matches[m], player1Leads),
                                              !.is_finished = TRUE]])

SaveMatch(q) ==
    /\ req[q].at = "save_match"
    /\ StoreMatch(req[q].id, req[q].mine)
    /\ Proceed(q, [req[q] EXCEPT !.at = "load_tournament"])
    /\ reported' = [reported EXCEPT ![req[q].id] = @ \union {req[q].mine.winner}]
    /\ UNCHANGED life

\* The first use of match.tournament reads its row; without a winner there is nobody to
\* assign and the handler goes on to the round.
LoadTournament(q) ==
    /\ req[q].at = "load_tournament"
    /\ IF tournament.stored
       THEN Proceed(q, [req[q] EXCEPT
                          !.tour = tournament,
                          !.at = IF req[q].mine.winner = NoOne THEN "check_round" ELSE "get_next"])
       ELSE Finish(q)
    /\ UNCHANGED <<db, hist>>

\* Broken: the match can start as soon as one player is known.
SeatInEager(row, player1, winner) ==
    LET seated == IF player1 THEN [row EXCEPT !.player1 = winner]
                             ELSE [row EXCEPT !.player2 = winner]
    IN  [seated EXCEPT !.can_start = @ \/ seated.player1 # NoOne \/ seated.player2 # NoOne]

\* Broken: the winner takes the first free seat.
SeatInFirstFree(row, player1, winner) ==
    LET seated == IF row.player1 = NoOne THEN [row EXCEPT !.player1 = winner]
                                         ELSE [row EXCEPT !.player2 = winner]
    IN  [seated EXCEPT !.can_start = @ \/ (seated.player1 # NoOne /\ seated.player2 # NoOne)]

\* Broken: nothing makes the next match startable.
SeatInWithoutStart(row, player1, winner) ==
    IF player1 THEN [row EXCEPT !.player1 = winner] ELSE [row EXCEPT !.player2 = winner]

\* assign_winner_to_next_match on the row of the next match.
SeatIn(row, player1, winner) ==
    LET seated == IF player1 THEN [row EXCEPT !.player1 = winner]
                             ELSE [row EXCEPT !.player2 = winner]
    IN  [seated EXCEPT !.can_start = @ \/ (seated.player1 # NoOne /\ seated.player2 # NoOne)]

Assign(row, m, winner) == SeatIn(row, GoesToPlayer1(m), winner)

\* Rows that no later statement uses are dropped from req[q].
GetNextMatch(q) ==
    /\ req[q].at = "get_next"
    /\ LET m == req[q].id
           found == m.round < Rounds /\ matches[NextMatch(m)].stored
       IN  Proceed(q, IF found
                      THEN [req[q] EXCEPT
                              !.at = "save_next",
                              !.next = Assign(matches[NextMatch(m)], m, req[q].mine.winner),
                              !.mine = NoMatchRow]
                      ELSE [req[q] EXCEPT !.at = "check_round", !.mine = NoMatchRow])
    /\ UNCHANGED <<db, hist>>

SaveNextMatch(q) ==
    /\ req[q].at = "save_next"
    /\ StoreMatch(NextMatch(req[q].id), req[q].next)
    /\ Proceed(q, [req[q] EXCEPT !.at = "check_round", !.next = NoMatchRow])
    /\ UNCHANGED hist

\* Broken: one finished match ends the round.
IsRoundTouched(r) == \E m \in Match : m.round = r /\ matches[m].is_finished

\* is_round_finished: one query over the rows that exist.
IsRoundFinished(r) ==
    \A m \in Match : m.round = r /\ matches[m].stored => matches[m].is_finished

\* Broken: the round that begins is stored as the one that ended.
CheckRoundBegun(q) ==
    /\ req[q].at = "check_round"
    /\ LET round == req[q].id.round
           mine  == [req[q] EXCEPT !.mine = NoMatchRow]
       IN  Proceed(q, IF IsRoundFinished(round)
                      THEN [mine EXCEPT !.at = "save_round", !.tour.last_finished_round = round + 1]
                      ELSE [mine EXCEPT !.at = "check_all"])
    /\ UNCHANGED <<db, hist>>

\* Broken: last_finished_round keeps its default.
CheckRoundForgotten(q) ==
    /\ req[q].at = "check_round"
    /\ LET mine == [req[q] EXCEPT !.mine = NoMatchRow]
       IN  Proceed(q, [mine EXCEPT !.at = IF IsRoundFinished(req[q].id.round)
                                          THEN "save_round" ELSE "check_all"])
    /\ UNCHANGED <<db, hist>>

CheckRound(q) ==
    /\ req[q].at = "check_round"
    /\ LET round == req[q].id.round
           mine  == [req[q] EXCEPT !.mine = NoMatchRow]
       IN  Proceed(q, IF IsRoundFinished(round)
                      THEN [mine EXCEPT !.at = "save_round", !.tour.last_finished_round = round]
                      ELSE [mine EXCEPT !.at = "check_all"])
    /\ UNCHANGED <<db, hist>>

SaveRound(q) ==
    /\ req[q].at = "save_round"
    /\ StoreTournament(req[q].tour)
    /\ Proceed(q, [req[q] EXCEPT !.at = "notify"])
    /\ UNCHANGED hist

\* round_finished.send: the receiver stores a direct message for the organizer.
Notify(q) ==
    /\ req[q].at = "notify"
    /\ announced' = [announced EXCEPT ![req[q].id.round] = IF @ = Many THEN Many ELSE @ + 1]
    /\ Proceed(q, [req[q] EXCEPT !.at = "check_all"])
    /\ UNCHANGED <<tournament, matches, hist>>

\* Broken: the final alone decides.
IsFinalFinished == matches[Final].is_finished

\* is_tournament_finished: one query over all rows that exist.
IsTournamentFinished == \A m \in Match : matches[m].stored => matches[m].is_finished

CheckAll(q) ==
    /\ req[q].at = "check_all"
    /\ IF IsTournamentFinished
       THEN Proceed(q, [req[q] EXCEPT !.at = "save_all", !.tour.is_finished = TRUE])
       ELSE Finish(q)
    /\ UNCHANGED <<db, hist>>

\* Broken: is_finished is set and never saved.
SaveAllForgotten(q) ==
    /\ req[q].at = "save_all"
    /\ Finish(q)
    /\ UNCHANGED <<db, hist>>

SaveAll(q) ==
    /\ req[q].at = "save_all"
    /\ StoreTournament(req[q].tour)
    /\ Finish(q)
    /\ UNCHANGED hist

-----------------------------------------------------------------------------
(* release_match: the page of a match was left *)

\* Broken: the flag is saved as it was read.
GetToReleaseAsIs(q, m) ==
    /\ matches[m].stored
    /\ Take(q, [IdleRequest EXCEPT !.at = "release", !.id = m, !.mine = matches[m]])

GetToRelease(q, m) ==
    /\ matches[m].stored
    /\ Take(q, [IdleRequest EXCEPT !.at = "release", !.id = m,
                                   !.mine = [matches[m] EXCEPT !.is_playing = FALSE]])

SaveReleased(q) ==
    /\ req[q].at = "release"
    /\ StoreMatch(req[q].id, req[q].mine)
    /\ Finish(q)
    /\ UNCHANGED hist

-----------------------------------------------------------------------------
(* play_tournament: the page of a match is asked for; a match in play redirects *)

GetToPlay(q, m) ==
    /\ matches[m].stored
    /\ ~matches[m].is_playing
    /\ Take(q, [IdleRequest EXCEPT !.at = "play", !.id = m,
                                   !.mine = [matches[m] EXCEPT !.is_playing = TRUE]])

SavePlaying(q) ==
    /\ req[q].at = "play"
    /\ StoreMatch(req[q].id, req[q].mine)
    /\ Finish(q)
    /\ UNCHANGED hist

-----------------------------------------------------------------------------
(* delete_tournament_and_matches: the check reads the row, the deletes take it away *)

GetToDelete(q) ==
    /\ tournament.stored
    /\ ~tournament.is_finished
    /\ Take(q, [IdleRequest EXCEPT !.at = "delete"])

DeleteTournament(q) ==
    /\ req[q].at = "delete"
    /\ tournament' = NoTournamentRow
    /\ matches' = [m \in Match |-> NoMatchRow]
    /\ life' = "deleted"
    /\ Finish(q)
    /\ UNCHANGED <<announced, reported>>

-----------------------------------------------------------------------------

SaveGameResult(q) ==
    \/ SaveMatch(q)
    \/ LoadTournament(q)
    \/ GetNextMatch(q)
    \/ SaveNextMatch(q)
    \/ CheckRound(q)
    \/ SaveRound(q)
    \/ Notify(q)
    \/ CheckAll(q)
    \/ SaveAll(q)

\* The statements that continue a request.
Continue(q) ==
    \/ SaveGameResult(q)
    \/ SaveReleased(q)
    \/ SavePlaying(q)
    \/ DeleteTournament(q)
    \/ MatchRefused(q)

\* Any authenticated client may send any of the requests at any time.
Accept(q) ==
    \/ \E m \in Match, player1Leads \in BOOLEAN : GetMatch(q, m, player1Leads)
    \/ \E m \in Match : GetToRelease(q, m)
    \/ \E m \in Match : GetToPlay(q, m)
    \/ GetToDelete(q)

Next ==
    \/ CreateTournament
    \/ \E q \in Requests : Accept(q) \/ Continue(q) \/ Abort(q)

Spec == Init /\ [][Next]_vars

-----------------------------------------------------------------------------
(* What holds whatever the clients send and however the requests interleave *)

\* A match can be started exactly when both of its players are known
\* (assign_winner_to_next_match and _create_matches set can_start, every save writes it).
StartableIffPaired ==
    \A m \in Match : matches[m].can_start
                       <=> (matches[m].player1 # NoOne /\ matches[m].player2 # NoOne)

\* Nobody sits in a later match without a stored win of the match that feeds the seat
\* (the chain save_game_result -> assign_winner_to_next_match).
SeatsAreWon ==
    \A m \in Match : m.round > 1 =>
       /\ matches[m].player1 # NoOne => matches[m].player1 \in reported[Feeder1(m)]
       /\ matches[m].player2 # NoOne => matches[m].player2 \in reported[Feeder2(m)]

\* The two players of a match come from its two halves of the bracket, so nobody ever
\* meets themselves (the arithmetic of next_match_number and the odd/even rule).
NobodyMeetsThemselves ==
    \A m \in Match : matches[m].player1 # NoOne => matches[m].player1 # matches[m].player2

RoundReported(r) == \A m \in Match : m.round = r => reported[m] # {}

\* The organizer is told that a round is over only after every match of it was reported,
\* unless the tournament was deleted (is_round_finished before round_finished.send).
RoundsAnnouncedWhenOver ==
    life # "deleted" => \A r \in 1..Rounds : announced[r] > 0 => RoundReported(r)

\* A tournament is finished only after all of its matches were reported, unless it was
\* deleted (is_tournament_finished before is_finished = True).
FinishedWhenAllReported ==
    life # "deleted" /\ tournament.is_finished => \A r \in 1..Rounds : RoundReported(r)
=============================================================================
