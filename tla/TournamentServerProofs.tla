----------------------- MODULE TournamentServerProofs -----------------------
(***************************************************************************)
(* Invariants of TournamentServer for every set of requests and every      *)
(* bound on them: whatever the clients send and however the statements of  *)
(* their requests interleave or fail.  Then the same endpoints under       *)
(* SerialSpec of TournamentUI, one request at a time: its invariants, and  *)
(* that they implement the tournament of Knockout.  Last the page of one   *)
(* match in any number of tabs, PatientSpec of MatchPages.                 *)
(***************************************************************************)
EXTENDS TournamentUI, MatchPages, TLAPS

-----------------------------------------------------------------------------
(* The inductive invariant. Its parts are operators of the winners reported so far (won)  *)
(* and of the life of the tournament, so that they speak of rows and requests alike.      *)

\* The players of a row of m: can_start is right, and every player has won the match
\* that feeds the seat, or sits there since the first round.
PlayersOK(won, m, row) ==
    /\ row.can_start <=> (row.player1 # NoOne /\ row.player2 # NoOne)
    /\ row.player1 # NoOne => IF m.round = 1 THEN row.player1 = 2 * m.number - 1
                                             ELSE row.player1 \in won[Feeder1(m)]
    /\ row.player2 # NoOne => IF m.round = 1 THEN row.player2 = 2 * m.number
                                             ELSE row.player2 \in won[Feeder2(m)]

RowOK(won, m, row) ==
    /\ PlayersOK(won, m, row)
    /\ row.is_finished => won[m] # {}

\* Winners of m come from the seats below it.
WonOK(won) == \A m \in Match : won[m] \subseteq {NoOne} \union SeatsBelow(m)

RoundOver(stage, won, r) ==
    stage = "deleted" \/ \A m \in Match : m.round = r => won[m] # {}

TournamentOK(stage, won, row) ==
    row.is_finished => \A r \in 1..Rounds : RoundOver(stage, won, r)

\* The rows a request carries would be right in the table too.
RequestOK(stage, won, r) ==
    /\ r.at = "save_match" => /\ r.mine.stored
                              /\ PlayersOK(won, r.id, r.mine)
                              /\ r.mine.winner \in {r.mine.player1, r.mine.player2}
    /\ r.at \in {"release", "play"} => r.mine.stored /\ RowOK(won, r.id, r.mine)
    /\ r.at \in {"load_tournament", "get_next"} => r.mine.winner \in won[r.id]
    /\ r.at = "get_next" => r.mine.winner # NoOne
    /\ r.at = "save_next" => /\ r.id.round < Rounds
                             /\ r.next.stored
                             /\ RowOK(won, NextMatch(r.id), r.next)
    /\ r.at \in {"save_round", "notify"} => RoundOver(stage, won, r.id.round)
    /\ TournamentOK(stage, won, r.tour)

\* Until a deletion, a request finds all the matches stored.
StoredOK ==
    \/ life = "deleted"
    \/ life = "created" /\ \A m \in Match : matches[m].stored
    \/ /\ life = "new"
       /\ \A m \in Match : ~matches[m].stored
       /\ ~tournament.stored
       /\ \A q \in Requests : req[q].at = "idle"

AnnouncedOK(stage, won, told) == \A r \in 1..Rounds : told[r] > 0 => RoundOver(stage, won, r)

IInv ==
    /\ TypeOK
    /\ StoredOK
    /\ WonOK(reported)
    /\ AnnouncedOK(life, reported, announced)
    /\ TournamentOK(life, reported, tournament)
    /\ \A m \in Match : RowOK(reported, m, matches[m])
    /\ \A q \in Requests : RequestOK(life, reported, req[q])

-----------------------------------------------------------------------------
(* The arithmetic of the bracket *)

LEMMA MatchFacts ==
    /\ \A m \in Match : /\ m.round \in 1..Rounds
                        /\ m.number \in 1..4
                        /\ m.number <= MatchCount(m.round)
                        /\ m = [round |-> m.round, number |-> m.number]
    /\ \A r \in 1..Rounds, n \in 1..4 :
          n <= MatchCount(r) => [round |-> r, number |-> n] \in Match
BY DEF Match

\* The next match exists, and the seat a winner takes there is the one m feeds.
LEMMA NextMatchFedBy ==
    ASSUME NEW m \in Match, m.round < Rounds
    PROVE  /\ NextMatch(m) \in Match
           /\ NextMatch(m).round > 1
           /\ GoesToPlayer1(m) => Feeder1(NextMatch(m)) = m
           /\ ~GoesToPlayer1(m) => Feeder2(NextMatch(m)) = m
<1> DEFINE r == m.round
           n == m.number
           next == (n + 1) \div 2
<1>1. r \in 1..Rounds /\ n \in 1..4 /\ n <= MatchCount(r) /\ m = [round |-> r, number |-> n]
  BY MatchFacts
<1>2. next \in 1..4 /\ next <= MatchCount(r + 1) /\ r + 1 \in 1..Rounds
  BY <1>1, RoundsAssumption DEF MatchCount
<1>3. NextMatch(m) \in Match
  BY <1>2, MatchFacts DEF NextMatch
<1>4. NextMatch(m).round > 1
  BY <1>1, RoundsAssumption DEF NextMatch
<1>5. n % 2 = 1 => 2 * next - 1 = n
  BY <1>1
<1>6. n % 2 # 1 => 2 * next = n
  BY <1>1
<1>7. r + 1 - 1 = r
  BY <1>1, RoundsAssumption
<1> HIDE DEF r, n, next
<1>8. NextMatch(m) = [round |-> r + 1, number |-> next]
  BY DEF NextMatch, r, n, next
<1>9. n % 2 = 1 => Feeder1(NextMatch(m)) = m
  BY <1>1, <1>5, <1>7, <1>8 DEF Feeder1
<1>10. n % 2 # 1 => Feeder2(NextMatch(m)) = m
  BY <1>1, <1>6, <1>7, <1>8 DEF Feeder2
<1>11. GoesToPlayer1(m) <=> n % 2 = 1
  BY DEF GoesToPlayer1, n
<1> QED
  BY <1>3, <1>4, <1>9, <1>10, <1>11

\* The feeders of a match exist, and the seats below them are disjoint halves of its own.
LEMMA FeedersSplitSeats ==
    ASSUME NEW m \in Match
    PROVE  /\ m.round > 1 =>
                /\ Feeder1(m) \in Match /\ Feeder2(m) \in Match
                /\ SeatsBelow(Feeder1(m)) \subseteq SeatsBelow(m)
                /\ SeatsBelow(Feeder2(m)) \subseteq SeatsBelow(m)
                /\ SeatsBelow(Feeder1(m)) \cap SeatsBelow(Feeder2(m)) = {}
           /\ m.round = 1 => {2 * m.number - 1, 2 * m.number} \subseteq SeatsBelow(m)
           /\ SeatsBelow(m) \subseteq Seats
<1> DEFINE r == m.round
           n == m.number
<1>1. r \in 1..Rounds /\ n \in 1..4 /\ n <= MatchCount(r) /\ m = [round |-> r, number |-> n]
  BY MatchFacts
<1>2. ASSUME r > 1
      PROVE  /\ r - 1 \in 1..Rounds
             /\ 2 * n - 1 \in 1..4 /\ 2 * n - 1 <= MatchCount(r - 1)
             /\ 2 * n \in 1..4 /\ 2 * n <= MatchCount(r - 1)
  BY <1>1, <1>2, RoundsAssumption DEF MatchCount
<1>3. ASSUME r > 1
      PROVE  Feeder1(m) \in Match /\ Feeder2(m) \in Match
  BY <1>2, <1>3, MatchFacts DEF Feeder1, Feeder2
<1>4. ASSUME r > 1
      PROVE  /\ SeatsBelow(Feeder1(m)) \subseteq SeatsBelow(m)
             /\ SeatsBelow(Feeder2(m)) \subseteq SeatsBelow(m)
             /\ SeatsBelow(Feeder1(m)) \cap SeatsBelow(Feeder2(m)) = {}
  <2>1. /\ Feeder1(m).round = r - 1 /\ Feeder1(m).number = 2 * n - 1
        /\ Feeder2(m).round = r - 1 /\ Feeder2(m).number = 2 * n
    BY DEF Feeder1, Feeder2
  <2>2. CASE r = 2
    BY <1>1, <2>1, <2>2 DEF SeatsBelow, Width
  <2>3. CASE r = 3
    BY <1>1, <2>1, <2>3 DEF SeatsBelow, Width
  <2> QED
    BY <1>1, <1>4, <2>2, <2>3, RoundsAssumption
<1>5. ASSUME r = 1
      PROVE  {2 * n - 1, 2 * n} \subseteq SeatsBelow(m)
  <2>1. SeatsBelow(m) = ((n - 1) * 2 + 1)..(n * 2)
    BY <1>5 DEF SeatsBelow, Width
  <2>2. 2 * n - 1 \in SeatsBelow(m) /\ 2 * n \in SeatsBelow(m)
    BY <1>1, <2>1
  <2> QED
    BY <2>2
<1>6. SeatsBelow(m) \subseteq Seats
  <2>1. CASE r = 1
    BY <1>1, <2>1, RoundsAssumption DEF SeatsBelow, Seats, Width, MatchCount
  <2>2. CASE r = 2
    BY <1>1, <2>2, RoundsAssumption DEF SeatsBelow, Seats, Width, MatchCount
  <2>3. CASE r = 3
    BY <1>1, <2>3, RoundsAssumption DEF SeatsBelow, Seats, Width, MatchCount
  <2> QED
    BY <1>1, <2>1, <2>2, <2>3, RoundsAssumption
<1> QED
  BY <1>3, <1>4, <1>5, <1>6

-----------------------------------------------------------------------------
(* Type correctness *)

LEMMA RowTypes ==
    /\ NoMatchRow \in MatchRow
    /\ NoTournamentRow \in TournamentRow
    /\ IdleRequest \in Request
    /\ Final \in Match
    /\ \A m \in Match : NewMatchRow(m) \in MatchRow
<1>1. NoMatchRow \in MatchRow /\ NoTournamentRow \in TournamentRow
  BY DEF NoMatchRow, MatchRow, NoTournamentRow, TournamentRow
<1>2. Final \in Match
  <2>1. Rounds \in 1..Rounds /\ 1 \in 1..4 /\ 1 <= MatchCount(Rounds)
    BY RoundsAssumption DEF MatchCount
  <2> QED
    BY <2>1, MatchFacts DEF Final
<1>3. IdleRequest \in Request
  BY <1>1, <1>2 DEF IdleRequest, Request, Statement
<1>4. ASSUME NEW m \in Match PROVE NewMatchRow(m) \in MatchRow
  <2>1. m.round \in 1..Rounds /\ m.number \in 1..4
    BY MatchFacts
  <2>2. m.round = 1 => {2 * m.number - 1, 2 * m.number} \subseteq Seats
    BY FeedersSplitSeats
  <2> QED
    BY <2>1, <2>2 DEF NewMatchRow, NoMatchRow, MatchRow
<1> QED
  BY <1>1, <1>2, <1>3, <1>4

\* Assigning a seat yields a row.
LEMMA AssignType ==
    ASSUME NEW row \in MatchRow, NEW m \in Match, NEW w \in {NoOne} \union Seats
    PROVE  Assign(row, m, w) \in MatchRow
BY DEF Assign, SeatIn, MatchRow

LEMMA InitType == Init => TypeOK
BY RowTypes, MaxRequestsAssumption DEF Init, TypeOK, Many

\* A request goes on with a request, a free thread takes one.
LEMMA ProceedType ==
    ASSUME TypeOK, NEW q \in Requests, NEW r \in Request, Proceed(q, r)
    PROVE  req' \in [Requests -> Request] /\ accepted' \in 0..MaxRequests
BY DEF TypeOK, Proceed

LEMMA TakeType ==
    ASSUME TypeOK, NEW q \in Requests, NEW r \in Request, Take(q, r)
    PROVE  TypeOK'
BY MaxRequestsAssumption DEF TypeOK, Take, db, hist

LEMMA StoreMatchType ==
    ASSUME TypeOK, NEW m \in Match, NEW row \in MatchRow, StoreMatch(m, row)
    PROVE  /\ tournament' \in TournamentRow
           /\ matches' \in [Match -> MatchRow]
           /\ announced' \in [1..Rounds -> 0..Many]
BY DEF TypeOK, StoreMatch

\* A request with other rows, or at another statement, is a request.
LEMMA RequestUpdates ==
    ASSUME NEW r \in Request
    PROVE  /\ \A at \in Statement : [r EXCEPT !.at = at] \in Request
           /\ \A at \in Statement, row \in MatchRow :
                 /\ [r EXCEPT !.at = at, !.mine = row] \in Request
                 /\ [r EXCEPT !.at = at, !.next = row] \in Request
           /\ \A at \in Statement, row \in MatchRow, other \in MatchRow :
                 [r EXCEPT !.at = at, !.next = row, !.mine = other] \in Request
           /\ \A at \in Statement, row \in TournamentRow : [r EXCEPT !.tour = row, !.at = at] \in Request
           /\ \A at \in Statement, m \in Match, row \in MatchRow :
                 [r EXCEPT !.at = at, !.id = m, !.mine = row] \in Request
BY DEF Request

\* What the requests read and fill in are rows.
LEMMA ReadTypes ==
    ASSUME NEW row \in MatchRow
    PROVE  /\ row.player1 \in {NoOne} \union Seats
           /\ row.player2 \in {NoOne} \union Seats
           /\ row.winner \in {NoOne} \union Seats
           /\ \A w \in {NoOne} \union Seats : [row EXCEPT !.winner = w, !.is_finished = TRUE] \in MatchRow
           /\ \A playing \in BOOLEAN : [row EXCEPT !.is_playing = playing] \in MatchRow
BY DEF MatchRow

\* Every step of a request that leaves the tables alone, or fails, keeps the types.
LEMMA ReadingType ==
    ASSUME TypeOK, NEW q \in Requests, NEW r \in Request, Proceed(q, r), UNCHANGED <<db, hist>>
    PROVE  TypeOK'
BY ProceedType DEF TypeOK, db, hist

LEMMA TypeStep == TypeOK /\ [Next]_vars => TypeOK'
<1> SUFFICES ASSUME TypeOK, [Next]_vars
             PROVE  TypeOK'
  OBVIOUS
<1> USE DEF Statement
<1>1. ASSUME CreateTournament
      PROVE  TypeOK'
  <2>1. tournament' \in TournamentRow
    BY <1>1 DEF CreateTournament, NoTournamentRow, TournamentRow
  <2>2. matches' \in [Match -> MatchRow]
    BY <1>1, RowTypes DEF CreateTournament
  <2> QED
    BY <1>1, <2>1, <2>2 DEF CreateTournament, TypeOK
<1>2. ASSUME NEW q \in Requests, Accept(q)
      PROVE  TypeOK'
  <2>1. ASSUME NEW m \in Match, NEW player1Leads \in BOOLEAN, GetMatch(q, m, player1Leads)
        PROVE  TypeOK'
    <3> DEFINE w   == WinnerOf(matches[m], player1Leads)
               row == [matches[m] EXCEPT !.winner = w, !.is_finished = TRUE]
    <3>1. matches[m] \in MatchRow
      BY DEF TypeOK
    <3>2. w \in {NoOne} \union Seats
      BY <3>1, ReadTypes DEF WinnerOf
    <3>3. row \in MatchRow
      BY <3>1, <3>2, ReadTypes
    <3>4. [IdleRequest EXCEPT !.at = "save_match", !.id = m, !.mine = row] \in Request
      BY <3>3, RowTypes, RequestUpdates
    <3> QED
      BY <2>1, <3>4, TakeType DEF GetMatch
  <2>2. ASSUME NEW m \in Match, GetToRelease(q, m)
        PROVE  TypeOK'
    <3> DEFINE row == [matches[m] EXCEPT !.is_playing = FALSE]
    <3>1. matches[m] \in MatchRow
      BY DEF TypeOK
    <3>2. row \in MatchRow
      BY <3>1, ReadTypes
    <3>3. [IdleRequest EXCEPT !.at = "release", !.id = m, !.mine = row] \in Request
      BY <3>2, RowTypes, RequestUpdates
    <3> QED
      BY <2>2, <3>3, TakeType DEF GetToRelease
  <2>3. ASSUME NEW m \in Match, GetToPlay(q, m)
        PROVE  TypeOK'
    <3> DEFINE row == [matches[m] EXCEPT !.is_playing = TRUE]
    <3>1. matches[m] \in MatchRow
      BY DEF TypeOK
    <3>2. row \in MatchRow
      BY <3>1, ReadTypes
    <3>3. [IdleRequest EXCEPT !.at = "play", !.id = m, !.mine = row] \in Request
      BY <3>2, RowTypes, RequestUpdates
    <3> QED
      BY <2>3, <3>3, TakeType DEF GetToPlay
  <2>4. ASSUME GetToDelete(q)
        PROVE  TypeOK'
    BY <2>4, RowTypes, RequestUpdates, TakeType DEF GetToDelete
  <2> QED
    BY <1>2, <2>1, <2>2, <2>3, <2>4 DEF Accept
<1>3. ASSUME NEW q \in Requests, SaveGameResult(q)
      PROVE  TypeOK'
  <2>0. /\ req[q] \in Request
        /\ req[q].id \in Match
        /\ req[q].mine \in MatchRow
        /\ req[q].next \in MatchRow
        /\ req[q].tour \in TournamentRow
    BY DEF TypeOK, Request
  <2>1. ASSUME SaveMatch(q)
        PROVE  TypeOK'
    <3>1. [req[q] EXCEPT !.at = "load_tournament"] \in Request
      BY <2>0, RequestUpdates
    <3>2. req[q].mine.winner \in {NoOne} \union Seats
      BY <2>0, ReadTypes
    <3>3. reported' \in [Match -> SUBSET ({NoOne} \union Seats)]
      BY <2>0, <2>1, <3>2 DEF SaveMatch, TypeOK
    <3> QED
      BY <2>0, <2>1, <3>1, <3>3, ProceedType, StoreMatchType DEF SaveMatch, TypeOK
  <2>2. ASSUME LoadTournament(q)
        PROVE  TypeOK'
    <3>1. \A at \in Statement : [req[q] EXCEPT !.tour = tournament, !.at = at] \in Request
      BY <2>0, RequestUpdates DEF TypeOK
    <3>2. CASE tournament.stored
      BY <2>2, <3>1, <3>2, ReadingType DEF LoadTournament
    <3>3. CASE ~tournament.stored
      BY <2>2, <3>3, RowTypes, ReadingType DEF LoadTournament, Finish
    <3> QED
      BY <3>2, <3>3
  <2>3. ASSUME GetNextMatch(q)
        PROVE  TypeOK'
    <3> DEFINE m     == req[q].id
               found == m.round < Rounds /\ matches[NextMatch(m)].stored
               next  == Assign(matches[NextMatch(m)], m, req[q].mine.winner)
    <3>1. CASE found
      <4>1. NextMatch(m) \in Match
        BY <2>0, <3>1, NextMatchFedBy
      <4>2. next \in MatchRow
        BY <2>0, <4>1, AssignType, ReadTypes DEF TypeOK
      <4>3. [req[q] EXCEPT !.at = "save_next", !.next = next, !.mine = NoMatchRow] \in Request
        BY <2>0, <4>2, RowTypes, RequestUpdates
      <4> QED
        BY <2>3, <3>1, <4>3, ReadingType DEF GetNextMatch
    <3>2. CASE ~found
      <4>1. [req[q] EXCEPT !.at = "check_round", !.mine = NoMatchRow] \in Request
        BY <2>0, RowTypes, RequestUpdates
      <4> QED
        BY <2>3, <3>2, <4>1, ReadingType DEF GetNextMatch
    <3> QED
      BY <3>1, <3>2
  <2>4. ASSUME SaveNextMatch(q)
        PROVE  TypeOK'
    <3>1. req[q].id.round < Rounds => NextMatch(req[q].id) \in Match
      BY <2>0, NextMatchFedBy
    <3>2. [req[q] EXCEPT !.at = "check_round", !.next = NoMatchRow] \in Request
      BY <2>0, RowTypes, RequestUpdates
    <3>3. matches' \in [Match -> MatchRow]
      BY <2>0, <2>4 DEF SaveNextMatch, StoreMatch, TypeOK
    <3> QED
      BY <2>4, <3>2, <3>3, ProceedType DEF SaveNextMatch, StoreMatch, TypeOK, hist
  <2>5. ASSUME CheckRound(q)
        PROVE  TypeOK'
    <3> DEFINE mine == [req[q] EXCEPT !.mine = NoMatchRow]
    <3>1. mine \in Request
      BY <2>0, RowTypes DEF Request
    <3>2. [mine EXCEPT !.at = "check_all"] \in Request
      BY <3>1, RequestUpdates
    <3>3. [mine EXCEPT !.at = "save_round", !.tour.last_finished_round = req[q].id.round] \in Request
      <4>1. req[q].id.round \in 1..Rounds
        BY <2>0, MatchFacts
      <4> HIDE DEF mine
      <4>2. [mine.tour EXCEPT !.last_finished_round = req[q].id.round] \in TournamentRow
        BY <3>1, <4>1 DEF TournamentRow, Request
      <4> QED
        BY <3>1, <4>2 DEF Request
    <3>4. CASE IsRoundFinished(req[q].id.round)
      BY <2>5, <3>3, <3>4, ReadingType DEF CheckRound
    <3>5. CASE ~IsRoundFinished(req[q].id.round)
      BY <2>5, <3>2, <3>5, ReadingType DEF CheckRound
    <3> QED
      BY <3>4, <3>5
  <2>6. ASSUME SaveRound(q)
        PROVE  TypeOK'
    BY <2>0, <2>6, RequestUpdates, ProceedType DEF SaveRound, StoreTournament, TypeOK, hist
  <2>7. ASSUME Notify(q)
        PROVE  TypeOK'
    <3> DEFINE r    == req[q].id.round
               told == IF announced[r] = Many THEN Many ELSE announced[r] + 1
    <3>1. announced' \in [1..Rounds -> 0..Many]
      <4>1. r \in 1..Rounds /\ announced[r] \in 0..Many
        BY <2>0, MatchFacts DEF TypeOK
      <4>2. told \in 0..Many
        BY <4>1 DEF Many
      <4>3. announced' = [announced EXCEPT ![r] = told]
        BY <2>7 DEF Notify
      <4> HIDE DEF r, told
      <4> QED
        BY <4>2, <4>3 DEF TypeOK
    <3> QED
      BY <2>0, <2>7, <3>1, RequestUpdates, ProceedType DEF Notify, TypeOK, hist
  <2>8. ASSUME CheckAll(q)
        PROVE  TypeOK'
    <3>1. [req[q].tour EXCEPT !.is_finished = TRUE] \in TournamentRow
      BY <2>0 DEF TournamentRow
    <3>2. [req[q] EXCEPT !.at = "save_all", !.tour.is_finished = TRUE] \in Request
      BY <2>0, <3>1 DEF Request
    <3>3. CASE IsTournamentFinished
      BY <2>8, <3>2, <3>3, ReadingType DEF CheckAll
    <3>4. CASE ~IsTournamentFinished
      BY <2>8, <3>4, RowTypes, ReadingType DEF CheckAll, Finish
    <3> QED
      BY <3>3, <3>4
  <2>9. ASSUME SaveAll(q)
        PROVE  TypeOK'
    BY <2>0, <2>9, RowTypes, ProceedType DEF SaveAll, Finish, StoreTournament, TypeOK, hist
  <2> QED
    BY <1>3, <2>1, <2>2, <2>3, <2>4, <2>5, <2>6, <2>7, <2>8, <2>9 DEF SaveGameResult
<1>4. ASSUME NEW q \in Requests, SaveReleased(q) \/ SavePlaying(q)
      PROVE  TypeOK'
  <2>1. req[q].id \in Match /\ req[q].mine \in MatchRow
    BY DEF TypeOK, Request
  <2>2. StoreMatch(req[q].id, req[q].mine) /\ Proceed(q, IdleRequest) /\ UNCHANGED hist
    BY <1>4 DEF SaveReleased, SavePlaying, Finish
  <2> QED
    BY <2>1, <2>2, RowTypes, ProceedType, StoreMatchType DEF TypeOK, hist
<1>5. ASSUME NEW q \in Requests, DeleteTournament(q)
      PROVE  TypeOK'
  BY <1>5, RowTypes, ProceedType DEF DeleteTournament, Finish, TypeOK
<1>6. ASSUME NEW q \in Requests, MatchRefused(q) \/ Abort(q)
      PROVE  TypeOK'
  BY <1>6, RowTypes, ReadingType DEF MatchRefused, Abort, Finish
<1>7. ASSUME UNCHANGED vars
      PROVE  TypeOK'
  BY <1>7 DEF TypeOK, vars
<1> QED
  BY <1>1, <1>2, <1>3, <1>4, <1>5, <1>6, <1>7 DEF Next, Continue

\* The tables, and the rows requests carry, keep their types: last_finished_round never
\* leaves the rounds of the bracket, no column holds a player who is not in the list.
THEOREM TypeCorrect == Spec => []TypeOK
BY InitType, TypeStep, PTL DEF Spec

-----------------------------------------------------------------------------
(* Results are only ever added, and what IInv says of a row outlives that *)

Grows(won, more) == \A m \in Match : won[m] \subseteq more[m]

LEMMA RowGrows ==
    ASSUME NEW won, NEW more, Grows(won, more), NEW m \in Match, NEW row
    PROVE  /\ PlayersOK(won, m, row) => PlayersOK(more, m, row)
           /\ RowOK(won, m, row) => RowOK(more, m, row)
<1>1. m.round # 1 => Feeder1(m) \in Match /\ Feeder2(m) \in Match
  BY MatchFacts, FeedersSplitSeats, RoundsAssumption
<1>2. won[m] \subseteq more[m]
  BY DEF Grows
<1>3. m.round # 1 => won[Feeder1(m)] \subseteq more[Feeder1(m)] /\ won[Feeder2(m)] \subseteq more[Feeder2(m)]
  BY <1>1 DEF Grows
<1> QED
  BY <1>2, <1>3 DEF PlayersOK, RowOK

LEMMA RoundGrows ==
    ASSUME NEW won, NEW more, Grows(won, more),
           NEW stage, NEW later, stage = "deleted" => later = "deleted",
           NEW r
    PROVE  RoundOver(stage, won, r) => RoundOver(later, more, r)
BY DEF Grows, RoundOver

LEMMA RequestGrows ==
    ASSUME NEW won, NEW more, Grows(won, more),
           NEW stage, NEW later, stage = "deleted" => later = "deleted",
           NEW r \in Request, RequestOK(stage, won, r)
    PROVE  RequestOK(later, more, r)
<1>1. r.id \in Match
  BY DEF Request
<1>2. r.id.round < Rounds => NextMatch(r.id) \in Match
  BY <1>1, NextMatchFedBy
<1>3. r.at = "save_match" => PlayersOK(more, r.id, r.mine)
  BY <1>1, RowGrows DEF RequestOK
<1>4. r.at \in {"release", "play"} => RowOK(more, r.id, r.mine)
  BY <1>1, RowGrows DEF RequestOK
<1>5. r.at \in {"load_tournament", "get_next"} => r.mine.winner \in more[r.id]
  BY <1>1 DEF RequestOK, Grows
<1>6. r.at = "save_next" => RowOK(more, NextMatch(r.id), r.next)
  BY <1>2, RowGrows DEF RequestOK
<1>7. r.at \in {"save_round", "notify"} => RoundOver(later, more, r.id.round)
  BY RoundGrows DEF RequestOK
<1>8. TournamentOK(later, more, r.tour)
  BY RoundGrows DEF RequestOK, TournamentOK
<1> QED
  BY <1>3, <1>4, <1>5, <1>6, <1>7, <1>8 DEF RequestOK

-----------------------------------------------------------------------------
(* Which steps keep IInv: those that only read, and those that write one row *)

\* Request q goes on holding r, results may have been added; all requests stay right.
LEMMA RequestsKept ==
    ASSUME IInv, NEW q \in Requests, NEW r \in Request, req' = [req EXCEPT ![q] = r],
           Grows(reported, reported'), life = "deleted" => life' = "deleted",
           RequestOK(life', reported', r)
    PROVE  \A p \in Requests : RequestOK(life', reported', req'[p])
<1> TAKE p \in Requests
<1>1. req \in [Requests -> Request]
  BY DEF IInv, TypeOK
<1>2. CASE p = q
  BY <1>1, <1>2
<1>3. CASE p # q
  <2>1. RequestOK(life, reported, req[p]) /\ req[p] \in Request
    BY <1>1 DEF IInv
  <2>2. RequestOK(life', reported', req[p])
    BY <2>1, RequestGrows
  <2> QED
    BY <1>1, <1>3, <2>2
<1> QED
  BY <1>2, <1>3

\* An idle request carries nothing that could be wrong.
LEMMA IdleOK ==
    ASSUME NEW stage, NEW won
    PROVE  RequestOK(stage, won, IdleRequest)
BY DEF RequestOK, TournamentOK, IdleRequest, NoTournamentRow

\* A thread can only be busy once the tournament was created.
LEMMA BusyAfterCreation ==
    ASSUME IInv, NEW q \in Requests, req[q].at # "idle"
    PROVE  life \in {"created", "deleted"}
BY DEF IInv, StoredOK

\* A step that writes nothing: q goes on holding r.
LEMMA ReadingKeeps ==
    ASSUME IInv, TypeOK', NEW q \in Requests, NEW r \in Request, Proceed(q, r),
           UNCHANGED <<db, hist>>, life # "new", RequestOK(life, reported, r)
    PROVE  IInv'
<1>1. UNCHANGED <<tournament, matches, announced, life, reported>>
  BY DEF db, hist
<1>2. Grows(reported, reported')
  BY <1>1 DEF Grows
<1>3. \A p \in Requests : RequestOK(life', reported', req'[p])
  BY <1>1, <1>2, RequestsKept DEF Proceed
<1> QED
  BY <1>1, <1>3 DEF IInv, StoredOK, WonOK, AnnouncedOK

\* A step that writes the row of one match.
LEMMA StoringKeeps ==
    ASSUME IInv, TypeOK', NEW q \in Requests, NEW r \in Request, Proceed(q, r),
           NEW m \in Match, NEW row \in MatchRow, StoreMatch(m, row), UNCHANGED life,
           life # "new", Grows(reported, reported'), WonOK(reported'),
           row.stored, RowOK(reported', m, row), RequestOK(life, reported', r)
    PROVE  IInv'
<1>1. UNCHANGED <<tournament, announced, life>> /\ matches' = [matches EXCEPT ![m] = row]
  BY DEF StoreMatch
<1>2. \A p \in Requests : RequestOK(life', reported', req'[p])
  BY <1>1, RequestsKept DEF Proceed
<1>3. StoredOK'
  BY <1>1 DEF IInv, TypeOK, StoredOK
<1>4. AnnouncedOK(life', reported', announced')
  BY <1>1, RoundGrows DEF IInv, AnnouncedOK
<1>5. TournamentOK(life', reported', tournament')
  BY <1>1, RoundGrows DEF IInv, TournamentOK
<1>6. ASSUME NEW n \in Match
      PROVE  RowOK(reported', n, matches'[n])
  <2>1. CASE n = m
    BY <1>1, <2>1 DEF IInv, TypeOK
  <2>2. CASE n # m
    <3>1. RowOK(reported, n, matches[n])
      BY DEF IInv
    <3>2. matches'[n] = matches[n]
      BY <1>1, <2>2 DEF IInv, TypeOK
    <3> QED
      BY <3>1, <3>2, RowGrows
  <2> QED
    BY <2>1, <2>2
<1> QED
  BY <1>2, <1>3, <1>4, <1>5, <1>6 DEF IInv

\* A step that writes the row of the tournament.
LEMMA StoringTournamentKeeps ==
    ASSUME IInv, TypeOK', NEW q \in Requests, NEW r \in Request, Proceed(q, r),
           NEW row \in TournamentRow, StoreTournament(row), UNCHANGED hist,
           life # "new", TournamentOK(life, reported, row), RequestOK(life, reported, r)
    PROVE  IInv'
<1>1. UNCHANGED <<matches, announced, life, reported>> /\ tournament' = row
  BY DEF StoreTournament, hist
<1>2. Grows(reported, reported')
  BY <1>1 DEF Grows
<1>3. \A p \in Requests : RequestOK(life', reported', req'[p])
  BY <1>1, <1>2, RequestsKept DEF Proceed
<1> QED
  BY <1>1, <1>3 DEF IInv, StoredOK, WonOK, AnnouncedOK

-----------------------------------------------------------------------------
(* The invariant holds at first, and each kind of request keeps it *)

LEMMA InitInv == Init => IInv
<1> SUFFICES ASSUME Init PROVE IInv
  OBVIOUS
<1>1. TypeOK
  BY InitType
<1>2. \A q \in Requests : RequestOK(life, reported, req[q])
  BY IdleOK DEF Init
<1>3. \A m \in Match : RowOK(reported, m, matches[m])
  BY DEF Init, RowOK, PlayersOK, NoMatchRow
<1>4. StoredOK
  BY DEF Init, StoredOK, NoMatchRow, NoTournamentRow, IdleRequest
<1>5. WonOK(reported) /\ TournamentOK(life, reported, tournament)
  BY DEF Init, WonOK, TournamentOK, NoTournamentRow
<1>6. AnnouncedOK(life, reported, announced)
  BY DEF Init, AnnouncedOK
<1> QED
  BY <1>1, <1>2, <1>3, <1>4, <1>5, <1>6 DEF IInv

LEMMA CreateKeeps ==
    ASSUME IInv, TypeOK', CreateTournament
    PROVE  IInv'
<1>1. /\ life = "new" /\ life' = "created"
      /\ UNCHANGED <<announced, req, reported>>
      /\ tournament' = [NoTournamentRow EXCEPT !.stored = TRUE]
      /\ matches' = [m \in Match |-> NewMatchRow(m)]
  BY DEF CreateTournament
<1>2. Grows(reported, reported')
  BY <1>1 DEF Grows
<1>3. \A q \in Requests : RequestOK(life', reported', req'[q])
  <2> TAKE q \in Requests
  <2>1. req[q] \in Request /\ RequestOK(life, reported, req[q])
    BY DEF IInv, TypeOK
  <2> QED
    BY <1>1, <1>2, <2>1, RequestGrows
<1>4. \A m \in Match : matches'[m].stored /\ RowOK(reported', m, matches'[m])
  <2> TAKE m \in Match
  <2>1. m.round \in 1..Rounds /\ m.number \in 1..4
    BY MatchFacts
  <2>2. /\ matches'[m].stored /\ ~matches'[m].is_finished
        /\ matches'[m].can_start = (m.round = 1)
        /\ matches'[m].player1 = (IF m.round = 1 THEN 2 * m.number - 1 ELSE NoOne)
        /\ matches'[m].player2 = (IF m.round = 1 THEN 2 * m.number ELSE NoOne)
    BY <1>1 DEF NewMatchRow, NoMatchRow
  <2>3. 2 * m.number - 1 # NoOne /\ 2 * m.number # NoOne
    BY <2>1 DEF NoOne
  <2> QED
    BY <2>2, <2>3 DEF RowOK, PlayersOK
<1>5. AnnouncedOK(life', reported', announced')
  BY <1>1 DEF IInv, AnnouncedOK, RoundOver
<1>6. ~tournament'.is_finished
  BY <1>1 DEF NoTournamentRow
<1> QED
  BY <1>1, <1>3, <1>4, <1>5, <1>6 DEF IInv, StoredOK, WonOK, TournamentOK

\* The four requests find rows that are right and take them along.
LEMMA AcceptKeeps ==
    ASSUME IInv, TypeOK', NEW q \in Requests, Accept(q)
    PROVE  IInv'
<1>1. ASSUME NEW r \in Request, Take(q, r), life # "new", RequestOK(life, reported, r)
      PROVE  IInv'
  <2>1. UNCHANGED <<tournament, matches, announced, life, reported>>
    BY <1>1 DEF Take, db, hist
  <2>2. Grows(reported, reported')
    BY <2>1 DEF Grows
  <2>3. \A p \in Requests : RequestOK(life', reported', req'[p])
    BY <1>1, <2>1, <2>2, RequestsKept DEF Take
  <2> QED
    BY <1>1, <2>1, <2>3 DEF IInv, StoredOK, WonOK, AnnouncedOK
<1>2. \A m \in Match : matches[m].stored => life # "new"
  BY DEF IInv, StoredOK
<1>3. \A m \in Match : matches[m] \in MatchRow /\ RowOK(reported, m, matches[m])
  BY DEF IInv, TypeOK
<1>4. ~NoTournamentRow.is_finished
  BY DEF NoTournamentRow
<1>5. ASSUME NEW m \in Match, NEW player1Leads \in BOOLEAN, GetMatch(q, m, player1Leads)
      PROVE  IInv'
  <2> DEFINE w   == WinnerOf(matches[m], player1Leads)
             row == [matches[m] EXCEPT !.winner = w, !.is_finished = TRUE]
             r   == [IdleRequest EXCEPT !.at = "save_match", !.id = m, !.mine = row]
  <2>1. w \in {matches[m].player1, matches[m].player2}
    BY DEF WinnerOf
  <2>2. row \in MatchRow
    BY <1>3, <2>1, ReadTypes
  <2>3. /\ row.player1 = matches[m].player1 /\ row.player2 = matches[m].player2
        /\ row.can_start = matches[m].can_start /\ row.stored = matches[m].stored
        /\ row.winner = w
    BY <1>3 DEF MatchRow
  <2>4. PlayersOK(reported, m, row)
    BY <1>3, <2>3 DEF RowOK, PlayersOK
  <2>5. r.at = "save_match" /\ r.id = m /\ r.mine = row /\ r.tour = NoTournamentRow
    BY DEF IdleRequest
  <2>6. r \in Request
    BY <2>2, RowTypes, RequestUpdates DEF Statement
  <2>7. matches[m].stored /\ Take(q, r)
    BY <1>5 DEF GetMatch
  <2> HIDE DEF r, row, w
  <2>8. RequestOK(life, reported, r)
    BY <1>4, <2>1, <2>3, <2>4, <2>5, <2>7 DEF RequestOK, TournamentOK
  <2> QED
    BY <1>1, <1>2, <2>6, <2>7, <2>8
<1>6. ASSUME NEW m \in Match, NEW at \in {"release", "play"}, NEW playing \in BOOLEAN,
             matches[m].stored,
             Take(q, [IdleRequest EXCEPT !.at = at, !.id = m,
                                         !.mine = [matches[m] EXCEPT !.is_playing = playing]])
      PROVE  IInv'
  <2> DEFINE row == [matches[m] EXCEPT !.is_playing = playing]
             r   == [IdleRequest EXCEPT !.at = at, !.id = m, !.mine = row]
  <2>1. row \in MatchRow
    BY <1>3, ReadTypes
  <2>2. /\ row.player1 = matches[m].player1 /\ row.player2 = matches[m].player2
        /\ row.can_start = matches[m].can_start /\ row.stored = matches[m].stored
        /\ row.is_finished = matches[m].is_finished
    BY <1>3 DEF MatchRow
  <2>3. RowOK(reported, m, row)
    BY <1>3, <2>2 DEF RowOK, PlayersOK
  <2>4. r.at = at /\ r.id = m /\ r.mine = row /\ r.tour = NoTournamentRow
    BY DEF IdleRequest
  <2>5. r \in Request /\ Take(q, r)
    BY <1>6, <2>1, RowTypes, RequestUpdates DEF Statement
  <2> HIDE DEF r, row
  <2>6. RequestOK(life, reported, r)
    BY <1>4, <1>6, <2>2, <2>3, <2>4 DEF RequestOK, TournamentOK
  <2> QED
    BY <1>1, <1>2, <1>6, <2>5, <2>6
<1>7. ASSUME GetToDelete(q)
      PROVE  IInv'
  <2> DEFINE r == [IdleRequest EXCEPT !.at = "delete"]
  <2>1. r \in Request /\ r.at = "delete" /\ r.tour = NoTournamentRow
    BY RowTypes, RequestUpdates DEF IdleRequest, Statement
  <2>2. Take(q, r) /\ tournament.stored
    BY <1>7 DEF GetToDelete
  <2>3. life # "new"
    BY <2>2 DEF IInv, StoredOK
  <2> HIDE DEF r
  <2>4. RequestOK(life, reported, r)
    BY <1>4, <2>1 DEF RequestOK, TournamentOK
  <2> QED
    BY <1>1, <2>1, <2>2, <2>3, <2>4
<1> QED
  BY <1>5, <1>6, <1>7 DEF Accept, GetToRelease, GetToPlay

\* Seating the winner of m in the next match leaves that row right.
LEMMA AssignKeepsRow ==
    ASSUME NEW won, NEW m \in Match, m.round < Rounds,
           NEW row \in MatchRow, row.stored, RowOK(won, NextMatch(m), row),
           NEW winner \in {NoOne} \union Seats, winner # NoOne, winner \in won[m]
    PROVE  /\ Assign(row, m, winner).stored
           /\ RowOK(won, NextMatch(m), Assign(row, m, winner))
<1> DEFINE next == NextMatch(m)
           new  == Assign(row, m, winner)
<1> SUFFICES new.stored /\ RowOK(won, next, new)
  OBVIOUS
<1>1. next.round # 1
  BY NextMatchFedBy DEF NextMatch
<1>2. CASE GoesToPlayer1(m)
  <2>1. /\ new.player1 = winner /\ new.player2 = row.player2
        /\ new.can_start <=> (row.can_start \/ (winner # NoOne /\ row.player2 # NoOne))
        /\ new.stored = row.stored /\ new.is_finished = row.is_finished
    BY <1>2 DEF Assign, SeatIn, MatchRow
  <2>2. Feeder1(next) = m
    BY <1>2, NextMatchFedBy
  <2>3. RowOK(won, next, row)
    OBVIOUS
  <2> HIDE DEF next, new
  <2>4. PlayersOK(won, next, new)
    BY <1>1, <2>1, <2>2, <2>3 DEF RowOK, PlayersOK
  <2> QED
    BY <2>1, <2>3, <2>4 DEF RowOK
<1>3. CASE ~GoesToPlayer1(m)
  <2>1. /\ new.player1 = row.player1 /\ new.player2 = winner
        /\ new.can_start <=> (row.can_start \/ (row.player1 # NoOne /\ winner # NoOne))
        /\ new.stored = row.stored /\ new.is_finished = row.is_finished
    BY <1>3 DEF Assign, SeatIn, MatchRow
  <2>2. Feeder2(next) = m
    BY <1>3, NextMatchFedBy
  <2>3. RowOK(won, next, row)
    OBVIOUS
  <2> HIDE DEF next, new
  <2>4. PlayersOK(won, next, new)
    BY <1>1, <2>1, <2>2, <2>3 DEF RowOK, PlayersOK
  <2> QED
    BY <2>1, <2>3, <2>4 DEF RowOK
<1> QED
  BY <1>2, <1>3

\* A player of a right row comes from the seats below its match.
LEMMA PlayersFromBelow ==
    ASSUME NEW won, WonOK(won), NEW m \in Match, NEW row, PlayersOK(won, m, row)
    PROVE  /\ row.player1 \in {NoOne} \union SeatsBelow(m)
           /\ row.player2 \in {NoOne} \union SeatsBelow(m)
           /\ row.player1 # NoOne => row.player1 # row.player2
<1>1. CASE m.round = 1
  <2>1. {2 * m.number - 1, 2 * m.number} \subseteq SeatsBelow(m) /\ m.number \in 1..4
    BY <1>1, MatchFacts, FeedersSplitSeats
  <2> QED
    BY <1>1, <2>1 DEF PlayersOK, NoOne
<1>2. CASE m.round # 1
  <2>1. m.round > 1
    BY <1>2, MatchFacts, RoundsAssumption
  <2>2. /\ Feeder1(m) \in Match /\ Feeder2(m) \in Match
        /\ SeatsBelow(Feeder1(m)) \subseteq SeatsBelow(m)
        /\ SeatsBelow(Feeder2(m)) \subseteq SeatsBelow(m)
        /\ SeatsBelow(Feeder1(m)) \cap SeatsBelow(Feeder2(m)) = {}
    BY <2>1, FeedersSplitSeats
  <2>3. /\ row.player1 # NoOne => row.player1 \in SeatsBelow(Feeder1(m))
        /\ row.player2 # NoOne => row.player2 \in SeatsBelow(Feeder2(m))
    BY <1>2, <2>2 DEF PlayersOK, WonOK
  <2> QED
    BY <2>2, <2>3
<1> QED
  BY <1>1, <1>2

LEMMA SaveMatchKeeps ==
    ASSUME IInv, TypeOK', NEW q \in Requests, SaveMatch(q)
    PROVE  IInv'
<1> DEFINE m   == req[q].id
           row == req[q].mine
           r   == [req[q] EXCEPT !.at = "load_tournament"]
<1>1. m \in Match /\ row \in MatchRow /\ req[q] \in Request
  BY DEF IInv, TypeOK, Request
<1>2. row.stored /\ PlayersOK(reported, m, row) /\ row.winner \in {row.player1, row.player2}
  BY DEF SaveMatch, IInv, RequestOK
<1>3. life # "new"
  BY BusyAfterCreation DEF SaveMatch
<1>4. reported' = [reported EXCEPT ![m] = @ \union {row.winner}]
  BY DEF SaveMatch
<1>5. Grows(reported, reported') /\ row.winner \in reported'[m]
  BY <1>1, <1>4 DEF Grows, IInv, TypeOK
<1>6. row.winner \in {NoOne} \union SeatsBelow(m)
  BY <1>1, <1>2, PlayersFromBelow DEF IInv
<1>7. WonOK(reported')
  BY <1>1, <1>4, <1>6 DEF IInv, TypeOK, WonOK
<1>8. RowOK(reported', m, row)
  BY <1>1, <1>2, <1>5, RowGrows DEF RowOK
<1>9. r \in Request
  BY <1>1, RequestUpdates DEF Statement
<1>10. r.at = "load_tournament" /\ r.mine = row /\ r.id = m /\ r.tour = req[q].tour
  BY <1>1 DEF Request
<1>11. TournamentOK(life, reported', r.tour)
  BY <1>5, <1>10, RoundGrows DEF IInv, RequestOK, TournamentOK
<1>12. Proceed(q, r) /\ StoreMatch(m, row) /\ UNCHANGED life
  BY DEF SaveMatch
<1> HIDE DEF m, row, r
<1>13. RequestOK(life, reported', r)
  BY <1>5, <1>10, <1>11 DEF RequestOK
<1> QED
  BY <1>1, <1>2, <1>3, <1>5, <1>7, <1>8, <1>9, <1>12, <1>13, StoringKeeps

LEMMA LoadTournamentKeeps ==
    ASSUME IInv, TypeOK', NEW q \in Requests, LoadTournament(q)
    PROVE  IInv'
<1>1. req[q] \in Request /\ RequestOK(life, reported, req[q]) /\ req[q].at = "load_tournament"
  BY DEF LoadTournament, IInv, TypeOK
<1>2. life # "new"
  BY <1>1, BusyAfterCreation
<1>3. CASE tournament.stored
  <2> DEFINE at == IF req[q].mine.winner = NoOne THEN "check_round" ELSE "get_next"
             r  == [req[q] EXCEPT !.tour = tournament, !.at = at]
  <2>1. at \in {"check_round", "get_next"} /\ (at = "get_next" => req[q].mine.winner # NoOne)
    OBVIOUS
  <2>2. r \in Request
    BY <1>1, RequestUpdates DEF Statement, IInv, TypeOK
  <2>3. r.at = at /\ r.mine = req[q].mine /\ r.id = req[q].id /\ r.tour = tournament
    BY <1>1 DEF Request
  <2>4. Proceed(q, r) /\ UNCHANGED <<db, hist>>
    BY <1>3 DEF LoadTournament
  <2> HIDE DEF r, at
  <2>5. RequestOK(life, reported, r)
    BY <1>1, <2>1, <2>3 DEF RequestOK, IInv
  <2> QED
    BY <1>2, <2>2, <2>4, <2>5, ReadingKeeps
<1>4. CASE ~tournament.stored
  BY <1>2, <1>4, IdleOK, RowTypes, ReadingKeeps DEF LoadTournament, Finish
<1> QED
  BY <1>3, <1>4

LEMMA GetNextMatchKeeps ==
    ASSUME IInv, TypeOK', NEW q \in Requests, GetNextMatch(q)
    PROVE  IInv'
<1> DEFINE m     == req[q].id
           found == m.round < Rounds /\ matches[NextMatch(m)].stored
           next  == Assign(matches[NextMatch(m)], m, req[q].mine.winner)
<1>1. req[q] \in Request /\ RequestOK(life, reported, req[q]) /\ req[q].at = "get_next"
  BY DEF GetNextMatch, IInv, TypeOK
<1>2. life # "new"
  BY <1>1, BusyAfterCreation
<1>3. m \in Match /\ req[q].mine.winner \in {NoOne} \union Seats
  BY <1>1, ReadTypes DEF Request
<1>4. CASE found
  <2> DEFINE r == [req[q] EXCEPT !.at = "save_next", !.next = next, !.mine = NoMatchRow]
  <2>1. NextMatch(m) \in Match
    BY <1>3, <1>4, NextMatchFedBy
  <2>2. /\ matches[NextMatch(m)] \in MatchRow /\ matches[NextMatch(m)].stored
        /\ RowOK(reported, NextMatch(m), matches[NextMatch(m)])
    BY <1>4, <2>1 DEF IInv, TypeOK
  <2>3. next.stored /\ RowOK(reported, NextMatch(m), next)
    BY <1>1, <1>3, <1>4, <2>2, AssignKeepsRow DEF RequestOK
  <2>4. next \in MatchRow
    BY <1>3, <2>2, AssignType
  <2> HIDE DEF next
  <2>5. r \in Request
    BY <1>1, <2>4, RowTypes, RequestUpdates DEF Statement
  <2>6. r.at = "save_next" /\ r.next = next /\ r.id = m /\ r.tour = req[q].tour
    BY <1>1 DEF Request
  <2>7. Proceed(q, r) /\ UNCHANGED <<db, hist>>
    BY <1>4 DEF GetNextMatch, next
  <2>8. m.round < Rounds
    BY <1>4
  <2> HIDE DEF r, m
  <2>9. RequestOK(life, reported, r)
    BY <1>1, <2>3, <2>6, <2>8 DEF RequestOK
  <2> QED
    BY <1>2, <2>5, <2>7, <2>9, ReadingKeeps
<1>5. CASE ~found
  <2> DEFINE r == [req[q] EXCEPT !.at = "check_round", !.mine = NoMatchRow]
  <2>1. r \in Request
    BY <1>1, RowTypes, RequestUpdates DEF Statement
  <2>2. r.at = "check_round" /\ r.tour = req[q].tour
    BY <1>1 DEF Request
  <2>3. Proceed(q, r) /\ UNCHANGED <<db, hist>>
    BY <1>5 DEF GetNextMatch
  <2> HIDE DEF r
  <2>4. RequestOK(life, reported, r)
    BY <1>1, <2>2 DEF RequestOK
  <2> QED
    BY <1>2, <2>1, <2>3, <2>4, ReadingKeeps
<1> QED
  BY <1>4, <1>5

LEMMA SaveNextMatchKeeps ==
    ASSUME IInv, TypeOK', NEW q \in Requests, SaveNextMatch(q)
    PROVE  IInv'
<1> DEFINE r == [req[q] EXCEPT !.at = "check_round", !.next = NoMatchRow]
<1>1. req[q] \in Request /\ RequestOK(life, reported, req[q]) /\ req[q].at = "save_next"
  BY DEF SaveNextMatch, IInv, TypeOK
<1>2. life # "new"
  BY <1>1, BusyAfterCreation
<1>3. /\ NextMatch(req[q].id) \in Match /\ req[q].next \in MatchRow /\ req[q].next.stored
      /\ RowOK(reported, NextMatch(req[q].id), req[q].next)
  BY <1>1, NextMatchFedBy DEF RequestOK, Request
<1>4. r \in Request
  BY <1>1, RowTypes, RequestUpdates DEF Statement
<1>5. r.at = "check_round" /\ r.tour = req[q].tour
  BY <1>1 DEF Request
<1>6. Proceed(q, r) /\ StoreMatch(NextMatch(req[q].id), req[q].next) /\ UNCHANGED <<life, reported>>
  BY DEF SaveNextMatch, hist
<1>7. Grows(reported, reported') /\ WonOK(reported') /\ RowOK(reported', NextMatch(req[q].id), req[q].next)
  BY <1>3, <1>6 DEF Grows, IInv
<1> HIDE DEF r
<1>8. RequestOK(life, reported', r)
  BY <1>1, <1>5, <1>6 DEF RequestOK
<1> QED
  BY <1>2, <1>3, <1>4, <1>6, <1>7, <1>8, StoringKeeps

\* When the round is over in the table, all of its matches were reported.
LEMMA FinishedRoundsReported ==
    ASSUME IInv, life # "new", NEW r \in 1..Rounds, IsRoundFinished(r)
    PROVE  RoundOver(life, reported, r)
<1>1. CASE life = "deleted"
  BY <1>1 DEF RoundOver
<1>2. CASE life # "deleted"
  <2>1. \A m \in Match : matches[m].stored
    BY <1>2 DEF IInv, StoredOK
  <2>2. \A m \in Match : m.round = r => matches[m].is_finished
    BY <2>1 DEF IsRoundFinished
  <2> QED
    BY <2>2 DEF IInv, RowOK, RoundOver
<1> QED
  BY <1>1, <1>2

LEMMA CheckRoundKeeps ==
    ASSUME IInv, TypeOK', NEW q \in Requests, CheckRound(q)
    PROVE  IInv'
<1> DEFINE round == req[q].id.round
           mine  == [req[q] EXCEPT !.mine = NoMatchRow]
           going == [mine EXCEPT !.at = "check_all"]
           over  == [mine EXCEPT !.at = "save_round", !.tour.last_finished_round = round]
<1>1. req[q] \in Request /\ RequestOK(life, reported, req[q]) /\ req[q].at = "check_round"
  BY DEF CheckRound, IInv, TypeOK
<1>2. life # "new"
  BY <1>1, BusyAfterCreation
<1>3. round \in 1..Rounds /\ req[q].tour \in TournamentRow
  BY <1>1, MatchFacts DEF Request
<1>4. mine \in Request /\ mine.id = req[q].id /\ mine.tour = req[q].tour
  BY <1>1, RowTypes DEF Request
<1>5. UNCHANGED <<db, hist>>
  BY DEF CheckRound
<1>6. CASE IsRoundFinished(round)
  <2>1. Proceed(q, over)
    BY <1>6 DEF CheckRound
  <2> HIDE DEF mine
  <2>2. [mine.tour EXCEPT !.last_finished_round = round] \in TournamentRow
    BY <1>3, <1>4 DEF TournamentRow
  <2>3. over \in Request
    BY <1>4, <2>2 DEF Request, Statement
  <2>4. over.at = "save_round" /\ over.id = req[q].id /\ over.tour.is_finished = req[q].tour.is_finished
    BY <1>3, <1>4 DEF Request, TournamentRow
  <2>5. RoundOver(life, reported, round)
    BY <1>2, <1>3, <1>6, FinishedRoundsReported
  <2> HIDE DEF over
  <2>6. RequestOK(life, reported, over)
    BY <1>1, <2>4, <2>5 DEF RequestOK, TournamentOK
  <2> QED
    BY <1>2, <1>5, <2>1, <2>3, <2>6, ReadingKeeps
<1>7. CASE ~IsRoundFinished(round)
  <2>1. Proceed(q, going)
    BY <1>7 DEF CheckRound
  <2> HIDE DEF mine
  <2>2. going \in Request
    BY <1>4, RequestUpdates DEF Statement
  <2>3. going.at = "check_all" /\ going.tour = req[q].tour
    BY <1>4 DEF Request
  <2> HIDE DEF going
  <2>4. RequestOK(life, reported, going)
    BY <1>1, <2>3 DEF RequestOK
  <2> QED
    BY <1>2, <1>5, <2>1, <2>2, <2>4, ReadingKeeps
<1> QED
  BY <1>6, <1>7

LEMMA SaveRoundKeeps ==
    ASSUME IInv, TypeOK', NEW q \in Requests, SaveRound(q)
    PROVE  IInv'
<1> DEFINE r == [req[q] EXCEPT !.at = "notify"]
<1>1. req[q] \in Request /\ RequestOK(life, reported, req[q]) /\ req[q].at = "save_round"
  BY DEF SaveRound, IInv, TypeOK
<1>2. life # "new"
  BY <1>1, BusyAfterCreation
<1>3. r \in Request
  BY <1>1, RequestUpdates DEF Statement
<1>4. r.at = "notify" /\ r.id = req[q].id /\ r.tour = req[q].tour /\ r.tour \in TournamentRow
  BY <1>1 DEF Request
<1>5. Proceed(q, r) /\ StoreTournament(req[q].tour) /\ UNCHANGED hist
  BY DEF SaveRound
<1> HIDE DEF r
<1>6. RequestOK(life, reported, r) /\ TournamentOK(life, reported, req[q].tour)
  BY <1>1, <1>4 DEF RequestOK
<1> QED
  BY <1>2, <1>3, <1>4, <1>5, <1>6, StoringTournamentKeeps

LEMMA NotifyKeeps ==
    ASSUME IInv, TypeOK', NEW q \in Requests, Notify(q)
    PROVE  IInv'
<1> DEFINE r == [req[q] EXCEPT !.at = "check_all"]
<1>1. req[q] \in Request /\ RequestOK(life, reported, req[q]) /\ req[q].at = "notify"
  BY DEF Notify, IInv, TypeOK
<1>2. r \in Request
  BY <1>1, RequestUpdates DEF Statement
<1>3. r.at = "check_all" /\ r.tour = req[q].tour
  BY <1>1 DEF Request
<1>4. Proceed(q, r) /\ UNCHANGED <<tournament, matches, life, reported>>
  BY DEF Notify, hist
<1> HIDE DEF r
<1>5. RequestOK(life', reported', r)
  BY <1>1, <1>3, <1>4 DEF RequestOK
<1>6. Grows(reported, reported') /\ (life = "deleted" => life' = "deleted")
  BY <1>4 DEF Grows
<1>7. \A p \in Requests : RequestOK(life', reported', req'[p])
  BY <1>2, <1>4, <1>5, <1>6, RequestsKept DEF Proceed
<1>8. RoundOver(life, reported, req[q].id.round)
  BY <1>1 DEF RequestOK
<1>9. \A n \in 1..Rounds : announced'[n] = announced[n] \/ n = req[q].id.round
  BY DEF Notify, IInv, TypeOK
<1>10. AnnouncedOK(life', reported', announced')
  BY <1>4, <1>8, <1>9 DEF IInv, AnnouncedOK
<1>11. StoredOK'
  BY <1>1, <1>4, BusyAfterCreation DEF IInv, StoredOK
<1> QED
  BY <1>4, <1>7, <1>10, <1>11 DEF IInv, WonOK

LEMMA CheckAllKeeps ==
    ASSUME IInv, TypeOK', NEW q \in Requests, CheckAll(q)
    PROVE  IInv'
<1> DEFINE r == [req[q] EXCEPT !.at = "save_all", !.tour.is_finished = TRUE]
<1>1. req[q] \in Request /\ RequestOK(life, reported, req[q]) /\ req[q].at = "check_all"
  BY DEF CheckAll, IInv, TypeOK
<1>2. life # "new"
  BY <1>1, BusyAfterCreation
<1>3. UNCHANGED <<db, hist>>
  BY DEF CheckAll
<1>4. CASE IsTournamentFinished
  <2>1. [req[q].tour EXCEPT !.is_finished = TRUE] \in TournamentRow
    BY <1>1 DEF Request, TournamentRow
  <2>2. r \in Request
    BY <1>1, <2>1 DEF Request, Statement
  <2>3. r.at = "save_all"
    BY <1>1 DEF Request
  <2>4. \A n \in 1..Rounds : RoundOver(life, reported, n)
    BY <1>2, <1>4, FinishedRoundsReported DEF IsTournamentFinished, IsRoundFinished
  <2>5. Proceed(q, r)
    BY <1>4 DEF CheckAll
  <2> HIDE DEF r
  <2>6. RequestOK(life, reported, r)
    BY <2>3, <2>4 DEF RequestOK, TournamentOK
  <2> QED
    BY <1>2, <1>3, <2>2, <2>5, <2>6, ReadingKeeps
<1>5. CASE ~IsTournamentFinished
  BY <1>2, <1>3, <1>5, IdleOK, RowTypes, ReadingKeeps DEF CheckAll, Finish
<1> QED
  BY <1>4, <1>5

LEMMA SaveAllKeeps ==
    ASSUME IInv, TypeOK', NEW q \in Requests, SaveAll(q)
    PROVE  IInv'
<1>1. req[q] \in Request /\ RequestOK(life, reported, req[q]) /\ req[q].at = "save_all"
  BY DEF SaveAll, IInv, TypeOK
<1>2. life # "new"
  BY <1>1, BusyAfterCreation
<1>3. req[q].tour \in TournamentRow /\ TournamentOK(life, reported, req[q].tour)
  BY <1>1 DEF Request, RequestOK
<1> QED
  BY <1>2, <1>3, IdleOK, RowTypes, StoringTournamentKeeps DEF SaveAll, Finish

\* release_match and play_tournament write the row they read, with another is_playing.
LEMMA FlagKeeps ==
    ASSUME IInv, TypeOK', NEW q \in Requests, SaveReleased(q) \/ SavePlaying(q)
    PROVE  IInv'
<1>1. req[q] \in Request /\ RequestOK(life, reported, req[q]) /\ req[q].at \in {"release", "play"}
  BY DEF SaveReleased, SavePlaying, IInv, TypeOK
<1>2. life # "new"
  BY <1>1, BusyAfterCreation
<1>3. /\ req[q].id \in Match /\ req[q].mine \in MatchRow /\ req[q].mine.stored
      /\ RowOK(reported, req[q].id, req[q].mine)
  BY <1>1 DEF Request, RequestOK
<1>4. /\ StoreMatch(req[q].id, req[q].mine) /\ Proceed(q, IdleRequest)
      /\ UNCHANGED <<life, reported>>
  BY DEF SaveReleased, SavePlaying, Finish, hist
<1>5. Grows(reported, reported') /\ WonOK(reported') /\ RowOK(reported', req[q].id, req[q].mine)
  BY <1>3, <1>4 DEF Grows, IInv
<1> QED
  BY <1>2, <1>3, <1>4, <1>5, IdleOK, RowTypes, StoringKeeps

LEMMA DeleteKeeps ==
    ASSUME IInv, TypeOK', NEW q \in Requests, DeleteTournament(q)
    PROVE  IInv'
<1>1. /\ life' = "deleted" /\ tournament' = NoTournamentRow
      /\ matches' = [m \in Match |-> NoMatchRow] /\ UNCHANGED <<announced, reported>>
      /\ req' = [req EXCEPT ![q] = IdleRequest]
  BY DEF DeleteTournament, Finish, Proceed
<1>2. Grows(reported, reported')
  BY <1>1 DEF Grows
<1>3. \A p \in Requests : RequestOK(life', reported', req'[p])
  BY <1>1, <1>2, IdleOK, RowTypes, RequestsKept
<1>4. \A m \in Match : RowOK(reported', m, matches'[m])
  BY <1>1 DEF RowOK, PlayersOK, NoMatchRow
<1>5. StoredOK' /\ AnnouncedOK(life', reported', announced')
  BY <1>1 DEF StoredOK, AnnouncedOK, RoundOver
<1>6. TournamentOK(life', reported', tournament')
  BY <1>1 DEF TournamentOK, NoTournamentRow
<1>7. WonOK(reported')
  BY <1>1 DEF IInv
<1> QED
  BY <1>3, <1>4, <1>5, <1>6, <1>7 DEF IInv

LEMMA InvStep == IInv /\ [Next]_vars => IInv'
<1> SUFFICES ASSUME IInv, [Next]_vars
             PROVE  IInv'
  OBVIOUS
<1>1. TypeOK'
  BY TypeStep DEF IInv
<1>2. ASSUME NEW q \in Requests, SaveGameResult(q)
      PROVE  IInv'
  BY <1>1, <1>2, SaveMatchKeeps, LoadTournamentKeeps, GetNextMatchKeeps, SaveNextMatchKeeps,
     CheckRoundKeeps, SaveRoundKeeps, NotifyKeeps, CheckAllKeeps, SaveAllKeeps DEF SaveGameResult
<1>3. ASSUME NEW q \in Requests, MatchRefused(q) \/ Abort(q)
      PROVE  IInv'
  <2>1. /\ req[q].at # "idle" /\ Proceed(q, IdleRequest) /\ UNCHANGED <<db, hist>>
    BY <1>3 DEF MatchRefused, Abort, MatchStatements, Finish
  <2> QED
    BY <1>1, <2>1, BusyAfterCreation, IdleOK, RowTypes, ReadingKeeps
<1>4. ASSUME UNCHANGED vars
      PROVE  IInv'
  BY <1>1, <1>4 DEF IInv, StoredOK, WonOK, AnnouncedOK, vars
<1> QED
  BY <1>1, <1>2, <1>3, <1>4, CreateKeeps, AcceptKeeps, FlagKeeps, DeleteKeeps DEF Next, Continue

-----------------------------------------------------------------------------
(* The theorems *)

\* IInv holds in every state, for any bracket, any set of requests and any bound on them.
THEOREM Inductive == Spec => []IInv
BY InitInv, InvStep, PTL DEF Spec

\* A match can be started exactly when both of its players are known, although every save
\* of save_game_result, release_match and play_tournament writes back a row read earlier.
THEOREM StartableIffPairedAlways == Spec => []StartableIffPaired
<1>1. IInv => StartableIffPaired
  BY DEF IInv, RowOK, PlayersOK, StartableIffPaired
<1> QED
  BY <1>1, Inductive, PTL

\* Nobody sits in a later match without a stored win of the match that feeds the seat
\* (assign_winner_to_next_match), whatever requests interleave or fail.
THEOREM SeatsAreWonAlways == Spec => []SeatsAreWon
<1>1. IInv => SeatsAreWon
  BY MatchFacts DEF IInv, RowOK, PlayersOK, SeatsAreWon
<1> QED
  BY <1>1, Inductive, PTL

\* The two players of a match come from its two halves of the bracket, so nobody ever
\* meets themselves (next_match_number and the odd/even rule).
THEOREM NobodyMeetsThemselvesAlways == Spec => []NobodyMeetsThemselves
<1>1. IInv => NobodyMeetsThemselves
  BY PlayersFromBelow DEF IInv, RowOK, NobodyMeetsThemselves
<1> QED
  BY <1>1, Inductive, PTL

\* The organizer is told that a round is over only after every match of it was reported,
\* unless the tournament was deleted (is_round_finished before round_finished.send).
THEOREM RoundsAnnouncedWhenOverAlways == Spec => []RoundsAnnouncedWhenOver
<1>1. IInv => RoundsAnnouncedWhenOver
  BY DEF IInv, AnnouncedOK, RoundOver, RoundsAnnouncedWhenOver, RoundReported
<1> QED
  BY <1>1, Inductive, PTL

\* A tournament is finished only after all of its matches were reported, unless it was
\* deleted (is_tournament_finished before is_finished = True).
THEOREM FinishedWhenAllReportedAlways == Spec => []FinishedWhenAllReported
<1>1. IInv => FinishedWhenAllReported
  BY DEF IInv, TournamentOK, RoundOver, FinishedWhenAllReported, RoundReported
<1> QED
  BY <1>1, Inductive, PTL

-----------------------------------------------------------------------------
(* One request at a time (SerialSpec). The invariant relates the tables to the one request *)
(* that is being served: rows, tour and told stand for matches, the row of the tournament  *)
(* and announced, r for the request.                                                       *)

\* Between storing a result and doing what follows from it.
Linking   == {"load_tournament", "get_next", "save_next"}
Marking   == Linking \union {"check_round", "save_round"}
Telling   == Marking \union {"notify"}
Reporting == Telling \union {"check_all", "save_all"}

RoundDone(rows, k) == \A m \in Match : m.round = k => rows[m].is_finished
AllDone(rows) == \A m \in Match : rows[m].is_finished

\* Where the winner of m sits next.
SeatOf(rows, m) ==
    IF GoesToPlayer1(m) THEN rows[NextMatch(m)].player1 ELSE rows[NextMatch(m)].player2

\* A match that is finished was won by one of its two players.
Played(m, row) ==
    /\ row.stored
    /\ row.is_finished <=> row.winner # NoOne
    /\ row.can_start <=> (row.player1 # NoOne /\ row.player2 # NoOne)
    /\ row.winner # NoOne => row.can_start /\ row.winner \in {row.player1, row.player2}
    /\ m.round = 1 => row.player1 = 2 * m.number - 1 /\ row.player2 = 2 * m.number

\* Every winner sits in the next match, but the one that is being assigned.
BracketOK(rows, r) ==
    /\ \A m \in Match : Played(m, rows[m])
    /\ \A m \in Match : m.round < Rounds =>
          SeatOf(rows, m) = IF r.at \in Linking /\ m = r.id THEN NoOne ELSE rows[m].winner

\* Every round that is over was announced and stored, but the one that may just have ended.
RoundsOK(rows, tour, told, r) ==
    \A k \in 1..Rounds :
       /\ told[k] = IF RoundDone(rows, k) /\ ~(r.at \in Telling /\ k = r.id.round) THEN 1 ELSE 0
       /\ k <= tour.last_finished_round
            <=> RoundDone(rows, k) /\ ~(r.at \in Marking /\ k = r.id.round)

\* What the request holds is what it would read now, with its own changes.
HoldsOK(rows, tour, r) ==
    /\ r.at = "save_match" =>
          /\ rows[r.id].can_start /\ ~rows[r.id].is_finished
          /\ \E w \in {rows[r.id].player1, rows[r.id].player2} :
                r.mine = [rows[r.id] EXCEPT !.winner = w, !.is_finished = TRUE]
    /\ r.at \in Reporting => rows[r.id].is_finished
    /\ r.at \in {"load_tournament", "get_next"} => r.mine.winner = rows[r.id].winner
    /\ r.at \in {"get_next", "save_next", "check_round", "notify", "check_all"} => r.tour = tour
    /\ r.at = "save_next" =>
          r.id.round < Rounds /\ r.next = Assign(rows[NextMatch(r.id)], r.id, rows[r.id].winner)
    /\ r.at \in {"save_round", "notify"} => RoundDone(rows, r.id.round)
    /\ r.at = "save_round" => r.tour = [tour EXCEPT !.last_finished_round = r.id.round]
    /\ r.at = "save_all" => AllDone(rows) /\ r.tour = [tour EXCEPT !.is_finished = TRUE]
    /\ r.at \in {"release", "play"} =>
          \E playing \in BOOLEAN : r.mine = [rows[r.id] EXCEPT !.is_playing = playing]
    /\ r.at = "delete" => ~tour.is_finished

Consistent(stage, rows, tour, told, r) ==
    \/ /\ stage = "created"
       /\ BracketOK(rows, r)
       /\ RoundsOK(rows, tour, told, r)
       /\ tour.stored
       /\ tour.is_finished <=> AllDone(rows) /\ r.at \notin Reporting
       /\ HoldsOK(rows, tour, r)
    \/ /\ stage # "created"
       /\ rows = [m \in Match |-> NoMatchRow]
       /\ tour = NoTournamentRow
       /\ stage = "new" => told = [k \in 1..Rounds |-> 0]
       /\ r.at = "idle"

Alone(q) == \A p \in Requests : p # q => req[p].at = "idle"

SerialInv ==
    \/ Quiet /\ Consistent(life, matches, tournament, announced, IdleRequest)
    \/ \E q \in Requests : Alone(q) /\ Consistent(life, matches, tournament, announced, req[q])

\* The feeders of m lead to m, each to its seat.
LEMMA FeedersLead ==
    ASSUME NEW m \in Match, m.round > 1
    PROVE  /\ Feeder1(m) \in Match /\ Feeder1(m).round = m.round - 1
           /\ NextMatch(Feeder1(m)) = m /\ GoesToPlayer1(Feeder1(m))
           /\ Feeder2(m) \in Match /\ Feeder2(m).round = m.round - 1
           /\ NextMatch(Feeder2(m)) = m /\ ~GoesToPlayer1(Feeder2(m))
<1>1. /\ m.round \in 1..Rounds /\ m.number \in 1..4
      /\ m = [round |-> m.round, number |-> m.number]
  BY MatchFacts
<1>2. Feeder1(m) \in Match /\ Feeder2(m) \in Match
  BY FeedersSplitSeats
<1> PICK r, n : r = m.round /\ n = m.number
  OBVIOUS
<1>3. /\ Feeder1(m).round = r - 1 /\ Feeder1(m).number = 2 * n - 1
      /\ Feeder2(m).round = r - 1 /\ Feeder2(m).number = 2 * n
  BY DEF Feeder1, Feeder2
<1>4. /\ r \in Int /\ (r - 1) + 1 = r
      /\ (2 * n - 1 + 1) \div 2 = n /\ (2 * n + 1) \div 2 = n
      /\ (2 * n - 1) % 2 = 1 /\ (2 * n) % 2 # 1
  BY <1>1, RoundsAssumption
<1>5. NextMatch(Feeder1(m)) = m /\ NextMatch(Feeder2(m)) = m
  BY <1>1, <1>3, <1>4 DEF NextMatch
<1>6. GoesToPlayer1(Feeder1(m)) /\ ~GoesToPlayer1(Feeder2(m))
  BY <1>3, <1>4 DEF GoesToPlayer1
<1> QED
  BY <1>2, <1>3, <1>5, <1>6

\* One match at most leads to a seat.
LEMMA OneFeeder ==
    ASSUME NEW m \in Match, NEW n \in Match, m.round < Rounds, n.round < Rounds,
           NextMatch(m) = NextMatch(n), GoesToPlayer1(m) <=> GoesToPlayer1(n)
    PROVE  m = n
BY NextMatchFedBy

\* Every round has a match.
LEMMA RoundsHaveMatches ==
    ASSUME NEW k \in 1..Rounds
    PROVE  \E m \in Match : m.round = k
<1>1. 1 <= MatchCount(k) /\ 1 \in 1..4
  BY DEF MatchCount
<1>2. [round |-> k, number |-> 1] \in Match
  BY <1>1, MatchFacts
<1> QED
  BY <1>2

LEMMA AllDoneByRounds ==
    ASSUME NEW rows
    PROVE  AllDone(rows) <=> \A k \in 1..Rounds : RoundDone(rows, k)
BY MatchFacts DEF AllDone, RoundDone

\* No match is finished before those that feed it.
LEMMA EarlierRounds ==
    ASSUME NEW rows, NEW r, BracketOK(rows, r),
           NEW k \in 1..Rounds, RoundDone(rows, k), NEW j \in 1..Rounds, j <= k
    PROVE  RoundDone(rows, j)
<1>1. ASSUME NEW n \in 1..Rounds, NEW i \in 1..Rounds, i + 1 = n, RoundDone(rows, n)
      PROVE  RoundDone(rows, i)
  <2> SUFFICES ASSUME NEW m \in Match, m.round = i
               PROVE  rows[m].is_finished
    BY DEF RoundDone
  <2>1. m.round < Rounds
    BY <1>1, RoundsAssumption
  <2>2. NextMatch(m) \in Match /\ NextMatch(m).round = n
    BY <1>1, <2>1, NextMatchFedBy DEF NextMatch
  <2>3. rows[NextMatch(m)].is_finished /\ Played(NextMatch(m), rows[NextMatch(m)])
    BY <1>1, <2>2 DEF RoundDone, BracketOK
  <2>4. SeatOf(rows, m) # NoOne
    BY <2>3 DEF Played, SeatOf
  <2>5. rows[m].winner # NoOne
    BY <2>1, <2>4 DEF BracketOK
  <2> QED
    BY <2>5 DEF BracketOK, Played
<1>2. CASE j = k
  BY <1>2
<1>3. CASE j + 1 = k
  BY <1>1, <1>3
<1>4. CASE j + 2 = k
  <2>1. k - 1 \in 1..Rounds /\ (k - 1) + 1 = k /\ j + 1 = k - 1
    BY <1>4, RoundsAssumption
  <2>2. RoundDone(rows, k - 1)
    BY <1>1, <2>1
  <2> QED
    BY <1>1, <2>1, <2>2
<1> QED
  BY <1>2, <1>3, <1>4, RoundsAssumption

\* The queries of the endpoints see all matches.
LEMMA QueriesSeeAll ==
    ASSUME NEW r, BracketOK(matches, r)
    PROVE  /\ \A k \in 1..Rounds : IsRoundFinished(k) <=> RoundDone(matches, k)
           /\ IsTournamentFinished <=> AllDone(matches)
           /\ \A m \in Match : matches[m].stored
BY DEF BracketOK, Played, IsRoundFinished, RoundDone, IsTournamentFinished, AllDone

-----------------------------------------------------------------------------
(* Each statement of the one request keeps the tables consistent with what it holds next *)

\* A request that holds nothing, or nothing yet that was stored.
LEMMA ConsistentAtRest ==
    ASSUME NEW stage, NEW rows, NEW tour, NEW told, NEW r, NEW s,
           Consistent(stage, rows, tour, told, r), r.at = "idle", s.at = "idle"
    PROVE  Consistent(stage, rows, tour, told, s)
<1>1. CASE stage = "created"
  <2>1. BracketOK(rows, s)
    BY <1>1 DEF Consistent, BracketOK, Linking
  <2>2. RoundsOK(rows, tour, told, s)
    BY <1>1 DEF Consistent, RoundsOK, Telling, Marking, Linking
  <2>3. HoldsOK(rows, tour, s)
    BY DEF HoldsOK, Reporting, Telling, Marking, Linking
  <2> QED
    BY <1>1, <2>1, <2>2, <2>3 DEF Consistent, Reporting, Telling, Marking, Linking
<1>2. CASE stage # "created"
  BY <1>2 DEF Consistent
<1> QED
  BY <1>1, <1>2

\* A request that has changed nothing so far.
LEMMA ConsistentTaken ==
    ASSUME NEW rows, NEW tour, NEW told, NEW r, NEW s,
           Consistent("created", rows, tour, told, r), r.at = "idle",
           s.at \in {"save_match", "release", "play", "delete"}, HoldsOK(rows, tour, s)
    PROVE  Consistent("created", rows, tour, told, s)
<1>1. BracketOK(rows, s)
  BY DEF Consistent, BracketOK, Linking
<1>2. RoundsOK(rows, tour, told, s)
  BY DEF Consistent, RoundsOK, Telling, Marking, Linking
<1> QED
  BY <1>1, <1>2 DEF Consistent, Reporting, Telling, Marking, Linking

LEMMA ConsistentFacts ==
    ASSUME NEW stage, NEW rows, NEW tour, NEW told, NEW r,
           Consistent(stage, rows, tour, told, r),
           r.at # "idle" \/ stage = "created"
    PROVE  /\ stage = "created" /\ BracketOK(rows, r) /\ RoundsOK(rows, tour, told, r)
           /\ tour.stored /\ (tour.is_finished <=> AllDone(rows) /\ r.at \notin Reporting)
           /\ HoldsOK(rows, tour, r)
BY DEF Consistent

\* A result in a round that was not over leaves what was said of the rounds right.
LEMMA ResultInRound ==
    ASSUME NEW rows, NEW new, NEW tour, NEW told, NEW r, NEW s, RoundsOK(rows, tour, told, r),
           r.at \notin Telling, r.at \notin Marking, s.at \in Telling, s.at \in Marking,
           ~RoundDone(rows, s.id.round),
           \A k : k # s.id.round => (RoundDone(new, k) <=> RoundDone(rows, k))
    PROVE  RoundsOK(new, tour, told, s)
<1> SUFFICES ASSUME NEW k \in 1..Rounds
             PROVE  /\ told[k] = IF RoundDone(new, k) /\ k # s.id.round THEN 1 ELSE 0
                    /\ k <= tour.last_finished_round <=> RoundDone(new, k) /\ k # s.id.round
  BY DEF RoundsOK
<1>1. /\ told[k] = IF RoundDone(rows, k) THEN 1 ELSE 0
      /\ k <= tour.last_finished_round <=> RoundDone(rows, k)
  BY DEF RoundsOK
<1>2. CASE k = s.id.round
  BY <1>1, <1>2
<1>3. CASE k # s.id.round
  BY <1>1, <1>3
<1> QED
  BY <1>2, <1>3

\* The result is stored: the winner sits nowhere yet, and the round was not over.
LEMMA ConsistentSaved ==
    ASSUME NEW rows \in [Match -> MatchRow], NEW tour \in TournamentRow, NEW told,
           NEW r \in Request, r.at = "save_match", Consistent("created", rows, tour, told, r)
    PROVE  Consistent("created", [rows EXCEPT ![r.id] = r.mine], tour, told,
                      [r EXCEPT !.at = "load_tournament"])
<1>0. PICK m, s, new : /\ m = r.id /\ s = [r EXCEPT !.at = "load_tournament"]
                       /\ new = [rows EXCEPT ![r.id] = r.mine]
  OBVIOUS
<1>1. m \in Match /\ s.at = "load_tournament" /\ s.id = m /\ s.mine = r.mine
  BY <1>0 DEF Request
<1>2. /\ BracketOK(rows, r) /\ RoundsOK(rows, tour, told, r) /\ HoldsOK(rows, tour, r)
      /\ tour.stored /\ (tour.is_finished => AllDone(rows))
  BY ConsistentFacts
<1>3. PICK w \in {rows[m].player1, rows[m].player2} :
         r.mine = [rows[m] EXCEPT !.winner = w, !.is_finished = TRUE]
  BY <1>0, <1>2 DEF HoldsOK
<1>4. rows[m].can_start /\ ~rows[m].is_finished
  BY <1>0, <1>2 DEF HoldsOK
<1>5. /\ r.mine.winner = w /\ r.mine.is_finished
      /\ r.mine.player1 = rows[m].player1 /\ r.mine.player2 = rows[m].player2
      /\ r.mine.can_start = rows[m].can_start /\ r.mine.stored = rows[m].stored
  BY <1>1, <1>3 DEF MatchRow
<1>6. new[m] = r.mine /\ \A n \in Match : n # m => new[n] = rows[n]
  BY <1>0, <1>1
<1>7. Played(m, rows[m]) /\ rows[m].winner = NoOne /\ w # NoOne
  BY <1>1, <1>2, <1>4 DEF BracketOK, Played
<1>8. Played(m, new[m])
  <2>1. /\ rows[m].stored /\ rows[m].player1 # NoOne /\ rows[m].player2 # NoOne
        /\ m.round = 1 =>
              rows[m].player1 = 2 * m.number - 1 /\ rows[m].player2 = 2 * m.number
    BY <1>4, <1>7 DEF Played
  <2>2. /\ new[m].stored /\ new[m].can_start /\ new[m].is_finished /\ new[m].winner = w
        /\ new[m].player1 = rows[m].player1 /\ new[m].player2 = rows[m].player2
    BY <1>4, <1>5, <1>6, <2>1
  <2> QED
    BY <1>7, <2>1, <2>2 DEF Played
<1>9. \A n \in Match : /\ new[n].player1 = rows[n].player1
                       /\ new[n].player2 = rows[n].player2
  BY <1>5, <1>6
<1>10. BracketOK(new, s)
  <2>1. \A n \in Match : Played(n, new[n])
    BY <1>2, <1>6, <1>8 DEF BracketOK
  <2>2. ASSUME NEW n \in Match, n.round < Rounds
        PROVE  SeatOf(new, n) = IF n = m THEN NoOne ELSE new[n].winner
    <3>1. SeatOf(new, n) = SeatOf(rows, n)
      BY <1>9, <2>2, NextMatchFedBy DEF SeatOf
    <3>2. SeatOf(rows, n) = rows[n].winner
      BY <1>2, <2>2 DEF BracketOK, Linking
    <3> QED
      BY <1>6, <1>7, <3>1, <3>2
  <2> QED
    BY <1>1, <2>1, <2>2 DEF BracketOK, Linking
<1>11. \A k : k # m.round => (RoundDone(new, k) <=> RoundDone(rows, k))
  BY <1>6 DEF RoundDone
<1>12. ~RoundDone(rows, m.round) /\ ~AllDone(rows)
  BY <1>1, <1>4 DEF RoundDone, AllDone
<1>13. RoundsOK(new, tour, told, s)
  <2>1. /\ r.at \notin Telling /\ r.at \notin Marking
        /\ s.at \in Telling /\ s.at \in Marking /\ s.id.round = m.round
    BY <1>1 DEF Telling, Marking, Linking
  <2> QED
    <3>1. /\ ~RoundDone(rows, s.id.round)
          /\ \A k : k # s.id.round => (RoundDone(new, k) <=> RoundDone(rows, k))
      BY <1>11, <1>12, <2>1
    <3> QED
      BY <1>2, <2>1, <3>1, ResultInRound, Zenon
<1>14. HoldsOK(new, tour, s)
  BY <1>1, <1>5, <1>6 DEF HoldsOK, Reporting, Telling, Marking, Linking
<1>15. Consistent("created", new, tour, told, s)
  BY <1>1, <1>2, <1>10, <1>12, <1>13, <1>14
     DEF Consistent, Reporting, Telling, Marking, Linking
<1> QED
  BY <1>0, <1>15

\* At a statement of the same stage of the same request the tables are related as before.
LEMMA SameStage ==
    ASSUME NEW rows, NEW tour, NEW told, NEW r, NEW s, s.id = r.id,
           BracketOK(rows, r), RoundsOK(rows, tour, told, r),
           s.at \in Linking <=> r.at \in Linking, s.at \in Marking <=> r.at \in Marking,
           s.at \in Telling <=> r.at \in Telling
    PROVE  BracketOK(rows, s) /\ RoundsOK(rows, tour, told, s)
BY DEF BracketOK, RoundsOK

\* The tournament is read; there is a winner to assign.
LEMMA ConsistentLoaded ==
    ASSUME NEW rows, NEW tour, NEW told, NEW r \in Request, NEW s,
           r.at = "load_tournament", Consistent("created", rows, tour, told, r)
    PROVE  /\ r.mine.winner # NoOne
           /\ /\ s.at = "get_next" /\ s.id = r.id /\ s.mine = r.mine /\ s.tour = tour
              => Consistent("created", rows, tour, told, s)
<1>1. /\ BracketOK(rows, r) /\ RoundsOK(rows, tour, told, r) /\ HoldsOK(rows, tour, r)
      /\ tour.stored /\ ~tour.is_finished
  BY ConsistentFacts DEF Reporting, Telling, Marking, Linking
<1>2. r.id \in Match /\ rows[r.id].is_finished /\ r.mine.winner = rows[r.id].winner
  BY <1>1 DEF HoldsOK, Request, Reporting, Telling, Marking, Linking
<1>3. r.mine.winner # NoOne
  BY <1>1, <1>2 DEF BracketOK, Played
<1>4. ASSUME s.at = "get_next", s.id = r.id, s.mine = r.mine, s.tour = tour
      PROVE  Consistent("created", rows, tour, told, s)
  <2>1. BracketOK(rows, s) /\ RoundsOK(rows, tour, told, s)
    BY <1>1, <1>4, SameStage DEF Telling, Marking, Linking
  <2>2. HoldsOK(rows, tour, s)
    BY <1>2, <1>4 DEF HoldsOK
  <2> QED
    BY <1>1, <1>4, <2>1, <2>2 DEF Consistent, Reporting, Telling, Marking, Linking
<1> QED
  BY <1>3, <1>4

\* The next match is read, with the winner in its seat; the final has none.
LEMMA ConsistentRead ==
    ASSUME NEW rows, NEW tour, NEW told, NEW r \in Request, NEW s,
           r.at = "get_next", Consistent("created", rows, tour, told, r),
           s.id = r.id, s.tour = r.tour,
           \/ /\ r.id.round < Rounds /\ s.at = "save_next"
              /\ s.next = Assign(rows[NextMatch(r.id)], r.id, r.mine.winner)
           \/ ~(r.id.round < Rounds) /\ s.at = "check_round"
    PROVE  Consistent("created", rows, tour, told, s)
<1>1. /\ BracketOK(rows, r) /\ RoundsOK(rows, tour, told, r) /\ HoldsOK(rows, tour, r)
      /\ tour.stored /\ ~tour.is_finished
  BY ConsistentFacts DEF Reporting, Telling, Marking, Linking
<1>2. rows[r.id].is_finished /\ r.mine.winner = rows[r.id].winner /\ r.tour = tour
  BY <1>1 DEF HoldsOK, Reporting, Telling, Marking, Linking
<1>3. CASE s.at = "save_next"
  <2>1. BracketOK(rows, s) /\ RoundsOK(rows, tour, told, s)
    BY <1>1, <1>3, SameStage DEF Telling, Marking, Linking
  <2>2. HoldsOK(rows, tour, s)
    BY <1>2, <1>3 DEF HoldsOK
  <2> QED
    BY <1>1, <1>3, <2>1, <2>2 DEF Consistent, Reporting, Telling, Marking, Linking
<1>4. CASE s.at = "check_round"
  <2>1. BracketOK(rows, s)
    BY <1>1, <1>4 DEF BracketOK, Linking
  <2>2. RoundsOK(rows, tour, told, s)
    BY <1>1, <1>4 DEF RoundsOK, Telling, Marking, Linking
  <2>3. HoldsOK(rows, tour, s)
    BY <1>2, <1>4 DEF HoldsOK
  <2> QED
    BY <1>1, <1>4, <2>1, <2>2, <2>3 DEF Consistent, Reporting, Telling, Marking, Linking
<1> QED
  BY <1>3, <1>4

\* A row with the winner of m in the seat m leads to, which was free.
LEMMA AssignedRow ==
    ASSUME NEW row \in MatchRow, NEW m \in Match, NEW w \in Seats,
           (IF GoesToPlayer1(m) THEN row.player1 ELSE row.player2) = NoOne
    PROVE  LET new == Assign(row, m, w)
           IN  /\ GoesToPlayer1(m) => new.player1 = w /\ new.player2 = row.player2
               /\ ~GoesToPlayer1(m) => new.player2 = w /\ new.player1 = row.player1
               /\ new.stored = row.stored /\ new.winner = row.winner
               /\ new.is_finished = row.is_finished
               /\ ~row.can_start =>
                     (new.can_start <=> (new.player1 # NoOne /\ new.player2 # NoOne))
<1>1. CASE GoesToPlayer1(m)
  BY <1>1 DEF Assign, SeatIn, MatchRow, NoOne, Seats
<1>2. CASE ~GoesToPlayer1(m)
  BY <1>2 DEF Assign, SeatIn, MatchRow, NoOne, Seats
<1> QED
  BY <1>1, <1>2

\* The winner sits in the next match, which was not played yet.
LEMMA ConsistentSeated ==
    ASSUME NEW rows \in [Match -> MatchRow], NEW tour, NEW told, NEW r \in Request, NEW s,
           r.at = "save_next", Consistent("created", rows, tour, told, r),
           s.id = r.id, s.tour = r.tour, s.at = "check_round"
    PROVE  Consistent("created", [rows EXCEPT ![NextMatch(r.id)] = r.next], tour, told, s)
<1> PICK m, n, new : m = r.id /\ n = NextMatch(m) /\ new = [rows EXCEPT ![n] = r.next]
  OBVIOUS
<1>1. /\ BracketOK(rows, r) /\ RoundsOK(rows, tour, told, r) /\ HoldsOK(rows, tour, r)
      /\ tour.stored /\ ~tour.is_finished
  BY ConsistentFacts DEF Reporting, Telling, Marking, Linking
<1>2. /\ m \in Match /\ m.round < Rounds /\ rows[m].is_finished
      /\ r.tour = tour /\ r.next = Assign(rows[n], m, rows[m].winner)
  BY <1>1 DEF HoldsOK, Request, Reporting, Telling, Marking, Linking
<1>3. n \in Match /\ n.round = m.round + 1 /\ n # m
  <2>1. n \in Match /\ n.round = m.round + 1
    BY <1>2, NextMatchFedBy DEF NextMatch
  <2>2. m.round + 1 # m.round
    BY <1>2, MatchFacts, RoundsAssumption
  <2> QED
    BY <2>1, <2>2
<1>4. SeatOf(rows, m) = NoOne
  BY <1>1, <1>2 DEF BracketOK, Linking
<1>5. rows[m].winner \in Seats
  <2>1. rows[m].winner # NoOne
    BY <1>1, <1>2 DEF BracketOK, Played
  <2> QED
    BY <1>2, <2>1 DEF MatchRow
<1>6. Played(n, rows[n]) /\ rows[n] \in MatchRow
  BY <1>1, <1>3 DEF BracketOK
<1>7. (IF GoesToPlayer1(m) THEN rows[n].player1 ELSE rows[n].player2) = NoOne
  BY <1>4 DEF SeatOf
<1>8. ~rows[n].can_start /\ rows[n].winner = NoOne /\ ~rows[n].is_finished
  BY <1>6, <1>7 DEF Played
<1>9. new[n] = r.next /\ \A x \in Match : x # n => new[x] = rows[x]
  BY <1>3
<1>10. /\ GoesToPlayer1(m) => new[n].player1 = rows[m].winner /\ new[n].player2 = rows[n].player2
       /\ ~GoesToPlayer1(m) => new[n].player2 = rows[m].winner /\ new[n].player1 = rows[n].player1
       /\ new[n].stored = rows[n].stored /\ new[n].winner = rows[n].winner
       /\ new[n].is_finished = rows[n].is_finished
       /\ new[n].can_start <=> (new[n].player1 # NoOne /\ new[n].player2 # NoOne)
  BY <1>2, <1>5, <1>6, <1>7, <1>8, <1>9, AssignedRow
<1>11. n.round # 1
  BY <1>2, <1>3, MatchFacts, RoundsAssumption
<1>12. Played(n, new[n])
  BY <1>6, <1>8, <1>10, <1>11 DEF Played
<1>13. \A x \in Match : /\ new[x].winner = rows[x].winner
                        /\ new[x].is_finished = rows[x].is_finished
  BY <1>9, <1>10
<1>14. BracketOK(new, s)
  <2>1. \A x \in Match : Played(x, new[x])
    BY <1>1, <1>9, <1>12 DEF BracketOK
  <2>2. ASSUME NEW x \in Match, x.round < Rounds
        PROVE  SeatOf(new, x) = new[x].winner
    <3>1. CASE x = m
      BY <1>3, <1>10, <1>13, <3>1 DEF SeatOf
    <3>2. CASE x # m
      <4>1. SeatOf(rows, x) = rows[x].winner
        BY <1>1, <2>2, <3>2 DEF BracketOK
      <4>2. CASE NextMatch(x) = n
        <5>1. ~(GoesToPlayer1(x) <=> GoesToPlayer1(m))
          BY <1>2, <2>2, <3>2, <4>2, OneFeeder
        <5>2. SeatOf(new, x) = SeatOf(rows, x)
          BY <1>10, <4>2, <5>1 DEF SeatOf
        <5> QED
          BY <1>13, <4>1, <5>2
      <4>3. CASE NextMatch(x) # n
        <5>1. NextMatch(x) \in Match
          BY <2>2, NextMatchFedBy
        <5>2. SeatOf(new, x) = SeatOf(rows, x)
          BY <1>9, <4>3, <5>1 DEF SeatOf
        <5> QED
          BY <1>13, <4>1, <5>2
      <4> QED
        BY <4>2, <4>3
    <3> QED
      BY <3>1, <3>2
  <2> QED
    BY <2>1, <2>2 DEF BracketOK, Linking
<1>15. \A k : RoundDone(new, k) <=> RoundDone(rows, k)
  BY <1>13 DEF RoundDone
<1>16. RoundsOK(new, tour, told, s)
  BY <1>1, <1>15 DEF RoundsOK, Telling, Marking, Linking
<1>17. HoldsOK(new, tour, s)
  BY <1>2, <1>13 DEF HoldsOK
<1>18. Consistent("created", new, tour, told, s)
  BY <1>1, <1>14, <1>16, <1>17 DEF Consistent, Reporting, Telling, Marking, Linking
<1> QED
  BY <1>18

\* The round is looked at: it is over, or nothing is left to say about it.
LEMMA ConsistentChecked ==
    ASSUME NEW rows, NEW tour, NEW told, NEW r \in Request, NEW s,
           r.at = "check_round", Consistent("created", rows, tour, told, r), s.id = r.id,
           \/ /\ RoundDone(rows, r.id.round) /\ s.at = "save_round"
              /\ s.tour = [r.tour EXCEPT !.last_finished_round = r.id.round]
           \/ ~RoundDone(rows, r.id.round) /\ s.at = "check_all" /\ s.tour = r.tour
    PROVE  Consistent("created", rows, tour, told, s)
<1>1. /\ BracketOK(rows, r) /\ RoundsOK(rows, tour, told, r) /\ HoldsOK(rows, tour, r)
      /\ tour.stored /\ ~tour.is_finished
  BY ConsistentFacts DEF Reporting, Telling, Marking, Linking
<1>2. rows[r.id].is_finished /\ r.tour = tour
  BY <1>1 DEF HoldsOK, Reporting, Telling, Marking, Linking
<1>3. CASE s.at = "save_round"
  <2>1. BracketOK(rows, s) /\ RoundsOK(rows, tour, told, s)
    BY <1>1, <1>3, SameStage DEF Telling, Marking, Linking
  <2>2. HoldsOK(rows, tour, s)
    BY <1>2, <1>3 DEF HoldsOK
  <2> QED
    BY <1>1, <1>3, <2>1, <2>2 DEF Consistent, Reporting, Telling, Marking, Linking
<1>4. CASE s.at = "check_all"
  <2>1. BracketOK(rows, s)
    BY <1>1, <1>4 DEF BracketOK, Linking
  <2>2. RoundsOK(rows, tour, told, s)
    BY <1>1, <1>4 DEF RoundsOK, Telling, Marking, Linking
  <2>3. HoldsOK(rows, tour, s)
    BY <1>2, <1>4 DEF HoldsOK
  <2> QED
    BY <1>1, <1>4, <2>1, <2>2, <2>3 DEF Consistent, Reporting, Telling, Marking, Linking
<1> QED
  BY <1>3, <1>4

\* The round is stored as the last one that is over: all earlier ones are, no later one is.
LEMMA ConsistentMarked ==
    ASSUME NEW rows, NEW tour \in TournamentRow, NEW told, NEW r \in Request, NEW s,
           r.at = "save_round", Consistent("created", rows, tour, told, r),
           s.id = r.id, s.tour = r.tour, s.at = "notify"
    PROVE  Consistent("created", rows, r.tour, told, s)
<1>1. /\ BracketOK(rows, r) /\ RoundsOK(rows, tour, told, r) /\ HoldsOK(rows, tour, r)
      /\ tour.stored /\ ~tour.is_finished
  BY ConsistentFacts DEF Reporting, Telling, Marking, Linking
<1> PICK over, row : over = r.id.round /\ row = r.tour
  OBVIOUS
<1>2. /\ rows[r.id].is_finished /\ RoundDone(rows, over)
      /\ row = [tour EXCEPT !.last_finished_round = over]
  BY <1>1 DEF HoldsOK, Reporting, Telling, Marking, Linking
<1>3. row.last_finished_round = over /\ row.stored /\ ~row.is_finished
  BY <1>1, <1>2 DEF TournamentRow
<1>4. over \in 1..Rounds
  BY MatchFacts DEF Request
<1>5. tour.last_finished_round \in Int
  BY RoundsAssumption DEF TournamentRow
<1>6. \A k \in 1..Rounds : k <= tour.last_finished_round <=> RoundDone(rows, k) /\ k # over
  BY <1>1 DEF RoundsOK, Marking, Linking
<1>7. ASSUME NEW k \in 1..Rounds
      PROVE  k <= over <=> RoundDone(rows, k)
  <2>1. CASE k <= over
    BY <1>1, <1>2, <1>4, <2>1, EarlierRounds
  <2>2. CASE ~(k <= over)
    <3>1. ~(over <= tour.last_finished_round)
      BY <1>4, <1>6
    <3>2. ~(k <= tour.last_finished_round) /\ k # over
      BY <1>4, <1>5, <2>2, <3>1, RoundsAssumption
    <3> QED
      BY <1>6, <2>2, <3>2
  <2> QED
    BY <2>1, <2>2
<1>8. BracketOK(rows, s)
  BY <1>1 DEF BracketOK, Linking
<1>9. RoundsOK(rows, row, told, s)
  <2>1. s.at \in Telling /\ s.at \notin Marking /\ s.id.round = over
    BY DEF Telling, Marking, Linking
  <2>2. \A k \in 1..Rounds :
           told[k] = IF RoundDone(rows, k) /\ ~(s.at \in Telling /\ k = s.id.round) THEN 1 ELSE 0
    BY <1>1, <2>1 DEF RoundsOK, Telling, Marking
  <2>3. \A k \in 1..Rounds :
           k <= row.last_finished_round
             <=> RoundDone(rows, k) /\ ~(s.at \in Marking /\ k = s.id.round)
    BY <1>3, <1>7, <2>1
  <2> QED
    BY <2>2, <2>3 DEF RoundsOK
<1>10. HoldsOK(rows, row, s)
  BY <1>2 DEF HoldsOK
<1>11. Consistent("created", rows, row, told, s)
  BY <1>3, <1>8, <1>9, <1>10 DEF Consistent, Reporting, Telling, Marking, Linking
<1> QED
  BY <1>11

\* The organizer is told, once.
LEMMA ConsistentTold ==
    ASSUME NEW rows, NEW tour, NEW told \in [1..Rounds -> 0..Many], NEW r \in Request, NEW s,
           r.at = "notify", Consistent("created", rows, tour, told, r),
           s.id = r.id, s.tour = r.tour, s.at = "check_all"
    PROVE  /\ told[r.id.round] = 0 /\ RoundDone(rows, r.id.round)
           /\ Consistent("created", rows, tour, [told EXCEPT ![r.id.round] = 1], s)
<1>1. /\ BracketOK(rows, r) /\ RoundsOK(rows, tour, told, r) /\ HoldsOK(rows, tour, r)
      /\ tour.stored /\ ~tour.is_finished
  BY ConsistentFacts DEF Reporting, Telling, Marking, Linking
<1> PICK over, new : over = r.id.round /\ new = [told EXCEPT ![r.id.round] = 1]
  OBVIOUS
<1>2. rows[r.id].is_finished /\ RoundDone(rows, over) /\ r.tour = tour
  BY <1>1 DEF HoldsOK, Reporting, Telling, Marking, Linking
<1>3. over \in 1..Rounds
  BY MatchFacts DEF Request
<1>4. told[over] = 0
  BY <1>1, <1>3 DEF RoundsOK, Telling
<1>5. new[over] = 1 /\ \A k \in 1..Rounds : k # over => new[k] = told[k]
  BY <1>3
<1>6. BracketOK(rows, s)
  BY <1>1 DEF BracketOK, Linking
<1>7. RoundsOK(rows, tour, new, s)
  <2>1. \A k \in 1..Rounds : new[k] = IF RoundDone(rows, k) THEN 1 ELSE 0
    BY <1>1, <1>2, <1>5 DEF RoundsOK
  <2>2. \A k \in 1..Rounds : k <= tour.last_finished_round <=> RoundDone(rows, k)
    BY <1>1 DEF RoundsOK, Marking, Linking
  <2> QED
    BY <2>1, <2>2 DEF RoundsOK, Telling, Marking, Linking
<1>8. HoldsOK(rows, tour, s)
  BY <1>2 DEF HoldsOK
<1>9. Consistent("created", rows, tour, new, s)
  BY <1>1, <1>6, <1>7, <1>8 DEF Consistent, Reporting, Telling, Marking, Linking
<1> QED
  BY <1>2, <1>4, <1>9

\* All matches are looked at: the tournament is over, or the request is.
LEMMA ConsistentDecided ==
    ASSUME NEW rows, NEW tour, NEW told, NEW r \in Request, NEW s,
           r.at = "check_all", Consistent("created", rows, tour, told, r),
           \/ /\ AllDone(rows) /\ s.at = "save_all" /\ s.id = r.id
              /\ s.tour = [r.tour EXCEPT !.is_finished = TRUE]
           \/ ~AllDone(rows) /\ s.at = "idle"
    PROVE  Consistent("created", rows, tour, told, s)
<1>1. /\ BracketOK(rows, r) /\ RoundsOK(rows, tour, told, r) /\ HoldsOK(rows, tour, r)
      /\ tour.stored /\ ~tour.is_finished
  BY ConsistentFacts DEF Reporting, Telling, Marking, Linking
<1>2. r.tour = tour /\ rows[r.id].is_finished
  BY <1>1 DEF HoldsOK, Reporting, Telling, Marking, Linking
<1>3. BracketOK(rows, s)
  BY <1>1 DEF BracketOK, Linking
<1>4. RoundsOK(rows, tour, told, s)
  BY <1>1 DEF RoundsOK, Telling, Marking, Linking
<1>5. CASE s.at = "save_all"
  <2>1. HoldsOK(rows, tour, s)
    BY <1>2, <1>5 DEF HoldsOK
  <2> QED
    BY <1>1, <1>3, <1>4, <1>5, <2>1 DEF Consistent, Reporting, Telling, Marking, Linking
<1>6. CASE s.at = "idle"
  <2>1. HoldsOK(rows, tour, s)
    BY <1>6 DEF HoldsOK, Reporting, Telling, Marking, Linking
  <2> QED
    BY <1>1, <1>3, <1>4, <1>6, <2>1 DEF Consistent, Reporting, Telling, Marking, Linking
<1> QED
  BY <1>5, <1>6

\* The tournament is closed; every round of it was announced.
LEMMA ConsistentClosed ==
    ASSUME NEW rows, NEW tour \in TournamentRow, NEW told, NEW r \in Request, NEW s,
           r.at = "save_all", Consistent("created", rows, tour, told, r), s.at = "idle"
    PROVE  /\ r.tour.is_finished /\ \A k \in 1..Rounds : told[k] = 1
           /\ Consistent("created", rows, r.tour, told, s)
<1>1. /\ BracketOK(rows, r) /\ RoundsOK(rows, tour, told, r) /\ HoldsOK(rows, tour, r)
      /\ tour.stored
  BY ConsistentFacts
<1> PICK row : row = r.tour
  OBVIOUS
<1>2. AllDone(rows) /\ row = [tour EXCEPT !.is_finished = TRUE]
  BY <1>1 DEF HoldsOK
<1>3. row.is_finished /\ row.stored /\ row.last_finished_round = tour.last_finished_round
  BY <1>1, <1>2 DEF TournamentRow
<1>4. \A k \in 1..Rounds : told[k] = 1
  <2>1. \A k \in 1..Rounds : RoundDone(rows, k)
    BY <1>2, AllDoneByRounds
  <2> QED
    BY <1>1, <2>1 DEF RoundsOK, Telling, Marking, Linking
<1>5. BracketOK(rows, s)
  BY <1>1 DEF BracketOK, Linking
<1>6. RoundsOK(rows, row, told, s)
  BY <1>1, <1>3 DEF RoundsOK, Telling, Marking, Linking
<1>7. HoldsOK(rows, row, s)
  BY DEF HoldsOK, Reporting, Telling, Marking, Linking
<1>8. Consistent("created", rows, row, told, s)
  BY <1>2, <1>3, <1>5, <1>6, <1>7 DEF Consistent, Reporting, Telling, Marking, Linking
<1> QED
  BY <1>3, <1>4, <1>8

\* The flag of a match is stored, with the rest of its row as it is.
LEMMA ConsistentFlagged ==
    ASSUME NEW rows \in [Match -> MatchRow], NEW tour, NEW told, NEW r \in Request, NEW s,
           r.at = "release" \/ r.at = "play", Consistent("created", rows, tour, told, r),
           s.at = "idle", NEW new, new[r.id] = r.mine,
           \A m \in Match : m # r.id => new[m] = rows[m]
    PROVE  /\ \A m \in Match : new[m].winner = rows[m].winner
           /\ Consistent("created", new, tour, told, s)
<1> PICK m : m = r.id
  OBVIOUS
<1>1. /\ BracketOK(rows, r) /\ RoundsOK(rows, tour, told, r) /\ HoldsOK(rows, tour, r)
      /\ tour.stored /\ (tour.is_finished <=> AllDone(rows))
  BY ConsistentFacts DEF Reporting, Telling, Marking, Linking
<1>2. m \in Match
  BY DEF Request
<1>3. PICK playing \in BOOLEAN : r.mine = [rows[m] EXCEPT !.is_playing = playing]
  BY <1>1 DEF HoldsOK
<1>4. \A n \in Match :
         /\ new[n].stored = rows[n].stored /\ new[n].winner = rows[n].winner
         /\ new[n].player1 = rows[n].player1 /\ new[n].player2 = rows[n].player2
         /\ new[n].is_finished = rows[n].is_finished /\ new[n].can_start = rows[n].can_start
  BY <1>2, <1>3 DEF MatchRow
<1>5. BracketOK(new, s)
  <2>1. \A n \in Match : Played(n, new[n])
    BY <1>1, <1>4 DEF BracketOK, Played
  <2>2. ASSUME NEW n \in Match, n.round < Rounds
        PROVE  SeatOf(new, n) = new[n].winner
    <3>1. SeatOf(new, n) = SeatOf(rows, n)
      BY <1>4, <2>2, NextMatchFedBy DEF SeatOf
    <3>2. SeatOf(rows, n) = rows[n].winner
      BY <1>1, <2>2 DEF BracketOK, Linking
    <3> QED
      BY <1>4, <3>1, <3>2
  <2> QED
    BY <2>1, <2>2 DEF BracketOK, Linking
<1>6. /\ \A k : RoundDone(new, k) <=> RoundDone(rows, k)
      /\ AllDone(new) <=> AllDone(rows)
  BY <1>4 DEF RoundDone, AllDone
<1>7. RoundsOK(new, tour, told, s)
  BY <1>1, <1>6 DEF RoundsOK, Telling, Marking, Linking
<1>8. HoldsOK(new, tour, s)
  BY DEF HoldsOK, Reporting, Telling, Marking, Linking
<1>9. Consistent("created", new, tour, told, s)
  BY <1>1, <1>5, <1>6, <1>7, <1>8 DEF Consistent, Reporting, Telling, Marking, Linking
<1> QED
  BY <1>4, <1>9

\* A tournament that is created has all its matches, those of the first round startable.
LEMMA ConsistentCreated ==
    ASSUME NEW told, NEW s, s.at = "idle", told = [k \in 1..Rounds |-> 0]
    PROVE  Consistent("created", [m \in Match |-> NewMatchRow(m)],
                      [NoTournamentRow EXCEPT !.stored = TRUE], told, s)
<1> PICK rows, tour : /\ rows = [m \in Match |-> NewMatchRow(m)]
                      /\ tour = [NoTournamentRow EXCEPT !.stored = TRUE]
  OBVIOUS
<1>1. tour.stored /\ ~tour.is_finished /\ tour.last_finished_round = -1
  BY DEF NoTournamentRow
<1>2. ASSUME NEW m \in Match
      PROVE  /\ rows[m].stored /\ rows[m].winner = NoOne /\ ~rows[m].is_finished
             /\ rows[m].can_start <=> m.round = 1
             /\ m.round = 1 => rows[m].player1 = 2 * m.number - 1 /\ rows[m].player2 = 2 * m.number
             /\ m.round # 1 => rows[m].player1 = NoOne /\ rows[m].player2 = NoOne
  BY DEF NewMatchRow, NoMatchRow
<1>3. \A m \in Match : m.round = 1 => rows[m].player1 # NoOne /\ rows[m].player2 # NoOne
  <2> SUFFICES ASSUME NEW m \in Match, m.round = 1
               PROVE  rows[m].player1 # NoOne /\ rows[m].player2 # NoOne
    OBVIOUS
  <2>1. m.number \in 1..4
    BY MatchFacts
  <2>2. 2 * m.number - 1 # 0 /\ 2 * m.number # 0
    BY <2>1
  <2> QED
    BY <1>2, <2>2 DEF NoOne
<1>4. \A m \in Match : Played(m, rows[m])
  <2> SUFFICES ASSUME NEW m \in Match
               PROVE  Played(m, rows[m])
    OBVIOUS
  <2>1. rows[m].can_start <=> (rows[m].player1 # NoOne /\ rows[m].player2 # NoOne)
    BY <1>2, <1>3
  <2> QED
    BY <1>2, <2>1 DEF Played
<1>5. \A m \in Match : m.round < Rounds => SeatOf(rows, m) = NoOne
  <2> SUFFICES ASSUME NEW m \in Match, m.round < Rounds
               PROVE  SeatOf(rows, m) = NoOne
    OBVIOUS
  <2>1. NextMatch(m) \in Match /\ NextMatch(m).round = m.round + 1
    BY NextMatchFedBy DEF NextMatch
  <2>2. NextMatch(m).round # 1
    BY <2>1, MatchFacts, RoundsAssumption
  <2> QED
    BY <1>2, <2>1, <2>2 DEF SeatOf
<1>6. BracketOK(rows, s)
  BY <1>2, <1>4, <1>5 DEF BracketOK, Linking
<1>7. \A k \in 1..Rounds : ~RoundDone(rows, k)
  BY <1>2, RoundsHaveMatches DEF RoundDone
<1>8. ~AllDone(rows)
  <2>1. 1 \in 1..Rounds
    BY RoundsAssumption
  <2> QED
    BY <1>7, <2>1, AllDoneByRounds
<1>9. RoundsOK(rows, tour, told, s)
  <2>1. \A k \in 1..Rounds : ~(k <= tour.last_finished_round)
    BY <1>1, RoundsAssumption
  <2> QED
    BY <1>7, <2>1 DEF RoundsOK
<1>10. HoldsOK(rows, tour, s)
  BY DEF HoldsOK, Reporting, Telling, Marking, Linking
<1>11. Consistent("created", rows, tour, told, s)
  BY <1>1, <1>6, <1>8, <1>9, <1>10 DEF Consistent
<1> QED
  BY <1>11

-----------------------------------------------------------------------------
(* The steps of SerialSpec keep the invariant, and each is a step of the knockout tournament *)
(* or none.                                                                                  *)

Winners == [m \in Match |-> matches[m].winner]

promiseVars == <<Status, Winners, announced>>

\* Whoever is being served is served alone, in a tournament that exists.
LEMMA ServedAlone ==
    ASSUME SerialInv, NEW q \in Requests, req[q].at # "idle"
    PROVE  /\ Alone(q) /\ life = "created"
           /\ Consistent("created", matches, tournament, announced, req[q])
<1>1. PICK p \in Requests :
         Alone(p) /\ Consistent(life, matches, tournament, announced, req[p])
  BY DEF SerialInv, Quiet
<1>2. p = q
  BY <1>1 DEF Alone
<1>3. life = "created"
  BY <1>1, <1>2, ConsistentFacts
<1> QED
  BY <1>1, <1>2, <1>3

LEMMA NobodyServed ==
    ASSUME SerialInv, Quiet
    PROVE  Consistent(life, matches, tournament, announced, IdleRequest)
<1>1. IdleRequest.at = "idle"
  BY DEF IdleRequest
<1>2. CASE Consistent(life, matches, tournament, announced, IdleRequest)
  BY <1>2
<1>3. ASSUME NEW q \in Requests, Consistent(life, matches, tournament, announced, req[q])
      PROVE  Consistent(life, matches, tournament, announced, IdleRequest)
  <2>1. req[q].at = "idle"
    BY DEF Quiet
  <2> QED
    BY <1>1, <1>3, <2>1, ConsistentAtRest
<1> QED
  BY <1>2, <1>3 DEF SerialInv

\* What is left to show of a step of the one request.
LEMMA ServesOn ==
    ASSUME TypeOK, NEW q \in Requests, Alone(q), NEW r, req' = [req EXCEPT ![q] = r],
           Consistent(life', matches', tournament', announced', r)
    PROVE  SerialInv'
<1>1. req'[q] = r /\ \A p \in Requests : p # q => req'[p] = req[p]
  BY DEF TypeOK
<1>2. \A p \in Requests : p # q => req'[p].at = "idle"
  BY <1>1 DEF Alone
<1>3. Alone(q)'
  BY <1>2 DEF Alone
<1>4. Consistent(life', matches', tournament', announced', req'[q])
  BY <1>1
<1> QED
  BY <1>3, <1>4 DEF SerialInv

LEMMA StatusIs ==
    /\ life = "new" => Status = "new"
    /\ life = "deleted" => Status = "cancelled"
    /\ life = "created" /\ tournament.is_finished => Status = "over"
    /\ life = "created" /\ ~tournament.is_finished => Status = "open"
BY DEF Status

\* The knockout tournament is played in the same bracket.
LEMMA SameBracket == Promise!Match = Match /\ Promise!NoOne = NoOne
<1>1. \A k : Promise!MatchCount(k) = MatchCount(k)
  BY DEF Promise!MatchCount, MatchCount
<1>2. Promise!Match = Match
  BY <1>1 DEF Promise!Match, Match
<1> QED
  BY <1>2 DEF Promise!NoOne, NoOne

\* A step that stores no result, and nothing of the tournament but its last round.
LEMMA Stutters ==
    ASSUME UNCHANGED <<life, announced>>, tournament'.is_finished = tournament.is_finished,
           \A m \in Match : matches'[m].winner = matches[m].winner
    PROVE  UNCHANGED promiseVars
<1>1. Status' = Status
  BY DEF Status
<1>2. Winners' = Winners
  BY DEF Winners
<1> QED
  BY <1>1, <1>2 DEF promiseVars

\* With every winner in its seat, the players of a match are those the bracket says.
LEMMA PlayersAreContenders ==
    ASSUME NEW r, BracketOK(matches, r), r.at \notin Linking, NEW m \in Match
    PROVE  /\ Promise!Contender1(m) = matches[m].player1
           /\ Promise!Contender2(m) = matches[m].player2
<1>1. CASE m.round = 1
  <2>1. Played(m, matches[m])
    BY DEF BracketOK
  <2> QED
    BY <1>1, <2>1 DEF Played, Promise!Contender1, Promise!Contender2
<1>2. CASE m.round # 1
  <2>1. m.round \in 1..Rounds /\ m.round > 1
    BY <1>2, MatchFacts, RoundsAssumption
  <2>2. m.round - 1 < Rounds
    BY <2>1, RoundsAssumption
  <2>3. /\ SeatOf(matches, Feeder1(m)) = matches[Feeder1(m)].winner
        /\ SeatOf(matches, Feeder2(m)) = matches[Feeder2(m)].winner
    BY <2>1, <2>2, FeedersLead DEF BracketOK
  <2>4. /\ SeatOf(matches, Feeder1(m)) = matches[m].player1
        /\ SeatOf(matches, Feeder2(m)) = matches[m].player2
    BY <2>1, FeedersLead DEF SeatOf
  <2>5. Feeder1(m) \in Match /\ Feeder2(m) \in Match
    BY <2>1, FeedersLead
  <2>6. /\ Promise!Contender1(m) = matches[Feeder1(m)].winner
        /\ Promise!Contender2(m) = matches[Feeder2(m)].winner
    BY <1>2, <2>5 DEF Promise!Contender1, Promise!Contender2, Promise!Feeder1, Promise!Feeder2,
          Feeder1, Feeder2
  <2> QED
    BY <2>3, <2>4, <2>6
<1> QED
  BY <1>1, <1>2

LEMMA SerialInit == Init => SerialInv /\ Promise!Init
<1> SUFFICES ASSUME Init
             PROVE  SerialInv /\ Promise!Init
  OBVIOUS
<1>1. Quiet
  BY DEF Init, Quiet, IdleRequest
<1>2. Consistent(life, matches, tournament, announced, IdleRequest)
  <2>1. IdleRequest.at = "idle"
    BY DEF IdleRequest
  <2> QED
    BY <2>1 DEF Init, Consistent
<1>3. Promise!Init
  <2>1. Status = "new"
    BY StatusIs DEF Init
  <2>2. [m \in Match |-> matches[m].winner] = [m \in Match |-> NoOne]
    BY DEF Init, NoMatchRow
  <2> QED
    BY <2>1, <2>2, SameBracket DEF Init, Promise!Init
<1> QED
  BY <1>1, <1>2, <1>3 DEF SerialInv

LEMMA CreateSerial ==
    ASSUME TypeOK, SerialInv, CreateTournament
    PROVE  SerialInv' /\ Promise!Open
<1>1. life = "new" /\ life' = "created"
  BY DEF CreateTournament
<1>2. ASSUME NEW r, Consistent(life, matches, tournament, announced, r)
      PROVE  /\ r.at = "idle" /\ announced = [k \in 1..Rounds |-> 0]
             /\ matches = [m \in Match |-> NoMatchRow] /\ tournament = NoTournamentRow
  BY <1>1, <1>2 DEF Consistent
<1>3. Quiet
  <2>1. CASE Quiet
    BY <2>1
  <2>2. CASE \E q \in Requests : Alone(q) /\ req[q].at = "idle"
    BY <2>2 DEF Alone, Quiet
  <2> QED
    BY <1>2, <2>1, <2>2 DEF SerialInv
<1>4. /\ announced = [k \in 1..Rounds |-> 0]
      /\ matches = [m \in Match |-> NoMatchRow] /\ tournament = NoTournamentRow
  BY <1>2, <1>3, NobodyServed
<1>5. IdleRequest.at = "idle"
  BY DEF IdleRequest
<1>6. Consistent("created", [m \in Match |-> NewMatchRow(m)],
                 [NoTournamentRow EXCEPT !.stored = TRUE], announced, IdleRequest)
  BY <1>4, <1>5, ConsistentCreated
<1>7. Consistent(life', matches', tournament', announced', IdleRequest)
  BY <1>1, <1>6 DEF CreateTournament
<1>8. Quiet'
  BY <1>3 DEF Quiet, CreateTournament
<1>9. SerialInv'
  BY <1>7, <1>8 DEF SerialInv
<1>10. Status = "new" /\ Status' = "open"
  <2>1. tournament'.is_finished = FALSE
    BY DEF CreateTournament, NoTournamentRow
  <2> QED
    BY <1>1, <2>1 DEF Status
<1>11. Winners' = Winners
  <2>1. \A m \in Match : matches'[m].winner = matches[m].winner
    BY <1>4 DEF CreateTournament, NewMatchRow, NoMatchRow
  <2> QED
    BY <2>1 DEF Winners
<1>12. Promise!Open
  BY <1>10, <1>11, SameBracket DEF Promise!Open, Winners, CreateTournament
<1> QED
  BY <1>9, <1>12

\* A request is taken when no other is served: it has changed nothing so far.
LEMMA TakeSerial ==
    ASSUME TypeOK, SerialInv, Quiet, life = "created", NEW q \in Requests, NEW r, Take(q, r),
           r.at \in {"save_match", "release", "play", "delete"}, HoldsOK(matches, tournament, r)
    PROVE  SerialInv' /\ UNCHANGED promiseVars
<1>1. UNCHANGED <<life, matches, tournament, announced>> /\ req' = [req EXCEPT ![q] = r]
  BY DEF Take, db, hist
<1>2. Consistent("created", matches, tournament, announced, r)
  <2>1. Consistent("created", matches, tournament, announced, IdleRequest)
    BY NobodyServed
  <2> QED
    BY <2>1, ConsistentTaken DEF IdleRequest
<1>3. Alone(q)
  BY DEF Quiet, Alone
<1>4. SerialInv'
  BY <1>1, <1>2, <1>3, ServesOn
<1> QED
  BY <1>1, <1>4, Stutters

LEMMA AcceptSerial ==
    ASSUME TypeOK, SerialInv, Quiet, NEW q \in Requests, UIAccept(q)
    PROVE  SerialInv' /\ UNCHANGED promiseVars
<1>1. Consistent(life, matches, tournament, announced, IdleRequest)
  BY NobodyServed
<1>2. \A m \in Match : matches[m] \in MatchRow
  BY DEF TypeOK
<1>3. life = "created"
  <2>1. (\E m \in Match : matches[m].can_start) \/ tournament.stored
    BY DEF UIAccept, Startable, GetToDelete
  <2>2. CASE life # "created"
    <3>1. matches = [m \in Match |-> NoMatchRow] /\ tournament = NoTournamentRow
      BY <1>1, <2>2 DEF Consistent
    <3> QED
      BY <2>1, <3>1 DEF NoMatchRow, NoTournamentRow
  <2> QED
    BY <2>2
<1>4. ASSUME NEW m \in Match, NEW first \in BOOLEAN, Startable(m), GetMatch(q, m, first)
      PROVE  SerialInv' /\ UNCHANGED promiseVars
  <2> DEFINE mine == [matches[m] EXCEPT !.winner = WinnerOf(matches[m], first),
                                        !.is_finished = TRUE]
             r == [IdleRequest EXCEPT !.at = "save_match", !.id = m, !.mine = mine]
  <2>1. r.at = "save_match" /\ r.id = m /\ r.mine = mine
    BY DEF IdleRequest
  <2>2. Take(q, r)
    BY <1>4 DEF GetMatch
  <2>3. WinnerOf(matches[m], first) \in {matches[m].player1, matches[m].player2}
    BY DEF WinnerOf
  <2>4. HoldsOK(matches, tournament, r)
    <3> HIDE DEF r
    <3> QED
      BY <1>4, <2>1, <2>3 DEF HoldsOK, Startable, Reporting, Telling, Marking, Linking
  <2> HIDE DEF r
  <2> QED
    BY <1>3, <2>1, <2>2, <2>4, TakeSerial
<1>5. ASSUME NEW m \in Match, NEW at \in {"release", "play"}, NEW playing \in BOOLEAN,
             Take(q, [IdleRequest EXCEPT !.at = at, !.id = m,
                        !.mine = [matches[m] EXCEPT !.is_playing = playing]])
      PROVE  SerialInv' /\ UNCHANGED promiseVars
  <2> DEFINE mine == [matches[m] EXCEPT !.is_playing = playing]
             r == [IdleRequest EXCEPT !.at = at, !.id = m, !.mine = mine]
  <2>1. r.at = at /\ r.id = m /\ r.mine = mine
    BY DEF IdleRequest
  <2>2. Take(q, r)
    BY <1>5
  <2>3. HoldsOK(matches, tournament, r)
    <3> HIDE DEF r
    <3> QED
      BY <2>1 DEF HoldsOK, Reporting, Telling, Marking, Linking
  <2> HIDE DEF r
  <2> QED
    BY <1>3, <2>1, <2>2, <2>3, TakeSerial
<1>6. ASSUME GetToDelete(q)
      PROVE  SerialInv' /\ UNCHANGED promiseVars
  <2> DEFINE r == [IdleRequest EXCEPT !.at = "delete"]
  <2>1. r.at = "delete"
    BY DEF IdleRequest
  <2>2. Take(q, r) /\ ~tournament.is_finished
    BY <1>6 DEF GetToDelete
  <2>3. HoldsOK(matches, tournament, r)
    <3> HIDE DEF r
    <3> QED
      BY <2>1, <2>2 DEF HoldsOK, Reporting, Telling, Marking, Linking
  <2> HIDE DEF r
  <2> QED
    BY <1>3, <2>1, <2>2, <2>3, TakeSerial
<1> QED
  BY <1>4, <1>5, <1>6 DEF UIAccept, GetToRelease, GetToPlay

\* A statement that reads, or the end of the request, leaves the promise alone.
LEMMA ReadSerial ==
    ASSUME TypeOK, NEW q \in Requests, Alone(q), life = "created", NEW r, Proceed(q, r),
           UNCHANGED <<db, hist>>, Consistent("created", matches, tournament, announced, r)
    PROVE  SerialInv' /\ UNCHANGED promiseVars
<1>1. UNCHANGED <<life, matches, tournament, announced>> /\ req' = [req EXCEPT ![q] = r]
  BY DEF Proceed, db, hist
<1>2. SerialInv'
  BY <1>1, ServesOn
<1> QED
  BY <1>1, <1>2, Stutters

\* Storing the result decides the match.
LEMMA SaveMatchSerial ==
    ASSUME TypeOK, SerialInv, NEW q \in Requests, SaveMatch(q)
    PROVE  SerialInv' /\ \E m \in Match : Promise!Decide(m)
<1> PICK r, m, s : /\ r = req[q] /\ m = r.id
                   /\ s = [r EXCEPT !.at = "load_tournament"]
  OBVIOUS
<1>1. r \in Request /\ r.at = "save_match" /\ m \in Match
  BY DEF TypeOK, SaveMatch, Request
<1>2. Alone(q) /\ life = "created" /\ Consistent("created", matches, tournament, announced, r)
  BY <1>1, ServedAlone
<1>3. matches \in [Match -> MatchRow] /\ tournament \in TournamentRow
  BY DEF TypeOK
<1>4. Consistent("created", [matches EXCEPT ![m] = r.mine], tournament, announced, s)
  BY <1>1, <1>2, <1>3, ConsistentSaved
<1>5. /\ matches' = [matches EXCEPT ![m] = r.mine] /\ req' = [req EXCEPT ![q] = s]
      /\ UNCHANGED <<life, tournament, announced>>
  BY DEF SaveMatch, StoreMatch, Proceed
<1>6. Consistent(life', matches', tournament', announced', s)
  BY <1>2, <1>4, <1>5
<1>7. SerialInv'
  BY <1>2, <1>5, <1>6, ServesOn
<1>8. /\ BracketOK(matches, r) /\ HoldsOK(matches, tournament, r)
      /\ tournament.is_finished => AllDone(matches)
  BY <1>2, ConsistentFacts
<1>9. PICK w \in {matches[m].player1, matches[m].player2} :
         r.mine = [matches[m] EXCEPT !.winner = w, !.is_finished = TRUE]
  BY <1>1, <1>8 DEF HoldsOK
<1>10. matches[m].can_start /\ ~matches[m].is_finished
  BY <1>1, <1>8 DEF HoldsOK
<1>11. Status = "open" /\ Status' = "open"
  <2>1. ~tournament.is_finished
    BY <1>1, <1>8, <1>10 DEF AllDone
  <2>2. life' = "created" /\ ~tournament'.is_finished
    BY <1>2, <1>5, <2>1
  <2> QED
    BY <1>2, <2>1, <2>2 DEF Status
<1>12. /\ matches[m].winner = NoOne /\ matches[m].player1 # NoOne /\ matches[m].player2 # NoOne
  BY <1>1, <1>8, <1>10 DEF BracketOK, Played
<1>13. /\ Promise!Contender1(m) = matches[m].player1
       /\ Promise!Contender2(m) = matches[m].player2
  BY <1>1, <1>8, PlayersAreContenders DEF Linking
<1>14. [n \in Match |-> matches'[n].winner] = [[n \in Match |-> matches[n].winner] EXCEPT ![m] = w]
  <2>1. matches'[m] = r.mine /\ \A n \in Match : n # m => matches'[n] = matches[n]
    BY <1>1, <1>3, <1>5
  <2>2. matches'[m].winner = w
    BY <1>1, <1>3, <1>9, <2>1 DEF MatchRow
  <2> QED
    BY <1>1, <2>1, <2>2
<1>15. Promise!Decide(m)
  <2>1. /\ Promise!Contender1(m) # NoOne /\ Promise!Contender2(m) # NoOne
        /\ w \in {Promise!Contender1(m), Promise!Contender2(m)}
    BY <1>12, <1>13
  <2>2. [n \in Match |-> matches[n].winner][m] = NoOne
    BY <1>1, <1>12
  <2>3. UNCHANGED <<Status, announced>>
    BY <1>5, <1>11
  <2> QED
    BY <1>11, <1>14, <2>1, <2>2, <2>3, SameBracket DEF Promise!Decide
<1> QED
  BY <1>1, <1>7, <1>15

LEMMA LoadTournamentSerial ==
    ASSUME TypeOK, SerialInv, NEW q \in Requests, LoadTournament(q)
    PROVE  SerialInv' /\ UNCHANGED promiseVars
<1> PICK r, s : r = req[q] /\ s = [r EXCEPT !.tour = tournament, !.at = "get_next"]
  OBVIOUS
<1>1. r \in Request /\ r.at = "load_tournament"
  BY DEF TypeOK, LoadTournament
<1>2. Alone(q) /\ life = "created" /\ Consistent("created", matches, tournament, announced, r)
  BY <1>1, ServedAlone
<1>3. s.at = "get_next" /\ s.id = r.id /\ s.mine = r.mine /\ s.tour = tournament
  BY <1>1 DEF Request
<1>4. r.mine.winner # NoOne /\ Consistent("created", matches, tournament, announced, s)
  BY <1>1, <1>2, <1>3, ConsistentLoaded, Zenon
<1>5. tournament.stored
  BY <1>2, ConsistentFacts
<1>6. Proceed(q, s) /\ UNCHANGED <<db, hist>>
  BY <1>4, <1>5 DEF LoadTournament
<1> QED
  BY <1>2, <1>4, <1>6, ReadSerial

LEMMA GetNextMatchSerial ==
    ASSUME TypeOK, SerialInv, NEW q \in Requests, GetNextMatch(q)
    PROVE  SerialInv' /\ UNCHANGED promiseVars
<1> PICK r, m : r = req[q] /\ m = r.id
  OBVIOUS
<1>1. r \in Request /\ r.at = "get_next" /\ m \in Match
  BY DEF TypeOK, GetNextMatch, Request
<1>2. Alone(q) /\ life = "created" /\ Consistent("created", matches, tournament, announced, r)
  BY <1>1, ServedAlone
<1>3. BracketOK(matches, r)
  BY <1>2, ConsistentFacts
<1>4. UNCHANGED <<db, hist>>
  BY DEF GetNextMatch
<1>5. CASE m.round < Rounds
  <2>0. PICK row, s :
           /\ row = Assign(matches[NextMatch(m)], m, r.mine.winner)
           /\ s = [r EXCEPT !.at = "save_next", !.next = row, !.mine = NoMatchRow]
    OBVIOUS
  <2>1. matches[NextMatch(m)].stored
    BY <1>1, <1>3, <1>5, NextMatchFedBy, QueriesSeeAll
  <2>2. Proceed(q, s)
    BY <1>5, <2>0, <2>1 DEF GetNextMatch
  <2>3. s.at = "save_next" /\ s.id = m /\ s.tour = r.tour /\ s.next = row
    BY <1>1, <2>0 DEF Request
  <2>4. Consistent("created", matches, tournament, announced, s)
    <3>1. /\ s.id = r.id /\ r.id.round < Rounds
          /\ s.next = Assign(matches[NextMatch(r.id)], r.id, r.mine.winner)
      BY <1>5, <2>0, <2>3
    <3> QED
      BY <1>1, <1>2, <2>3, <3>1, ConsistentRead
  <2> QED
    BY <1>2, <1>4, <2>2, <2>4, ReadSerial
<1>6. CASE ~(m.round < Rounds)
  <2> PICK s : s = [r EXCEPT !.at = "check_round", !.mine = NoMatchRow]
    OBVIOUS
  <2>1. Proceed(q, s)
    BY <1>6 DEF GetNextMatch
  <2>2. s.at = "check_round" /\ s.id = m /\ s.tour = r.tour
    BY <1>1 DEF Request
  <2>3. Consistent("created", matches, tournament, announced, s)
    BY <1>1, <1>2, <1>6, <2>2, ConsistentRead, Zenon
  <2> QED
    BY <1>2, <1>4, <2>1, <2>3, ReadSerial
<1> QED
  BY <1>5, <1>6

LEMMA SaveNextMatchSerial ==
    ASSUME TypeOK, SerialInv, NEW q \in Requests, SaveNextMatch(q)
    PROVE  SerialInv' /\ UNCHANGED promiseVars
<1> PICK r, n, s : /\ r = req[q] /\ n = NextMatch(r.id)
                   /\ s = [r EXCEPT !.at = "check_round", !.next = NoMatchRow]
  OBVIOUS
<1>1. r \in Request /\ r.at = "save_next" /\ matches \in [Match -> MatchRow]
  BY DEF TypeOK, SaveNextMatch
<1>2. Alone(q) /\ life = "created" /\ Consistent("created", matches, tournament, announced, r)
  BY <1>1, ServedAlone
<1>3. s.at = "check_round" /\ s.id = r.id /\ s.tour = r.tour
  BY <1>1 DEF Request
<1>4. Consistent("created", [matches EXCEPT ![n] = r.next], tournament, announced, s)
  BY <1>1, <1>2, <1>3, ConsistentSeated
<1>5. /\ matches' = [matches EXCEPT ![n] = r.next] /\ req' = [req EXCEPT ![q] = s]
      /\ UNCHANGED <<life, tournament, announced>>
  BY DEF SaveNextMatch, StoreMatch, Proceed, hist
<1>6. Consistent(life', matches', tournament', announced', s)
  BY <1>2, <1>4, <1>5
<1>7. SerialInv'
  BY <1>2, <1>5, <1>6, ServesOn
<1>8. HoldsOK(matches, tournament, r)
  BY <1>2, ConsistentFacts
<1>9. r.next.winner = matches[n].winner \/ n \notin Match
  BY <1>1, <1>8 DEF HoldsOK, Assign, SeatIn, MatchRow
<1>10. \A m \in Match : matches'[m].winner = matches[m].winner
  BY <1>1, <1>5, <1>9
<1> QED
  BY <1>5, <1>7, <1>10, Stutters

LEMMA CheckRoundSerial ==
    ASSUME TypeOK, SerialInv, NEW q \in Requests, CheckRound(q)
    PROVE  SerialInv' /\ UNCHANGED promiseVars
<1>0. PICK r : r = req[q]
  OBVIOUS
<1>1. r \in Request /\ r.at = "check_round" /\ r.tour \in TournamentRow
  BY <1>0 DEF TypeOK, CheckRound, Request
<1>2. Alone(q) /\ life = "created" /\ Consistent("created", matches, tournament, announced, r)
  BY <1>0, <1>1, ServedAlone
<1>3. UNCHANGED <<db, hist>>
  BY DEF CheckRound
<1>4. IsRoundFinished(r.id.round) <=> RoundDone(matches, r.id.round)
  <2>1. BracketOK(matches, r) /\ r.id.round \in 1..Rounds
    BY <1>1, <1>2, ConsistentFacts, MatchFacts DEF Request
  <2> QED
    BY <2>1, QueriesSeeAll
<1>5. CASE IsRoundFinished(r.id.round)
  <2>0. PICK row, s :
           /\ row = [r.tour EXCEPT !.last_finished_round = r.id.round]
           /\ s = [r EXCEPT !.mine = NoMatchRow, !.at = "save_round", !.tour = row]
    OBVIOUS
  <2>1. Proceed(q, s)
    <3>1. PICK t : t = [[r EXCEPT !.mine = NoMatchRow]
                          EXCEPT !.at = "save_round", !.tour.last_finished_round = r.id.round]
      OBVIOUS
    <3>2. Proceed(q, t)
      BY <1>0, <1>5, <3>1 DEF CheckRound
    <3>3. t = s
      BY <1>1, <2>0, <3>1 DEF Request
    <3> QED
      BY <3>2, <3>3
  <2>2. s.at = "save_round" /\ s.id = r.id /\ s.tour = row
    BY <1>1, <2>0 DEF Request
  <2>3. s.tour = [r.tour EXCEPT !.last_finished_round = r.id.round]
    BY <2>0, <2>2
  <2>4. Consistent("created", matches, tournament, announced, s)
    BY <1>1, <1>2, <1>4, <1>5, <2>2, <2>3, ConsistentChecked
  <2> QED
    BY <1>2, <1>3, <2>1, <2>4, ReadSerial
<1>6. CASE ~IsRoundFinished(r.id.round)
  <2>0. PICK s : s = [r EXCEPT !.mine = NoMatchRow, !.at = "check_all"]
    OBVIOUS
  <2>1. Proceed(q, s)
    BY <1>0, <1>6, <2>0 DEF CheckRound
  <2>2. s.at = "check_all" /\ s.id = r.id /\ s.tour = r.tour
    BY <1>1, <2>0 DEF Request
  <2>3. Consistent("created", matches, tournament, announced, s)
    BY <1>1, <1>2, <1>4, <1>6, <2>2, ConsistentChecked
  <2> QED
    BY <1>2, <1>3, <2>1, <2>3, ReadSerial
<1> QED
  BY <1>5, <1>6

LEMMA SaveRoundSerial ==
    ASSUME TypeOK, SerialInv, NEW q \in Requests, SaveRound(q)
    PROVE  SerialInv' /\ UNCHANGED promiseVars
<1>0. PICK r, s : r = req[q] /\ s = [r EXCEPT !.at = "notify"]
  OBVIOUS
<1>1. r \in Request /\ r.at = "save_round" /\ tournament \in TournamentRow
  BY <1>0 DEF TypeOK, SaveRound
<1>2. Alone(q) /\ life = "created" /\ Consistent("created", matches, tournament, announced, r)
  BY <1>0, <1>1, ServedAlone
<1>3. s.at = "notify" /\ s.id = r.id /\ s.tour = r.tour
  BY <1>0, <1>1 DEF Request
<1>4. Consistent("created", matches, r.tour, announced, s)
  BY <1>1, <1>2, <1>3, ConsistentMarked
<1>5. /\ tournament' = r.tour /\ req' = [req EXCEPT ![q] = s]
      /\ UNCHANGED <<life, matches, announced>>
  BY <1>0 DEF SaveRound, StoreTournament, Proceed, hist
<1>6. Consistent(life', matches', tournament', announced', s)
  BY <1>2, <1>4, <1>5
<1>7. SerialInv'
  BY <1>2, <1>5, <1>6, ServesOn
<1>8. r.tour = [tournament EXCEPT !.last_finished_round = r.id.round]
  <2>1. HoldsOK(matches, tournament, r)
    BY <1>2, ConsistentFacts
  <2> QED
    BY <1>1, <2>1 DEF HoldsOK
<1>9. tournament'.is_finished = tournament.is_finished
  BY <1>1, <1>5, <1>8 DEF TournamentRow
<1> QED
  BY <1>5, <1>7, <1>9, Stutters

\* Telling the organizer announces the round: it is over, and all earlier ones were announced.
LEMMA NotifySerial ==
    ASSUME TypeOK, SerialInv, NEW q \in Requests, Notify(q)
    PROVE  SerialInv' /\ \E k \in 1..Rounds : Promise!Announce(k)
<1>0. PICK r, s, k : r = req[q] /\ s = [r EXCEPT !.at = "check_all"] /\ k = r.id.round
  OBVIOUS
<1>1. /\ r \in Request /\ r.at = "notify" /\ k \in 1..Rounds
      /\ announced \in [1..Rounds -> 0..Many]
  BY <1>0, MatchFacts DEF TypeOK, Notify, Request
<1>2. Alone(q) /\ life = "created" /\ Consistent("created", matches, tournament, announced, r)
  BY <1>0, <1>1, ServedAlone
<1>3. s.at = "check_all" /\ s.id = r.id /\ s.tour = r.tour
  BY <1>0, <1>1 DEF Request
<1>4. /\ announced[k] = 0 /\ RoundDone(matches, k)
      /\ Consistent("created", matches, tournament, [announced EXCEPT ![k] = 1], s)
  <2>1. /\ announced[r.id.round] = 0 /\ RoundDone(matches, r.id.round)
        /\ Consistent("created", matches, tournament, [announced EXCEPT ![r.id.round] = 1], s)
    BY <1>1, <1>2, <1>3, ConsistentTold
  <2> QED
    BY <1>0, <2>1
<1>5. /\ announced' = [announced EXCEPT ![k] = 1] /\ req' = [req EXCEPT ![q] = s]
      /\ UNCHANGED <<life, matches, tournament>>
  <2>1. announced' = [announced EXCEPT ![k] = IF @ = Many THEN Many ELSE @ + 1]
    BY <1>0 DEF Notify
  <2>2. (IF announced[k] = Many THEN Many ELSE announced[k] + 1) = 1
    BY <1>4 DEF Many
  <2>3. announced' = [announced EXCEPT ![k] = 1]
    BY <2>1, <2>2
  <2> QED
    BY <1>0, <2>3 DEF Notify, Proceed, hist
<1>6. Consistent(life', matches', tournament', announced', s)
  BY <1>2, <1>4, <1>5
<1>7. SerialInv'
  BY <1>2, <1>5, <1>6, ServesOn
<1>8. /\ BracketOK(matches, r) /\ RoundsOK(matches, tournament, announced, r)
      /\ ~tournament.is_finished
  BY <1>1, <1>2, ConsistentFacts DEF Reporting, Telling
<1>9. Status = "open" /\ Status' = "open"
  <2>1. life' = "created" /\ ~tournament'.is_finished
    BY <1>2, <1>5, <1>8
  <2> QED
    BY <1>2, <1>8, <2>1 DEF Status
<1>10. Winners' = Winners
  BY <1>5 DEF Winners
<1>11. \A m \in Match : m.round = k => matches[m].winner # NoOne
  BY <1>4, <1>8 DEF BracketOK, Played, RoundDone
<1>12. \A j \in 1..(k - 1) : announced[j] = 1
  <2> SUFFICES ASSUME NEW j \in 1..(k - 1)
               PROVE  announced[j] = 1
    OBVIOUS
  <2>1. j \in 1..Rounds /\ j <= k /\ j # k
    BY <1>1, RoundsAssumption
  <2>2. RoundDone(matches, j)
    BY <1>1, <1>4, <1>8, <2>1, EarlierRounds
  <2> QED
    BY <1>0, <1>8, <2>1, <2>2 DEF RoundsOK
<1>13. Promise!RoundDecided(k)
  BY <1>11, SameBracket DEF Promise!RoundDecided
<1>14. Promise!Announce(k)
  BY <1>4, <1>5, <1>9, <1>10, <1>12, <1>13, SameBracket DEF Promise!Announce, Winners
<1> QED
  BY <1>1, <1>7, <1>14

LEMMA CheckAllSerial ==
    ASSUME TypeOK, SerialInv, NEW q \in Requests, CheckAll(q)
    PROVE  SerialInv' /\ UNCHANGED promiseVars
<1>0. PICK r : r = req[q]
  OBVIOUS
<1>1. r \in Request /\ r.at = "check_all" /\ r.tour \in TournamentRow
  BY <1>0 DEF TypeOK, CheckAll, Request
<1>2. Alone(q) /\ life = "created" /\ Consistent("created", matches, tournament, announced, r)
  BY <1>0, <1>1, ServedAlone
<1>3. UNCHANGED <<db, hist>>
  BY DEF CheckAll
<1>4. IsTournamentFinished <=> AllDone(matches)
  BY <1>2, ConsistentFacts, QueriesSeeAll
<1>5. CASE IsTournamentFinished
  <2>0. PICK row, s : /\ row = [r.tour EXCEPT !.is_finished = TRUE]
                      /\ s = [r EXCEPT !.at = "save_all", !.tour = row]
    OBVIOUS
  <2>1. Proceed(q, s)
    <3>1. PICK t : t = [r EXCEPT !.at = "save_all", !.tour.is_finished = TRUE]
      OBVIOUS
    <3>2. Proceed(q, t)
      BY <1>0, <1>5, <3>1 DEF CheckAll
    <3>3. t = s
      BY <1>1, <2>0, <3>1 DEF Request
    <3> QED
      BY <3>2, <3>3
  <2>2. s.at = "save_all" /\ s.id = r.id /\ s.tour = row
    BY <1>1, <2>0 DEF Request
  <2>3. s.tour = [r.tour EXCEPT !.is_finished = TRUE]
    BY <2>0, <2>2
  <2>4. Consistent("created", matches, tournament, announced, s)
    BY <1>1, <1>2, <1>4, <1>5, <2>2, <2>3, ConsistentDecided
  <2> QED
    BY <1>2, <1>3, <2>1, <2>4, ReadSerial
<1>6. CASE ~IsTournamentFinished
  <2>1. Proceed(q, IdleRequest) /\ IdleRequest.at = "idle"
    BY <1>0, <1>6 DEF CheckAll, Finish, IdleRequest
  <2>2. Consistent("created", matches, tournament, announced, IdleRequest)
    BY <1>1, <1>2, <1>4, <1>6, <2>1, ConsistentDecided
  <2> QED
    BY <1>2, <1>3, <2>1, <2>2, ReadSerial
<1> QED
  BY <1>5, <1>6

\* Storing the closed tournament ends it, every round of it announced.
LEMMA SaveAllSerial ==
    ASSUME TypeOK, SerialInv, NEW q \in Requests, SaveAll(q)
    PROVE  SerialInv' /\ Promise!Close
<1>0. PICK r : r = req[q]
  OBVIOUS
<1>1. r \in Request /\ r.at = "save_all" /\ tournament \in TournamentRow
  BY <1>0 DEF TypeOK, SaveAll
<1>2. Alone(q) /\ life = "created" /\ Consistent("created", matches, tournament, announced, r)
  BY <1>0, <1>1, ServedAlone
<1>3. IdleRequest.at = "idle"
  BY DEF IdleRequest
<1>4. /\ r.tour.is_finished /\ \A k \in 1..Rounds : announced[k] = 1
      /\ Consistent("created", matches, r.tour, announced, IdleRequest)
  BY <1>1, <1>2, <1>3, ConsistentClosed
<1>5. /\ tournament' = r.tour /\ req' = [req EXCEPT ![q] = IdleRequest]
      /\ UNCHANGED <<life, matches, announced>>
  BY <1>0 DEF SaveAll, StoreTournament, Finish, Proceed, hist
<1>6. Consistent(life', matches', tournament', announced', IdleRequest)
  BY <1>2, <1>4, <1>5
<1>7. SerialInv'
  BY <1>2, <1>5, <1>6, ServesOn
<1>8. Status = "open" /\ Status' = "over"
  <2>1. ~tournament.is_finished
    BY <1>1, <1>2, ConsistentFacts DEF Reporting
  <2>2. life' = "created" /\ tournament'.is_finished
    BY <1>2, <1>4, <1>5
  <2> QED
    BY <1>2, <2>1, <2>2 DEF Status
<1>9. Winners' = Winners
  BY <1>5 DEF Winners
<1>10. Promise!Close
  BY <1>4, <1>5, <1>8, <1>9, SameBracket DEF Promise!Close, Winners
<1> QED
  BY <1>7, <1>10

LEMMA FlagSerial ==
    ASSUME TypeOK, SerialInv, NEW q \in Requests, SaveReleased(q) \/ SavePlaying(q)
    PROVE  SerialInv' /\ UNCHANGED promiseVars
<1>0. PICK r, new : r = req[q] /\ new = [matches EXCEPT ![r.id] = r.mine]
  OBVIOUS
<1>1. r \in Request /\ r.at \in {"release", "play"} /\ matches \in [Match -> MatchRow]
  BY <1>0 DEF TypeOK, SaveReleased, SavePlaying
<1>2. Alone(q) /\ life = "created" /\ Consistent("created", matches, tournament, announced, r)
  BY <1>0, <1>1, ServedAlone
<1>3. IdleRequest.at = "idle"
  BY DEF IdleRequest
<1>4. /\ \A m \in Match : new[m].winner = matches[m].winner
      /\ Consistent("created", new, tournament, announced, IdleRequest)
  <2>1. r.at = "release" \/ r.at = "play"
    BY <1>1
  <2>2. new[r.id] = r.mine /\ \A m \in Match : m # r.id => new[m] = matches[m]
    BY <1>0, <1>1 DEF Request
  <2> QED
    BY <1>1, <1>2, <1>3, <2>1, <2>2, ConsistentFlagged
<1>5. /\ matches' = new
      /\ req' = [req EXCEPT ![q] = IdleRequest] /\ UNCHANGED <<life, tournament, announced>>
  BY <1>0 DEF SaveReleased, SavePlaying, StoreMatch, Finish, Proceed, hist
<1>6. Consistent(life', matches', tournament', announced', IdleRequest)
  BY <1>2, <1>4, <1>5
<1>7. SerialInv'
  BY <1>2, <1>5, <1>6, ServesOn
<1>8. \A m \in Match : matches'[m].winner = matches[m].winner
  BY <1>4, <1>5
<1> QED
  BY <1>5, <1>7, <1>8, Stutters

\* Deleting cancels a tournament that is not over.
LEMMA DeleteSerial ==
    ASSUME TypeOK, SerialInv, NEW q \in Requests, DeleteTournament(q)
    PROVE  SerialInv' /\ Promise!Cancel
<1>0. PICK r : r = req[q]
  OBVIOUS
<1>1. r.at = "delete"
  BY <1>0 DEF DeleteTournament
<1>2. Alone(q) /\ life = "created" /\ Consistent("created", matches, tournament, announced, r)
  BY <1>0, <1>1, ServedAlone
<1>3. ~tournament.is_finished
  <2>1. HoldsOK(matches, tournament, r)
    BY <1>2, ConsistentFacts
  <2> QED
    BY <1>1, <2>1 DEF HoldsOK
<1>4. /\ tournament' = NoTournamentRow /\ matches' = [m \in Match |-> NoMatchRow]
      /\ life' = "deleted" /\ announced' = announced /\ req' = [req EXCEPT ![q] = IdleRequest]
  BY DEF DeleteTournament, Finish, Proceed
<1>5. Consistent(life', matches', tournament', announced', IdleRequest)
  BY <1>4 DEF Consistent, IdleRequest
<1>6. SerialInv'
  BY <1>2, <1>4, <1>5, ServesOn
<1>7. Status = "open" /\ Status' = "cancelled"
  BY <1>2, <1>3, <1>4 DEF Status
<1>8. [m \in Match |-> matches'[m].winner] = [m \in Match |-> NoOne]
  BY <1>4 DEF NoMatchRow
<1>9. Promise!Cancel
  BY <1>4, <1>7, <1>8, SameBracket DEF Promise!Cancel
<1> QED
  BY <1>6, <1>9

LEMMA SerialIsStep == SerialNext => Next
BY DEF SerialNext, UIAccept, Next, Accept

LEMMA SerialStep ==
    TypeOK /\ SerialInv /\ [SerialNext]_vars
      => SerialInv' /\ (Promise!Next \/ UNCHANGED promiseVars)
<1> SUFFICES ASSUME TypeOK, SerialInv, [SerialNext]_vars
             PROVE  SerialInv' /\ (Promise!Next \/ UNCHANGED promiseVars)
  OBVIOUS
<1>1. CASE CreateTournament
  BY <1>1, CreateSerial DEF Promise!Next
<1>2. ASSUME NEW q \in Requests, Quiet, UIAccept(q)
      PROVE  SerialInv' /\ UNCHANGED promiseVars
  BY <1>2, AcceptSerial
<1>3. ASSUME NEW q \in Requests, SaveGameResult(q)
      PROVE  SerialInv' /\ (Promise!Next \/ UNCHANGED promiseVars)
  <2>1. CASE SaveMatch(q)
    BY <2>1, SaveMatchSerial, SameBracket DEF Promise!Next
  <2>2. CASE LoadTournament(q)
    BY <2>2, LoadTournamentSerial
  <2>3. CASE GetNextMatch(q)
    BY <2>3, GetNextMatchSerial
  <2>4. CASE SaveNextMatch(q)
    BY <2>4, SaveNextMatchSerial
  <2>5. CASE CheckRound(q)
    BY <2>5, CheckRoundSerial
  <2>6. CASE SaveRound(q)
    BY <2>6, SaveRoundSerial
  <2>7. CASE Notify(q)
    BY <2>7, NotifySerial DEF Promise!Next
  <2>8. CASE CheckAll(q)
    BY <2>8, CheckAllSerial
  <2>9. CASE SaveAll(q)
    BY <2>9, SaveAllSerial DEF Promise!Next
  <2> QED
    BY <1>3, <2>1, <2>2, <2>3, <2>4, <2>5, <2>6, <2>7, <2>8, <2>9 DEF SaveGameResult
<1>4. ASSUME NEW q \in Requests, SaveReleased(q) \/ SavePlaying(q)
      PROVE  SerialInv' /\ UNCHANGED promiseVars
  BY <1>4, FlagSerial
<1>5. ASSUME NEW q \in Requests, DeleteTournament(q)
      PROVE  SerialInv' /\ Promise!Next
  BY <1>5, DeleteSerial DEF Promise!Next
<1>6. ASSUME NEW q \in Requests, MatchRefused(q)
      PROVE  FALSE
  <2>1. req[q].at # "idle" /\ ~tournament.stored
    BY <1>6 DEF MatchRefused, MatchStatements
  <2>2. Consistent("created", matches, tournament, announced, req[q])
    BY <2>1, ServedAlone
  <2> QED
    BY <2>1, <2>2, ConsistentFacts
<1>7. CASE UNCHANGED vars
  <2>1. UNCHANGED <<life, matches, tournament, announced, req>>
    BY <1>7 DEF vars
  <2>2. SerialInv'
    BY <2>1 DEF SerialInv, Quiet, Alone
  <2> QED
    BY <2>1, <2>2, Stutters
<1> QED
  BY <1>1, <1>2, <1>3, <1>4, <1>5, <1>6, <1>7 DEF SerialNext, Continue

\* Under SerialSpec the tables always stand for a tournament that is played by the rules, up
\* to what the one request in flight still has to store (save_game_result, release_match,
\* play_tournament, delete_tournament_and_matches).
THEOREM SerialInductive == SerialSpec => [](TypeOK /\ SerialInv)
<1>1. TypeOK /\ [SerialNext]_vars => TypeOK'
  BY TypeStep, SerialIsStep
<1> QED
  BY <1>1, InitType, SerialInit, SerialStep, PTL DEF SerialSpec

\* save_game_result, creation and deletion, one request at a time, implement the knockout
\* tournament: every match decided once and between the winners of its feeders, every round
\* announced once and in order, the tournament closed when all is decided.
THEOREM KnockoutImplemented == SerialSpec => ImplementsKnockout
<1>1. Promise!Init /\ [][Promise!Next \/ UNCHANGED promiseVars]_promiseVars
        => ImplementsKnockout
  BY PTL DEF ImplementsKnockout, Promise!Spec, promiseVars, Winners
<1> QED
  BY <1>1, SerialInductive, SerialInit, SerialStep, PTL DEF SerialSpec

\* A round that is not over, after rounds that are: its matches have both their players.
LEMMA NextRoundStartable ==
    ASSUME NEW rows, NEW r, r.at = "idle", BracketOK(rows, r), NEW k \in 1..Rounds,
           \A j \in 1..Rounds : j < k => RoundDone(rows, j), NEW m \in Match, m.round = k
    PROVE  rows[m].stored /\ rows[m].can_start
<1>1. Played(m, rows[m])
  BY DEF BracketOK
<1>2. CASE k = 1
  <2>1. m.number \in 1..4
    BY MatchFacts
  <2>2. 2 * m.number - 1 # 0 /\ 2 * m.number # 0
    BY <2>1
  <2>3. rows[m].player1 # NoOne /\ rows[m].player2 # NoOne
    BY <1>1, <1>2, <2>2 DEF Played, NoOne
  <2> QED
    BY <1>1, <2>3 DEF Played
<1>3. CASE k # 1
  <2>1. m.round > 1 /\ k - 1 \in 1..Rounds /\ k - 1 < k /\ k - 1 < Rounds
    BY <1>3, RoundsAssumption
  <2>2. RoundDone(rows, k - 1)
    BY <2>1
  <2>3. ASSUME NEW n \in Match, n.round = k - 1
        PROVE  SeatOf(rows, n) # NoOne
    <3>1. rows[n].winner # NoOne
      BY <2>2, <2>3 DEF RoundDone, BracketOK, Played
    <3>2. n.round < Rounds
      BY <2>1, <2>3
    <3> QED
      BY <3>1, <3>2 DEF BracketOK, Linking
  <2>4. SeatOf(rows, Feeder1(m)) # NoOne /\ SeatOf(rows, Feeder2(m)) # NoOne
    BY <2>1, <2>3, FeedersLead
  <2>5. rows[m].player1 # NoOne /\ rows[m].player2 # NoOne
    BY <2>1, <2>4, FeedersLead DEF SeatOf
  <2> QED
    BY <1>1, <2>5 DEF Played
<1> QED
  BY <1>2, <1>3

LEMMA FirstUnfinishedRound ==
    ASSUME NEW rows, ~AllDone(rows)
    PROVE  \E k \in 1..Rounds :
              ~RoundDone(rows, k) /\ \A j \in 1..Rounds : j < k => RoundDone(rows, j)
<1>1. PICK k \in 1..Rounds : ~RoundDone(rows, k)
  BY AllDoneByRounds
<1>2. 1 \in 1..Rounds /\ (2 \in 1..Rounds \/ k = 1) /\ (k = 3 => 2 \in 1..Rounds)
  BY RoundsAssumption
<1>3. CASE ~RoundDone(rows, 1)
  BY <1>2, <1>3, RoundsAssumption
<1>4. CASE RoundDone(rows, 1) /\ 2 \in 1..Rounds /\ ~RoundDone(rows, 2)
  BY <1>4, RoundsAssumption
<1>5. CASE RoundDone(rows, 1) /\ (2 \in 1..Rounds => RoundDone(rows, 2))
  <2>1. k = 3 /\ RoundDone(rows, 2)
    BY <1>1, <1>2, <1>5, RoundsAssumption
  <2> QED
    BY <1>1, <1>5, <2>1, RoundsAssumption
<1> QED
  BY <1>3, <1>4, <1>5

LEMMA MatchToStart ==
    ASSUME SerialInv
    PROVE  AlwaysAMatchToStart
<1> SUFFICES ASSUME Quiet, life = "created", ~tournament.is_finished
             PROVE  \E m \in Match : Startable(m)
  BY DEF AlwaysAMatchToStart
<1>1. Consistent("created", matches, tournament, announced, IdleRequest)
  BY NobodyServed
<1>2. IdleRequest.at = "idle"
  BY DEF IdleRequest
<1>3. BracketOK(matches, IdleRequest) /\ ~AllDone(matches)
  BY <1>1, <1>2, ConsistentFacts DEF Reporting, Telling, Marking, Linking
<1>4. PICK k \in 1..Rounds :
         ~RoundDone(matches, k) /\ \A j \in 1..Rounds : j < k => RoundDone(matches, j)
  BY <1>3, FirstUnfinishedRound
<1>5. PICK m \in Match : m.round = k /\ ~matches[m].is_finished
  BY <1>4 DEF RoundDone
<1>6. matches[m].stored /\ matches[m].can_start
  BY <1>2, <1>3, <1>4, <1>5, NextRoundStartable
<1> QED
  BY <1>5, <1>6 DEF Startable

LEMMA LastRoundRight ==
    ASSUME SerialInv
    PROVE  LastFinishedRoundIsRight
<1> SUFFICES ASSUME Quiet, life = "created", NEW k \in 1..Rounds
             PROVE  k <= tournament.last_finished_round <=> RoundDone(matches, k)
  BY DEF LastFinishedRoundIsRight, RoundDone
<1>1. Consistent("created", matches, tournament, announced, IdleRequest)
  BY NobodyServed
<1>2. IdleRequest.at = "idle"
  BY DEF IdleRequest
<1>3. RoundsOK(matches, tournament, announced, IdleRequest)
  BY <1>1, ConsistentFacts
<1> QED
  BY <1>2, <1>3 DEF RoundsOK, Marking, Linking

\* While the tournament goes on the organizer always has a match to start: no order of the
\* results leaves the bracket without one (assign_winner_to_next_match sets can_start).
THEOREM AlwaysAMatchToStartAlways == SerialSpec => []AlwaysAMatchToStart
BY SerialInductive, MatchToStart, PTL

\* last_finished_round names the last round that is over (save_game_result,
\* is_round_finished).
THEOREM LastFinishedRoundIsRightAlways == SerialSpec => []LastFinishedRoundIsRight
BY SerialInductive, LastRoundRight, PTL

-----------------------------------------------------------------------------
(* The page of one match in any number of tabs (MatchPages). Only this section uses *)
(* RequestsAssumption.                                                              *)

Tab ==
    [path: {"top", "match"}, view: {"none", "top", "match"}, owns: BOOLEAN,
     loading: {"no", "route", "html"}, answer: {"none", "game", "finished", "redirect"},
     playing: BOOLEAN]

\* What the requests of a tab hold: all are about the one match, a release folds the flag
\* and a result is a result.
PlayOK(r) == r.at \in {"idle", "play"} /\ r.id = Final

ReleaseOK(r) ==
    /\ r.at \in {"idle", "release"} /\ r.id = Final
    /\ r.at = "release" => ~r.mine.is_playing

ResultOK(r) ==
    /\ r.at \in {"idle", "save_match", "load_tournament", "get_next", "check_round",
                 "save_round", "notify", "check_all", "save_all"}
    /\ r.id = Final
    /\ r.at = "save_match" => r.mine.is_finished

RequestsOK(t) ==
    /\ PlayOK(req[<<t, "play">>])
    /\ ReleaseOK(req[<<t, "release">>])
    /\ ResultOK(req[<<t, "result">>])

\* A match view releases its match, and the page is asked for by a view that waits for it.
TabOK(t) ==
    /\ tabs[t].view = "match" => tabs[t].owns
    /\ tabs[t].loading # "no" => tabs[t].path = "match"
    /\ OnItsWay(t, "play") =>
          tabs[t].view = "match" /\ tabs[t].loading = "html" /\ tabs[t].answer = "none"
    /\ ~(<<t, "play">> \in sent /\ req[<<t, "play">>].at # "idle")

\* A tab that still has to release the match: its view was not disposed of, or its release
\* has not stored anything yet.
Owes(t) ==
    \/ tabs[t].view = "match" /\ tabs[t].loading # "route"
    \/ OnItsWay(t, "release")

PagesInv ==
    /\ tabs \in [Tabs -> Tab]
    /\ \A t \in Tabs : RequestsOK(t) /\ TabOK(t)
    /\ ~Unlocked => \E t \in Tabs : Owes(t)

\* A step of one tab: what is to show of it.
OthersStay(t) ==
    \A u \in Tabs : u # t =>
       /\ tabs'[u] = tabs[u]
       /\ \A kind \in Kinds : /\ <<u, kind>> \in sent' <=> <<u, kind>> \in sent
                              /\ req'[<<u, kind>>] = req[<<u, kind>>]

LEMMA TabStep ==
    ASSUME PagesInv, NEW t \in Tabs, OthersStay(t), tabs' \in [Tabs -> Tab],
           RequestsOK(t)', TabOK(t)',
           ~Unlocked' => Owes(t)' \/ (~Unlocked /\ (Owes(t) => Owes(t)'))
    PROVE  PagesInv'
<1>1. ASSUME NEW u \in Tabs, u # t
      PROVE  RequestsOK(u)' /\ TabOK(u)' /\ (Owes(u) => Owes(u)')
  <2>1. /\ tabs'[u] = tabs[u]
        /\ req'[<<u, "play">>] = req[<<u, "play">>]
        /\ req'[<<u, "release">>] = req[<<u, "release">>]
        /\ req'[<<u, "result">>] = req[<<u, "result">>]
        /\ <<u, "play">> \in sent' <=> <<u, "play">> \in sent
        /\ <<u, "release">> \in sent' <=> <<u, "release">> \in sent
    BY <1>1 DEF OthersStay, Kinds
  <2>2. RequestsOK(u) /\ TabOK(u)
    BY DEF PagesInv
  <2>3. RequestsOK(u)'
    BY <2>1, <2>2 DEF RequestsOK
  <2>4. TabOK(u)'
    BY <2>1, <2>2 DEF TabOK, OnItsWay
  <2>5. Owes(u) => Owes(u)'
    BY <2>1 DEF Owes, OnItsWay
  <2> QED
    BY <2>3, <2>4, <2>5
<1>2. \A u \in Tabs : RequestsOK(u)' /\ TabOK(u)'
  BY <1>1
<1>3. ~Unlocked' => \E u \in Tabs : Owes(u)'
  <2>1. ASSUME ~Unlocked, Owes(t) => Owes(t)'
        PROVE  \E u \in Tabs : Owes(u)'
    <3>1. PICK u \in Tabs : Owes(u)
      BY <2>1 DEF PagesInv
    <3> QED
      BY <1>1, <2>1, <3>1
  <2> QED
    BY <2>1
<1> QED
  BY <1>2, <1>3 DEF PagesInv

\* A step of a tab that no request takes part in: it may send some.
LEMMA BrowserStep ==
    ASSUME PagesInv, NEW t \in Tabs, NEW new \in Tab, tabs' = [tabs EXCEPT ![t] = new],
           \A u \in Tabs, kind \in Kinds : u # t => (<<u, kind>> \in sent' <=> <<u, kind>> \in sent),
           UNCHANGED vars
    PROVE  /\ tabs'[t] = new /\ tabs' \in [Tabs -> Tab] /\ OthersStay(t) /\ RequestsOK(t)'
           /\ UNCHANGED <<req, matches>> /\ Unlocked' = Unlocked
<1>1. tabs \in [Tabs -> Tab] /\ RequestsOK(t)
  BY DEF PagesInv
<1>2. UNCHANGED <<req, matches>>
  BY DEF vars
<1>3. tabs'[t] = new /\ tabs' \in [Tabs -> Tab] /\ \A u \in Tabs : u # t => tabs'[u] = tabs[u]
  BY <1>1
<1>4. OthersStay(t)
  BY <1>2, <1>3 DEF OthersStay
<1>5. RequestsOK(t)'
  BY <1>1, <1>2 DEF RequestsOK
<1>6. Unlocked' = Unlocked
  BY <1>2 DEF Unlocked
<1> QED
  BY <1>2, <1>3, <1>4, <1>5, <1>6

LEMMA PagesStart == PagesInit => TypeOK /\ PagesInv
<1> SUFFICES ASSUME PagesInit
             PROVE  TypeOK /\ PagesInv
  OBVIOUS
<1>1. Init /\ tabs = [t \in Tabs |-> NewTab] /\ sent = {}
  BY DEF PagesInit
<1>2. NewTab \in Tab
  BY DEF NewTab, Tab
<1>3. \A t \in Tabs, kind \in Kinds : req[<<t, kind>>] = IdleRequest
  BY <1>1, RequestsAssumption DEF Init
<1>4. ASSUME NEW t \in Tabs
      PROVE  RequestsOK(t) /\ TabOK(t)
  <2>1. /\ req[<<t, "play">>] = IdleRequest /\ req[<<t, "release">>] = IdleRequest
        /\ req[<<t, "result">>] = IdleRequest
    BY <1>3 DEF Kinds
  <2>2. RequestsOK(t)
    BY <2>1 DEF RequestsOK, PlayOK, ReleaseOK, ResultOK, IdleRequest
  <2>3. TabOK(t)
    BY <1>1, <2>1 DEF TabOK, OnItsWay, NewTab, IdleRequest
  <2> QED
    BY <2>2, <2>3
<1>5. Unlocked
  <2>1. Final \in Match
    BY RowTypes
  <2> QED
    BY <1>1, <2>1 DEF Init, Unlocked, NoMatchRow
<1> QED
  BY <1>1, <1>2, <1>4, <1>5, InitType DEF PagesInv

\* The view that is disposed of sends a release.
LEMMA DisposeOwes ==
    ASSUME NEW t \in Tabs, TabOK(t)
    PROVE  /\ \A u \in Tabs, kind \in Kinds :
                 <<u, kind>> \in Dispose(t) => u = t /\ kind = "release"
           /\ tabs[t].view = "match" => <<t, "release">> \in Dispose(t)
BY DEF TabOK, Dispose

LEMMA OpenMatchKeeps ==
    ASSUME PagesInv, NEW t \in Tabs, OpenMatch(t)
    PROVE  PagesInv'
<1>0. PICK old, new : /\ old = tabs[t]
                      /\ new = [old EXCEPT !.path = "match", !.loading = "route", !.playing = FALSE]
  OBVIOUS
<1>1. TabOK(t) /\ old \in Tab /\ tabs \in [Tabs -> Tab]
  BY <1>0 DEF PagesInv
<1>2. /\ new \in Tab /\ new.path = "match" /\ new.loading = "route" /\ new.view = old.view
      /\ new.owns = old.owns /\ new.answer = old.answer
  BY <1>0, <1>1 DEF Tab
<1>3. tabs' = [tabs EXCEPT ![t] = new]
  BY <1>0, <1>1 DEF OpenMatch
<1>4. sent' = sent \union Dispose(t) /\ UNCHANGED vars
  BY DEF OpenMatch
<1>5. /\ \A u \in Tabs, kind \in Kinds : u # t => (<<u, kind>> \in sent' <=> <<u, kind>> \in sent)
      /\ <<t, "play">> \in sent' => <<t, "play">> \in sent
  BY <1>1, <1>4, DisposeOwes DEF Kinds
<1>6. /\ tabs'[t] = new /\ tabs' \in [Tabs -> Tab] /\ OthersStay(t) /\ RequestsOK(t)'
      /\ UNCHANGED <<req, matches>> /\ Unlocked' = Unlocked
  BY <1>2, <1>3, <1>4, <1>5, BrowserStep
<1>7. ~OnItsWay(t, "play") /\ ~OnItsWay(t, "release") /\ old.loading = "no"
  BY <1>0 DEF OpenMatch, Kinds
<1>8. TabOK(t)'
  <2>1. <<t, "play">> \notin sent' /\ req'[<<t, "play">>].at = "idle"
    BY <1>5, <1>6, <1>7 DEF OnItsWay
  <2>2. new.view = "match" => new.owns
    BY <1>0, <1>1, <1>2 DEF TabOK
  <2> QED
    BY <1>2, <1>6, <2>1, <2>2 DEF TabOK, OnItsWay
<1>9. Owes(t) => Owes(t)'
  <2>1. Owes(t) => old.view = "match"
    BY <1>0, <1>7 DEF Owes
  <2>2. old.view = "match" => <<t, "release">> \in sent'
    BY <1>0, <1>1, <1>4, DisposeOwes
  <2> QED
    BY <2>1, <2>2 DEF Owes, OnItsWay
<1> QED
  BY <1>6, <1>8, <1>9, TabStep

LEMMA ConstructViewKeeps ==
    ASSUME PagesInv, NEW t \in Tabs, ConstructView(t)
    PROVE  PagesInv'
<1>0. PICK old, new : /\ old = tabs[t]
                      /\ new = [old EXCEPT !.view = "match", !.owns = ReleasesPath(t),
                                           !.loading = "html", !.answer = "none"]
  OBVIOUS
<1>1. TabOK(t) /\ old \in Tab /\ tabs \in [Tabs -> Tab]
  BY <1>0 DEF PagesInv
<1>2. old.path = "match" /\ ReleasesPath(t)
  BY <1>0, <1>1 DEF TabOK, ConstructView, ReleasesPath
<1>3. /\ new \in Tab /\ new.path = "match" /\ new.loading = "html" /\ new.view = "match"
      /\ new.owns /\ new.answer = "none"
  BY <1>0, <1>1, <1>2 DEF Tab
<1>4. tabs' = [tabs EXCEPT ![t] = new]
  BY <1>0, <1>1 DEF ConstructView
<1>5. sent' = sent \union {<<t, "play">>} /\ UNCHANGED vars
  BY DEF ConstructView
<1>6. /\ tabs'[t] = new /\ tabs' \in [Tabs -> Tab] /\ OthersStay(t) /\ RequestsOK(t)'
      /\ UNCHANGED <<req, matches>> /\ Unlocked' = Unlocked
  <2>1. \A u \in Tabs, kind \in Kinds : u # t => (<<u, kind>> \in sent' <=> <<u, kind>> \in sent)
    BY <1>5
  <2> QED
    BY <1>3, <1>4, <1>5, <2>1, BrowserStep
<1>7. req[<<t, "play">>].at = "idle"
  BY <1>0, <1>1 DEF TabOK, OnItsWay, ConstructView
<1>8. TabOK(t)'
  BY <1>3, <1>6, <1>7 DEF TabOK, OnItsWay
<1>9. Owes(t)'
  BY <1>3, <1>6 DEF Owes
<1> QED
  BY <1>6, <1>8, <1>9, TabStep

LEMMA ShowMatchKeeps ==
    ASSUME PagesInv, NEW t \in Tabs, ShowMatch(t)
    PROVE  PagesInv'
<1>0. PICK old : old = tabs[t]
  OBVIOUS
<1>1. TabOK(t) /\ old \in Tab /\ tabs \in [Tabs -> Tab]
  BY <1>0 DEF PagesInv
<1>2. ~OnItsWay(t, "play") /\ old.loading = "html" /\ UNCHANGED vars
  BY <1>0, <1>1 DEF TabOK, ShowMatch
<1>3. CASE tabs[t].path = "match" /\ tabs[t].answer = "finished"
  <2>0. PICK new : new = [NewTab EXCEPT !.view = "top"]
    OBVIOUS
  <2>1. new \in Tab /\ new.view = "top" /\ new.loading = "no"
    BY <2>0 DEF NewTab, Tab
  <2>2. tabs' = [tabs EXCEPT ![t] = new] /\ sent' = sent \union Dispose(t)
    BY <1>3, <2>0 DEF ShowMatch
  <2>3. /\ \A u \in Tabs, kind \in Kinds : u # t => (<<u, kind>> \in sent' <=> <<u, kind>> \in sent)
        /\ <<t, "play">> \in sent' => <<t, "play">> \in sent
    BY <1>1, <2>2, DisposeOwes DEF Kinds
  <2>4. /\ tabs'[t] = new /\ tabs' \in [Tabs -> Tab] /\ OthersStay(t) /\ RequestsOK(t)'
        /\ UNCHANGED <<req, matches>> /\ Unlocked' = Unlocked
    BY <1>2, <2>1, <2>2, <2>3, BrowserStep
  <2>5. TabOK(t)'
    <3>1. <<t, "play">> \notin sent' /\ req'[<<t, "play">>].at = "idle"
      BY <1>2, <2>3, <2>4 DEF OnItsWay
    <3> QED
      BY <2>1, <2>4, <3>1 DEF TabOK, OnItsWay
  <2>6. Owes(t) => Owes(t)'
    <3>1. old.view = "match" => <<t, "release">> \in sent'
      BY <1>0, <1>1, <2>2, DisposeOwes
    <3>2. OnItsWay(t, "release") => OnItsWay(t, "release")'
      BY <2>2, <2>4 DEF OnItsWay
    <3> QED
      BY <1>0, <3>1, <3>2 DEF Owes, OnItsWay
  <2> QED
    BY <2>4, <2>5, <2>6, TabStep
<1>4. CASE ~(tabs[t].path = "match" /\ tabs[t].answer = "finished")
  <2>0. PICK plays, new :
           /\ plays = (tabs[t].path = "match" /\ tabs[t].answer = "game")
           /\ new = [old EXCEPT !.loading = "no", !.answer = "none", !.playing = plays]
    OBVIOUS
  <2>1. /\ new \in Tab /\ new.loading = "no" /\ new.view = old.view /\ new.owns = old.owns
    BY <1>1, <2>0 DEF Tab
  <2>2. tabs' = [tabs EXCEPT ![t] = new] /\ sent' = sent
    BY <1>0, <1>1, <1>4, <2>0 DEF ShowMatch
  <2>3. /\ tabs'[t] = new /\ tabs' \in [Tabs -> Tab] /\ OthersStay(t) /\ RequestsOK(t)'
        /\ UNCHANGED <<req, matches>> /\ Unlocked' = Unlocked
    <3>1. \A u \in Tabs, kind \in Kinds : u # t => (<<u, kind>> \in sent' <=> <<u, kind>> \in sent)
      BY <2>2
    <3> QED
      BY <1>2, <2>1, <2>2, <3>1, BrowserStep
  <2>4. TabOK(t)'
    <3>1. <<t, "play">> \notin sent' /\ req'[<<t, "play">>].at = "idle"
      BY <1>2, <2>2, <2>3 DEF OnItsWay
    <3>2. new.view = "match" => new.owns
      BY <1>0, <1>1, <2>1 DEF TabOK
    <3> QED
      BY <2>1, <2>3, <3>1, <3>2 DEF TabOK, OnItsWay
  <2>5. Owes(t) => Owes(t)'
    BY <1>0, <2>1, <2>2, <2>3 DEF Owes, OnItsWay
  <2> QED
    BY <2>3, <2>4, <2>5, TabStep
<1> QED
  BY <1>3, <1>4

LEMMA EndGameKeeps ==
    ASSUME PagesInv, NEW t \in Tabs, EndGame(t)
    PROVE  PagesInv'
<1>0. PICK old, new : old = tabs[t] /\ new = [old EXCEPT !.playing = FALSE]
  OBVIOUS
<1>1. TabOK(t) /\ old \in Tab /\ tabs \in [Tabs -> Tab]
  BY <1>0 DEF PagesInv
<1>2. /\ new \in Tab /\ new.path = old.path /\ new.loading = old.loading /\ new.view = old.view
      /\ new.owns = old.owns /\ new.answer = old.answer
  BY <1>0, <1>1 DEF Tab
<1>3. tabs' = [tabs EXCEPT ![t] = new] /\ UNCHANGED vars
  BY <1>0, <1>1 DEF EndGame
<1>4. /\ \A u \in Tabs, kind \in Kinds : u # t => (<<u, kind>> \in sent' <=> <<u, kind>> \in sent)
      /\ <<t, "play">> \in sent' <=> <<t, "play">> \in sent
      /\ <<t, "release">> \in sent' <=> <<t, "release">> \in sent
  BY DEF EndGame
<1>5. /\ tabs'[t] = new /\ tabs' \in [Tabs -> Tab] /\ OthersStay(t) /\ RequestsOK(t)'
      /\ UNCHANGED <<req, matches>> /\ Unlocked' = Unlocked
  BY <1>2, <1>3, <1>4, BrowserStep
<1>6. TabOK(t)'
  BY <1>0, <1>1, <1>2, <1>4, <1>5 DEF TabOK, OnItsWay
<1>7. Owes(t) => Owes(t)'
  BY <1>0, <1>2, <1>4, <1>5 DEF Owes, OnItsWay
<1> QED
  BY <1>5, <1>6, <1>7, TabStep

\* A page that has appeared is left: its view is disposed of.
LEMMA LeaveKeeps ==
    ASSUME PagesInv, NEW t \in Tabs, tabs[t].loading = "no", Leave(t)
    PROVE  PagesInv'
<1>0. PICK old, new : /\ old = tabs[t]
                      /\ new = [old EXCEPT !.path = "top", !.view = "top", !.playing = FALSE]
  OBVIOUS
<1>1. TabOK(t) /\ old \in Tab /\ tabs \in [Tabs -> Tab]
  BY <1>0 DEF PagesInv
<1>2. new \in Tab /\ new.loading = "no" /\ new.view = "top"
  BY <1>0, <1>1 DEF Tab
<1>3. tabs' = [tabs EXCEPT ![t] = new] /\ UNCHANGED vars
  BY <1>0, <1>1 DEF Leave
<1>4. sent' = sent \union Dispose(t)
  BY DEF Leave
<1>5. /\ \A u \in Tabs, kind \in Kinds : u # t => (<<u, kind>> \in sent' <=> <<u, kind>> \in sent)
      /\ <<t, "play">> \in sent' => <<t, "play">> \in sent
  BY <1>1, <1>4, DisposeOwes DEF Kinds
<1>6. /\ tabs'[t] = new /\ tabs' \in [Tabs -> Tab] /\ OthersStay(t) /\ RequestsOK(t)'
      /\ UNCHANGED <<req, matches>> /\ Unlocked' = Unlocked
  BY <1>2, <1>3, <1>5, BrowserStep
<1>7. ~OnItsWay(t, "play")
  BY <1>1 DEF TabOK
<1>8. TabOK(t)'
  <2>1. <<t, "play">> \notin sent' /\ req'[<<t, "play">>].at = "idle"
    BY <1>5, <1>6, <1>7 DEF OnItsWay
  <2> QED
    BY <1>2, <1>6, <2>1 DEF TabOK, OnItsWay
<1>9. Owes(t) => Owes(t)'
  <2>1. old.view = "match" => <<t, "release">> \in sent'
    BY <1>0, <1>1, <1>4, DisposeOwes
  <2>2. OnItsWay(t, "release") => OnItsWay(t, "release")'
    BY <1>4, <1>6 DEF OnItsWay
  <2> QED
    BY <1>0, <2>1, <2>2 DEF Owes, OnItsWay
<1> QED
  BY <1>6, <1>8, <1>9, TabStep

\* A step of one request of a tab.
LEMMA RequestStep ==
    ASSUME TypeOK, PagesInv, NEW t \in Tabs, NEW kind \in Kinds, NEW r,
           req' = [req EXCEPT ![<<t, kind>>] = r],
           \A u \in Tabs, k \in Kinds :
              <<u, k>> # <<t, kind>> => (<<u, k>> \in sent' <=> <<u, k>> \in sent),
           \A u \in Tabs : u # t => tabs'[u] = tabs[u]
    PROVE  /\ req'[<<t, kind>>] = r /\ OthersStay(t)
           /\ \A k \in Kinds : k # kind => req'[<<t, k>>] = req[<<t, k>>]
<1>1. <<t, kind>> \in Requests /\ req \in [Requests -> Request]
  BY RequestsAssumption DEF TypeOK
<1>2. \A u \in Tabs, k \in Kinds : <<u, k>> \in Requests
  BY RequestsAssumption
<1>3. req'[<<t, kind>>] = r
  BY <1>1
<1>4. \A u \in Tabs, k \in Kinds :
         <<u, k>> # <<t, kind>> => req'[<<u, k>>] = req[<<u, k>>]
  BY <1>1, <1>2
<1>5. OthersStay(t)
  BY <1>4 DEF OthersStay
<1> QED
  BY <1>3, <1>4, <1>5

\* The page is asked for.
LEMMA ArrivePlayKeeps ==
    ASSUME TypeOK, PagesInv, NEW t \in Tabs, ArrivePlay(t)
    PROVE  PagesInv'
<1>0. PICK row, r : /\ row = [matches[Final] EXCEPT !.is_playing = TRUE]
                    /\ r = [IdleRequest EXCEPT !.at = "play", !.id = Final, !.mine = row]
  OBVIOUS
<1>1. r.at = "play" /\ r.id = Final
  BY <1>0 DEF IdleRequest
<1>2. /\ req' = [req EXCEPT ![<<t, "play">>] = r] /\ UNCHANGED <<matches, tabs>>
      /\ <<t, "play">> \in sent /\ sent' = sent \ {<<t, "play">>}
      /\ req[<<t, "play">>].at = "idle"
  BY <1>0 DEF ArrivePlay, Arrive, GetToPlay, Take, db
<1>3. /\ req'[<<t, "play">>] = r /\ OthersStay(t)
      /\ \A k \in Kinds : k # "play" => req'[<<t, k>>] = req[<<t, k>>]
  BY <1>2, RequestStep DEF Kinds
<1>4. tabs \in [Tabs -> Tab] /\ TabOK(t) /\ RequestsOK(t)
  BY DEF PagesInv
<1>5. RequestsOK(t)'
  BY <1>1, <1>3, <1>4 DEF RequestsOK, PlayOK, Kinds
<1>6. TabOK(t)'
  BY <1>2, <1>4 DEF TabOK, OnItsWay
<1>7. Owes(t) => Owes(t)'
  BY <1>2, <1>3 DEF Owes, OnItsWay, Kinds
<1>8. Unlocked' = Unlocked
  BY <1>2 DEF Unlocked
<1> QED
  BY <1>2, <1>3, <1>4, <1>5, <1>6, <1>7, <1>8, TabStep

LEMMA RedirectKeeps ==
    ASSUME TypeOK, PagesInv, NEW t \in Tabs, Redirect(t)
    PROVE  PagesInv'
<1>0. PICK old, new : old = tabs[t] /\ new = [old EXCEPT !.answer = "redirect"]
  OBVIOUS
<1>1. TabOK(t) /\ old \in Tab /\ tabs \in [Tabs -> Tab] /\ RequestsOK(t)
  BY <1>0 DEF PagesInv
<1>2. /\ new \in Tab /\ new.path = old.path /\ new.loading = old.loading /\ new.view = old.view
      /\ new.owns = old.owns
  BY <1>0, <1>1 DEF Tab
<1>3. /\ tabs' = [tabs EXCEPT ![t] = new] /\ UNCHANGED vars
      /\ <<t, "play">> \in sent /\ sent' = sent \ {<<t, "play">>}
  BY <1>0, <1>1 DEF Redirect, Answer, Arrive
<1>4. \A u \in Tabs, kind \in Kinds : u # t => (<<u, kind>> \in sent' <=> <<u, kind>> \in sent)
  BY <1>3
<1>5. /\ tabs'[t] = new /\ tabs' \in [Tabs -> Tab] /\ OthersStay(t) /\ RequestsOK(t)'
      /\ UNCHANGED <<req, matches>> /\ Unlocked' = Unlocked
  BY <1>2, <1>3, <1>4, BrowserStep
<1>6. TabOK(t)'
  <2>1. ~OnItsWay(t, "play")'
    BY <1>1, <1>3, <1>5 DEF TabOK, OnItsWay
  <2> QED
    BY <1>0, <1>1, <1>2, <1>5, <2>1 DEF TabOK, OnItsWay
<1>7. Owes(t) => Owes(t)'
  BY <1>0, <1>2, <1>3, <1>5 DEF Owes, OnItsWay
<1> QED
  BY <1>5, <1>6, <1>7, TabStep

\* The match is marked by a tab that still has to release it.
LEMMA ServeGameKeeps ==
    ASSUME TypeOK, PagesInv, NEW t \in Tabs, ServeGame(t)
    PROVE  PagesInv'
<1>0. PICK old, answer, new :
         /\ old = tabs[t]
         /\ answer = IF req[<<t, "play">>].mine.is_finished THEN "finished" ELSE "game"
         /\ new = [old EXCEPT !.answer = answer]
  OBVIOUS
<1>1. TabOK(t) /\ old \in Tab /\ tabs \in [Tabs -> Tab] /\ RequestsOK(t)
  BY <1>0 DEF PagesInv
<1>2. /\ new \in Tab /\ new.path = old.path /\ new.loading = old.loading /\ new.view = old.view
      /\ new.owns = old.owns
  BY <1>0, <1>1 DEF Tab
<1>3. /\ tabs' = [tabs EXCEPT ![t] = new] /\ UNCHANGED sent
      /\ req' = [req EXCEPT ![<<t, "play">>] = IdleRequest] /\ req[<<t, "play">>].at = "play"
  BY <1>0, <1>1 DEF ServeGame, Answer, SavePlaying, Finish, Proceed
<1>4. /\ req'[<<t, "play">>] = IdleRequest /\ OthersStay(t)
      /\ \A k \in Kinds : k # "play" => req'[<<t, k>>] = req[<<t, k>>]
  BY <1>1, <1>3, RequestStep DEF Kinds
<1>5. tabs'[t] = new /\ tabs' \in [Tabs -> Tab]
  BY <1>1, <1>2, <1>3
<1>6. RequestsOK(t)'
  BY <1>1, <1>4 DEF RequestsOK, PlayOK, IdleRequest, Kinds
<1>7. old.view = "match" /\ old.loading = "html" /\ <<t, "play">> \notin sent
  BY <1>0, <1>1, <1>3 DEF TabOK, OnItsWay
<1>8. TabOK(t)'
  <2>1. ~OnItsWay(t, "play")'
    BY <1>3, <1>4, <1>7 DEF OnItsWay, IdleRequest
  <2> QED
    BY <1>0, <1>1, <1>2, <1>5, <2>1 DEF TabOK, OnItsWay
<1>9. Owes(t)'
  BY <1>2, <1>5, <1>7 DEF Owes
<1> QED
  BY <1>4, <1>5, <1>6, <1>8, <1>9, TabStep

LEMMA ArriveReleaseKeeps ==
    ASSUME TypeOK, PagesInv, NEW t \in Tabs, ArriveRelease(t)
    PROVE  PagesInv'
<1>0. PICK row, r : /\ row = [matches[Final] EXCEPT !.is_playing = FALSE]
                    /\ r = [IdleRequest EXCEPT !.at = "release", !.id = Final, !.mine = row]
  OBVIOUS
<1>1. r.at = "release" /\ r.id = Final /\ ~r.mine.is_playing
  <2>1. matches[Final] \in MatchRow
    BY RowTypes DEF TypeOK
  <2> QED
    BY <1>0, <2>1 DEF IdleRequest, MatchRow
<1>2. /\ req' = [req EXCEPT ![<<t, "release">>] = r] /\ UNCHANGED <<matches, tabs>>
      /\ sent' = sent \ {<<t, "release">>}
  BY <1>0 DEF ArriveRelease, Arrive, GetToRelease, Take, db
<1>3. /\ req'[<<t, "release">>] = r /\ OthersStay(t)
      /\ \A k \in Kinds : k # "release" => req'[<<t, k>>] = req[<<t, k>>]
  BY <1>2, RequestStep DEF Kinds
<1>4. tabs \in [Tabs -> Tab] /\ TabOK(t) /\ RequestsOK(t)
  BY DEF PagesInv
<1>5. RequestsOK(t)'
  BY <1>1, <1>3, <1>4 DEF RequestsOK, ReleaseOK, Kinds
<1>6. TabOK(t)'
  BY <1>2, <1>3, <1>4 DEF TabOK, OnItsWay, Kinds
<1>7. Owes(t)'
  BY <1>1, <1>3 DEF Owes, OnItsWay
<1> QED
  BY <1>2, <1>3, <1>4, <1>5, <1>6, <1>7, TabStep

\* What a release stores is a match nobody plays.
LEMMA ReleaseKeeps ==
    ASSUME TypeOK, PagesInv, NEW t \in Tabs, Release(t)
    PROVE  PagesInv'
<1>0. PICK r : r = req[<<t, "release">>]
  OBVIOUS
<1>1. tabs \in [Tabs -> Tab] /\ TabOK(t) /\ RequestsOK(t)
  BY DEF PagesInv
<1>2. r.at = "release" /\ r.id = Final /\ ~r.mine.is_playing
  BY <1>0, <1>1 DEF Release, SaveReleased, RequestsOK, ReleaseOK
<1>3. /\ req' = [req EXCEPT ![<<t, "release">>] = IdleRequest] /\ UNCHANGED <<tabs, sent>>
      /\ matches' = [matches EXCEPT ![r.id] = r.mine]
  BY <1>0 DEF Release, SaveReleased, StoreMatch, Finish, Proceed
<1>4. /\ req'[<<t, "release">>] = IdleRequest /\ OthersStay(t)
      /\ \A k \in Kinds : k # "release" => req'[<<t, k>>] = req[<<t, k>>]
  BY <1>3, RequestStep DEF Kinds
<1>5. RequestsOK(t)'
  BY <1>1, <1>4 DEF RequestsOK, ReleaseOK, IdleRequest, Kinds
<1>6. TabOK(t)'
  BY <1>1, <1>3, <1>4 DEF TabOK, OnItsWay, Kinds
<1>7. Unlocked'
  <2>1. matches'[Final] = r.mine
    BY <1>2, <1>3, RowTypes DEF TypeOK
  <2> QED
    BY <1>2, <2>1 DEF Unlocked
<1> QED
  BY <1>1, <1>3, <1>4, <1>5, <1>6, <1>7, TabStep

\* A step of the request that stores a result: it leaves the match alone, or finishes it.
LEMMA ResultStep ==
    ASSUME TypeOK, PagesInv, NEW t \in Tabs, NEW r, ResultOK(r),
           req' = [req EXCEPT ![<<t, "result">>] = r], UNCHANGED tabs,
           UNCHANGED matches \/ Unlocked',
           UNCHANGED sent \/ sent' = sent \ {<<t, "result">>}
    PROVE  PagesInv'
<1>1. tabs \in [Tabs -> Tab] /\ TabOK(t) /\ RequestsOK(t)
  BY DEF PagesInv
<1>2. \A u \in Tabs, k \in Kinds :
         <<u, k>> # <<t, "result">> => (<<u, k>> \in sent' <=> <<u, k>> \in sent)
  OBVIOUS
<1>3. /\ req'[<<t, "result">>] = r /\ OthersStay(t)
      /\ \A k \in Kinds : k # "result" => req'[<<t, k>>] = req[<<t, k>>]
  BY <1>2, RequestStep DEF Kinds
<1>4. /\ <<t, "play">> \in sent' <=> <<t, "play">> \in sent
      /\ <<t, "release">> \in sent' <=> <<t, "release">> \in sent
  BY <1>2 DEF Kinds
<1>5. RequestsOK(t)'
  BY <1>1, <1>3 DEF RequestsOK, Kinds
<1>6. TabOK(t)'
  BY <1>1, <1>3, <1>4 DEF TabOK, OnItsWay, Kinds
<1>7. Owes(t) => Owes(t)'
  BY <1>3, <1>4 DEF Owes, OnItsWay, Kinds
<1>8. Unlocked' \/ Unlocked' = Unlocked
  BY DEF Unlocked
<1> QED
  BY <1>1, <1>3, <1>5, <1>6, <1>7, <1>8, TabStep

LEMMA ArriveResultKeeps ==
    ASSUME TypeOK, PagesInv, NEW t \in Tabs, ArriveResult(t)
    PROVE  PagesInv'
<1>1. PICK first \in BOOLEAN : GetMatch(<<t, "result">>, Final, first)
  BY DEF ArriveResult
<1>2. PICK w, row, r :
         /\ w = WinnerOf(matches[Final], first)
         /\ row = [matches[Final] EXCEPT !.winner = w, !.is_finished = TRUE]
         /\ r = [IdleRequest EXCEPT !.at = "save_match", !.id = Final, !.mine = row]
  OBVIOUS
<1>3. row.is_finished
  <2>1. matches[Final] \in MatchRow
    BY RowTypes DEF TypeOK
  <2> QED
    BY <1>2, <2>1 DEF MatchRow
<1>4. ResultOK(r)
  BY <1>2, <1>3 DEF ResultOK, IdleRequest
<1>5. req' = [req EXCEPT ![<<t, "result">>] = r] /\ UNCHANGED matches
  BY <1>1, <1>2 DEF GetMatch, Take, db
<1>6. UNCHANGED tabs /\ sent' = sent \ {<<t, "result">>}
  BY DEF ArriveResult, Arrive
<1> QED
  BY <1>4, <1>5, <1>6, ResultStep

LEMMA SaveResultKeeps ==
    ASSUME TypeOK, PagesInv, NEW t \in Tabs, SaveResult(t)
    PROVE  PagesInv'
<1>0. PICK q, old : q = <<t, "result">> /\ old = req[q]
  OBVIOUS
<1>1. q \in Requests /\ old \in Request /\ matches \in [Match -> MatchRow]
  BY <1>0, RequestsAssumption DEF TypeOK, Kinds
<1>2. ResultOK(old)
  BY <1>0 DEF PagesInv, RequestsOK
<1>3. SaveGameResult(q) /\ UNCHANGED tabs /\ UNCHANGED sent
  BY <1>0 DEF SaveResult
<1>4. ASSUME NEW r, ResultOK(r), Proceed(q, r), UNCHANGED matches \/ Unlocked'
      PROVE  PagesInv'
  <2>1. req' = [req EXCEPT ![<<t, "result">>] = r]
    BY <1>0, <1>4 DEF Proceed
  <2> QED
    BY <1>3, <1>4, <2>1, ResultStep
<1>5. ResultOK(IdleRequest)
  BY DEF ResultOK, IdleRequest
<1>6. CASE SaveMatch(q)
  <2>0. PICK r : r = [old EXCEPT !.at = "load_tournament"]
    OBVIOUS
  <2>1. ResultOK(r)
    BY <1>1, <1>2, <2>0 DEF ResultOK, Request
  <2>2. Proceed(q, r) /\ matches' = [matches EXCEPT ![old.id] = old.mine] /\ old.at = "save_match"
    BY <1>0, <1>6, <2>0 DEF SaveMatch, StoreMatch
  <2>3. matches'[Final] = old.mine
    BY <1>1, <1>2, <2>2, RowTypes DEF ResultOK
  <2>4. Unlocked'
    BY <1>2, <2>2, <2>3 DEF ResultOK, Unlocked
  <2> QED
    BY <1>4, <2>1, <2>2, <2>4
<1>7. CASE LoadTournament(q)
  <2>1. UNCHANGED matches
    BY <1>7 DEF LoadTournament, db
  <2>2. CASE tournament.stored
    <3>0. PICK at, r : /\ at = IF old.mine.winner = NoOne THEN "check_round" ELSE "get_next"
                       /\ r = [old EXCEPT !.tour = tournament, !.at = at]
      OBVIOUS
    <3>1. ResultOK(r)
      BY <1>1, <1>2, <3>0 DEF ResultOK, Request
    <3>2. Proceed(q, r)
      BY <1>0, <1>7, <2>2, <3>0 DEF LoadTournament
    <3> QED
      BY <1>4, <2>1, <3>1, <3>2
  <2>3. CASE ~tournament.stored
    BY <1>4, <1>5, <1>7, <2>1, <2>3 DEF LoadTournament, Finish
  <2> QED
    BY <2>2, <2>3
<1>8. CASE GetNextMatch(q)
  <2>0. PICK r : r = [old EXCEPT !.at = "check_round", !.mine = NoMatchRow]
    OBVIOUS
  <2>1. ResultOK(r)
    BY <1>1, <1>2, <2>0 DEF ResultOK, Request
  <2>2. ~(old.id.round < Rounds)
    BY <1>2, RoundsAssumption DEF ResultOK, Final
  <2>3. Proceed(q, r) /\ UNCHANGED matches
    BY <1>0, <1>8, <2>0, <2>2 DEF GetNextMatch, db
  <2> QED
    BY <1>4, <2>1, <2>3
<1>9. CASE SaveNextMatch(q)
  BY <1>0, <1>2, <1>9 DEF SaveNextMatch, ResultOK
<1>10. CASE CheckRound(q)
  <2>1. UNCHANGED matches
    BY <1>10 DEF CheckRound, db
  <2>2. CASE IsRoundFinished(old.id.round)
    <3>0. PICK mine, r : /\ mine = [old EXCEPT !.mine = NoMatchRow]
                         /\ r = [mine EXCEPT !.at = "save_round",
                                             !.tour.last_finished_round = old.id.round]
      OBVIOUS
    <3>1. Proceed(q, r)
      BY <1>0, <1>10, <2>2, <3>0 DEF CheckRound
    <3>2. ResultOK(r)
      BY <1>1, <1>2, <3>0 DEF ResultOK, Request
    <3> QED
      BY <1>4, <2>1, <3>1, <3>2
  <2>3. CASE ~IsRoundFinished(old.id.round)
    <3>0. PICK mine, r : /\ mine = [old EXCEPT !.mine = NoMatchRow]
                         /\ r = [mine EXCEPT !.at = "check_all"]
      OBVIOUS
    <3>1. Proceed(q, r)
      BY <1>0, <1>10, <2>3, <3>0 DEF CheckRound
    <3>2. ResultOK(r)
      BY <1>1, <1>2, <3>0 DEF ResultOK, Request
    <3> QED
      BY <1>4, <2>1, <3>1, <3>2
  <2> QED
    BY <2>2, <2>3
<1>11. CASE SaveRound(q)
  <2>0. PICK r : r = [old EXCEPT !.at = "notify"]
    OBVIOUS
  <2>1. ResultOK(r)
    BY <1>1, <1>2, <2>0 DEF ResultOK, Request
  <2>2. Proceed(q, r) /\ UNCHANGED matches
    BY <1>0, <1>11, <2>0 DEF SaveRound, StoreTournament
  <2> QED
    BY <1>4, <2>1, <2>2
<1>12. CASE Notify(q)
  <2>0. PICK r : r = [old EXCEPT !.at = "check_all"]
    OBVIOUS
  <2>1. ResultOK(r)
    BY <1>1, <1>2, <2>0 DEF ResultOK, Request
  <2>2. Proceed(q, r) /\ UNCHANGED matches
    BY <1>0, <1>12, <2>0 DEF Notify
  <2> QED
    BY <1>4, <2>1, <2>2
<1>13. CASE CheckAll(q)
  <2>1. UNCHANGED matches
    BY <1>13 DEF CheckAll, db
  <2>2. CASE IsTournamentFinished
    <3>0. PICK r : r = [old EXCEPT !.at = "save_all", !.tour.is_finished = TRUE]
      OBVIOUS
    <3>1. Proceed(q, r)
      BY <1>0, <1>13, <2>2, <3>0 DEF CheckAll
    <3>2. ResultOK(r)
      BY <1>1, <1>2, <3>0 DEF ResultOK, Request
    <3> QED
      BY <1>4, <2>1, <3>1, <3>2
  <2>3. CASE ~IsTournamentFinished
    BY <1>4, <1>5, <1>13, <2>1, <2>3 DEF CheckAll, Finish
  <2> QED
    BY <2>2, <2>3
<1>14. CASE SaveAll(q)
  BY <1>4, <1>5, <1>14 DEF SaveAll, StoreTournament, Finish
<1> QED
  BY <1>3, <1>6, <1>7, <1>8, <1>9, <1>10, <1>11, <1>12, <1>13, <1>14 DEF SaveGameResult

\* A step that no tab takes part in.
LEMMA PagesStay ==
    ASSUME PagesInv, req' = req, tabs' = tabs, sent' = sent, Unlocked' \/ matches' = matches
    PROVE  PagesInv'
<1>1. \A t \in Tabs : (RequestsOK(t)' <=> RequestsOK(t)) /\ (TabOK(t)' <=> TabOK(t))
  BY DEF RequestsOK, TabOK, OnItsWay
<1>2. \A t \in Tabs : Owes(t)' <=> Owes(t)
  BY DEF Owes, OnItsWay
<1>3. Unlocked' \/ (Unlocked' <=> Unlocked)
  BY DEF Unlocked
<1> QED
  BY <1>1, <1>2, <1>3 DEF PagesInv

LEMMA CreateKeepsPages ==
    ASSUME PagesInv, CreateTournament, tabs' = tabs, sent' = sent
    PROVE  PagesInv'
<1>1. req' = req
  BY DEF CreateTournament
<1>2. Unlocked'
  BY RowTypes DEF CreateTournament, Unlocked, NewMatchRow, NoMatchRow
<1> QED
  BY <1>1, <1>2, PagesStay

LEMMA PatientIsStep ==
    ASSUME PatientNext
    PROVE  [Next]_vars
<1>1. Final \in Match
  BY RowTypes
<1>2. \A t \in Tabs, kind \in Kinds : <<t, kind>> \in Requests
  BY RequestsAssumption
<1>3. ASSUME NEW t \in Tabs, Server(t)
      PROVE  [Next]_vars
  <2>1. /\ <<t, "play">> \in Requests /\ <<t, "release">> \in Requests
        /\ <<t, "result">> \in Requests
    BY <1>2 DEF Kinds
  <2>2. CASE ArrivePlay(t) \/ ServeGame(t)
    BY <1>1, <2>1, <2>2 DEF ArrivePlay, ServeGame, Next, Accept, Continue
  <2>3. CASE ArriveRelease(t) \/ Release(t)
    BY <1>1, <2>1, <2>3 DEF ArriveRelease, Release, Next, Accept, Continue
  <2>4. CASE ArriveResult(t) \/ SaveResult(t)
    BY <1>1, <2>1, <2>4 DEF ArriveResult, SaveResult, Next, Accept, Continue
  <2>5. CASE Redirect(t)
    BY <2>5 DEF Redirect
  <2> QED
    BY <1>3, <2>2, <2>3, <2>4, <2>5 DEF Server
<1>4. ASSUME NEW t \in Tabs, OpenMatch(t) \/ EndGame(t) \/ Leave(t) \/ Render(t)
      PROVE  UNCHANGED vars
  BY <1>4 DEF OpenMatch, EndGame, Leave, Render, ConstructView, ShowMatch
<1>5. CASE CreateTournament
  BY <1>5 DEF Next
<1> QED
  BY <1>3, <1>4, <1>5 DEF PatientNext

LEMMA PagesStep == TypeOK /\ PagesInv /\ [PatientNext]_pageVars => TypeOK' /\ PagesInv'
<1> SUFFICES ASSUME TypeOK, PagesInv, [PatientNext]_pageVars
             PROVE  TypeOK' /\ PagesInv'
  OBVIOUS
<1>1. TypeOK'
  <2>1. [Next]_vars
    BY PatientIsStep DEF pageVars
  <2> QED
    BY <2>1, TypeStep
<1>2. CASE CreateTournament /\ UNCHANGED <<tabs, sent, visits>>
  <2>1. tabs' = tabs /\ sent' = sent
    BY <1>2
  <2> QED
    BY <1>1, <1>2, <2>1, CreateKeepsPages
<1>3. ASSUME NEW t \in Tabs,
             \/ OpenMatch(t) \/ EndGame(t)
             \/ tabs[t].loading = "no" /\ Leave(t)
             \/ Render(t)
      PROVE  PagesInv'
  BY <1>3, OpenMatchKeeps, EndGameKeeps, LeaveKeeps, ConstructViewKeeps, ShowMatchKeeps DEF Render
<1>4. ASSUME NEW t \in Tabs, Server(t)
      PROVE  PagesInv'
  BY <1>4, ArrivePlayKeeps, RedirectKeeps, ServeGameKeeps, ArriveReleaseKeeps, ReleaseKeeps,
     ArriveResultKeeps, SaveResultKeeps DEF Server
<1>5. CASE UNCHANGED pageVars
  <2>1. req' = req /\ matches' = matches /\ tabs' = tabs /\ sent' = sent
    BY <1>5 DEF pageVars, vars
  <2> QED
    BY <1>1, <2>1, PagesStay
<1> QED
  BY <1>1, <1>2, <1>3, <1>4, <1>5 DEF PatientNext

\* While the match is marked as being played and is not finished, some tab shows it or will
\* release it: whoever marks it waits for its page, and every page that is left releases.
THEOREM PagesInductive == PatientSpec => [](TypeOK /\ PagesInv)
BY PagesStart, PagesStep, PTL DEF PatientSpec

\* A match that is on no screen, with every request answered, can be opened again or is
\* finished, for any number of tabs and visits (renderView, MatchView.dispose, release_match,
\* play_tournament, save_game_result).
THEOREM UnlockedWhenLeftAlways == PatientSpec => []UnlockedWhenLeft
<1>1. PagesInv => UnlockedWhenLeft
  <2> SUFFICES ASSUME PagesInv, Left, Answered, ~Unlocked
               PROVE  FALSE
    BY DEF UnlockedWhenLeft
  <2>1. PICK t \in Tabs : Owes(t)
    BY DEF PagesInv
  <2>2. tabs[t].view # "match" /\ sent = {}
    BY DEF Left, Answered
  <2>3. req[<<t, "release">>].at = "idle"
    BY RequestsAssumption DEF Answered, Kinds
  <2> QED
    BY <2>1, <2>2, <2>3 DEF Owes, OnItsWay
<1> QED
  BY <1>1, PagesInductive, PTL
=============================================================================
