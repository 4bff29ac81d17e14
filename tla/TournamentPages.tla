-------------------------- MODULE TournamentPages --------------------------
(***************************************************************************)
(* The tournament page in several tabs of one organizer (pong/static/pong/ *)
(* js/tournament), with the endpoints it reads and creates tournaments by  *)
(* (get_views.py, create_views.py).  The page draws into one container:    *)
(* RoundManager's current state decides what, and what is drawn decides    *)
(* what can be clicked; answers are drawn when they arrive.                *)
(*                                                                         *)
(* A request and its answer are one step, taken when the answer arrives.   *)
(* No request fails; names are valid; users stay logged in.                *)
(***************************************************************************)
EXTENDS Naturals

CONSTANTS
    Tabs,
    Submissions,    \* pairs of a tab and a number: submissions that can be on their way
    Rounds,
    MaxTournaments  \* bound: tournaments ever created

ASSUME PagesAssumption ==
    /\ MaxTournaments \in Nat
    /\ Rounds \in 1..4
    /\ Submissions \subseteq Tabs \X Nat

Ids == 1..MaxTournaments
None == 0

VARIABLES
    tournaments,    \* the organizer's tournaments: "none", "ongoing", "over" (finished or deleted)
    created,        \* how many there were
    tabs,           \* what each tab shows and asks for
    submissions,    \* _saveTournament: "idle", "checking", "posted", or posted by a script that is gone
    deleting,       \* deleteTournament: the id it posted, or None
    raced           \* history: two submissions were posted at the same time

vars == <<tournaments, created, tabs, submissions, deleting, raced>>

\* The states of RoundManager: 0 is StateEntry, 1..3 are the rounds, 5 StateCreate, 999 none yet.
Entry == 0
Round == 1..Rounds
Create == 5
Blank == 999
State == {Entry, Create} \union Round

\* container: the state whose content is drawn; asked: the states of this page whose answer
\* is awaited; late: a page that was left waits for the matches of a round.
Tab == [page: {"other", "loading", "tournament"}, currentRound: State \union {Blank},
        container: State \union {Blank}, asked: SUBSET ({Entry} \union Round), late: BOOLEAN,
        userTournament: Ids \union {None}]

Page(where, late) ==
    [page |-> where, currentRound |-> Blank, container |-> Blank, asked |-> {}, late |-> late,
     userTournament |-> None]

Init ==
    /\ tournaments = [x \in Ids |-> "none"]
    /\ created = 0
    /\ tabs = [t \in Tabs |-> Page("other", FALSE)]
    /\ submissions = [s \in Submissions |-> "idle"]
    /\ deleting = [t \in Tabs |-> None]
    /\ raced = FALSE

Ongoing == {x \in Ids : tournaments[x] = "ongoing"}

-----------------------------------------------------------------------------
(* The page *)

\* What is asked for is not asked back when the page is left.
Switch(t, where) ==
    tabs' = [tabs EXCEPT ![t] = Page(where, tabs[t].late \/ tabs[t].asked \intersect Round # {})]

\* tournamentHandleCatchError: the browser loads the top page, and every script of the tab ends.
Alert(t) ==
    /\ tabs' = [tabs EXCEPT ![t] = Page("other", FALSE)]
    /\ submissions' = [s \in Submissions |->
                          IF s[1] # t THEN submissions[s]
                          ELSE CASE submissions[s] = "checking" -> "idle"
                                 [] submissions[s] = "posted" -> "orphan"
                                 [] OTHER -> submissions[s]]
    /\ deleting' = [deleting EXCEPT ![t] = None]
    /\ UNCHANGED <<tournaments, created, raced>>

Visit(t) ==
    /\ tabs[t].page = "other"
    /\ Switch(t, "loading")
    /\ UNCHANGED <<tournaments, created, submissions, deleting, raced>>

Leave(t) ==
    /\ tabs[t].page # "other"
    /\ Switch(t, "other")
    /\ UNCHANGED <<tournaments, created, submissions, deleting, raced>>

\* What a state asks the server for before it draws: the details of the tournament, if there
\* is one, or the matches of a round.
Asks(tab, state) == state \in Round \/ (state = Entry /\ tab.userTournament # None)

\* Broken: the old content stays until the new one is drawn.
EnterOver(tab, state) ==
    IF Asks(tab, state)
    THEN [tab EXCEPT !.currentRound = state, !.asked = @ \union {state}]
    ELSE [tab EXCEPT !.currentRound = state, !.container = state]

\* exit of the old state clears the container, and the new one asks or draws at once.
Enter(tab, state) ==
    IF Asks(tab, state)
    THEN [tab EXCEPT !.currentRound = state, !.container = Blank, !.asked = @ \union {state}]
    ELSE [tab EXCEPT !.currentRound = state, !.container = state]

\* TournamentManager.main: the latest ongoing tournament, if any, and the entry.  The latest
\* is the one whose form was opened last, which can be any.
Load(t) ==
    /\ tabs[t].page = "loading"
    /\ \E latest \in IF Ongoing = {} THEN {None} ELSE Ongoing :
          tabs' = [tabs EXCEPT ![t] =
                      Enter([@ EXCEPT !.page = "tournament", !.userTournament = latest], Entry)]
    /\ UNCHANGED <<tournaments, created, submissions, deleting, raced>>

\* The states the buttons on the screen lead to.
Buttons(tab) ==
    CASE tab.container = Entry -> {IF tab.userTournament = None THEN Create ELSE 1}
      [] tab.container \in Round -> {tab.container - 1, tab.container + 1} \ {Rounds + 1}
      [] OTHER -> {}

ChangeStateToRound(t, state) ==
    /\ state \in Buttons(tabs[t])
    /\ state # tabs[t].currentRound
    /\ tabs' = [tabs EXCEPT ![t] = Enter(@, state)]
    /\ UNCHANGED <<tournaments, created, submissions, deleting, raced>>

\* The details of the tournament, or that there are none any more.
DrawEntry(t) ==
    /\ Entry \in tabs[t].asked
    /\ tabs' = [tabs EXCEPT ![t].asked = @ \ {Entry}, ![t].container = Entry]
    /\ UNCHANGED <<tournaments, created, submissions, deleting, raced>>

\* Broken: an answer without matches is ignored.
DrawAnyRound(t, r) ==
    /\ r \in tabs[t].asked
    /\ tabs' = [tabs EXCEPT ![t].asked = @ \ {r},
                            ![t].container = IF Ongoing = {} THEN @ ELSE r]
    /\ UNCHANGED <<tournaments, created, submissions, deleting, raced>>

\* The matches of a round of what is ongoing; without any it is 404.
DrawRound(t, r) ==
    /\ r \in tabs[t].asked
    /\ IF Ongoing = {} THEN Alert(t)
       ELSE /\ tabs' = [tabs EXCEPT ![t].asked = @ \ {r}, ![t].container = r]
            /\ UNCHANGED <<tournaments, created, submissions, deleting, raced>>

\* The answer to a page that was left is drawn where nobody sees it, but 404 is heard.
LateRound(t) ==
    /\ tabs[t].late
    /\ IF Ongoing = {} THEN Alert(t)
       ELSE /\ tabs' = [tabs EXCEPT ![t].late = FALSE]
            /\ UNCHANGED <<tournaments, created, submissions, deleting, raced>>

-----------------------------------------------------------------------------
(* Creating, deleting and finishing *)

SaveTournament(s) ==
    /\ tabs[s[1]].container = Create
    /\ submissions[s] = "idle"
    /\ submissions' = [submissions EXCEPT ![s] = "checking"]
    /\ UNCHANGED <<tournaments, created, tabs, deleting, raced>>

Posted == {s \in Submissions : submissions[s] \in {"posted", "orphan"}}

\* Broken: the page trusts what it saw when it was loaded.
PostWithoutAsking(s) ==
    /\ submissions[s] = "checking"
    /\ submissions' = [submissions EXCEPT ![s] = "posted"]
    /\ raced' = (raced \/ Posted # {})
    /\ UNCHANGED <<tournaments, created, tabs, deleting>>

\* _isOngoingTournaments, and the post if there is none.
IsOngoing(s) ==
    /\ submissions[s] = "checking"
    /\ submissions' = [submissions EXCEPT ![s] = IF Ongoing = {} THEN "posted" ELSE "idle"]
    /\ raced' = (raced \/ (Ongoing = {} /\ Posted # {}))
    /\ UNCHANGED <<tournaments, created, tabs, deleting>>

\* create_new_tournament_and_matches asks nothing; the page is loaded again, wherever the
\* tab is by now.
StoreTournament(s) ==
    /\ s \in Posted
    /\ created < MaxTournaments
    /\ created' = created + 1
    /\ tournaments' = [tournaments EXCEPT ![created + 1] = "ongoing"]
    /\ submissions' = [submissions EXCEPT ![s] = "idle"]
    /\ IF submissions[s] = "posted" THEN Switch(s[1], "loading") ELSE UNCHANGED tabs
    /\ UNCHANGED <<deleting, raced>>

ConfirmDelete(t) ==
    /\ tabs[t].container = Entry
    /\ tabs[t].userTournament # None /\ deleting[t] = None
    /\ deleting' = [deleting EXCEPT ![t] = tabs[t].userTournament]
    /\ UNCHANGED <<tournaments, created, tabs, submissions, raced>>

\* Broken: the number of a tournament that was deleted is used again.
DeleteForgets(t) ==
    /\ deleting[t] # None
    /\ deleting' = [deleting EXCEPT ![t] = None]
    /\ tournaments' = [tournaments EXCEPT ![deleting[t]] = "none"]
    /\ Switch(t, "loading")
    /\ UNCHANGED <<created, submissions, raced>>

\* A tournament that is over is refused, with a message on the page it was deleted from.
Delete(t) ==
    /\ deleting[t] # None
    /\ deleting' = [deleting EXCEPT ![t] = None]
    /\ IF tournaments[deleting[t]] = "ongoing"
       THEN /\ tournaments' = [tournaments EXCEPT ![deleting[t]] = "over"]
            /\ Switch(t, "loading")
       ELSE UNCHANGED <<tournaments, tabs>>
    /\ UNCHANGED <<created, submissions, raced>>

\* The result of the final.
FinishTournament(x) ==
    /\ tournaments[x] = "ongoing"
    /\ tournaments' = [tournaments EXCEPT ![x] = "over"]
    /\ UNCHANGED <<created, tabs, submissions, deleting, raced>>

-----------------------------------------------------------------------------

Answered(t) == Load(t) \/ DrawEntry(t) \/ \E r \in Round : DrawRound(t, r)

Next ==
    \/ \E t \in Tabs :
          \/ Visit(t) \/ Leave(t) \/ Answered(t) \/ LateRound(t)
          \/ \E state \in State : ChangeStateToRound(t, state)
          \/ ConfirmDelete(t) \/ Delete(t)
    \/ \E s \in Submissions : SaveTournament(s) \/ IsOngoing(s) \/ StoreTournament(s)
    \/ \E x \in Ids : FinishTournament(x)

\* What a page asks for is answered; users and the other requests need not do anything.
Spec ==
    /\ Init
    /\ [][Next]_vars
    /\ \A t \in Tabs : WF_vars(Answered(t))

-----------------------------------------------------------------------------

TypeOK ==
    /\ tournaments \in [Ids -> {"none", "ongoing", "over"}]
    /\ created \in 0..MaxTournaments
    /\ \A x \in Ids : tournaments[x] = "none" <=> x > created
    /\ tabs \in [Tabs -> Tab]
    /\ submissions \in [Submissions -> {"idle", "checking", "posted", "orphan"}]
    /\ deleting \in [Tabs -> Ids \union {None}]
    /\ raced \in BOOLEAN

\* get_views.py: "more than one unfinished tournament must not exist".  Two forms submitted
\* together create two.
OneOngoing == \A x, y \in Ongoing : x = y

\* The organizer has two ongoing tournaments only if two submissions were posted at the same
\* time: a form that was opened before another tab created a tournament is refused, however
\* old the page that holds it.
OneAtATime == raced \/ OneOngoing

\* What a page shows, and so the buttons it offers, is what its state stands for or nothing,
\* however late the answers of the states it went through arrive.
ShowsItsState == \A t \in Tabs : tabs[t].container \in {Blank, tabs[t].currentRound}

\* A page never stays blank: it shows something to click, or the top page takes its place.
\* It may be finished or deleted meanwhile by another tab.
NeverStaysBlank ==
    \A t \in Tabs : tabs[t].page # "other" ~> tabs[t].container # Blank \/ tabs[t].page = "other"
=============================================================================
