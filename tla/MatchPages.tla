----------------------------- MODULE MatchPages -----------------------------
(***************************************************************************)
(* The page of one match in several browser tabs, on top of the endpoints  *)
(* it calls (TournamentServer): opening it asks play_tournament, which     *)
(* sets is_playing and serves the game or redirects; its game posts one    *)
(* result; leaving it posts release_match.  renderView awaits neither the  *)
(* result nor the release, so all of them travel and run side by side.     *)
(*                                                                         *)
(* A tab has at most one request of a kind on its way.  All pages but the  *)
(* one of the match count as one, "top", and are rendered at once.  No     *)
(* request fails here, and the tournament is not deleted.                  *)
(***************************************************************************)
EXTENDS TournamentServer

CONSTANTS
    Tabs,
    MaxVisits   \* bound: how often the match is opened, by all tabs together

Kinds == {"play", "release", "result"}

\* A thread for each request a tab can have on its way, and requests for every visit.
ASSUME RequestsAssumption == Requests = Tabs \X Kinds
ASSUME VisitsAssumption == MaxVisits \in Nat /\ 3 * MaxVisits <= MaxRequests

VARIABLES
    tabs,   \* what each tab shows and is loading
    sent,   \* requests on their way to the server
    visits  \* how often the match was opened, kept for the bound alone

pageVars == <<vars, tabs, sent, visits>>

\* path: window.location; view: renderView's currentView; owns: the previousPath of a match
\* view is the path of the match; loading: how far renderView of the match has come ("no",
\* or waiting for the route, or for the html); answer: what play_tournament served, with
\* the match it read; playing: a game is on the screen.
NewTab ==
    [path |-> "top", view |-> "none", owns |-> FALSE, loading |-> "no", answer |-> "none",
     playing |-> FALSE]

PagesInit ==
    /\ Init
    /\ tabs = [t \in Tabs |-> NewTab]
    /\ sent = {}
    /\ visits = 0

-----------------------------------------------------------------------------
(* The tab *)

OnItsWay(t, kind) == <<t, kind>> \in sent \/ req[<<t, kind>>].at # "idle"

\* dispose of the current view: a match page that was opened under its own path releases it.
Dispose(t) ==
    IF tabs[t].view = "match" /\ tabs[t].owns THEN {<<t, "release">>} ELSE {}

\* switchPage or the browser's buttons lead to the match: the current view is disposed of,
\* and nothing but the route is asked for at first.
OpenMatch(t) ==
    /\ visits < MaxVisits
    /\ tabs[t].loading = "no"
    /\ \A kind \in Kinds : ~OnItsWay(t, kind)
    /\ matches[Final].stored
    /\ sent' = sent \union Dispose(t)
    /\ tabs' = [tabs EXCEPT ![t].path = "match", ![t].loading = "route", ![t].playing = FALSE]
    /\ visits' = visits + 1
    /\ UNCHANGED vars

\* Broken: the path of the page before.
ReleasesPathOfBefore(t) == tabs[t].view = "match"

\* previousPath, against which dispose compares the path of the match.
ReleasesPath(t) == tabs[t].path = "match"

\* The match exists: its view is constructed and asks for its html.
ConstructView(t) ==
    /\ tabs[t].loading = "route"
    /\ tabs' = [tabs EXCEPT ![t].view = "match", ![t].owns = ReleasesPath(t),
                            ![t].loading = "html", ![t].answer = "none"]
    /\ sent' = sent \union {<<t, "play">>}
    /\ UNCHANGED <<vars, visits>>

\* The html arrived. PongApp starts the game on a page that is still the match's, and
\* switches to the top page if the match was finished when it was served.
ShowMatch(t) ==
    /\ tabs[t].loading = "html"
    /\ tabs[t].answer # "none"
    /\ IF tabs[t].path = "match" /\ tabs[t].answer = "finished"
       THEN /\ tabs' = [tabs EXCEPT ![t] = [NewTab EXCEPT !.view = "top"]]
            /\ sent' = sent \union Dispose(t)
       ELSE /\ tabs' = [tabs EXCEPT ![t].loading = "no", ![t].answer = "none",
                                    ![t].playing = tabs[t].path = "match" /\ tabs[t].answer = "game"]
            /\ UNCHANGED sent
    /\ UNCHANGED <<vars, visits>>

\* The last point: the engine stops and posts the result once.
EndGame(t) ==
    /\ tabs[t].playing
    /\ tabs' = [tabs EXCEPT ![t].playing = FALSE]
    /\ sent' = sent \union {<<t, "result">>}
    /\ UNCHANGED <<vars, visits>>

\* switchPage or the browser's buttons lead to another page, whose view replaces the current
\* one at once; a match page that was still loading goes on doing so.
Leave(t) ==
    /\ tabs[t].path = "match"
    /\ ~OnItsWay(t, "release")
    /\ sent' = sent \union Dispose(t)
    /\ tabs' = [tabs EXCEPT ![t].path = "top", ![t].view = "top", ![t].playing = FALSE]
    /\ UNCHANGED <<vars, visits>>

-----------------------------------------------------------------------------
(* The server: requests arrive in any order and are answered *)

Arrive(t, kind) ==
    /\ <<t, kind>> \in sent
    /\ sent' = sent \ {<<t, kind>>}
    /\ UNCHANGED visits

\* The answer is for the view that asked.
Answer(t, answer) == tabs' = [tabs EXCEPT ![t].answer = answer]

ArrivePlay(t) ==
    /\ Arrive(t, "play")
    /\ GetToPlay(<<t, "play">>, Final)
    /\ UNCHANGED tabs

\* play_tournament redirects when it reads is_playing.
Redirect(t) ==
    /\ Arrive(t, "play")
    /\ matches[Final].is_playing
    /\ Answer(t, "redirect")
    /\ UNCHANGED vars

\* play_tournament saves the flag and serves the page with the match it read.
ServeGame(t) ==
    /\ SavePlaying(<<t, "play">>)
    /\ Answer(t, IF req[<<t, "play">>].mine.is_finished THEN "finished" ELSE "game")
    /\ UNCHANGED <<sent, visits>>

ArriveRelease(t) ==
    /\ Arrive(t, "release")
    /\ GetToRelease(<<t, "release">>, Final)
    /\ UNCHANGED tabs

Release(t) == SaveReleased(<<t, "release">>) /\ UNCHANGED <<tabs, sent, visits>>

ArriveResult(t) ==
    /\ Arrive(t, "result")
    /\ \E player1Leads \in BOOLEAN : GetMatch(<<t, "result">>, Final, player1Leads)
    /\ UNCHANGED tabs

SaveResult(t) == SaveGameResult(<<t, "result">>) /\ UNCHANGED <<tabs, sent, visits>>

-----------------------------------------------------------------------------

Render(t) == ConstructView(t) \/ ShowMatch(t)

Server(t) ==
    \/ ArrivePlay(t) \/ Redirect(t) \/ ServeGame(t)
    \/ ArriveRelease(t) \/ Release(t)
    \/ ArriveResult(t) \/ SaveResult(t)

\* Users who wait for the match page to appear before they leave it.
PatientNext ==
    \/ CreateTournament /\ UNCHANGED <<tabs, sent, visits>>
    \/ \E t \in Tabs : \/ OpenMatch(t) \/ EndGame(t)
                       \/ tabs[t].loading = "no" /\ Leave(t)
                       \/ Render(t) \/ Server(t)

\* Browsers render what they asked for and the server answers; users need not do anything.
PatientSpec ==
    /\ PagesInit
    /\ [][PatientNext]_pageVars
    /\ \A t \in Tabs : WF_pageVars(Render(t)) /\ WF_pageVars(Server(t))

\* Users who also leave it while it is loading: their release can overtake the request for the
\* page, and UnlockedWhenLeft does not hold.
HastySpec == PagesInit /\ [][PatientNext \/ \E t \in Tabs : Leave(t)]_pageVars

-----------------------------------------------------------------------------

\* No tab shows the match or is loading it.
Left == \A t \in Tabs : tabs[t].view # "match" /\ tabs[t].loading = "no"

Answered == sent = {} /\ \A q \in Requests : req[q].at = "idle"

Unlocked == ~matches[Final].is_playing \/ matches[Final].is_finished

\* With the match on no screen and every request answered, the match is not marked as being
\* played unless it is finished, whatever overtook what: a release that reads the row before
\* a result, a result that writes is_playing back, a redirected tab that releases as well.
UnlockedWhenLeft == Left /\ Answered => Unlocked

\* A match that nobody opens again becomes free or is finished: no request of it waits for
\* another one forever.
LeavingUnlocks == <>[]Left => <>[]Unlocked

\* is_playing is there so that a match does not run in several browsers.  Two that ask for it
\* at the same time both get it.
OneGame == \A t, u \in Tabs : tabs[t].playing /\ tabs[u].playing => t = u
=============================================================================
