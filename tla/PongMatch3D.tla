---------------------------- MODULE PongMatch3D -----------------------------
(***************************************************************************)
(* The 3D game in one tab: the engine of each visit of a match page, its   *)
(* frames and its pauses (vite/pong-three/src/js/pongEngine, state,        *)
(* PongApp.js).                                                            *)
(*                                                                         *)
(* A frame that counts a goal sleeps in the middle, for a second before    *)
(* the next serve or before the end of the match is shown, while the       *)
(* frames after it go on.  Nothing wakes it when the page is left: it      *)
(* resumes in an engine that was disposed of, on whatever page there is.   *)
(*                                                                         *)
(* The ball is on the field or behind the line of a player; paddles and    *)
(* the way of the ball are PongPhysics' matter.  PongApp.init is one step: *)
(* it awaits only what is loaded already.                                  *)
(***************************************************************************)
EXTENDS Naturals, Sequences

CONSTANTS
    maxScore,
    MaxVisits       \* bound: match pages opened

ASSUME MatchAssumption == maxScore \in Nat \ {0} /\ MaxVisits \in Nat \ {0}

Visits == 1..MaxVisits
Players == {1, 2}
Field == 0

VARIABLES
    page,       \* "other", "match", or "leaving": a match page that is disposed of and still shown
    visit,      \* how many match pages were opened
    engines,    \* the PongEngine of each visit
    button,     \* the button back to the top page is displayed on the match page
    results,    \* what the engine of each visit sent to the server
    \* history variables of the properties:
    goals,      \* how often the ball passed the line behind which each player scores
    alerted,    \* handleCatchError was called
    hasty       \* a page was left in the last second of its game

vars == <<page, visit, engines, button, results, goals, alerted, hasty>>

\* ball: on the field, or the player who scored; start: the timer of the first frame; frame:
\* the next frame is requested; the others count the frames that sleep, in endGame and in
\* resetBall.
NoEngine ==
    [alive |-> FALSE, isRunning |-> FALSE, isResetting |-> FALSE,
     score |-> [p \in Players |-> 0], ball |-> Field,
     start |-> FALSE, frame |-> FALSE, ending |-> 0, resetting |-> 0]

Init ==
    /\ page = "other"
    /\ visit = 0
    /\ engines = [v \in Visits |-> NoEngine]
    /\ button = FALSE
    /\ results = [v \in Visits |-> <<>>]
    /\ goals = [v \in Visits |-> [p \in Players |-> 0]]
    /\ alerted = FALSE
    /\ hasty = FALSE

-----------------------------------------------------------------------------
(* The page *)

\* initPongApp, and EntryGameState, which hides the button.
Show ==
    /\ visit < MaxVisits /\ visit' = visit + 1
    /\ page' = "match"
    /\ button' = FALSE

Open ==
    /\ page = "other"
    /\ Show
    /\ UNCHANGED <<engines, results, goals, alerted, hasty>>

\* The html of the next page takes the place of the match's.
Arrive ==
    /\ page = "leaving"
    /\ \/ Show
       \/ page' = "other" /\ button' = FALSE /\ UNCHANGED visit
    /\ UNCHANGED <<engines, results, goals, alerted, hasty>>

\* A click on the start button: GamePlayState and with it the engine.
Start ==
    /\ page = "match" /\ engines[visit] = NoEngine
    /\ engines' = [engines EXCEPT ![visit] =
                       [NoEngine EXCEPT !.alive = TRUE, !.isRunning = TRUE, !.start = TRUE]]
    /\ UNCHANGED <<page, visit, button, results, goals, alerted, hasty>>

\* Broken: the engine goes on until its game is over.
Undisposed(e) == e

\* PongEngine.dispose cancels the frame that is requested, and no timer.
Disposed(e) ==
    [e EXCEPT !.alive = FALSE, !.isRunning = FALSE, !.isResetting = FALSE, !.frame = FALSE]

\* GameMatch.dispose; the html stays until the next page's is there.
Leave ==
    /\ page = "match" /\ page' = "leaving"
    /\ engines' = [engines EXCEPT ![visit] = Disposed(@)]
    /\ hasty' = (hasty \/ engines[visit].ending > 0)
    /\ UNCHANGED <<visit, button, results, goals, alerted>>

-----------------------------------------------------------------------------
(* Frames *)

\* updateBallPosition
MoveBall(v, e) ==
    IF e.isResetting THEN engines' = [engines EXCEPT ![v] = e] /\ UNCHANGED goals
    ELSE \E ball \in Players \union {Field} :
            /\ engines' = [engines EXCEPT ![v] = [e EXCEPT !.ball = ball]]
            /\ goals' = IF ball = Field THEN goals ELSE [goals EXCEPT ![v][ball] = @ + 1]

\* Broken: isResetting is not set.
SleepAwake(e) == [e EXCEPT !.resetting = 1]

\* resetBall up to its pause, and after it.
Sleep(e) == [e EXCEPT !.isResetting = TRUE, !.resetting = @ + 1]

\* Broken: isResetting stays set.
WakeStuck(e) == [e EXCEPT !.resetting = @ - 1, !.ball = Field]

Wake(e) ==
    [e EXCEPT !.resetting = @ - 1, !.isResetting = FALSE,
              !.ball = IF e.alive THEN Field ELSE @]

\* checkMatchEnd
IsMatchEnd(score) == \E p \in Players : score[p] >= maxScore

\* updateScore, with checkMatchEnd and endGame up to its pause.
Count(v, e) ==
    LET scored == [e EXCEPT !.score[e.ball] = @ + 1]
    IN IF IsMatchEnd(scored.score)
       THEN /\ engines' = [engines EXCEPT ![v] =
                              [scored EXCEPT !.isRunning = FALSE, !.ball = Field, !.ending = @ + 1]]
            /\ results' = [results EXCEPT ![v] = Append(@, scored.score)]
       ELSE /\ engines' = [engines EXCEPT ![v] = Sleep(scored)]
            /\ UNCHANGED results

\* animate, with updateGame and handleCollisions.
Animate(v, e) ==
    LET next == [e EXCEPT !.frame = e.isRunning]
    IN /\ IF ~e.isRunning THEN engines' = [engines EXCEPT ![v] = next] /\ UNCHANGED <<results, goals>>
          ELSE IF e.ball = Field \/ e.isResetting THEN MoveBall(v, next) /\ UNCHANGED results
          ELSE Count(v, next) /\ UNCHANGED goals
       /\ UNCHANGED <<page, visit, button, alerted, hasty>>

FirstFrame(v) == engines[v].start /\ Animate(v, [engines[v] EXCEPT !.start = FALSE])

Frame(v) == engines[v].frame /\ Animate(v, engines[v])

\* A second after a goal: resetBall ends, and the frame that counted it with it.
Serve(v) ==
    /\ engines[v].resetting > 0
    /\ engines' = [engines EXCEPT ![v] = Wake(@)]
    /\ UNCHANGED <<page, visit, button, results, goals, alerted, hasty>>

\* handleCatchError loads the top page, which ends everything.
Alert ==
    /\ alerted' = TRUE
    /\ page' = "other" /\ button' = FALSE
    /\ engines' = [w \in Visits |-> [engines[w] EXCEPT !.alive = FALSE, !.isRunning = FALSE,
                       !.start = FALSE, !.frame = FALSE, !.ending = 0, !.resetting = 0]]

\* A second after the end: displayEndGameButton looks for the button on the page there is,
\* and resetBall begins.
DisplayEndGameButton(v) ==
    /\ engines[v].ending > 0
    /\ IF page = "other" THEN Alert
       ELSE /\ button' = TRUE
            /\ engines' = [engines EXCEPT ![v] = Sleep([engines[v] EXCEPT !.ending = @ - 1])]
            /\ UNCHANGED <<page, alerted>>
    /\ UNCHANGED <<visit, results, goals, hasty>>

-----------------------------------------------------------------------------

Resumes(v) == FirstFrame(v) \/ Frame(v) \/ Serve(v) \/ DisplayEndGameButton(v)

Next ==
    \/ Open \/ Arrive \/ Start \/ Leave
    \/ \E v \in Visits : Resumes(v)

\* Timers fire and frames are drawn; users need not do anything.
Spec ==
    /\ Init
    /\ [][Next]_vars
    /\ \A v \in Visits : WF_vars(FirstFrame(v)) /\ WF_vars(Frame(v)) /\ WF_vars(Serve(v))
                           /\ WF_vars(DisplayEndGameButton(v))

-----------------------------------------------------------------------------

Decided(v) == \E p \in Players : engines[v].score[p] = maxScore

\* A result is sent for each game that was played to its end and for no other, once, with the
\* number of times the ball passed the lines; although a goal is seen by every frame until
\* the ball is served, and frames go on after the last goal and after the page is left.
ResultsAreRight ==
    \A v \in Visits :
        results[v] = IF Decided(v) THEN <<goals[v]>> ELSE <<>>

\* Only who leaves in the last second of a game meets anything of it on another page: an
\* alert, or the button of a game that is not over.
StaysOnItsPage == hasty \/ (~alerted /\ (button => Decided(visit)))

InPlay(v) == engines[v].ball = Field /\ ~engines[v].isResetting /\ engines[v].frame

\* A game does not stop while its page is there: after each goal the ball is in play again,
\* after the last one the button is displayed, although each goal leaves a frame asleep that
\* the frames after it have to step around.
GoesOn ==
    \A v \in Visits :
        engines[v].alive ~> InPlay(v) \/ (Decided(v) /\ button) \/ ~engines[v].alive
=============================================================================
