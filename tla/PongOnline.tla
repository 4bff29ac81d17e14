----------------------------- MODULE PongOnline -----------------------------
(***************************************************************************)
(* The online pong of one user: a consumer on the server for each socket   *)
(* (pong/online), the page that opened it (static/pong/js/online), and the *)
(* channel layer that broadcasts what a consumer computes to every socket  *)
(* of the user's group.                                                    *)
(*                                                                         *)
(* A consumer handles one thing at a time: a message of its client or a    *)
(* message of its group; while reset_ball sleeps, everything else waits.   *)
(* A socket is one visit to the page in one tab.  Frames in which the page *)
(* sends nothing are left out: the next message replaces all they moved.   *)
(* A page is left or reloaded only after its socket has opened.            *)
(***************************************************************************)
EXTENDS PongPhysics, Sequences

CONSTANTS
    Sockets,
    MaxScore,
    Serves,     \* vertical directions reset_ball may draw
    MaxDirY     \* bound: vertical directions of the ball

ASSUME OnlineAssumption ==
    /\ MaxScore \in Nat \ {0}
    /\ MaxDirY \in Nat
    /\ Serves \subseteq -MaxDirY..MaxDirY

VARIABLES
    game,     \* pong_engine_data of each consumer
    consumer, \* "none", "free", "resetting" (inside reset_ball) or "gone"
    group,    \* sockets that are members of room_<user>
    layer,    \* messages of the group each consumer has not relayed yet
    up, down, \* what is on its way to the consumer, and to the page
    page,     \* "fresh", "connecting", "waiting" (no state yet), "playing", "over" or "left"
    ready,    \* readyToSendNext
    shown     \* gameState of the page, with the socket whose game it is

server  == <<game, consumer, group, layer>>
client  == <<page, ready, shown>>
vars    == <<game, consumer, group, layer, up, down, page, ready, shown>>

Game ==
    [ball: Ball, paddle1: Paddle, paddle2: Paddle, score: [1..2 -> Nat], running: BOOLEAN]

NewGame ==
    [ball |-> Kickoff, paddle1 |-> PaddleAtRest, paddle2 |-> PaddleAtRest,
     score |-> [i \in 1..2 |-> 0], running |-> TRUE]

State(s, g)  == [event |-> "state", of |-> s, game |-> g]
GameEnd(s, g) == [event |-> "game_end", of |-> s, game |-> g]
Update(p, q) == [action |-> "update", paddle1 |-> p, paddle2 |-> q]
Initialize   == [action |-> "initialize"]
Close        == [action |-> "close"]

Message == [event: {"state", "game_end"}, of: Sockets, game: Game]

Request ==
    [action: {"initialize", "close"}]
      \union [action: {"update"}, paddle1: Paddle, paddle2: Paddle]

Open(s) == page[s] \in {"waiting", "playing"}

TypeOK ==
    /\ game \in [Sockets -> Game]
    /\ consumer \in [Sockets -> {"none", "free", "resetting", "gone"}]
    /\ group \subseteq Sockets
    /\ layer \in [Sockets -> Seq(Message)]
    /\ up \in [Sockets -> Seq(Request)]
    /\ down \in [Sockets -> Seq(Message)]
    /\ page \in [Sockets -> {"fresh", "connecting", "waiting", "playing", "over", "left"}]
    /\ ready \in [Sockets -> BOOLEAN]
    /\ shown \in [Sockets -> Message]

Init ==
    /\ game = [s \in Sockets |-> NewGame]
    /\ consumer = [s \in Sockets |-> "none"]
    /\ group = {}
    /\ layer = [s \in Sockets |-> <<>>]
    /\ up = [s \in Sockets |-> <<>>]
    /\ down = [s \in Sockets |-> <<>>]
    /\ page = [s \in Sockets |-> "fresh"]
    /\ ready = [s \in Sockets |-> TRUE]
    /\ shown = [s \in Sockets |-> State(s, NewGame)]

-----------------------------------------------------------------------------
(* The consumer *)

\* connect: the consumer joins the group before it accepts the socket.
Connect(s) ==
    /\ page[s] = "connecting"
    /\ consumer[s] = "none"
    /\ consumer' = [consumer EXCEPT ![s] = "free"]
    /\ group' = group \union {s}
    /\ UNCHANGED <<game, layer, up, down, client>>

Handles(s, action) ==
    /\ consumer[s] = "free"
    /\ up[s] # <<>>
    /\ Head(up[s]).action = action
    /\ up' = [up EXCEPT ![s] = Tail(@)]

SendDown(s, message) ==
    down' = [down EXCEPT ![s] = IF Open(s) THEN Append(@, message) ELSE @]

\* init_handler answers on the socket itself.
AnswerInitialize(s) ==
    /\ Handles(s, "initialize")
    /\ SendDown(s, State(s, game[s]))
    /\ UNCHANGED <<server, client>>

\* group_send: each member gets a copy.
Broadcast(members, messages) ==
    layer' = [t \in Sockets |-> IF t \in members THEN layer[t] \o messages ELSE layer[t]]

\* update_handler without a goal.
UpdateRally(s) ==
    LET message == Head(up[s])
        ball    == game[s].ball
        played  == [game[s] EXCEPT
                      !.paddle1 = message.paddle1, !.paddle2 = message.paddle2,
                      !.ball = Rally(ball, ball.y, message.paddle1, message.paddle2)]
    IN  /\ Handles(s, "update")
        /\ ~AtSideWall(ball.x)
        /\ played.ball.dy \in -MaxDirY..MaxDirY
        /\ game' = [game EXCEPT ![s] = played]
        /\ Broadcast(group, <<State(s, played)>>)
        /\ UNCHANGED <<consumer, group, down, client>>

\* update_handler up to the sleep of reset_ball.
UpdateGoal(s) ==
    LET message == Head(up[s])
    IN  /\ Handles(s, "update")
        /\ AtSideWall(game[s].ball.x)
        /\ game' = [game EXCEPT ![s].paddle1 = message.paddle1, ![s].paddle2 = message.paddle2]
        /\ consumer' = [consumer EXCEPT ![s] = "resetting"]
        /\ UNCHANGED <<group, layer, down, client>>

\* Broken: one point too many.
IsMatchEndLate(score) == score[1] > MaxScore \/ score[2] > MaxScore

IsMatchEnd(score) == score[1] >= MaxScore \/ score[2] >= MaxScore

\* Broken: the consumer leaves the group before it tells.
ToldAfterLeaving(s) == group \ {s}

Told(s) == group

\* The rest of it: the ball is served, the point counted, and the rally goes on from the
\* serve.  At the end of the match the consumer tells the group and leaves it, so that the
\* state it broadcasts after that reaches the other sockets alone.
ResetBall(s) ==
    /\ consumer[s] = "resetting"
    /\ consumer' = [consumer EXCEPT ![s] = "free"]
    /\ \E dy \in Serves :
         LET g      == game[s]
             scorer == ScorerAt(g.ball.x)
             score  == [g.score EXCEPT ![scorer] = @ + 1]
             over   == IsMatchEnd(score)
             ended  == [g EXCEPT !.ball = Serve(scorer, dy), !.score = score,
                                 !.running = @ /\ ~over]
             served == [ended EXCEPT !.ball = Rally(@, g.ball.y, g.paddle1, g.paddle2)]
         IN  /\ game' = [game EXCEPT ![s] = served]
             /\ group' = IF over THEN group \ {s} ELSE group
             /\ layer' = [t \in Sockets |->
                            layer[t] \o (IF over /\ t \in Told(s)
                                         THEN <<GameEnd(s, ended)>> ELSE <<>>)
                                     \o (IF t \in group' THEN <<State(s, served)>> ELSE <<>>)]
    /\ UNCHANGED <<up, down, client>>

\* send_data: a message of the group goes down the socket.
Relay(s) ==
    /\ consumer[s] = "free"
    /\ layer[s] # <<>>
    /\ layer' = [layer EXCEPT ![s] = Tail(@)]
    /\ SendDown(s, Head(layer[s]))
    /\ UNCHANGED <<game, consumer, group, up, client>>

\* The socket was closed by its page.
Disconnect(s) ==
    /\ Handles(s, "close")
    /\ consumer' = [consumer EXCEPT ![s] = "gone"]
    /\ group' = group \ {s}
    /\ layer' = [layer EXCEPT ![s] = <<>>]
    /\ UNCHANGED <<game, down, client>>

-----------------------------------------------------------------------------
(* The page *)

\* The start button, in the one tab.
Start(s) ==
    /\ page[s] = "fresh"
    /\ \A t \in Sockets : ~Open(t) /\ page[t] # "connecting"
    /\ page' = [page EXCEPT ![s] = "connecting"]
    /\ UNCHANGED <<server, up, down, ready, shown>>

OnSocketOpen(s) ==
    /\ page[s] = "connecting"
    /\ consumer[s] # "none"
    /\ page' = [page EXCEPT ![s] = "waiting"]
    /\ up' = [up EXCEPT ![s] = Append(@, Initialize)]
    /\ UNCHANGED <<server, down, ready, shown>>

\* Broken: the score of the message is overlooked.
UpdateStateObjects(old, new) == [new EXCEPT !.game.score = old.game.score]

UpdateState(old, new) == new

\* onSocketMessage: whatever game the state is of, it is shown. A state starts the loop.
OnSocketMessage(s) ==
    /\ Open(s)
    /\ down[s] # <<>>
    /\ down' = [down EXCEPT ![s] = Tail(@)]
    /\ shown' = [shown EXCEPT ![s] = UpdateState(@, Head(down[s]))]
    /\ ready' = [ready EXCEPT ![s] = TRUE]
    /\ page' = [page EXCEPT ![s] = IF Head(down[s]).event = "state" THEN "playing" ELSE @]
    /\ UNCHANGED <<server, up>>

\* Broken: the page sends whenever it draws.
SendClientStateAlways(s) ==
    LET g == shown[s].game
    IN  /\ page[s] = "playing"
        /\ g.running
        /\ \E p \in Moved(g.paddle1), q \in Moved(g.paddle2) :
             /\ shown' = [shown EXCEPT ![s].game.paddle1 = p, ![s].game.paddle2 = q]
             /\ up' = [up EXCEPT ![s] = Append(@, Update(p, q))]
        /\ UNCHANGED <<server, down, page, ready>>

\* A frame of a running game that may send: the paddles are moved and sent.
SendClientState(s) ==
    LET g == shown[s].game
    IN  /\ page[s] = "playing"
        /\ g.running
        /\ ready[s]
        /\ \E p \in Moved(g.paddle1), q \in Moved(g.paddle2) :
             /\ shown' = [shown EXCEPT ![s].game.paddle1 = p, ![s].game.paddle2 = q]
             /\ up' = [up EXCEPT ![s] = Append(@, Update(p, q))]
        /\ ready' = [ready EXCEPT ![s] = FALSE]
        /\ UNCHANGED <<server, down, page>>

\* A page that closes its socket hears nothing more.
CloseSocket(s, left) ==
    /\ page' = [page EXCEPT ![s] = left]
    /\ up' = [up EXCEPT ![s] = Append(@, Close)]
    /\ down' = [down EXCEPT ![s] = <<>>]
    /\ UNCHANGED <<server, ready, shown>>

\* The first frame that finds the game over draws it once more and closes the socket.
StopGameLoop(s) ==
    /\ page[s] = "playing"
    /\ ~shown[s].game.running
    /\ CloseSocket(s, "over")

\* dispose, when the page is left.
Leave(s) == Open(s) /\ CloseSocket(s, "left")

-----------------------------------------------------------------------------

ServerStep(s) ==
    \/ Connect(s)
    \/ AnswerInitialize(s)
    \/ UpdateRally(s)
    \/ UpdateGoal(s)
    \/ ResetBall(s)
    \/ Relay(s)
    \/ Disconnect(s)

PageStep(s) ==
    \/ OnSocketOpen(s)
    \/ OnSocketMessage(s)
    \/ SendClientState(s)
    \/ StopGameLoop(s)

Next == \E s \in Sockets : Start(s) \/ Leave(s) \/ ServerStep(s) \/ PageStep(s)

\* What was broadcast is relayed, received and drawn; nobody must start, play or leave.
Delivery(s) == Relay(s) \/ OnSocketMessage(s) \/ StopGameLoop(s)

Spec == Init /\ [][Next]_vars /\ WF_vars(\E s \in Sockets : Delivery(s))

-----------------------------------------------------------------------------

OnItsWay(s) ==
    Len(up[s]) + Len(layer[s]) + Len(down[s]) + (IF consumer[s] = "resetting" THEN 1 ELSE 0)

\* readyToSendNext keeps an open page and its consumer in step: one message is between them
\* at most, and none when the page may send.
InStep ==
    \A s \in Sockets :
       Open(s) => /\ OnItsWay(s) <= 1
                  /\ (page[s] = "playing" /\ ready[s]) => OnItsWay(s) = 0

\* A page that may send, or that has stopped, shows the score of the consumer, and while the
\* match runs its ball and paddles too.
ShowsTheGame ==
    \A s \in Sockets :
       (page[s] = "playing" /\ ready[s]) \/ page[s] = "over" =>
          /\ shown[s].game.score = game[s].score
          /\ shown[s].game.running = game[s].running
          /\ game[s].running => shown[s].game = game[s]

\* No player passes the maximal score, only one reaches it, and that ends the match, although
\* the consumer itself goes on answering updates after the end.
OnePlayerWins ==
    \A s \in Sockets :
       LET won == {i \in 1..2 : game[s].score[i] >= MaxScore}
       IN  /\ \A i \in 1..2 : game[s].score[i] <= MaxScore
           /\ won # {1, 2}
           /\ game[s].running <=> won = {}

\* The ball stays between the top and the bottom, and less than a move behind a goal line.
BallOnField ==
    \A s \in Sockets :
       LET ball == game[s].ball
           reach == HalfWidth - Radius + MaxSpeed
       IN  ball.y \in -MaxBallY..MaxBallY /\ ball.x > -reach /\ ball.x < reach

\* The ball gets behind a paddle only past its end, never through it.
NoTunnelling ==
    [][\A s \in Sockets :
          LET ball  == game[s].ball
              ball2 == game'[s].ball
          IN  /\ (ball.x < PaddleX /\ ball2.x >= PaddleX)
                    => ~Covers(game'[s].paddle2, ball.y)
              /\ (ball.x > -PaddleX /\ ball2.x <= -PaddleX)
                    => ~Covers(game'[s].paddle1, ball.y)]_vars

\* A match that has ended is shown as ended, or its page was left.
EndIsShown ==
    \A s \in Sockets : ~game[s].running ~> page[s] \in {"over", "left"}

\* A page shows its own game, however often the user left a game and started a new one.  With
\* a second socket it need not: the one that was left broadcasts to the same group.
ShowsItsOwnGame == \A s \in Sockets : shown[s].of = s
=============================================================================
