-------------------------- MODULE PongOnlineProofs --------------------------
(***************************************************************************)
(* Proofs about PongOnline, for every field, set of sockets and bound that *)
(* the assumptions allow.  The ball never leaves the field by more than a  *)
(* move and never goes through a paddle, whatever the pages send and       *)
(* however their messages are mixed up.  In a single visit the page and    *)
(* its consumer stay in step, and the match has one winner.                *)
(***************************************************************************)
EXTENDS PongOnline, SequenceTheorems, TLAPS

-----------------------------------------------------------------------------
(* The ball *)

\* The constants as numbers.
LEMMA Numbers ==
    /\ HalfWidth \in Int /\ HalfHeight \in Int /\ Radius \in Int /\ PaddleX \in Int
    /\ HalfPaddleWidth \in Int /\ HalfPaddleHeight \in Int /\ PaddleStep \in Int
    /\ Lift \in Int /\ InitSpeed \in Int /\ MaxSpeed \in Int /\ Unit \in Int
    /\ Radius > 0 /\ HalfPaddleWidth > 0 /\ InitSpeed > 0 /\ Unit > 0
    /\ PaddleX + HalfPaddleWidth + 2 * Radius < HalfWidth
    /\ HalfPaddleWidth + Radius < PaddleX
    /\ Radius <= HalfHeight /\ HalfPaddleHeight <= HalfHeight
    /\ InitSpeed <= MaxSpeed /\ MaxSpeed < HalfPaddleWidth + Radius
BY PhysicsAssumption

\* Clamping to an interval ends up in it.
LEMMA ClampInRange ==
    ASSUME NEW lo \in Int, NEW hi \in Int, lo <= hi, NEW n \in Int
    PROVE  Clamp(lo, hi, n) \in lo..hi
BY DEF Clamp

\* A hit keeps the speed within its limit.
LEMMA AcceleratedInRange ==
    ASSUME NEW speed \in 1..MaxSpeed
    PROVE  Accelerated(speed) \in 1..MaxSpeed
BY Numbers DEF Accelerated

\* The top and the bottom change the vertical direction alone.
LEMMA OffTopOrBottomKeeps ==
    ASSUME NEW ball \in Ball, NEW y \in Int
    PROVE  LET b == OffTopOrBottom(ball, y)
           IN  b \in Ball /\ b.x = ball.x /\ b.y = ball.y /\ b.dx = ball.dx
BY DEF OffTopOrBottom, Ball

\* What a paddle can do to a ball: leave it alone, or turn it round at its front.
LEMMA OffPaddleCases ==
    ASSUME NEW ball \in Ball, NEW paddle \in Paddle, NEW x \in Int
    PROVE  LET b == OffPaddle(ball, paddle, x)
           IN  /\ b \in Ball
               /\ b.y = ball.y
               /\ \/ b = ball /\ ~(Hits(ball, paddle, x) /\ ClosesIn(ball, x))
                  \/ /\ ClosesIn(ball, x)
                     /\ b.dx = -ball.dx
                     /\ b.x = x - ball.dx * (Radius + HalfPaddleWidth)
<1> DEFINE hit == Hits(ball, paddle, x) /\ ClosesIn(ball, x)
<1>1. CASE ~hit
  BY <1>1 DEF OffPaddle
<1>2. CASE hit
  <2>1. /\ x - ball.dx * (Radius + HalfPaddleWidth) \in Int
        /\ -ball.dx \in {-1, 1}
        /\ ball.dy + Lift * paddle.dir \in Int
    BY Numbers DEF Ball, Paddle
  <2>2. Accelerated(ball.speed) \in 1..MaxSpeed
    BY AcceleratedInRange DEF Ball
  <2> QED
    BY <1>2, <2>1, <2>2 DEF OffPaddle, Ball
<1> QED
  BY <1>1, <1>2

\* A move is as long as the speed and stays between the top and the bottom.
LEMMA MoveFacts ==
    ASSUME NEW ball \in Ball
    PROVE  /\ Move(ball) \in Ball
           /\ Move(ball).y \in -MaxBallY..MaxBallY
           /\ ball.dx = 1 => Move(ball).x = ball.x + ball.speed
           /\ ball.dx = -1 => Move(ball).x = ball.x - ball.speed
           /\ ball.speed \in 1..MaxSpeed /\ ball.x \in Int /\ ball.dx \in {-1, 1}
<1>1. ball.dy * ball.speed \in Int
  BY Numbers DEF Ball
<1>2. ball.y + (ball.dy * ball.speed) \div Unit \in Int
  BY <1>1, Numbers DEF Ball
<1>3. MaxBallY \in Int /\ -MaxBallY <= MaxBallY
  BY Numbers DEF MaxBallY
<1> DEFINE y == Clamp(-MaxBallY, MaxBallY, ball.y + (ball.dy * ball.speed) \div Unit)
<1>4. y \in -MaxBallY..MaxBallY
  BY <1>2, <1>3, ClampInRange
<1>5. y \in Int
  BY <1>3, <1>4
<1> HIDE DEF y
<1>6. Move(ball) = [ball EXCEPT !.x = @ + ball.dx * ball.speed, !.y = y]
  BY DEF Move, y
<1> DEFINE d == ball.dx * ball.speed
<1>7. /\ ball.speed \in 1..MaxSpeed /\ ball.speed \in Int
      /\ ball.x \in Int /\ ball.dx \in {-1, 1}
  BY Numbers DEF Ball
<1>8. d \in Int /\ (ball.dx = 1 => d = ball.speed) /\ (ball.dx = -1 => d = -ball.speed)
  BY <1>7
<1> HIDE DEF d
<1> DEFINE x == ball.x + d
<1>9. x \in Int
  BY <1>7, <1>8
<1>10. Move(ball) = [ball EXCEPT !.x = x, !.y = y]
  BY <1>6 DEF d
<1> HIDE DEF x
<1>11. Move(ball) \in Ball /\ Move(ball).x = x /\ Move(ball).y = y
  BY <1>5, <1>9, <1>10 DEF Ball
<1> QED
  BY <1>4, <1>7, <1>8, <1>11 DEF x

\* Where the paddles leave a ball before it moves: untouched, because neither could hit
\* it, or in front of a paddle and on its way back.
LEMMA OffBothPaddles ==
    ASSUME NEW ball \in Ball, NEW y \in Int, NEW p \in Paddle, NEW q \in Paddle
    PROVE  LET b == OffPaddle(OffPaddle(OffTopOrBottom(ball, y), p, -PaddleX), q, PaddleX)
               front == Radius + HalfPaddleWidth
           IN  /\ b \in Ball
               /\ \/ /\ b.x = ball.x /\ b.dx = ball.dx
                     /\ ~(Hits(ball, q, PaddleX) /\ ClosesIn(ball, PaddleX))
                     /\ ~(Hits(ball, p, -PaddleX) /\ ClosesIn(ball, -PaddleX))
                  \/ b.dx = 1 /\ b.x = front - PaddleX /\ ball.x > -PaddleX
                  \/ b.dx = -1 /\ b.x = -PaddleX - front /\ ball.x < -PaddleX
                  \/ b.dx = -1 /\ b.x = PaddleX - front
                  \/ b.dx = 1 /\ b.x = PaddleX + front /\ ball.x > PaddleX
<1> DEFINE b1 == OffTopOrBottom(ball, y)
           b2 == OffPaddle(b1, p, -PaddleX)
           b3 == OffPaddle(b2, q, PaddleX)
           front == Radius + HalfPaddleWidth
<1>1. b1 \in Ball /\ b1.x = ball.x /\ b1.y = ball.y /\ b1.dx = ball.dx
  BY OffTopOrBottomKeeps
<1>2. /\ Hits(b1, p, -PaddleX) <=> Hits(ball, p, -PaddleX)
      /\ Hits(b1, q, PaddleX) <=> Hits(ball, q, PaddleX)
      /\ ClosesIn(b1, -PaddleX) <=> ClosesIn(ball, -PaddleX)
      /\ ClosesIn(b1, PaddleX) <=> ClosesIn(ball, PaddleX)
  BY <1>1 DEF Hits, ClosesIn
<1> HIDE DEF b1
<1>3. -PaddleX \in Int /\ PaddleX \in Int
  BY Numbers
<1>4. /\ b2 \in Ball
      /\ \/ b2 = b1 /\ ~(Hits(b1, p, -PaddleX) /\ ClosesIn(b1, -PaddleX))
         \/ /\ ClosesIn(b1, -PaddleX)
            /\ b2.dx = -b1.dx
            /\ b2.x = -PaddleX - b1.dx * front
  BY <1>1, <1>3, OffPaddleCases
<1> HIDE DEF b2
<1>5. /\ b3 \in Ball
      /\ \/ b3 = b2 /\ ~(Hits(b2, q, PaddleX) /\ ClosesIn(b2, PaddleX))
         \/ /\ ClosesIn(b2, PaddleX)
            /\ b3.dx = -b2.dx
            /\ b3.x = PaddleX - b2.dx * front
  BY <1>3, <1>4, OffPaddleCases
<1> HIDE DEF b3
<1>6. /\ b1.dx \in {-1, 1} /\ b2.dx \in {-1, 1}
      /\ ball.x \in Int /\ b2.x \in Int /\ front \in Int
  BY <1>1, <1>4, Numbers DEF Ball
<1>7. \/ /\ b3.x = ball.x /\ b3.dx = ball.dx
         /\ ~(Hits(ball, q, PaddleX) /\ ClosesIn(ball, PaddleX))
         /\ ~(Hits(ball, p, -PaddleX) /\ ClosesIn(ball, -PaddleX))
      \/ b3.dx = 1 /\ b3.x = front - PaddleX /\ ball.x > -PaddleX
      \/ b3.dx = -1 /\ b3.x = -PaddleX - front /\ ball.x < -PaddleX
      \/ b3.dx = -1 /\ b3.x = PaddleX - front
      \/ b3.dx = 1 /\ b3.x = PaddleX + front /\ ball.x > PaddleX
  <2>1. CASE b2 = b1 /\ ~(Hits(b1, p, -PaddleX) /\ ClosesIn(b1, -PaddleX))
    <3>1. CASE b3 = b2 /\ ~(Hits(b2, q, PaddleX) /\ ClosesIn(b2, PaddleX))
      BY <1>1, <1>2, <2>1, <3>1
    <3>2. CASE /\ ClosesIn(b2, PaddleX)
               /\ b3.dx = -b2.dx
               /\ b3.x = PaddleX - b2.dx * front
      <4> CASE b2.dx = 1
        BY <1>6, <3>2
      <4> CASE b2.dx = -1
        BY <1>1, <1>3, <1>6, <2>1, <3>2 DEF ClosesIn
      <4> QED
        BY <1>6
    <3> QED
      BY <1>5, <3>1, <3>2
  <2>2. CASE /\ ClosesIn(b1, -PaddleX)
             /\ b2.dx = -b1.dx
             /\ b2.x = -PaddleX - b1.dx * front
    <3>1. \/ b2.dx = 1 /\ b2.x = front - PaddleX /\ ball.x > -PaddleX
          \/ b2.dx = -1 /\ b2.x = -PaddleX - front /\ ball.x < -PaddleX
      BY <1>1, <1>3, <1>6, <2>2 DEF ClosesIn
    <3>2. ClosesIn(b2, PaddleX) => b2.dx = 1
      BY <3>1, <1>6, Numbers DEF ClosesIn
    <3> QED
      BY <1>3, <1>5, <1>6, <3>1, <3>2
  <2> QED
    BY <1>4, <2>1, <2>2
<1> QED
  BY <1>5, <1>7 DEF b1, b2, b3

\* What a rally does to the ball: it stays in the field but for a move behind a goal line,
\* and gets behind a paddle only where the paddle does not cover it.
LEMMA RallyFacts ==
    ASSUME NEW ball \in Ball, NEW y \in Int, NEW p \in Paddle, NEW q \in Paddle
    PROVE  LET r == Rally(ball, y, p, q)
               goal == HalfWidth - Radius
           IN  /\ r \in Ball
               /\ r.y \in -MaxBallY..MaxBallY
               /\ -goal < ball.x /\ ball.x < goal
                     => -goal - MaxSpeed < r.x /\ r.x < goal + MaxSpeed
               /\ ball.x = 0 => -PaddleX < r.x /\ r.x < PaddleX
               /\ ball.x < PaddleX /\ r.x >= PaddleX => ~Covers(q, ball.y)
               /\ ball.x > -PaddleX /\ r.x <= -PaddleX => ~Covers(p, ball.y)
<1> DEFINE b == OffPaddle(OffPaddle(OffTopOrBottom(ball, y), p, -PaddleX), q, PaddleX)
           front == Radius + HalfPaddleWidth
           r == Rally(ball, y, p, q)
<1>1. /\ b \in Ball
      /\ \/ /\ b.x = ball.x /\ b.dx = ball.dx
            /\ ~(Hits(ball, q, PaddleX) /\ ClosesIn(ball, PaddleX))
            /\ ~(Hits(ball, p, -PaddleX) /\ ClosesIn(ball, -PaddleX))
         \/ b.dx = 1 /\ b.x = front - PaddleX /\ ball.x > -PaddleX
         \/ b.dx = -1 /\ b.x = -PaddleX - front /\ ball.x < -PaddleX
         \/ b.dx = -1 /\ b.x = PaddleX - front
         \/ b.dx = 1 /\ b.x = PaddleX + front /\ ball.x > PaddleX
  BY OffBothPaddles
<1>2. r = Move(b)
  BY DEF Rally
<1> HIDE DEF b, r
<1>3. /\ r \in Ball
      /\ r.y \in -MaxBallY..MaxBallY
      /\ b.dx = 1 => r.x = b.x + b.speed
      /\ b.dx = -1 => r.x = b.x - b.speed
      /\ b.speed \in 1..MaxSpeed /\ b.x \in Int /\ b.dx \in {-1, 1}
  BY <1>1, <1>2, MoveFacts
<1>4. ball.x \in Int /\ r.x \in Int /\ b.speed \in Int /\ ball.dx \in {-1, 1}
  BY <1>3, Numbers DEF Ball
<1>5. -(HalfWidth - Radius) < ball.x /\ ball.x < HalfWidth - Radius
        => /\ -(HalfWidth - Radius) - MaxSpeed < r.x
           /\ r.x < HalfWidth - Radius + MaxSpeed
  BY <1>1, <1>3, <1>4, Numbers
<1>6. ball.x = 0 => -PaddleX < r.x /\ r.x < PaddleX
  BY <1>1, <1>3, <1>4, Numbers
<1>7. ASSUME ball.x < PaddleX, r.x >= PaddleX PROVE ~Covers(q, ball.y)
  <2>1. /\ b.x = ball.x /\ b.dx = ball.dx
        /\ ~(Hits(ball, q, PaddleX) /\ ClosesIn(ball, PaddleX))
    BY <1>1, <1>3, <1>4, <1>7, Numbers
  <2>2. ClosesIn(ball, PaddleX)
    BY <1>3, <1>4, <1>7, <2>1, Numbers DEF ClosesIn
  <2>3. /\ ball.x + Radius >= PaddleX - HalfPaddleWidth
        /\ ball.x - Radius <= PaddleX + HalfPaddleWidth
    BY <1>3, <1>4, <1>7, <2>1, Numbers
  <2> QED
    BY <2>1, <2>2, <2>3 DEF Hits
<1>8. ASSUME ball.x > -PaddleX, r.x <= -PaddleX PROVE ~Covers(p, ball.y)
  <2>1. /\ b.x = ball.x /\ b.dx = ball.dx
        /\ ~(Hits(ball, p, -PaddleX) /\ ClosesIn(ball, -PaddleX))
    BY <1>1, <1>3, <1>4, <1>8, Numbers
  <2>2. ClosesIn(ball, -PaddleX)
    BY <1>3, <1>4, <1>8, <2>1, Numbers DEF ClosesIn
  <2>3. /\ ball.x + Radius >= -PaddleX - HalfPaddleWidth
        /\ ball.x - Radius <= -PaddleX + HalfPaddleWidth
    BY <1>3, <1>4, <1>8, <2>1, Numbers
  <2> QED
    BY <2>1, <2>2, <2>3 DEF Hits
<1> QED
  BY <1>3, <1>5, <1>6, <1>7, <1>8 DEF r

-----------------------------------------------------------------------------
(* Types *)

\* The states and requests the two sides build are what the queues hold.
LEMMA BuiltInside ==
    /\ Kickoff \in Ball /\ PaddleAtRest \in Paddle /\ NewGame \in Game
    /\ \A scorer \in {1, 2}, dy \in Serves : Serve(scorer, dy) \in Ball
    /\ \A p \in Paddle : Moved(p) \subseteq Paddle
    /\ \A s \in Sockets, g \in Game : State(s, g) \in Message /\ GameEnd(s, g) \in Message
    /\ \A p \in Paddle, q \in Paddle : Update(p, q) \in Request
    /\ Initialize \in Request /\ Close \in Request
<1>1. InitSpeed \in 1..MaxSpeed /\ Unit \div 10 \in Int
  BY Numbers
<1>2. Kickoff \in Ball
  BY <1>1 DEF Kickoff, Ball
<1>3. /\ MaxPaddleY \in Int /\ -MaxPaddleY \in Int
      /\ -MaxPaddleY <= 0 /\ 0 <= MaxPaddleY /\ -MaxPaddleY <= MaxPaddleY
  BY Numbers DEF MaxPaddleY
<1>4. PaddleAtRest \in Paddle
  BY <1>3 DEF PaddleAtRest, Paddle
<1>5. NewGame \in Game
  BY <1>2, <1>4 DEF NewGame, Game
<1>6. ASSUME NEW scorer \in {1, 2}, NEW dy \in Serves PROVE Serve(scorer, dy) \in Ball
  <2>1. dy \in Int
    BY OnlineAssumption
  <2> QED
    BY <1>1, <2>1 DEF Serve, Ball
<1>7. ASSUME NEW p \in Paddle, NEW m \in Moved(p) PROVE m \in Paddle
  <2>1. PICK dir \in {-1, 0, 1} :
           m = [y |-> Clamp(-MaxPaddleY, MaxPaddleY, p.y + dir * PaddleStep), dir |-> dir]
    BY DEF Moved
  <2>2. p.y + dir * PaddleStep \in Int
    <3>1. p.y \in Int
      BY <1>3 DEF Paddle
    <3>2. dir * PaddleStep \in Int
      BY Numbers
    <3> QED
      BY <3>1, <3>2
  <2>3. Clamp(-MaxPaddleY, MaxPaddleY, p.y + dir * PaddleStep) \in -MaxPaddleY..MaxPaddleY
    BY <1>3, <2>2, ClampInRange
  <2> QED
    BY <2>1, <2>3 DEF Paddle
<1>8. ASSUME NEW s \in Sockets, NEW g \in Game
      PROVE  State(s, g) \in Message /\ GameEnd(s, g) \in Message
  BY DEF State, GameEnd, Message
<1>9. ASSUME NEW p \in Paddle, NEW q \in Paddle PROVE Update(p, q) \in Request
  BY DEF Update, Request
<1>10. Initialize \in Request /\ Close \in Request
  BY DEF Initialize, Close, Request
<1> QED
  BY <1>2, <1>4, <1>5, <1>6, <1>7, <1>8, <1>9, <1>10

\* What a consumer takes out of its queue.
LEMMA HandledRequest ==
    ASSUME TypeOK, NEW s \in Sockets, NEW action, Handles(s, action)
    PROVE  /\ Head(up[s]) \in Request
           /\ action = "update" => /\ Head(up[s]).paddle1 \in Paddle
                                   /\ Head(up[s]).paddle2 \in Paddle
           /\ up' \in [Sockets -> Seq(Request)]
<1>1. up[s] \in Seq(Request) /\ up[s] # <<>>
  BY DEF TypeOK, Handles
<1>2. Head(up[s]) \in Request /\ Tail(up[s]) \in Seq(Request)
  BY <1>1
<1>3. up' \in [Sockets -> Seq(Request)]
  BY <1>2 DEF Handles, TypeOK
<1>4. action = "update" => /\ Head(up[s]).paddle1 \in Paddle
                           /\ Head(up[s]).paddle2 \in Paddle
  BY <1>2 DEF Request, Handles
<1> QED
  BY <1>2, <1>3, <1>4

\* What a step may do to the ball of a consumer: nothing, a rally from between the goal
\* lines, or one from the centre.
BallPlayed(s) ==
    \/ game'[s].ball = game[s].ball
    \/ \E ball \in Ball, y \in Int :
          /\ (ball = game[s].ball /\ ~AtSideWall(ball.x)) \/ ball.x = 0
          /\ game'[s].ball = Rally(ball, y, game'[s].paddle1, game'[s].paddle2)

\* A step that replaces the game of one consumer plays that ball alone.
LEMMA PlayedAlone ==
    ASSUME TypeOK, NEW s \in Sockets, NEW g \in Game, game' = [game EXCEPT ![s] = g],
           \/ g.ball = game[s].ball
           \/ \E ball \in Ball, y \in Int :
                 /\ (ball = game[s].ball /\ ~AtSideWall(ball.x)) \/ ball.x = 0
                 /\ g.ball = Rally(ball, y, g.paddle1, g.paddle2)
    PROVE  game' \in [Sockets -> Game] /\ \A t \in Sockets : BallPlayed(t)
<1>1. game' \in [Sockets -> Game] /\ game'[s] = g
  BY DEF TypeOK
<1>2. \A t \in Sockets : t # s => game'[t] = game[t]
  BY DEF TypeOK
<1> QED
  BY <1>1, <1>2 DEF BallPlayed

\* Messages that are broadcast or sent down keep the queues typed.
LEMMA QueuesTyped ==
    ASSUME TypeOK, NEW s \in Sockets, NEW m \in Message
    PROVE  /\ SendDown(s, m) => down' \in [Sockets -> Seq(Message)]
           /\ Broadcast(group, <<m>>) => layer' \in [Sockets -> Seq(Message)]
<1>1. \A t \in Sockets : layer[t] \o <<m>> \in Seq(Message)
  BY DEF TypeOK
<1>2. Append(down[s], m) \in Seq(Message) /\ down[s] \in Seq(Message)
  BY DEF TypeOK
<1>3. SendDown(s, m) => down' \in [Sockets -> Seq(Message)]
  BY <1>2 DEF TypeOK, SendDown
<1>4. Broadcast(group, <<m>>) => layer' \in [Sockets -> Seq(Message)]
  BY <1>1 DEF TypeOK, Broadcast
<1> QED
  BY <1>3, <1>4

\* An update without a goal plays the ball on from where it is.
LEMMA UpdateRallyStep ==
    ASSUME TypeOK, NEW s \in Sockets, UpdateRally(s)
    PROVE  TypeOK' /\ \A t \in Sockets : BallPlayed(t)
<1> DEFINE message == Head(up[s])
           g == game[s]
           ball == g.ball
           b == Rally(ball, ball.y, message.paddle1, message.paddle2)
           played == [g EXCEPT !.paddle1 = message.paddle1, !.paddle2 = message.paddle2,
                               !.ball = b]
<1>1. /\ up' \in [Sockets -> Seq(Request)]
      /\ message.paddle1 \in Paddle /\ message.paddle2 \in Paddle
  BY HandledRequest DEF UpdateRally
<1>2. g \in Game /\ ball \in Ball /\ ball.y \in Int
  BY DEF TypeOK, Game, Ball
<1>3. b \in Ball
  BY <1>1, <1>2, RallyFacts
<1>4. /\ ~AtSideWall(ball.x)
      /\ game' = [game EXCEPT ![s] = played]
      /\ Broadcast(group, <<State(s, played)>>)
      /\ UNCHANGED <<consumer, group, down, page, ready, shown>>
  BY DEF UpdateRally, client
<1> HIDE DEF message, g, ball, b
<1>5. /\ played \in Game /\ played.ball = b
      /\ played.paddle1 = message.paddle1 /\ played.paddle2 = message.paddle2
  BY <1>1, <1>2, <1>3 DEF Game
<1> HIDE DEF played
<1>6. b = Rally(ball, ball.y, played.paddle1, played.paddle2)
  BY <1>5 DEF b
<1>7. ball = game[s].ball
  BY DEF ball, g
<1>8. game' \in [Sockets -> Game] /\ \A t \in Sockets : BallPlayed(t)
  BY <1>2, <1>4, <1>5, <1>6, <1>7, PlayedAlone
<1>9. layer' \in [Sockets -> Seq(Message)]
  BY <1>4, <1>5, BuiltInside, QueuesTyped
<1> QED
  BY <1>1, <1>4, <1>8, <1>9 DEF TypeOK

\* An update that scores leaves the ball behind the goal line until the sleep is over.
LEMMA UpdateGoalStep ==
    ASSUME TypeOK, NEW s \in Sockets, UpdateGoal(s)
    PROVE  TypeOK' /\ \A t \in Sockets : BallPlayed(t)
<1> DEFINE message == Head(up[s])
           g == game[s]
           moved == [g EXCEPT !.paddle1 = message.paddle1, !.paddle2 = message.paddle2]
<1>1. /\ up' \in [Sockets -> Seq(Request)]
      /\ message.paddle1 \in Paddle /\ message.paddle2 \in Paddle
  BY HandledRequest DEF UpdateGoal
<1>2. g \in Game
  BY DEF TypeOK
<1>3. game' = [game EXCEPT ![s] = moved]
  BY Zenon DEF UpdateGoal
<1> HIDE DEF message, g
<1>4. moved \in Game /\ moved.ball = g.ball
  BY <1>1, <1>2 DEF Game
<1> HIDE DEF moved
<1>5. g.ball = game[s].ball
  BY DEF g
<1>6. game' \in [Sockets -> Game] /\ \A t \in Sockets : BallPlayed(t)
  BY <1>3, <1>4, <1>5, PlayedAlone
<1>7. /\ consumer' \in [Sockets -> {"none", "free", "resetting", "gone"}]
      /\ UNCHANGED <<group, layer, down, page, ready, shown>>
  BY DEF UpdateGoal, client, TypeOK
<1> QED
  BY <1>1, <1>6, <1>7 DEF TypeOK

\* The end of the sleep plays on from the centre, and tells the group if the match is over.
LEMMA ResetBallStep ==
    ASSUME TypeOK, NEW s \in Sockets, ResetBall(s)
    PROVE  TypeOK' /\ \A t \in Sockets : BallPlayed(t)
<1> DEFINE g == game[s]
           scorer == ScorerAt(g.ball.x)
           score == [g.score EXCEPT ![scorer] = @ + 1]
           over == IsMatchEnd(score)
           y == g.ball.y
<1>1. PICK dy \in Serves :
         LET ended  == [g EXCEPT !.ball = Serve(scorer, dy), !.score = score,
                                 !.running = @ /\ ~over]
             served == [ended EXCEPT !.ball = Rally(@, y, g.paddle1, g.paddle2)]
         IN  /\ game' = [game EXCEPT ![s] = served]
             /\ group' = IF over THEN group \ {s} ELSE group
             /\ layer' = [t \in Sockets |->
                            layer[t] \o (IF over /\ t \in Told(s)
                                         THEN <<GameEnd(s, ended)>> ELSE <<>>)
                                     \o (IF t \in group' THEN <<State(s, served)>> ELSE <<>>)]
  BY DEF ResetBall
<1> DEFINE serve == Serve(scorer, dy)
           running == g.running /\ ~over
           ended == [g EXCEPT !.ball = serve, !.score = score, !.running = running]
           b == Rally(ended.ball, y, g.paddle1, g.paddle2)
           served == [ended EXCEPT !.ball = b]
<1>2. /\ g \in Game /\ y \in Int /\ scorer \in {1, 2} /\ running \in BOOLEAN
      /\ g.paddle1 \in Paddle /\ g.paddle2 \in Paddle
  BY DEF TypeOK, Game, Ball, ScorerAt
<1>3. score \in [1..2 -> Nat]
  BY <1>2 DEF Game
<1>4. serve \in Ball /\ serve.x = 0
  BY <1>2, BuiltInside DEF Serve
<1>5. ended.ball = serve
  BY <1>2 DEF Game
<1>6. b \in Ball
  BY <1>2, <1>4, <1>5, RallyFacts
<1>7. /\ game' = [game EXCEPT ![s] = served]
      /\ group' = IF over THEN group \ {s} ELSE group
      /\ layer' = [t \in Sockets |->
                     layer[t] \o (IF over /\ t \in Told(s)
                                  THEN <<GameEnd(s, ended)>> ELSE <<>>)
                              \o (IF t \in group' THEN <<State(s, served)>> ELSE <<>>)]
  BY <1>1, Zenon
<1>8. /\ consumer' \in [Sockets -> {"none", "free", "resetting", "gone"}]
      /\ UNCHANGED <<up, down, page, ready, shown>>
  BY DEF ResetBall, client, TypeOK
<1>9. b = Rally(serve, y, g.paddle1, g.paddle2)
  BY <1>5
<1> HIDE DEF g, y, scorer, score, over, serve, running, b
<1>10. ended \in Game /\ ended.paddle1 = g.paddle1 /\ ended.paddle2 = g.paddle2
  BY <1>2, <1>3, <1>4 DEF Game
<1> HIDE DEF ended
<1>11. /\ served \in Game /\ served.ball = b
       /\ served.paddle1 = g.paddle1 /\ served.paddle2 = g.paddle2
  BY <1>6, <1>10 DEF Game
<1> HIDE DEF served
<1>12. served.ball = Rally(serve, y, served.paddle1, served.paddle2)
  BY <1>11, <1>9
<1>13. game' \in [Sockets -> Game] /\ \A t \in Sockets : BallPlayed(t)
  BY <1>2, <1>4, <1>7, <1>11, <1>12, PlayedAlone
<1>14. layer' \in [Sockets -> Seq(Message)]
  <2>1. State(s, served) \in Message /\ GameEnd(s, ended) \in Message
    BY <1>10, <1>11, BuiltInside
  <2> DEFINE e == GameEnd(s, ended)
             m == State(s, served)
  <2> HIDE DEF e, m
  <2>2. e \in Message /\ m \in Message
    BY <2>1 DEF e, m
  <2>3. <<>> \in Seq(Message) /\ <<e>> \in Seq(Message) /\ <<m>> \in Seq(Message)
    BY <2>2
  <2>4. ASSUME NEW t \in Sockets, NEW first \in Seq(Message), NEW second \in Seq(Message)
        PROVE  layer[t] \o first \o second \in Seq(Message)
    BY DEF TypeOK
  <2>5. layer' = [t \in Sockets |->
                    layer[t] \o (IF over /\ t \in Told(s) THEN <<e>> ELSE <<>>)
                             \o (IF t \in group' THEN <<m>> ELSE <<>>)]
    BY <1>7 DEF e, m
  <2> QED
    BY <2>3, <2>4, <2>5
<1>15. group' \subseteq Sockets
  BY <1>7 DEF TypeOK
<1> QED
  BY <1>8, <1>13, <1>14, <1>15 DEF TypeOK

\* The consumer's other steps pass messages on and leave every game alone.
LEMMA OtherServerSteps ==
    ASSUME TypeOK, NEW s \in Sockets,
           Connect(s) \/ AnswerInitialize(s) \/ Relay(s) \/ Disconnect(s)
    PROVE  TypeOK' /\ \A t \in Sockets : BallPlayed(t)
<1>1. CASE Connect(s)
  BY <1>1 DEF Connect, client, TypeOK, BallPlayed
<1>2. CASE AnswerInitialize(s)
  <2>1. up' \in [Sockets -> Seq(Request)]
    BY <1>2, HandledRequest DEF AnswerInitialize
  <2>2. State(s, game[s]) \in Message
    BY BuiltInside DEF TypeOK
  <2>3. down' \in [Sockets -> Seq(Message)]
    BY <1>2, <2>2, QueuesTyped DEF AnswerInitialize
  <2> QED
    BY <1>2, <2>1, <2>3 DEF AnswerInitialize, server, client, TypeOK, BallPlayed
<1>3. CASE Relay(s)
  <2>1. layer[s] \in Seq(Message) /\ layer[s] # <<>>
    BY <1>3 DEF Relay, TypeOK
  <2>2. Head(layer[s]) \in Message /\ Tail(layer[s]) \in Seq(Message)
    BY <2>1
  <2>3. down' \in [Sockets -> Seq(Message)] /\ layer' \in [Sockets -> Seq(Message)]
    BY <1>3, <2>2, QueuesTyped DEF Relay, TypeOK
  <2> QED
    BY <1>3, <2>3 DEF Relay, client, TypeOK, BallPlayed
<1>4. CASE Disconnect(s)
  <2>1. up' \in [Sockets -> Seq(Request)]
    BY <1>4, HandledRequest DEF Disconnect
  <2>2. layer' \in [Sockets -> Seq(Message)]
    BY <1>4 DEF Disconnect, TypeOK
  <2> QED
    BY <1>4, <2>1, <2>2 DEF Disconnect, client, TypeOK, BallPlayed
<1> QED
  BY <1>1, <1>2, <1>3, <1>4

\* A page only moves its own paddles, within the field, and sends them.
LEMMA PageSteps ==
    ASSUME TypeOK, NEW s \in Sockets, Start(s) \/ Leave(s) \/ PageStep(s)
    PROVE  TypeOK' /\ \A t \in Sockets : BallPlayed(t)
<1> USE DEF server, client
<1>1. /\ \A m \in Request : Append(up[s], m) \in Seq(Request)
      /\ Initialize \in Request /\ Close \in Request
  BY BuiltInside DEF TypeOK
<1>2. CASE Start(s)
  BY <1>2 DEF Start, TypeOK, BallPlayed
<1>3. CASE Leave(s)
  BY <1>1, <1>3 DEF Leave, CloseSocket, TypeOK, BallPlayed
<1>4. CASE OnSocketOpen(s)
  BY <1>1, <1>4 DEF OnSocketOpen, TypeOK, BallPlayed
<1>5. CASE OnSocketMessage(s)
  <2>1. down[s] \in Seq(Message) /\ down[s] # <<>>
    BY <1>5 DEF OnSocketMessage, TypeOK
  <2>2. Head(down[s]) \in Message /\ Tail(down[s]) \in Seq(Message)
    BY <2>1
  <2> QED
    BY <1>5, <2>2 DEF OnSocketMessage, UpdateState, TypeOK, BallPlayed
<1>6. CASE SendClientState(s)
  <2> DEFINE g == shown[s].game
  <2>1. shown[s] \in Message /\ g \in Game /\ g.paddle1 \in Paddle /\ g.paddle2 \in Paddle
    BY DEF TypeOK, Message, Game
  <2>2. PICK p \in Moved(g.paddle1), q \in Moved(g.paddle2) :
           /\ shown' = [shown EXCEPT ![s].game.paddle1 = p, ![s].game.paddle2 = q]
           /\ up' = [up EXCEPT ![s] = Append(@, Update(p, q))]
    BY <1>6 DEF SendClientState
  <2>3. p \in Paddle /\ q \in Paddle /\ Update(p, q) \in Request
    BY <2>1, BuiltInside
  <2> DEFINE moved == [g EXCEPT !.paddle1 = p, !.paddle2 = q]
  <2>4. moved \in Game
    BY <2>1, <2>3 DEF Game
  <2>5. [shown[s] EXCEPT !.game = moved] \in Message
    BY <2>1, <2>4 DEF Message
  <2> DEFINE m == [shown[s] EXCEPT !.game = moved]
  <2>6. shown' = [shown EXCEPT ![s] = m]
    BY <2>1, <2>2 DEF TypeOK, Message, Game
  <2>9. m \in Message
    BY <2>5
  <2> HIDE DEF m, moved, g
  <2>7. shown' \in [Sockets -> Message]
    BY <2>6, <2>9 DEF TypeOK
  <2>8. up' \in [Sockets -> Seq(Request)]
    BY <1>1, <2>2, <2>3 DEF TypeOK
  <2> QED
    BY <1>6, <2>7, <2>8 DEF SendClientState, TypeOK, BallPlayed
<1>7. CASE StopGameLoop(s)
  BY <1>1, <1>7 DEF StopGameLoop, CloseSocket, TypeOK, BallPlayed
<1> QED
  BY <1>2, <1>3, <1>4, <1>5, <1>6, <1>7 DEF PageStep

\* Every step keeps the types and plays each ball as said above.
LEMMA StepFacts ==
    ASSUME TypeOK, [Next]_vars
    PROVE  TypeOK' /\ \A t \in Sockets : BallPlayed(t)
<1>1. CASE UNCHANGED vars
  BY <1>1 DEF vars, TypeOK, BallPlayed
<1>2. ASSUME NEW s \in Sockets, ServerStep(s)
      PROVE  TypeOK' /\ \A t \in Sockets : BallPlayed(t)
  BY <1>2, UpdateRallyStep, UpdateGoalStep, ResetBallStep, OtherServerSteps DEF ServerStep
<1>3. ASSUME NEW s \in Sockets, Start(s) \/ Leave(s) \/ PageStep(s)
      PROVE  TypeOK' /\ \A t \in Sockets : BallPlayed(t)
  BY <1>3, PageSteps
<1> QED
  BY <1>1, <1>2, <1>3 DEF Next

-----------------------------------------------------------------------------
(* The theorems *)

\* A game that has not begun has its ball in the centre.
LEMMA InitTyped == Init => TypeOK /\ BallOnField
<1> SUFFICES ASSUME Init PROVE TypeOK /\ BallOnField
  OBVIOUS
<1>1. \A s \in Sockets : State(s, NewGame) \in Message
  BY BuiltInside
<1>2. TypeOK
  BY <1>1, BuiltInside DEF Init, TypeOK
<1>3. MaxBallY \in Int /\ 0 \in -MaxBallY..MaxBallY
  BY Numbers DEF MaxBallY
<1>4. BallOnField
  BY <1>3, Numbers DEF Init, NewGame, Kickoff, BallOnField
<1> QED
  BY <1>2, <1>4

\* Types: whatever the pages send and in whatever order it is handled, relayed and shown,
\* every game, queue and page keeps its shape, and no paddle is ever off the field, which
\* handle_input, taking what the page says, never checks.
THEOREM TypeCorrect == Spec => []TypeOK
<1>1. Init => TypeOK
  BY InitTyped
<1>2. TypeOK /\ [Next]_vars => TypeOK'
  BY StepFacts
<1> QED
  BY <1>1, <1>2, PTL DEF Spec

\* BallOnField is inductive together with the types.
LEMMA BallStaysOnField == TypeOK /\ BallOnField /\ [Next]_vars => BallOnField'
<1> SUFFICES ASSUME TypeOK, BallOnField, [Next]_vars, NEW s \in Sockets
             PROVE  LET ball  == game'[s].ball
                        reach == HalfWidth - Radius + MaxSpeed
                    IN  ball.y \in -MaxBallY..MaxBallY /\ ball.x > -reach /\ ball.x < reach
  BY DEF BallOnField
<1>1. TypeOK' /\ BallPlayed(s)
  BY StepFacts
<1>2. CASE game'[s].ball = game[s].ball
  BY <1>2 DEF BallOnField
<1>3. ASSUME NEW ball \in Ball, NEW y \in Int,
             (ball = game[s].ball /\ ~AtSideWall(ball.x)) \/ ball.x = 0,
             game'[s].ball = Rally(ball, y, game'[s].paddle1, game'[s].paddle2)
      PROVE  /\ game'[s].ball.y \in -MaxBallY..MaxBallY
             /\ game'[s].ball.x > -(HalfWidth - Radius + MaxSpeed)
             /\ game'[s].ball.x < HalfWidth - Radius + MaxSpeed
  <2>1. game'[s].paddle1 \in Paddle /\ game'[s].paddle2 \in Paddle /\ game'[s].ball \in Ball
    BY <1>1 DEF TypeOK, Game
  <2>2. ball.x \in Int /\ game'[s].ball.x \in Int
    BY <2>1 DEF Ball
  <2>3. -(HalfWidth - Radius) < ball.x /\ ball.x < HalfWidth - Radius
    BY <1>3, <2>2, Numbers DEF AtSideWall
  <2>4. /\ game'[s].ball.y \in -MaxBallY..MaxBallY
        /\ -(HalfWidth - Radius) - MaxSpeed < game'[s].ball.x
        /\ game'[s].ball.x < HalfWidth - Radius + MaxSpeed
    BY <1>3, <2>1, <2>3, RallyFacts
  <2> QED
    BY <2>2, <2>4, Numbers
<1> QED
  BY <1>1, <1>2, <1>3 DEF BallPlayed

\* The ball stays between the top and the bottom and less than a move behind a goal line,
\* for every field, serve and paddle: check_side_wall finds it there before it moves on.
THEOREM BallOnFieldAlways == Spec => []BallOnField
<1>1. Init => TypeOK /\ BallOnField
  BY InitTyped
<1>2. TypeOK /\ BallOnField /\ [Next]_vars => TypeOK' /\ BallOnField'
  BY StepFacts, BallStaysOnField
<1> QED
  BY <1>1, <1>2, PTL DEF Spec

\* The body of NoTunnelling, for one consumer.
LEMMA NoStepTunnels ==
    ASSUME TypeOK, [Next]_vars, NEW s \in Sockets
    PROVE  LET ball  == game[s].ball
               ball2 == game'[s].ball
           IN  /\ (ball.x < PaddleX /\ ball2.x >= PaddleX) => ~Covers(game'[s].paddle2, ball.y)
               /\ (ball.x > -PaddleX /\ ball2.x <= -PaddleX)
                     => ~Covers(game'[s].paddle1, ball.y)
<1>1. TypeOK' /\ BallPlayed(s)
  BY StepFacts
<1>2. /\ game[s].ball.x \in Int /\ game'[s].ball.x \in Int
      /\ game'[s].paddle1 \in Paddle /\ game'[s].paddle2 \in Paddle
  BY <1>1 DEF TypeOK, Game, Ball
<1>3. CASE game'[s].ball = game[s].ball
  BY <1>2, <1>3, Numbers
<1>4. ASSUME NEW ball \in Ball, NEW y \in Int,
             game'[s].ball = Rally(ball, y, game'[s].paddle1, game'[s].paddle2),
             ball.x = 0
      PROVE  -PaddleX < game'[s].ball.x /\ game'[s].ball.x < PaddleX
  BY <1>2, <1>4, RallyFacts
<1>5. ASSUME NEW ball \in Ball, NEW y \in Int,
             game'[s].ball = Rally(ball, y, game'[s].paddle1, game'[s].paddle2),
             ball = game[s].ball
      PROVE  LET ball2 == game'[s].ball
             IN  /\ (ball.x < PaddleX /\ ball2.x >= PaddleX)
                       => ~Covers(game'[s].paddle2, ball.y)
                 /\ (ball.x > -PaddleX /\ ball2.x <= -PaddleX)
                       => ~Covers(game'[s].paddle1, ball.y)
  BY <1>2, <1>5, RallyFacts
<1>6. -PaddleX < game'[s].ball.x /\ game'[s].ball.x < PaddleX
        => ~(game'[s].ball.x >= PaddleX) /\ ~(game'[s].ball.x <= -PaddleX)
  BY <1>2, Numbers
<1> QED
  BY <1>1, <1>3, <1>4, <1>5, <1>6 DEF BallPlayed

\* The promise of cap_max_speed_to_avoid_tunneling, for every speed the assumption on the
\* constants allows: no step takes the ball through a paddle that covers it, the step that
\* serves it again and plays on included.
THEOREM NoTunnellingAlways == Spec => NoTunnelling
<1> DEFINE PastTheEnd(s) ==
             LET ball  == game[s].ball
                 ball2 == game'[s].ball
             IN  /\ (ball.x < PaddleX /\ ball2.x >= PaddleX)
                       => ~Covers(game'[s].paddle2, ball.y)
                 /\ (ball.x > -PaddleX /\ ball2.x <= -PaddleX)
                       => ~Covers(game'[s].paddle1, ball.y)
<1>1. TypeOK /\ [Next]_vars => \A s \in Sockets : PastTheEnd(s)
  BY NoStepTunnels
<1>2. TypeOK /\ [Next]_vars => [\A s \in Sockets : PastTheEnd(s)]_vars
  BY <1>1
<1> QED
  BY <1>2, TypeCorrect, PTL DEF Spec, NoTunnelling

-----------------------------------------------------------------------------
(* One visit of the page *)

\* A second visit gets messages of the game that was left, which the properties below exclude.
OneVisit == \A s, t \in Sockets : s = t

\* A page that closed its socket has sent this last.
Requested(s, m) == up[s] = IF page[s] = "left" THEN <<m, Close>> ELSE <<m>>
NothingRequested(s) == up[s] = IF page[s] = "left" THEN <<Close>> ELSE <<>>

Silent(s) == layer[s] = <<>> /\ down[s] = <<>>

\* What is shown or under way agrees with the game; after the end its ball and paddles are not
\* told any more.
Agrees(g, h) == g.score = h.score /\ g.running = h.running /\ (h.running => g = h)

MemberWhileRunning(s) == s \in group <=> game[s].running

\* The situations of a page and its consumer.
Fresh(s) ==
    /\ page[s] = "fresh" /\ consumer[s] = "none" /\ ready[s] /\ s \notin group
    /\ up[s] = <<>> /\ Silent(s) /\ game[s].running

Connecting(s) ==
    /\ page[s] = "connecting" /\ consumer[s] \in {"none", "free"} /\ ready[s]
    /\ consumer[s] = "free" => s \in group
    /\ up[s] = <<>> /\ Silent(s) /\ game[s].running

Asked(s) ==
    /\ page[s] \in {"waiting", "left"} /\ consumer[s] = "free" /\ s \in group
    /\ Requested(s, Initialize) /\ Silent(s) /\ game[s].running

Answered(s) ==
    /\ page[s] = "waiting" /\ consumer[s] = "free" /\ s \in group
    /\ up[s] = <<>> /\ layer[s] = <<>> /\ down[s] = <<State(s, game[s])>> /\ game[s].running

InHand(s) ==
    /\ page[s] = "playing" /\ ready[s] /\ consumer[s] = "free" /\ MemberWhileRunning(s)
    /\ up[s] = <<>> /\ Silent(s) /\ Agrees(shown[s].game, game[s])

\* The turn of the consumer: the page is left, or waits without sending.
Turn(s) ==
    /\ page[s] \in {"playing", "left"}
    /\ page[s] = "playing" => ~ready[s] /\ shown[s].game.running

Sent(s) ==
    /\ Turn(s) /\ consumer[s] = "free" /\ s \in group /\ game[s].running /\ Silent(s)
    /\ \E m \in Request : m.action = "update" /\ Requested(s, m)

Resetting(s) ==
    /\ Turn(s) /\ consumer[s] = "resetting" /\ s \in group /\ game[s].running /\ Silent(s)
    /\ NothingRequested(s)

Reported(s) ==
    /\ Turn(s) /\ consumer[s] = "free" /\ MemberWhileRunning(s) /\ NothingRequested(s)
    /\ down[s] = <<>> /\ \E m \in Message : layer[s] = <<m>> /\ Agrees(m.game, game[s])

Relayed(s) ==
    /\ page[s] = "playing" /\ Turn(s) /\ consumer[s] = "free" /\ MemberWhileRunning(s)
    /\ up[s] = <<>> /\ layer[s] = <<>>
    /\ \E m \in Message : down[s] = <<m>> /\ Agrees(m.game, game[s])

ShownToTheEnd(s) ==
    page[s] = "over" => ~game[s].running /\ Agrees(shown[s].game, game[s])

Closing(s) ==
    /\ page[s] \in {"over", "left"} /\ consumer[s] = "free" /\ up[s] = <<Close>> /\ Silent(s)
    /\ ShownToTheEnd(s)

Closed(s) ==
    /\ page[s] \in {"over", "left"} /\ consumer[s] = "gone" /\ up[s] = <<>> /\ Silent(s)
    /\ ShownToTheEnd(s)

Situation(s) ==
    \/ Fresh(s) \/ Connecting(s) \/ Asked(s) \/ Answered(s) \/ InHand(s) \/ Sent(s)
    \/ Resetting(s) \/ Reported(s) \/ Relayed(s) \/ Closing(s) \/ Closed(s)

ScoreOK(g) ==
    /\ \A i \in 1..2 : g.score[i] <= MaxScore
    /\ ~(g.score[1] >= MaxScore /\ g.score[2] >= MaxScore)
    /\ g.running <=> \A i \in 1..2 : g.score[i] < MaxScore

VisitInv == TypeOK /\ \A s \in Sockets : Situation(s) /\ ScoreOK(game[s])

LEMMA AppendToOne ==
    ASSUME NEW m, NEW c
    PROVE  Append(<<m>>, c) = <<m, c>>
<1>1. <<m>> \in Seq({m, c}) /\ <<m, c>> \in Seq({m, c})
  OBVIOUS
<1>2. Len(<<m>>) = 1 /\ <<m>>[1] = m /\ Len(<<m, c>>) = 2 /\ <<m, c>>[1] = m /\ <<m, c>>[2] = c
  OBVIOUS
<1> PICK a, b, d : a = <<m>> /\ b = <<m, c>> /\ d = Append(a, c)
  OBVIOUS
<1>3. d \in Seq({m, c}) /\ Len(d) = 2 /\ d[1] = m /\ d[2] = c
  BY <1>1, <1>2
<1>4. b \in Seq({m, c}) /\ Len(d) = Len(b)
  BY <1>1, <1>2, <1>3
<1>5. \A i \in 1..Len(d) : d[i] = b[i]
  <2> SUFFICES ASSUME NEW i \in 1..Len(d)
               PROVE  d[i] = b[i]
    OBVIOUS
  <2>1. i = 1 \/ i = 2
    BY <1>3
  <2> QED
    BY <2>1, <1>2, <1>3
<1>6. d = b
  BY ONLY <1>3, <1>4, <1>5, SeqEqual
<1> QED
  BY <1>6

LEMMA QueueFacts ==
    ASSUME NEW m, NEW c
    PROVE  /\ Append(<<>>, c) = <<c>> /\ Append(<<m>>, c) = <<m, c>>
           /\ Head(<<m>>) = m /\ Tail(<<m>>) = <<>> /\ <<m>> # <<>>
           /\ Head(<<m, c>>) = m /\ Tail(<<m, c>>) = <<c>> /\ <<m, c>> # <<>>
           /\ <<>> \o <<m>> = <<m>> /\ <<m>> \o <<>> = <<m>>
           /\ Len(<<>>) = 0 /\ Len(<<m>>) = 1
<1>1. Append(<<>>, c) = <<c>> /\ Append(<<m>>, c) = <<m, c>>
  BY AppendToOne
<1>2. Head(<<m>>) = m /\ Head(<<m, c>>) = m
  OBVIOUS
<1>3. Tail(<<m>>) = <<>>
  OBVIOUS
<1>4. Tail(<<m, c>>) = <<c>>
  OBVIOUS
<1>5. <<m>> # <<>> /\ <<m, c>> # <<>>
  OBVIOUS
<1>6. <<>> \o <<m>> = <<m>> /\ <<m>> \o <<>> = <<m>>
  OBVIOUS
<1>7. Len(<<>>) = 0 /\ Len(<<m>>) = 1
  OBVIOUS
<1> QED
  BY <1>1, <1>2, <1>3, <1>4, <1>5, <1>6, <1>7

\* A queue of one request, to which a page that was left has added the last one.
LEMMA FirstOfQueue ==
    ASSUME NEW m, NEW c, NEW queue, NEW left, queue = IF left THEN <<m, c>> ELSE <<m>>
    PROVE  Head(queue) = m /\ Tail(queue) = IF left THEN <<c>> ELSE <<>>
<1>1. CASE left
  BY <1>1, QueueFacts
<1>2. CASE ~left
  BY <1>2, QueueFacts
<1> QED
  BY <1>1, <1>2

LEMMA ActionsOfRequests == Initialize.action = "initialize" /\ Close.action = "close"
BY DEF Initialize, Close

\* What the consumer finds first in its queue tells where the page is.
LEMMA HandlesFacts ==
    ASSUME TypeOK, NEW s \in Sockets, Situation(s), NEW action, Handles(s, action)
    PROVE  /\ action = "initialize" =>
                  Asked(s) /\ up'[s] = IF page[s] = "left" THEN <<Close>> ELSE <<>>
           /\ action = "update" =>
                  Sent(s) /\ up'[s] = IF page[s] = "left" THEN <<Close>> ELSE <<>>
           /\ action = "close" => /\ up'[s] = <<>>
                                  /\ Closing(s) \/ (Reported(s) /\ page[s] = "left")
           /\ action \in {"initialize", "update", "close"}
<1>1. /\ consumer[s] = "free" /\ up[s] # <<>> /\ Head(up[s]).action = action
      /\ up'[s] = Tail(up[s])
  BY DEF Handles, TypeOK
<1>2. CASE Fresh(s) \/ Connecting(s) \/ Answered(s) \/ InHand(s) \/ Relayed(s)
  BY <1>1, <1>2 DEF Fresh, Connecting, Answered, InHand, Relayed
<1>3. CASE Resetting(s) \/ Closed(s)
  BY <1>1, <1>3 DEF Resetting, Closed
<1>4. CASE Asked(s)
  <2>1. up[s] = IF page[s] = "left" THEN <<Initialize, Close>> ELSE <<Initialize>>
    BY <1>4 DEF Asked, Requested
  <2>2. Head(up[s]) = Initialize /\ Tail(up[s]) = IF page[s] = "left" THEN <<Close>> ELSE <<>>
    BY <2>1, FirstOfQueue
  <2> QED
    BY <2>2, <1>1, <1>4, ActionsOfRequests
<1>5. CASE Sent(s)
  <2>1. PICK m \in Request : m.action = "update" /\ Requested(s, m)
    BY <1>5 DEF Sent
  <2>2. Head(up[s]) = m /\ Tail(up[s]) = IF page[s] = "left" THEN <<Close>> ELSE <<>>
    BY <2>1, FirstOfQueue DEF Requested
  <2> QED
    BY <2>1, <2>2, <1>1, <1>5
<1>6. CASE Reported(s)
  <2>1. page[s] = "left" /\ up[s] = <<Close>>
    BY <1>1, <1>6, QueueFacts DEF Reported, NothingRequested
  <2> QED
    BY <2>1, <1>1, <1>6, QueueFacts, ActionsOfRequests
<1>7. CASE Closing(s)
  BY <1>1, <1>7, QueueFacts, ActionsOfRequests DEF Closing
<1> QED
  BY <1>2, <1>3, <1>4, <1>5, <1>6, <1>7 DEF Situation

\* The consumer: what it computes agrees with its game, and there is one answer.
LEMMA UpdateRallySituation ==
    ASSUME TypeOK, TypeOK', NEW s \in Sockets, Situation(s), UpdateRally(s)
    PROVE  /\ Situation(s)'
           /\ game'[s].score = game[s].score /\ game'[s].running = game[s].running
<1> PICK played, m :
        /\ played = [game[s] EXCEPT
                       !.paddle1 = Head(up[s]).paddle1, !.paddle2 = Head(up[s]).paddle2,
                       !.ball = Rally(game[s].ball, game[s].ball.y, Head(up[s]).paddle1,
                                      Head(up[s]).paddle2)]
        /\ m = State(s, played)
  OBVIOUS
<1>1. Sent(s) /\ up'[s] = IF page[s] = "left" THEN <<Close>> ELSE <<>>
  BY HandlesFacts DEF UpdateRally
<1>2. /\ game' = [game EXCEPT ![s] = played]
      /\ layer' = [t \in Sockets |-> IF t \in group THEN layer[t] \o <<m>> ELSE layer[t]]
      /\ UNCHANGED <<consumer, group, down, page, ready, shown>>
  BY DEF UpdateRally, client, Broadcast
<1>3. game'[s] = played /\ game[s] \in Game /\ played \in Game
  BY <1>2 DEF TypeOK
<1>4. played.score = game[s].score /\ played.running = game[s].running
  BY <1>3 DEF Game
<1>5. /\ Turn(s) /\ consumer[s] = "free" /\ s \in group /\ game[s].running
      /\ layer[s] = <<>> /\ down[s] = <<>>
  BY <1>1 DEF Sent, Silent
<1>6. layer'[s] = <<m>>
  BY <1>2, <1>5, QueueFacts
<1>7. m \in Message /\ m.game = played
  BY <1>3, BuiltInside DEF State
<1>8. Turn(s)' /\ NothingRequested(s)' /\ MemberWhileRunning(s)'
  BY <1>1, <1>2, <1>3, <1>4, <1>5 DEF Turn, NothingRequested, MemberWhileRunning
<1>9. Agrees(m.game, game'[s])
  BY <1>3, <1>7 DEF Agrees
<1>10. Reported(s)'
  BY <1>2, <1>5, <1>6, <1>7, <1>8, <1>9 DEF Reported
<1> QED
  BY <1>3, <1>4, <1>10 DEF Situation

LEMMA UpdateGoalSituation ==
    ASSUME TypeOK, TypeOK', NEW s \in Sockets, Situation(s), UpdateGoal(s)
    PROVE  /\ Situation(s)'
           /\ game'[s].score = game[s].score /\ game'[s].running = game[s].running
<1> PICK moved :
        moved = [game[s] EXCEPT
                   !.paddle1 = Head(up[s]).paddle1, !.paddle2 = Head(up[s]).paddle2]
  OBVIOUS
<1>1. Sent(s) /\ up'[s] = IF page[s] = "left" THEN <<Close>> ELSE <<>>
  BY HandlesFacts DEF UpdateGoal
<1>2. /\ game' = [game EXCEPT ![s] = moved]
      /\ consumer'[s] = "resetting" /\ UNCHANGED <<group, layer, down, page, ready, shown>>
  BY DEF UpdateGoal, client, TypeOK
<1>3. game'[s] = moved /\ game[s] \in Game /\ moved \in Game
  BY <1>2 DEF TypeOK
<1>4. moved.score = game[s].score /\ moved.running = game[s].running
  BY <1>3 DEF Game
<1>5. Turn(s) /\ s \in group /\ game[s].running /\ Silent(s)
  BY <1>1 DEF Sent
<1>6. Turn(s)' /\ NothingRequested(s)' /\ Silent(s)'
  BY <1>1, <1>2, <1>5 DEF Turn, NothingRequested, Silent
<1>7. Resetting(s)'
  BY <1>2, <1>3, <1>4, <1>5, <1>6 DEF Resetting
<1> QED
  BY <1>3, <1>4, <1>7 DEF Situation

\* A goal counts one point, ends the match if that was the last, and is told once.
LEMMA ResetBallFacts ==
    ASSUME TypeOK, TypeOK', NEW s \in Sockets, ResetBall(s), game[s].running,
           s \in group, layer[s] = <<>>
    PROVE  \E scorer \in {1, 2}, over \in BOOLEAN, m \in Message :
              /\ game'[s].score = [game[s].score EXCEPT ![scorer] = @ + 1]
              /\ over <=> IsMatchEnd(game'[s].score)
              /\ game'[s].running <=> ~over
              /\ s \in group' <=> ~over
              /\ layer'[s] = <<m>> /\ Agrees(m.game, game'[s])
<1> DEFINE g == game[s]
           scorer == ScorerAt(g.ball.x)
           score == [g.score EXCEPT ![scorer] = @ + 1]
           over == IsMatchEnd(score)
           y == g.ball.y
<1>1. PICK dy \in Serves :
         LET ended  == [g EXCEPT !.ball = Serve(scorer, dy), !.score = score,
                                 !.running = @ /\ ~over]
             served == [ended EXCEPT !.ball = Rally(@, y, g.paddle1, g.paddle2)]
         IN  /\ game' = [game EXCEPT ![s] = served]
             /\ group' = IF over THEN group \ {s} ELSE group
             /\ layer' = [t \in Sockets |->
                            layer[t] \o (IF over /\ t \in Told(s)
                                         THEN <<GameEnd(s, ended)>> ELSE <<>>)
                                     \o (IF t \in group' THEN <<State(s, served)>> ELSE <<>>)]
  BY DEF ResetBall
<1> DEFINE serve == Serve(scorer, dy)
           running == g.running /\ ~over
           ended == [g EXCEPT !.ball = serve, !.score = score, !.running = running]
           b == Rally(ended.ball, y, g.paddle1, g.paddle2)
           served == [ended EXCEPT !.ball = b]
<1>2. g \in Game /\ scorer \in {1, 2} /\ running \in BOOLEAN
  BY DEF TypeOK, Game, ScorerAt
<1>3. score \in [1..2 -> Nat]
  BY <1>2 DEF Game
<1>4. serve \in Ball
  BY <1>2, BuiltInside
<1>5. /\ game' = [game EXCEPT ![s] = served]
      /\ group' = IF over THEN group \ {s} ELSE group
      /\ layer' = [t \in Sockets |->
                     layer[t] \o (IF over /\ t \in Told(s)
                                  THEN <<GameEnd(s, ended)>> ELSE <<>>)
                              \o (IF t \in group' THEN <<State(s, served)>> ELSE <<>>)]
  BY <1>1, Zenon
<1>6. running <=> ~over
  OBVIOUS
<1> HIDE DEF scorer, over, y, serve, running, b
<1>7. ended \in Game /\ ended.score = score /\ ended.running = running
  BY <1>2, <1>3, <1>4 DEF Game
<1>8. game'[s] = served /\ served \in Game
  BY <1>5 DEF TypeOK
<1> HIDE DEF ended
<1>9. served.score = score /\ served.running = running
  BY <1>7 DEF Game
<1> HIDE DEF g, score, served
<1> PICK e, m : e = GameEnd(s, ended) /\ m = State(s, served)
  OBVIOUS
<1>10. e \in Message /\ m \in Message /\ e.game = ended /\ m.game = served
  BY <1>7, <1>8, BuiltInside DEF GameEnd, State
<1>11. layer'[s] = layer[s] \o (IF over /\ s \in group THEN <<e>> ELSE <<>>)
                           \o (IF s \in group' THEN <<m>> ELSE <<>>)
  BY <1>5 DEF Told
<1>12. CASE over
  <2>1. s \notin group'
    BY <1>5, <1>12
  <2>2. layer'[s] = <<e>>
    BY <2>1, <1>11, <1>12, QueueFacts
  <2>3. Agrees(e.game, game'[s])
    BY <1>6, <1>7, <1>8, <1>9, <1>10, <1>12 DEF Agrees
  <2> QED
    BY <2>1, <2>2, <2>3, <1>2, <1>6, <1>8, <1>9, <1>10, <1>12 DEF score, g, over
<1>13. CASE ~over
  <2>1. s \in group'
    BY <1>5, <1>13
  <2>2. layer'[s] = <<m>>
    BY <2>1, <1>11, <1>13, QueueFacts
  <2>3. Agrees(m.game, game'[s])
    BY <1>8, <1>10 DEF Agrees
  <2> QED
    BY <2>1, <2>2, <2>3, <1>2, <1>6, <1>8, <1>9, <1>10, <1>13 DEF score, g, over
<1> QED
  BY <1>12, <1>13

LEMMA ResetBallSituation ==
    ASSUME TypeOK, TypeOK', NEW s \in Sockets, Situation(s), ScoreOK(game[s]), ResetBall(s)
    PROVE  Situation(s)' /\ ScoreOK(game[s])'
<1>1. consumer[s] = "resetting"
  BY DEF ResetBall
<1>2. Resetting(s)
  BY <1>1 DEF Situation, Fresh, Connecting, Asked, Answered, InHand, Sent, Reported, Relayed,
              Closing, Closed
<1>3. /\ Turn(s) /\ s \in group /\ game[s].running /\ layer[s] = <<>> /\ down[s] = <<>>
      /\ NothingRequested(s)
  BY <1>2, Zenon DEF Resetting, Silent
<1>4. consumer'[s] = "free" /\ UNCHANGED <<up, down, page, ready, shown>>
  <2>1. consumer' = [consumer EXCEPT ![s] = "free"] /\ UNCHANGED <<up, down, client>>
    BY Zenon DEF ResetBall
  <2>2. consumer'[s] = "free"
    BY <2>1 DEF TypeOK
  <2> QED
    BY <2>1, <2>2 DEF client
<1>5. PICK scorer \in {1, 2}, over \in BOOLEAN, m \in Message :
              /\ game'[s].score = [game[s].score EXCEPT ![scorer] = @ + 1]
              /\ over <=> IsMatchEnd(game'[s].score)
              /\ game'[s].running <=> ~over
              /\ s \in group' <=> ~over
              /\ layer'[s] = <<m>> /\ Agrees(m.game, game'[s])
  BY <1>3, ResetBallFacts
<1>6. Turn(s)' /\ NothingRequested(s)' /\ MemberWhileRunning(s)'
  BY <1>3, <1>4, <1>5 DEF Turn, NothingRequested, MemberWhileRunning
<1>7. Reported(s)'
  BY <1>3, <1>4, <1>5, <1>6 DEF Reported
<1>8. ScoreOK(game[s])'
  <2> PICK a, b : a = game[s].score /\ b = game'[s].score
    OBVIOUS
  <2>1. a \in [1..2 -> Nat] /\ b = [a EXCEPT ![scorer] = @ + 1]
    BY <1>5 DEF TypeOK, Game
  <2>2. a[1] < MaxScore /\ a[2] < MaxScore
    BY <1>3 DEF ScoreOK
  <2>3. /\ b[1] <= MaxScore /\ b[2] <= MaxScore
        /\ ~(b[1] >= MaxScore /\ b[2] >= MaxScore)
    BY ONLY <2>1, <2>2, OnlineAssumption
  <2>4. game'[s].running <=> b[1] < MaxScore /\ b[2] < MaxScore
    BY <1>5, <2>1, OnlineAssumption DEF IsMatchEnd
  <2> QED
    BY <2>3, <2>4 DEF ScoreOK
<1> QED
  BY <1>7, <1>8 DEF Situation

\* The first answer: it starts the page, or the page was left.
LEMMA AnswerSituation ==
    ASSUME TypeOK, NEW s \in Sockets, Situation(s), AnswerInitialize(s)
    PROVE  Situation(s)' /\ game' = game
<1>1. /\ Asked(s) /\ up'[s] = IF page[s] = "left" THEN <<Close>> ELSE <<>>
  BY HandlesFacts DEF AnswerInitialize
<1>2. UNCHANGED <<game, consumer, group, layer, page, ready, shown>>
  BY DEF AnswerInitialize, server, client
<1>3. down'[s] = IF Open(s) THEN Append(down[s], State(s, game[s])) ELSE down[s]
  BY DEF AnswerInitialize, SendDown, TypeOK
<1>4. /\ page[s] \in {"waiting", "left"} /\ consumer[s] = "free" /\ s \in group
      /\ layer[s] = <<>> /\ down[s] = <<>> /\ game[s].running
  BY <1>1 DEF Asked, Silent
<1>5. CASE page[s] = "waiting"
  <2>1. down'[s] = <<State(s, game[s])>>
    BY <1>3, <1>4, <1>5, QueueFacts DEF Open
  <2>2. State(s, game[s])' = State(s, game[s])
    BY <1>2
  <2>3. Answered(s)'
    BY <1>1, <1>2, <1>4, <1>5, <2>1, <2>2 DEF Answered
  <2> QED
    BY <1>2, <2>3 DEF Situation
<1>6. CASE page[s] = "left"
  <2>1. up'[s] = <<Close>> /\ down'[s] = <<>>
    BY <1>1, <1>3, <1>4, <1>6 DEF Open
  <2>2. Closing(s)'
    BY <1>2, <1>4, <1>6, <2>1 DEF Closing, Silent, ShownToTheEnd
  <2> QED
    BY <1>2, <2>2 DEF Situation
<1> QED
  BY <1>4, <1>5, <1>6

\* What was computed goes down to the page, unless it was left.
LEMMA RelaySituation ==
    ASSUME TypeOK, NEW s \in Sockets, Situation(s), Relay(s)
    PROVE  Situation(s)' /\ game' = game
<1>1. layer[s] # <<>> /\ consumer[s] = "free"
  BY DEF Relay
<1>2. Reported(s)
  BY <1>1 DEF Situation, Silent, Fresh, Connecting, Asked, Answered, InHand, Sent, Resetting,
              Relayed, Closing, Closed
<1>3. PICK m \in Message : layer[s] = <<m>> /\ Agrees(m.game, game[s])
  BY <1>2 DEF Reported
<1>4. /\ UNCHANGED <<game, consumer, group, up, page, ready, shown>>
      /\ layer'[s] = Tail(layer[s])
      /\ down'[s] = IF Open(s) THEN Append(down[s], Head(layer[s])) ELSE down[s]
  BY DEF Relay, SendDown, client, TypeOK
<1>5. Turn(s) /\ MemberWhileRunning(s) /\ NothingRequested(s) /\ down[s] = <<>>
  BY <1>2 DEF Reported
<1>6. /\ layer'[s] = <<>>
      /\ down'[s] = IF Open(s) THEN <<m>> ELSE <<>>
  BY <1>3, <1>4, <1>5, QueueFacts
<1>7. CASE page[s] = "playing"
  <2>1. up'[s] = <<>> /\ down'[s] = <<m>>
    BY <1>4, <1>5, <1>6, <1>7 DEF NothingRequested, Open
  <2>2. Turn(s)' /\ MemberWhileRunning(s)'
    BY <1>4, <1>5 DEF Turn, MemberWhileRunning
  <2>3. Agrees(m.game, game'[s])
    BY <1>3, <1>4
  <2>4. Relayed(s)'
    BY <1>1, <1>4, <1>6, <1>7, <2>1, <2>2, <2>3 DEF Relayed
  <2> QED
    BY <1>4, <2>4 DEF Situation
<1>8. CASE page[s] = "left"
  <2>1. up'[s] = <<Close>> /\ down'[s] = <<>>
    BY <1>4, <1>5, <1>6, <1>8 DEF NothingRequested, Open
  <2>2. Closing(s)'
    BY <1>1, <1>4, <1>6, <1>8, <2>1 DEF Closing, Silent, ShownToTheEnd
  <2> QED
    BY <1>4, <2>2 DEF Situation
<1> QED
  BY <1>5, <1>7, <1>8 DEF Turn

LEMMA DisconnectSituation ==
    ASSUME TypeOK, NEW s \in Sockets, Situation(s), Disconnect(s)
    PROVE  Situation(s)' /\ game' = game
<1>1. up'[s] = <<>> /\ (Closing(s) \/ (Reported(s) /\ page[s] = "left"))
  BY HandlesFacts DEF Disconnect
<1>2. /\ UNCHANGED <<game, down, page, ready, shown>>
      /\ consumer'[s] = "gone" /\ layer'[s] = <<>>
  BY DEF Disconnect, client, TypeOK
<1>3. page[s] \in {"over", "left"} /\ down[s] = <<>> /\ ShownToTheEnd(s)
  BY <1>1 DEF Closing, Silent, Reported, ShownToTheEnd
<1>4. Closed(s)'
  BY <1>1, <1>2, <1>3 DEF Closed, Silent, ShownToTheEnd
<1> QED
  BY <1>2, <1>4 DEF Situation

\* The beginning of a visit.
LEMMA BeginningSituation ==
    ASSUME TypeOK, NEW s \in Sockets, Situation(s), Start(s) \/ Connect(s) \/ OnSocketOpen(s)
    PROVE  Situation(s)' /\ game' = game
<1>1. CASE Start(s)
  <2>1. page[s] = "fresh"
    BY <1>1 DEF Start
  <2>2. Fresh(s)
    BY <2>1 DEF Situation, Turn, Connecting, Asked, Answered, InHand, Sent, Resetting, Reported,
                Relayed, Closing, Closed
  <2>3. /\ UNCHANGED <<game, consumer, group, layer, up, down, ready, shown>>
        /\ page'[s] = "connecting"
    BY <1>1 DEF Start, server, TypeOK
  <2>4. Connecting(s)'
    BY <2>2, <2>3 DEF Fresh, Silent, Connecting
  <2> QED
    BY <2>3, <2>4 DEF Situation
<1>2. ASSUME Connect(s) \/ OnSocketOpen(s)
      PROVE  Connecting(s)
  <2>1. page[s] = "connecting"
    BY <1>2 DEF Connect, OnSocketOpen
  <2> QED
    BY <2>1 DEF Situation, Turn, Fresh, Asked, Answered, InHand, Sent, Resetting, Reported,
                Relayed, Closing, Closed
<1>3. CASE Connect(s)
  <2>1. /\ UNCHANGED <<game, layer, up, down, page, ready, shown>>
        /\ consumer'[s] = "free" /\ s \in group'
    BY <1>3 DEF Connect, client, TypeOK
  <2>2. Connecting(s)'
    BY <1>2, <1>3, <2>1 DEF Connecting, Silent
  <2> QED
    BY <2>1, <2>2 DEF Situation
<1>4. CASE OnSocketOpen(s)
  <2>1. /\ UNCHANGED <<game, consumer, group, layer, down, ready, shown>>
        /\ page'[s] = "waiting" /\ up'[s] = Append(up[s], Initialize) /\ consumer[s] # "none"
    BY <1>4 DEF OnSocketOpen, server, TypeOK
  <2>2. /\ consumer[s] = "free" /\ s \in group /\ up[s] = <<>> /\ Silent(s) /\ game[s].running
    BY <1>2, <1>4, <2>1 DEF Connecting
  <2>3. up'[s] = <<Initialize>>
    BY <2>1, <2>2, QueueFacts
  <2>4. Requested(s, Initialize)'
    BY <2>1, <2>3 DEF Requested
  <2>5. Asked(s)'
    BY <2>1, <2>2, <2>4 DEF Asked, Silent
  <2> QED
    BY <2>1, <2>5 DEF Situation
<1> QED
  BY <1>1, <1>3, <1>4

\* A state puts the page in hand, the news of the end too.
LEMMA MessageSituation ==
    ASSUME TypeOK, TypeOK', NEW s \in Sockets, Situation(s), OnSocketMessage(s)
    PROVE  Situation(s)' /\ game' = game
<1>1. down[s] # <<>>
  BY DEF OnSocketMessage
<1>2. Answered(s) \/ Relayed(s)
  BY <1>1 DEF Situation, Silent, Fresh, Connecting, Asked, InHand, Sent, Resetting, Reported,
              Closing, Closed
<1>3. /\ UNCHANGED <<game, consumer, group, layer, up>>
      /\ down'[s] = Tail(down[s]) /\ shown'[s] = Head(down[s]) /\ ready'[s] = TRUE
      /\ page'[s] = IF Head(down[s]).event = "state" THEN "playing" ELSE page[s]
  BY DEF OnSocketMessage, server, UpdateState, TypeOK
<1>4. /\ consumer[s] = "free" /\ MemberWhileRunning(s) /\ up[s] = <<>> /\ layer[s] = <<>>
  BY <1>2 DEF Answered, Relayed, MemberWhileRunning
<1>5. ASSUME NEW m \in Message, down[s] = <<m>>, Agrees(m.game, game[s]), page'[s] = "playing"
      PROVE  Situation(s)'
  <2>1. down'[s] = <<>> /\ shown'[s] = m
    BY <1>3, <1>5, QueueFacts
  <2>2. Agrees(shown'[s].game, game'[s]) /\ MemberWhileRunning(s)'
    BY <1>3, <1>4, <1>5, <2>1 DEF MemberWhileRunning
  <2>3. InHand(s)'
    BY <1>3, <1>4, <1>5, <2>1, <2>2 DEF InHand, Silent
  <2> QED
    BY <2>3 DEF Situation
<1>6. CASE Answered(s)
  <2> PICK m : m = State(s, game[s])
    OBVIOUS
  <2>1. down[s] = <<m>> /\ m \in Message /\ m.game = game[s] /\ m.event = "state"
    BY <1>6, BuiltInside DEF Answered, State, TypeOK
  <2>2. page'[s] = "playing" /\ Agrees(m.game, game[s])
    BY <1>3, <2>1, QueueFacts DEF Agrees
  <2> QED
    BY <1>3, <1>5, <2>1, <2>2
<1>7. CASE Relayed(s)
  <2>1. PICK m \in Message : down[s] = <<m>> /\ Agrees(m.game, game[s])
    BY <1>7 DEF Relayed
  <2>2. page'[s] = "playing"
    BY <1>3, <1>7 DEF Relayed
  <2> QED
    BY <1>3, <1>5, <2>1, <2>2
<1> QED
  BY <1>2, <1>6, <1>7

\* A page that may send shows the game, so that its consumer has not left the group.
LEMMA SendSituation ==
    ASSUME TypeOK, NEW s \in Sockets, Situation(s), SendClientState(s)
    PROVE  Situation(s)' /\ game' = game
<1>1. page[s] = "playing" /\ ready[s] /\ shown[s].game.running
  BY DEF SendClientState
<1>2. InHand(s)
  BY <1>1 DEF Situation, Turn, Fresh, Connecting, Asked, Answered, Sent, Resetting, Reported,
              Relayed, Closing, Closed
<1>3. /\ consumer[s] = "free" /\ s \in group /\ game[s].running /\ up[s] = <<>> /\ Silent(s)
  BY <1>1, <1>2 DEF InHand, Agrees, MemberWhileRunning
<1>4. PICK p \in Moved(shown[s].game.paddle1), q \in Moved(shown[s].game.paddle2) :
         /\ shown' = [shown EXCEPT ![s].game.paddle1 = p, ![s].game.paddle2 = q]
         /\ up' = [up EXCEPT ![s] = Append(@, Update(p, q))]
  BY DEF SendClientState
<1>5. p \in Paddle /\ q \in Paddle
  <2>1. shown[s].game.paddle1 \in Paddle /\ shown[s].game.paddle2 \in Paddle
    BY DEF TypeOK, Message, Game
  <2> QED
    BY <2>1, BuiltInside
<1> PICK m : m = Update(p, q)
  OBVIOUS
<1>6. m \in Request /\ m.action = "update"
  BY <1>5, BuiltInside DEF Update
<1>7. /\ UNCHANGED <<game, consumer, group, layer, down, page>> /\ ready'[s] = FALSE
      /\ up'[s] = <<m>>
  BY <1>3, <1>4, QueueFacts DEF SendClientState, server, TypeOK
<1>8. shown'[s].game.running
  <2>1. shown[s] \in Message /\ shown[s].game \in Game
    BY DEF TypeOK, Message
  <2>2. shown'[s].game.running = shown[s].game.running
    BY <1>4, <2>1 DEF TypeOK, Message, Game
  <2> QED
    BY <1>1, <2>2
<1>9. Turn(s)' /\ Requested(s, m)' /\ Silent(s)'
  BY <1>1, <1>3, <1>7, <1>8 DEF Turn, Requested, Silent
<1>10. Sent(s)'
  BY <1>3, <1>6, <1>7, <1>9 DEF Sent, Requested
<1> QED
  BY <1>7, <1>10 DEF Situation

\* The page stops when it shows the end.
LEMMA StopSituation ==
    ASSUME TypeOK, NEW s \in Sockets, Situation(s), StopGameLoop(s)
    PROVE  Situation(s)' /\ game' = game
<1>1. page[s] = "playing" /\ ~shown[s].game.running
  BY DEF StopGameLoop
<1>2. InHand(s)
  BY <1>1 DEF Situation, Turn, Fresh, Connecting, Asked, Answered, Sent, Resetting, Reported,
              Relayed, Closing, Closed
<1>3. /\ UNCHANGED <<game, consumer, group, layer, ready, shown>>
      /\ page'[s] = "over" /\ up'[s] = Append(up[s], Close) /\ down'[s] = <<>>
  BY DEF StopGameLoop, CloseSocket, server, TypeOK
<1>4. /\ consumer[s] = "free" /\ up[s] = <<>> /\ layer[s] = <<>>
      /\ Agrees(shown[s].game, game[s])
  BY <1>2 DEF InHand, Silent
<1>5. up'[s] = <<Close>>
  BY <1>3, <1>4, QueueFacts
<1>6. ShownToTheEnd(s)'
  BY <1>1, <1>3, <1>4 DEF ShownToTheEnd, Agrees
<1>7. Closing(s)'
  BY <1>3, <1>4, <1>5, <1>6 DEF Closing, Silent
<1> QED
  BY <1>3, <1>7 DEF Situation

\* A page can be left while it waits for its turn, and then its consumer has one more turn.
LEMMA LeaveSituation ==
    ASSUME TypeOK, NEW s \in Sockets, Situation(s), Leave(s)
    PROVE  Situation(s)' /\ game' = game
<1>1. page[s] \in {"waiting", "playing"}
  BY DEF Leave, Open
<1>2. /\ UNCHANGED <<game, consumer, group, layer, ready, shown>>
      /\ page'[s] = "left" /\ up'[s] = Append(up[s], Close) /\ down'[s] = <<>>
  BY DEF Leave, CloseSocket, server, TypeOK
<1>3. ASSUME NEW m, Requested(s, m)
      PROVE  Requested(s, m)'
  <2>1. up[s] = <<m>>
    BY <1>1, <1>3 DEF Requested
  <2>2. Append(<<m>>, Close) = <<m, Close>>
    BY QueueFacts
  <2>3. up'[s] = <<m, Close>>
    BY <1>2, <2>1, <2>2
  <2>4. up'[s] = IF page'[s] = "left" THEN <<m, Close>> ELSE <<m>>
    BY <1>2, <2>3
  <2> QED
    BY <2>4 DEF Requested
<1>4. ASSUME NothingRequested(s)
      PROVE  NothingRequested(s)' /\ up'[s] = <<Close>>
  <2>1. up[s] = <<>>
    BY <1>1, <1>4 DEF NothingRequested
  <2>2. up'[s] = <<Close>>
    BY <1>2, <2>1, QueueFacts
  <2> QED
    BY <1>2, <2>2 DEF NothingRequested
<1>5. Turn(s)'
  BY <1>2 DEF Turn
<1>6. CASE Asked(s)
  <2>1. Requested(s, Initialize)'
    BY <1>3, <1>6 DEF Asked
  <2>2. Asked(s)'
    BY <1>2, <1>6, <2>1 DEF Asked, Silent
  <2> QED
    BY <1>2, <2>2 DEF Situation
<1>7. CASE Sent(s)
  <2>1. PICK m \in Request : m.action = "update" /\ Requested(s, m)
    BY <1>7 DEF Sent
  <2>2. Requested(s, m)'
    BY <1>3, <2>1
  <2>3. Silent(s)' /\ consumer'[s] = "free" /\ s \in group' /\ game'[s].running
    BY <1>2, <1>7 DEF Sent, Silent
  <2>4. Sent(s)'
    BY <1>5, <2>1, <2>2, <2>3 DEF Sent, Requested
  <2> QED
    BY <1>2, <2>4 DEF Situation
<1>8. CASE Resetting(s)
  <2>1. NothingRequested(s)'
    BY <1>4, <1>8 DEF Resetting
  <2>2. Resetting(s)'
    BY <1>2, <1>5, <1>8, <2>1 DEF Resetting, Silent
  <2> QED
    BY <1>2, <2>2 DEF Situation
<1>9. CASE Reported(s)
  <2>1. NothingRequested(s)' /\ MemberWhileRunning(s)'
    BY <1>2, <1>4, <1>9 DEF Reported, MemberWhileRunning
  <2>2. Reported(s)'
    BY <1>2, <1>5, <1>9, <2>1 DEF Reported
  <2> QED
    BY <1>2, <2>2 DEF Situation
<1>10. CASE Answered(s) \/ InHand(s) \/ Relayed(s)
  <2>1. up[s] = <<>> /\ layer[s] = <<>> /\ consumer[s] = "free"
    BY <1>10 DEF Answered, InHand, Relayed, Silent
  <2>2. up'[s] = <<Close>>
    BY <1>2, <2>1, QueueFacts
  <2>3. Closing(s)'
    BY <1>2, <2>1, <2>2 DEF Closing, Silent, ShownToTheEnd
  <2> QED
    BY <1>2, <2>3 DEF Situation
<1> QED
  BY <1>1, <1>6, <1>7, <1>8, <1>9, <1>10 DEF Situation, Fresh, Connecting, Closing, Closed

LEMMA VisitStep ==
    ASSUME OneVisit, VisitInv, [Next]_vars
    PROVE  VisitInv'
<1>1. TypeOK /\ TypeOK'
  BY StepFacts DEF VisitInv
<1> SUFFICES ASSUME NEW s \in Sockets
             PROVE  Situation(s)' /\ ScoreOK(game[s])'
  BY <1>1 DEF VisitInv
<1>2. Situation(s) /\ ScoreOK(game[s])
  BY DEF VisitInv
<1>3. ASSUME Situation(s)', game'[s].score = game[s].score, game'[s].running = game[s].running
      PROVE  Situation(s)' /\ ScoreOK(game[s])'
  BY <1>2, <1>3 DEF ScoreOK
<1>4. CASE UNCHANGED vars
  <2>1. UNCHANGED <<game, consumer, group, layer, up, down, page, ready, shown>>
    BY <1>4 DEF vars
  <2>2. /\ Turn(s)' = Turn(s) /\ Silent(s)' = Silent(s)
        /\ NothingRequested(s)' = NothingRequested(s)
        /\ MemberWhileRunning(s)' = MemberWhileRunning(s)
        /\ ShownToTheEnd(s)' = ShownToTheEnd(s)
        /\ \A m : Requested(s, m)' = Requested(s, m)
    BY <2>1 DEF Turn, Silent, Requested, NothingRequested, MemberWhileRunning, ShownToTheEnd
  <2>3. /\ Fresh(s) => Fresh(s)'
        /\ Connecting(s) => Connecting(s)'
        /\ Asked(s) => Asked(s)'
        /\ Answered(s) => Answered(s)'
    BY <2>1, <2>2 DEF Fresh, Connecting, Asked, Answered, Requested
  <2>4. /\ InHand(s) => InHand(s)'
        /\ Resetting(s) => Resetting(s)'
        /\ Closing(s) => Closing(s)'
        /\ Closed(s) => Closed(s)'
    BY <2>1, <2>2 DEF InHand, Resetting, Closing, Closed
  <2>5. Sent(s) => Sent(s)'
    BY <2>1, <2>2 DEF Sent, Requested
  <2>6. Reported(s) => Reported(s)'
    BY <2>1, <2>2 DEF Reported
  <2>7. Relayed(s) => Relayed(s)'
    BY <2>1, <2>2 DEF Relayed
  <2>8. Situation(s)'
    BY <1>2, <2>3, <2>4, <2>5, <2>6, <2>7 DEF Situation
  <2> QED
    BY <1>3, <2>1, <2>8
<1>5. CASE UpdateRally(s) \/ UpdateGoal(s)
  BY <1>1, <1>2, <1>3, <1>5, UpdateRallySituation, UpdateGoalSituation
<1>6. CASE ResetBall(s)
  BY <1>1, <1>2, <1>6, ResetBallSituation
<1>7. CASE AnswerInitialize(s) \/ Relay(s) \/ Disconnect(s)
  <2>1. Situation(s)' /\ game' = game
    BY <1>1, <1>2, <1>7, AnswerSituation, RelaySituation, DisconnectSituation
  <2> QED
    BY <1>3, <2>1
<1>8. CASE Start(s) \/ Connect(s) \/ OnSocketOpen(s)
  <2>1. Situation(s)' /\ game' = game
    BY <1>1, <1>2, <1>8, BeginningSituation
  <2> QED
    BY <1>3, <2>1
<1>9. CASE OnSocketMessage(s) \/ SendClientState(s)
  <2>1. Situation(s)' /\ game' = game
    BY <1>1, <1>2, <1>9, MessageSituation, SendSituation
  <2> QED
    BY <1>3, <2>1
<1>10. CASE StopGameLoop(s) \/ Leave(s)
  <2>1. Situation(s)' /\ game' = game
    BY <1>1, <1>2, <1>10, StopSituation, LeaveSituation
  <2> QED
    BY <1>3, <2>1
<1>11. CASE Next
  <2>1. PICK t \in Sockets : Start(t) \/ Leave(t) \/ ServerStep(t) \/ PageStep(t)
    BY <1>11 DEF Next
  <2>2. t = s
    BY DEF OneVisit
  <2>3. Start(s) \/ Leave(s) \/ ServerStep(s) \/ PageStep(s)
    BY <2>1, <2>2
  <2> QED
    BY <2>3, <1>5, <1>6, <1>7, <1>8, <1>9, <1>10 DEF ServerStep, PageStep
<1> QED
  BY <1>4, <1>11

LEMMA VisitInit == Init => VisitInv
<1> SUFFICES ASSUME Init
             PROVE  VisitInv
  OBVIOUS
<1>1. TypeOK
  BY InitTyped
<1>2. ASSUME NEW s \in Sockets
      PROVE  Fresh(s) /\ ScoreOK(game[s])
  <2>1. game[s] = NewGame
    BY DEF Init
  <2>2. game[s].running /\ \A i \in 1..2 : game[s].score[i] = 0
    BY <2>1 DEF NewGame
  <2>3. ScoreOK(game[s])
    BY <2>2, OnlineAssumption DEF ScoreOK
  <2>4. Fresh(s)
    BY <2>2 DEF Init, Fresh, Silent
  <2> QED
    BY <2>3, <2>4
<1> QED
  BY <1>1, <1>2 DEF VisitInv, Situation

\* The inductive invariant, if there is one visit.
THEOREM VisitInductive == OneVisit => (Spec => []VisitInv)
<1> SUFFICES ASSUME OneVisit
             PROVE  Spec => []VisitInv
  OBVIOUS
<1>1. VisitInv /\ [Next]_vars => VisitInv'
  BY VisitStep
<1> QED
  BY <1>1, VisitInit, PTL DEF Spec

\* readyToSendNext keeps the page and the consumer of a visit in step: one message is between
\* them at most, counting the reset that a message has started, and none while the page may
\* send.
THEOREM InStepAlways == OneVisit => (Spec => []InStep)
<1> SUFFICES ASSUME OneVisit
             PROVE  Spec => []InStep
  OBVIOUS
<1>1. VisitInv => InStep
  <2> SUFFICES ASSUME VisitInv, NEW s \in Sockets, Open(s)
               PROVE  /\ OnItsWay(s) <= 1
                      /\ page[s] = "playing" /\ ready[s] => OnItsWay(s) = 0
    BY DEF InStep
  <2>1. Situation(s) /\ page[s] \in {"waiting", "playing"}
    BY DEF VisitInv, Open
  <2> DEFINE asleep == IF consumer[s] = "resetting" THEN 1 ELSE 0
  <2>2. OnItsWay(s) = Len(up[s]) + Len(layer[s]) + Len(down[s]) + asleep
    BY DEF OnItsWay
  <2>3. \A m : Len(<<m>>) = 1
    BY QueueFacts
  <2>4. CASE Asked(s)
    <3>1. up[s] = <<Initialize>> /\ layer[s] = <<>> /\ down[s] = <<>> /\ asleep = 0
      BY <2>1, <2>4 DEF Asked, Requested, Silent
    <3>2. page[s] # "playing"
      BY <2>4 DEF Asked
    <3> QED
      BY <2>2, <2>3, <3>1, <3>2
  <2>5. CASE Answered(s)
    BY <2>2, <2>3, <2>5 DEF Answered
  <2>6. CASE InHand(s)
    BY <2>2, <2>6 DEF InHand, Silent
  <2>7. CASE Sent(s)
    <3>1. PICK m \in Request : Requested(s, m)
      BY <2>7 DEF Sent
    <3>2. up[s] = <<m>> /\ layer[s] = <<>> /\ down[s] = <<>> /\ asleep = 0
      BY <2>1, <2>7, <3>1 DEF Sent, Requested, Silent
    <3>3. page[s] = "playing" => ~ready[s]
      BY <2>7 DEF Sent, Turn
    <3> QED
      BY <2>2, <2>3, <3>2, <3>3
  <2>8. CASE Resetting(s)
    <3>1. up[s] = <<>> /\ layer[s] = <<>> /\ down[s] = <<>> /\ asleep = 1
      BY <2>1, <2>8 DEF Resetting, NothingRequested, Silent
    <3>2. page[s] = "playing" => ~ready[s]
      BY <2>8 DEF Resetting, Turn
    <3> QED
      BY <2>2, <3>1, <3>2
  <2>9. CASE Reported(s)
    <3>1. PICK m \in Message : layer[s] = <<m>>
      BY <2>9 DEF Reported
    <3>2. up[s] = <<>> /\ down[s] = <<>> /\ asleep = 0
      BY <2>1, <2>9 DEF Reported, NothingRequested
    <3>3. page[s] = "playing" => ~ready[s]
      BY <2>9 DEF Reported, Turn
    <3> QED
      BY <2>2, <2>3, <3>1, <3>2, <3>3
  <2>10. CASE Relayed(s)
    <3>1. PICK m \in Message : down[s] = <<m>>
      BY <2>10 DEF Relayed
    <3>2. up[s] = <<>> /\ layer[s] = <<>> /\ asleep = 0
      BY <2>10 DEF Relayed
    <3>3. page[s] = "playing" => ~ready[s]
      BY <2>10 DEF Relayed, Turn
    <3> QED
      BY <2>2, <2>3, <3>1, <3>2, <3>3
  <2> QED
    BY <2>1, <2>4, <2>5, <2>6, <2>7, <2>8, <2>9, <2>10
       DEF Situation, Fresh, Connecting, Closing, Closed
<1> QED
  BY <1>1, VisitInductive, PTL

\* A page that may send, or that has stopped, shows the score of its consumer, and while the
\* match runs its ball and paddles too.
THEOREM ShowsTheGameAlways == OneVisit => (Spec => []ShowsTheGame)
<1> SUFFICES ASSUME OneVisit
             PROVE  Spec => []ShowsTheGame
  OBVIOUS
<1>1. VisitInv => ShowsTheGame
  <2> SUFFICES ASSUME VisitInv, NEW s \in Sockets,
                      (page[s] = "playing" /\ ready[s]) \/ page[s] = "over"
               PROVE  /\ shown[s].game.score = game[s].score
                      /\ shown[s].game.running = game[s].running
                      /\ game[s].running => shown[s].game = game[s]
    BY DEF ShowsTheGame
  <2>1. Situation(s)
    BY DEF VisitInv
  <2>2. CASE page[s] = "playing" /\ ready[s]
    <3>1. InHand(s)
      BY <2>1, <2>2 DEF Situation, Turn, Fresh, Connecting, Asked, Answered, Sent, Resetting,
                        Reported, Relayed, Closing, Closed
    <3>2. Agrees(shown[s].game, game[s])
      BY <3>1 DEF InHand
    <3> QED
      BY <3>2 DEF Agrees
  <2>3. CASE page[s] = "over"
    <3>1. Closing(s) \/ Closed(s)
      BY <2>1, <2>3 DEF Situation, Turn, Fresh, Connecting, Asked, Answered, InHand, Sent,
                        Resetting, Reported, Relayed
    <3>2. Agrees(shown[s].game, game[s])
      BY <2>3, <3>1 DEF Closing, Closed, ShownToTheEnd
    <3> QED
      BY <3>2 DEF Agrees
  <2> QED
    BY <2>2, <2>3
<1> QED
  BY <1>1, VisitInductive, PTL

\* update_game never looks whether the match is over: that no player passes the maximal score
\* and one alone reaches it follows from the page, which stops sending.
THEOREM OnePlayerWinsAlways == OneVisit => (Spec => []OnePlayerWins)
<1> SUFFICES ASSUME OneVisit
             PROVE  Spec => []OnePlayerWins
  OBVIOUS
<1>1. VisitInv => OnePlayerWins
  <2> SUFFICES ASSUME VisitInv, NEW s \in Sockets
               PROVE  LET won == {i \in 1..2 : game[s].score[i] >= MaxScore}
                      IN  /\ \A i \in 1..2 : game[s].score[i] <= MaxScore
                          /\ won # {1, 2}
                          /\ game[s].running <=> won = {}
    BY DEF OnePlayerWins
  <2> PICK score : score = game[s].score
    OBVIOUS
  <2>1. score \in [1..2 -> Nat] /\ ScoreOK(game[s])
    BY DEF VisitInv, TypeOK, Game
  <2> DEFINE won == {i \in 1..2 : score[i] >= MaxScore}
  <2>2. 1 \in won <=> score[1] >= MaxScore
    OBVIOUS
  <2>3. 2 \in won <=> score[2] >= MaxScore
    OBVIOUS
  <2>4. won # {1, 2}
    BY <2>1, <2>2, <2>3 DEF ScoreOK
  <2>5. (\A i \in 1..2 : score[i] < MaxScore) <=> won = {}
    BY <2>1, OnlineAssumption
  <2>6. /\ \A i \in 1..2 : score[i] <= MaxScore
        /\ game[s].running <=> \A i \in 1..2 : score[i] < MaxScore
    BY <2>1 DEF ScoreOK
  <2> QED
    BY <2>4, <2>5, <2>6
<1> QED
  BY <1>1, VisitInductive, PTL
=============================================================================
