----------------------------- MODULE PongPhysics -----------------------------
(***************************************************************************)
(* One frame of the online pong: the ball, the walls and the paddles       *)
(* (pong/online/pong_online_physics.py, pong_online_updater.py), and the   *)
(* paddles' keys (PongOnlinePaddleMover.js).                               *)
(*                                                                         *)
(* Positions and speeds are integers; the vertical direction of the ball   *)
(* counts in 1/Unit.  Where the code multiplies floats, the speed is       *)
(* rounded up and the vertical move down.  The field is centred at (0, 0). *)
(***************************************************************************)
EXTENDS Integers

CONSTANTS
    HalfWidth, HalfHeight,              \* of the field
    Radius,                             \* of the ball
    PaddleX,                            \* paddle 1 stands at -PaddleX, paddle 2 at PaddleX
    HalfPaddleWidth, HalfPaddleHeight,
    PaddleStep,                         \* what a paddle moves in a frame
    Unit,                               \* grid of vertical directions
    Lift,                               \* what a moving paddle adds to one: 0.05 PaddleStep
    InitSpeed, MaxSpeed                 \* of the ball

\* The numbers of PongOnlineConfig satisfy these: between a paddle and the wall behind it
\* there is room for the ball, the serve is clear of both paddles, and the speed stays below
\* the width of a paddle (cap_max_speed_to_avoid_tunneling), which is no wider than the ball.
ASSUME PhysicsAssumption ==
    /\ {HalfWidth, HalfHeight, Radius, PaddleX, HalfPaddleWidth, HalfPaddleHeight,
        PaddleStep, Unit, Lift, InitSpeed, MaxSpeed} \subseteq Nat \ {0}
    /\ PaddleX + HalfPaddleWidth + 2 * Radius < HalfWidth
    /\ HalfPaddleWidth + Radius < PaddleX
    /\ Radius <= HalfHeight /\ HalfPaddleHeight <= HalfHeight
    /\ InitSpeed <= MaxSpeed /\ MaxSpeed < 2 * HalfPaddleWidth
    /\ HalfPaddleWidth <= Radius

Ball == [x: Int, y: Int, dx: {-1, 1}, dy: Int, speed: 1..MaxSpeed]

MaxBallY == HalfHeight - Radius
MaxPaddleY == HalfHeight - HalfPaddleHeight

\* dir is the sign of dir_y.
Paddle == [y: -MaxPaddleY..MaxPaddleY, dir: {-1, 0, 1}]

Clamp(lo, hi, n) == IF n < lo THEN lo ELSE IF n > hi THEN hi ELSE n

-----------------------------------------------------------------------------
(* The ball *)

Kickoff == [x |-> 0, y |-> 0, dx |-> 1, dy |-> Unit \div 10, speed |-> InitSpeed]

\* reset_ball: scorer is what update_game passes for its parameter "loser".
Serve(scorer, dy) ==
    [x |-> 0, y |-> 0, dx |-> IF scorer = 1 THEN -1 ELSE 1, dy |-> dy, speed |-> InitSpeed]

AtSideWall(x) == x - Radius <= -HalfWidth \/ x + Radius >= HalfWidth

ScorerAt(x) == IF x < 0 THEN 2 ELSE 1

AtTopOrBottom(y) == y - Radius <= -HalfHeight \/ y + Radius >= HalfHeight

\* y is the position read at the beginning of handle_collisions.
OffTopOrBottom(ball, y) == IF AtTopOrBottom(y) THEN [ball EXCEPT !.dy = -@] ELSE ball

Covers(paddle, y) ==
    y + Radius >= paddle.y - HalfPaddleHeight /\ y - Radius <= paddle.y + HalfPaddleHeight

\* Broken: the ball is a point.
HitsByCentre(ball, paddle, x) ==
    /\ ball.x >= x - HalfPaddleWidth /\ ball.x <= x + HalfPaddleWidth
    /\ Covers(paddle, ball.y)

Hits(ball, paddle, x) ==
    /\ ball.x + Radius >= x - HalfPaddleWidth /\ ball.x - Radius <= x + HalfPaddleWidth
    /\ Covers(paddle, ball.y)

ClosesIn(ball, x) == (ball.dx < 0 /\ ball.x > x) \/ (ball.dx > 0 /\ ball.x < x)

Accelerated(speed) ==
    LET faster == (11 * speed + 9) \div 10
    IN  IF faster < MaxSpeed THEN faster ELSE MaxSpeed

\* adjust_ball_direction_and_speed of a ball that hits the paddle at x.
OffPaddle(ball, paddle, x) ==
    IF Hits(ball, paddle, x) /\ ClosesIn(ball, x)
    THEN [x     |-> x - ball.dx * (Radius + HalfPaddleWidth),
          y     |-> ball.y,
          dx    |-> -ball.dx,
          dy    |-> ball.dy + Lift * paddle.dir,
          speed |-> Accelerated(ball.speed)]
    ELSE ball

\* Broken: nothing stops the ball at the top and the bottom.
MoveThrough(ball) ==
    [ball EXCEPT !.x = @ + ball.dx * ball.speed, !.y = @ + (ball.dy * ball.speed) \div Unit]

\* update_ball_position
Move(ball) ==
    [ball EXCEPT !.x = @ + ball.dx * ball.speed,
                 !.y = Clamp(-MaxBallY, MaxBallY, @ + (ball.dy * ball.speed) \div Unit)]

\* What is left of handle_collisions after the side walls, and the move.
Rally(ball, y, paddle1, paddle2) ==
    Move(OffPaddle(OffPaddle(OffTopOrBottom(ball, y), paddle1, -PaddleX), paddle2, PaddleX))

-----------------------------------------------------------------------------
(* The paddles: a key moves a paddle that is not yet at the edge *)

PaddleAtRest == [y |-> 0, dir |-> 0]

\* Broken: the last move takes a paddle over the edge.
MovedOver(paddle) ==
    {[y |-> paddle.y + dir * PaddleStep, dir |-> dir] :
        dir \in {0} \union {d \in {-1, 1} : d * paddle.y < MaxPaddleY}}

\* The positions a paddle can be in after a frame, by the keys that are down.
Moved(paddle) ==
    {[y |-> Clamp(-MaxPaddleY, MaxPaddleY, paddle.y + dir * PaddleStep), dir |-> dir] :
        dir \in {0} \union {d \in {-1, 1} : d * paddle.y < MaxPaddleY}}
=============================================================================
