------------------------- MODULE PongGeometryProofs -------------------------
(* What the arithmetic of PongGeometry guarantees for every size of field, *)
(* ball and paddle.                                                        *)
EXTENDS PongGeometry, TLAPS

\* The paddle loop keeps a paddle in the field: std::clamp of server.cpp:246.
LEMMA MovedPaddleInField ==
  ASSUME NEW location \in 0 .. Field, NEW direction \in Direction
  PROVE  MovedPaddle(location, direction) \in 0 .. Field
<1>1. HalfField \in Nat /\ PaddleSpeed \in Nat
  BY GeometryAssumption
<1>2. ASSUME NEW v \in Int PROVE Clamp(v, 0, Field) \in 0 .. Field
  BY <1>1 DEF Clamp, Larger, Smaller, Field
<1>3. CASE direction = "UP"
  BY <1>1, <1>2, <1>3 DEF MovedPaddle, Field
<1>4. CASE direction = "DOWN"
  BY <1>1, <1>2, <1>4 DEF MovedPaddle, Field
<1>5. CASE direction = "STOP"
  BY <1>1, <1>2, <1>5 DEF MovedPaddle, Field
<1>6. QED
  BY <1>3, <1>4, <1>5 DEF Direction

\* A hit is never further from the paddle's middle than its edge: relative_hit
\* of did_ball_hit_paddle is strictly between 0 and 1.
LEMMA HitIsOnPaddle ==
  ASSUME NEW ball \in [x : Int, y : Int], NEW paddle_x \in Int, NEW paddle_y \in Int,
         DidBallHitPaddle(ball, paddle_x, paddle_y)
  PROVE  /\ EdgeOffset(ball.y, paddle_y) \in Nat
         /\ EdgeOffset(ball.y, paddle_y) < 2 * PaddleHalfH
<1>1. BallHalfH \in Nat /\ PaddleHalfH \in Nat \ {0}
  BY GeometryAssumption
<1>2. /\ ball.y - BallHalfH < paddle_y + PaddleHalfH
      /\ ball.y + BallHalfH > paddle_y - PaddleHalfH
      /\ ball.y \in Int
  BY DEF DidBallHitPaddle
<1>3. QED
  BY <1>1, <1>2 DEF EdgeOffset, Abs, Larger, Smaller

\* A rebound never slows the ball down and makes it at most a quarter faster
\* (MULTI_PONG_PADDLE_HIT_EDGE_FACTOR * 0.5), up to the rounding of the grid.
THEOREM ReboundBounded ==
  ASSUME NEW ball \in [x : Int, y : Int], NEW paddle_x \in Int, NEW paddle_y \in Int,
         DidBallHitPaddle(ball, paddle_x, paddle_y),
         NEW speed \in Nat,
         NEW s \in ReboundSpeeds(speed, EdgeOffset(ball.y, paddle_y))
  PROVE  s \in Int /\ speed <= s /\ 4 * (s - speed) < speed + 4
<1> DEFINE offset == EdgeOffset(ball.y, paddle_y)
           h == 2 * PaddleHalfH
<1>1. offset \in Nat /\ offset < h
  BY HitIsOnPaddle
<1>2. h \in Nat /\ h > 0
  BY GeometryAssumption
<1>3. s \in Int /\ speed <= s /\ 8 * PaddleHalfH * (s - speed) < speed * offset + 8 * PaddleHalfH
  BY DEF ReboundSpeeds
<1> DEFINE d == s - speed
<1>4. d \in Int /\ h * (4 * d) < speed * offset + h * 4
  <2>1. 8 * PaddleHalfH * d = h * (4 * d) /\ 8 * PaddleHalfH = h * 4
    BY <1>3, GeometryAssumption
  <2>2. QED
    BY <1>3, <2>1
<1> HIDE DEF offset, h, d
<1>5. speed * offset <= speed * h
  BY <1>1, <1>2
<1>6. h * (4 * d) < h * (speed + 4)
  <2>1. h * (speed + 4) = speed * h + h * 4
    BY <1>2
  <2>2. QED
    BY <1>1, <1>2, <1>4, <1>5, <2>1
<1>7. 4 * d < speed + 4
  <2> SUFFICES ASSUME speed + 4 <= 4 * d PROVE FALSE
    BY <1>4
  <2>1. h * (speed + 4) <= h * (4 * d)
    BY <1>2, <1>4
  <2>2. h * (speed + 4) \in Int /\ h * (4 * d) \in Int
    BY <1>2, <1>4
  <2>3. QED
    BY <1>6, <2>1, <2>2
<1>8. QED
  BY <1>3, <1>7 DEF d

\* A ball slower than the width of ball and paddle together does not jump over
\* a paddle between two frames: in one of the two, their boxes overlap
\* horizontally, and did_ball_hit_paddle sees the ball.  The rebound has no
\* upper bound on the speed, so faster balls are not covered.
THEOREM SlowBallMeetsPaddle ==
  ASSUME NEW ball \in [x : Int, y : Int], NEW moved \in [x : Int, y : Int],
         NEW paddle_x \in Int, NEW paddle_y \in Int,
         Abs(moved.x - ball.x) < 2 * (BallHalfW + PaddleHalfW),
         \/ ball.x >= paddle_x /\ moved.x <= paddle_x
         \/ ball.x <= paddle_x /\ moved.x >= paddle_x,
         \A b \in {ball, moved} : /\ b.y - BallHalfH < paddle_y + PaddleHalfH
                                  /\ b.y + BallHalfH > paddle_y - PaddleHalfH
  PROVE  \/ DidBallHitPaddle(ball, paddle_x, paddle_y)
         \/ DidBallHitPaddle(moved, paddle_x, paddle_y)
<1>1. BallHalfW \in Nat /\ PaddleHalfW \in Nat
  BY GeometryAssumption
<1>2. ball.x \in Int /\ moved.x \in Int
  OBVIOUS
<1>3. PICK b \in {ball, moved} : /\ b.x - BallHalfW < paddle_x + PaddleHalfW
                                 /\ b.x + BallHalfW > paddle_x - PaddleHalfW
  BY <1>1, <1>2 DEF Abs
<1>4. DidBallHitPaddle(b, paddle_x, paddle_y)
  BY <1>3 DEF DidBallHitPaddle
<1>5. QED
  BY <1>4

\* The limit is exact: at every speed from this width on there is a ball that
\* passes a paddle from one frame to the next, at the height of the middle of the
\* paddle, and that did_ball_hit_paddle sees in neither.  The factor of
\* server.cpp:255 has no bound that would keep a rally below this speed.
THEOREM FastBallMayPass ==
  ASSUME NEW paddle_x \in Int, NEW paddle_y \in Int, NEW speed \in Nat,
         speed >= 2 * (BallHalfW + PaddleHalfW)
  PROVE  \E ball, moved \in [x : Int, y : {paddle_y}] :
           /\ ball.x >= paddle_x /\ moved.x <= paddle_x /\ ball.x - moved.x = speed
           /\ ~DidBallHitPaddle(ball, paddle_x, paddle_y)
           /\ ~DidBallHitPaddle(moved, paddle_x, paddle_y)
<1> DEFINE width == BallHalfW + PaddleHalfW
           ball == [x |-> paddle_x + width, y |-> paddle_y]
           moved == [x |-> paddle_x + width - speed, y |-> paddle_y]
<1>1. /\ BallHalfW \in Nat /\ PaddleHalfW \in Nat
      /\ width \in Nat /\ paddle_x + width - speed <= paddle_x - width
  BY GeometryAssumption
<1>2. ball \in [x : Int, y : {paddle_y}] /\ moved \in [x : Int, y : {paddle_y}]
  BY <1>1
<1>3. ball.x >= paddle_x /\ moved.x <= paddle_x /\ ball.x - moved.x = speed
  BY <1>1
<1>4. ~DidBallHitPaddle(ball, paddle_x, paddle_y)
  BY <1>1 DEF DidBallHitPaddle
<1>5. ~DidBallHitPaddle(moved, paddle_x, paddle_y)
  BY <1>1 DEF DidBallHitPaddle
<1> QED BY <1>2, <1>3, <1>4, <1>5
=============================================================================
