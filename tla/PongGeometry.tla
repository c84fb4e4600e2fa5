---------------------------- MODULE PongGeometry ----------------------------
(***************************************************************************)
(* The arithmetic of the playing field that the game loop of               *)
(* cpp/server.cpp works with: paddles, the ball's box, the rebound.        *)
(*                                                                         *)
(* The code keeps positions as floats in 0.0 .. 1.0.  Here a distance is a *)
(* number of grid units and 1.0 is Field units.  On a grid of 1/4800 every *)
(* constant of cpp/tools/common.h but the rebound is a whole number        *)
(* (Step 12, PaddleSpeed 72, Padding 480, BallHalfW 36, BallHalfH 64,      *)
(* PaddleHalfW 36, PaddleHalfH 360), so the theorems, which hold for every *)
(* value of these constants, cover the constants of the code.  Sizes are   *)
(* given by their halves because the code only ever uses half a width.     *)
(***************************************************************************)
EXTENDS Integers

CONSTANTS
  HalfField,     \* 0.5: the centre of the field, in grid units
  Step,          \* INITIAL_BALL_VELOCITY
  PaddleSpeed,   \* MULTI_PONG_PADDLE_SPEED
  Padding,       \* MULTI_PONG_PADDLE_HORIZONTAL_PADDING
  BallHalfW, BallHalfH,     \* half of MULTI_PONG_BALL_WIDTH / _HEIGHT
  PaddleHalfW, PaddleHalfH  \* half of MULTI_PONG_PADDLE_WIDTH / _HEIGHT

ASSUME GeometryAssumption ==
  /\ HalfField \in Nat
  /\ Step \in Nat \ {0}
  /\ Step < HalfField
  /\ PaddleSpeed \in Nat \ {0}
  /\ Padding \in Nat
  /\ BallHalfW \in Nat
  /\ BallHalfH \in Nat
  /\ PaddleHalfW \in Nat
  /\ PaddleHalfH \in Nat \ {0}

Field == 2 * HalfField

Direction == {"STOP", "UP", "DOWN"}

-----------------------------------------------------------------------------

Abs(n) == IF n < 0 THEN -n ELSE n
Larger(a, b) == IF a < b THEN b ELSE a
Smaller(a, b) == IF a < b THEN a ELSE b

\* std::clamp
Clamp(v, lo, hi) == Larger(lo, Smaller(v, hi))

\* Faulty variant: the paddle is not kept in the field.
MovedPaddle_NoClamp(location, direction) ==
  CASE direction = "UP"   -> location - PaddleSpeed
    [] direction = "DOWN" -> location + PaddleSpeed
    [] OTHER              -> location

\* One pass of the paddle loop over one player.
MovedPaddle(location, direction) ==
  Clamp(CASE direction = "UP"   -> location - PaddleSpeed
          [] direction = "DOWN" -> location + PaddleSpeed
          [] OTHER              -> location,
        0, Field)

\* The two boxes overlap: did_ball_hit_paddle returns true.
DidBallHitPaddle(ball, paddle_x, paddle_y) ==
  /\ ball.x - BallHalfW < paddle_x + PaddleHalfW
  /\ ball.x + BallHalfW > paddle_x - PaddleHalfW
  /\ ball.y - BallHalfH < paddle_y + PaddleHalfH
  /\ ball.y + BallHalfH > paddle_y - PaddleHalfH

\* Twice the distance from the middle of the paddle to the middle of the
\* overlap, in grid units.  |relative_hit - 0.5| of the code is this value
\* divided by 4 * PaddleHalfH.
EdgeOffset(ball_y, paddle_y) ==
  Abs(Larger(ball_y - BallHalfH, paddle_y - PaddleHalfH)
      + Smaller(ball_y + BallHalfH, paddle_y + PaddleHalfH)
      - 2 * paddle_y)

\* The speeds a rebound may give: the code multiplies the speed by
\* 1 + 0.5 * |relative_hit - 0.5|, that is by 1 + offset / (8 * PaddleHalfH).
\* The grid rounds the product to either side; and where the unqualified
\* abs() of server.cpp:255 is the C function on int (which overload is seen
\* depends on the headers of the build), the speed does not grow at all.
ReboundSpeeds(speed, offset) ==
  {s \in speed .. 2 * speed :
     8 * PaddleHalfH * (s - speed) < speed * offset + 8 * PaddleHalfH}
=============================================================================
