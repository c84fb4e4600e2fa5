---------------------------- MODULE PythonServer ----------------------------
(***************************************************************************)
(* The game server of the Python program, server.py.                       *)
(*                                                                         *)
(* The one State object is changed by both threads and sent as it is: a    *)
(* Movement that comes between two steps of the game loop is seen by the   *)
(* later ones.  Each of these steps is an action.  A Prepare with a wrong  *)
(* secret is not obeyed and changes nothing.  The exception that the       *)
(* protobuf library raises when frame would pass 2^32 is not modelled, the *)
(* number wraps.                                                           *)
(***************************************************************************)
EXTENDS GameServer

HandlePrepare(a) ==
  /\ phase = "WAITING"
  /\ phase' = "PREPARING" /\ grants' = Append(grants, a)
  /\ UNCHANGED <<clients, joined, direction, pictureVars, loopVars, game, game_threads>>

StartMatch ==
  /\ phase' = "STARTED"
  /\ game' = "spawned" /\ game_threads' = game_threads + 1

HandleJoin(p, a) ==
  /\ phase = "PREPARING"
  /\ clients' = [clients EXCEPT ![p] = a]
  /\ joined' = IF clients[p] = NoAddress THEN Append(joined, p) ELSE joined
  /\ IF Len(joined') = 2 THEN StartMatch ELSE UNCHANGED <<phase, game, game_threads>>
  /\ UNCHANGED <<grants, direction, pictureVars, loopVars>>

HandleMovement(p, d) ==
  /\ phase = "STARTED"
  /\ direction' = [direction EXCEPT ![p] = d]
  /\ UNCHANGED <<lobbyVars, pictureVars, loopVars, game, game_threads>>

Listen ==
  \/ \E a \in Address : HandlePrepare(a)
  \/ \E p \in Identifier, a \in Address : HandleJoin(p, a)
  \/ \E p \in Identifier, d \in Moves : HandleMovement(p, d)

-----------------------------------------------------------------------------
(* The game thread. *)

ResetBall ==
  /\ ball_velocity' \in {-Step, Step} \X {-Step, Step}
  /\ ball' = [x |-> HalfField, y |-> HalfField]

EnterLoop ==
  /\ game = "spawned"
  /\ ResetBall
  /\ game' = "frame"
  /\ UNCHANGED <<lobbyVars, direction, location, score, frame, loopVars, game_threads>>

\* Faulty variant: a ball exactly on a goal line is still in play.
Scored_Strict == MovedBall.x < 0 \/ MovedBall.x > Field

Scored == InGoal(MovedBall)

MoveBall ==
  /\ game = "frame" /\ phase = "STARTED"
  /\ ~Scored
  /\ ball' = MovedBall
  /\ ball_velocity' = IF AtWall(MovedBall) THEN <<ball_velocity[1], -ball_velocity[2]>>
                      ELSE ball_velocity
  /\ game' = "paddles" /\ cursor' = Players
  /\ UNCHANGED <<lobbyVars, direction, location, score, frame, shown, sent, game_threads>>

\* Faulty variant: the ball is not served again.
ScorePoint_NoReset ==
  /\ game = "frame" /\ phase = "STARTED"
  /\ Scored
  /\ score' = [score EXCEPT !["PLAYER_1"] = (@ + 1) % ScoreSpace]
  /\ ball' = MovedBall /\ ball_velocity' = <<-ball_velocity[1], ball_velocity[2]>>
  /\ game' = "paddles" /\ cursor' = Players
  /\ UNCHANGED <<lobbyVars, direction, location, frame, shown, sent, game_threads>>

\* PLAYER_2 gets two for a goal, and a ball at exactly 0.0 counts for PLAYER_1.
ScorePoint ==
  /\ game = "frame" /\ phase = "STARTED"
  /\ Scored
  /\ score' = IF MovedBall.x < 0 THEN [score EXCEPT !["PLAYER_2"] = (@ + 2) % ScoreSpace]
              ELSE [score EXCEPT !["PLAYER_1"] = (@ + 1) % ScoreSpace]
  /\ ResetBall
  /\ game' = "paddles" /\ cursor' = Players
  /\ UNCHANGED <<lobbyVars, direction, location, frame, shown, sent, game_threads>>

\* update_paddle reads the direction for UP and, when it is not, again for DOWN.
FinishPaddle(d) ==
  /\ location' = [location EXCEPT ![Head(cursor)] = MovedPaddle(@, d)]
  /\ cursor' = Tail(cursor)
  /\ game' = IF cursor' = <<>> THEN "hit" ELSE "paddles"

TestUp ==
  /\ game = "paddles"
  /\ IF direction[Head(cursor)] = "UP" THEN FinishPaddle("UP")
     ELSE game' = "not_up" /\ UNCHANGED <<location, cursor>>
  /\ UNCHANGED <<lobbyVars, direction, score, frame, ball, ball_velocity, shown, sent, game_threads>>

TestDown ==
  /\ game = "not_up"
  /\ FinishPaddle(IF direction[Head(cursor)] = "DOWN" THEN "DOWN" ELSE "STOP")
  /\ UNCHANGED <<lobbyVars, direction, score, frame, ball, ball_velocity, shown, sent, game_threads>>

HitPaddle ==
  /\ game = "hit"
  /\ ball_velocity' \in Rebound(ball, location)
  /\ frame' = (frame + 1) % FrameSpace
  /\ game' = "send" /\ cursor' = joined
  /\ UNCHANGED <<lobbyVars, direction, location, score, ball, shown, sent, game_threads>>

SendState ==
  /\ game = "send"
  /\ sent' = [sent EXCEPT ![Head(cursor)] = Datagram(direction)]
  /\ cursor' = Tail(cursor)
  /\ game' = IF cursor' = <<>> THEN "frame" ELSE "send"
  /\ UNCHANGED <<lobbyVars, direction, shown, pictureVars, game_threads>>

GameLoop ==
  \/ EnterLoop \/ MoveBall \/ ScorePoint \/ TestUp \/ TestDown \/ HitPaddle \/ SendState

Next == Listen \/ GameLoop

-----------------------------------------------------------------------------
(* Properties. *)

\* A ball that is shown is between the goals.
GoalNeverShown == game = "send" => ~InGoal(ball)

\* Both players are sent the same ball, paddles and scores for a frame; only
\* the directions may be those of a Movement that came between the two.
SameFrameSamePicture ==
  \A p, q \in Identifier :
    sent[p].frame = sent[q].frame /\ NothingSent # sent[p] =>
      sent[p] = [sent[q] EXCEPT !.directions = sent[p].directions]
=============================================================================
