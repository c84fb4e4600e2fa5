----------------------------- MODULE JavaServer -----------------------------
(***************************************************************************)
(* The game server of the Java program, Server.java.                       *)
(*                                                                         *)
(* The listener writes directions into a concurrent map, in every phase;   *)
(* the game thread takes them from there, one player after the other,      *)
(* builds the next state on its own and replaces the old one by it before  *)
(* it is sent.  A Prepare with a wrong secret is logged and obeyed.        *)
(***************************************************************************)
EXTENDS GameServer

\* Faulty variant: answers again when it is asked again.
HandlePrepare_Again(a) ==
  /\ phase \in {"WAITING", "PREPARING"}
  /\ phase' = "PREPARING" /\ grants' = Append(grants, a)
  /\ UNCHANGED <<clients, joined, direction, pictureVars, loopVars, game, game_threads>>

HandlePrepare(a) ==
  /\ phase = "WAITING"
  /\ phase' = "PREPARING" /\ grants' = Append(grants, a)
  /\ UNCHANGED <<clients, joined, direction, pictureVars, loopVars, game, game_threads>>

StartMatch ==
  /\ phase' = "STARTED"
  /\ game' = "spawned" /\ game_threads' = game_threads + 1

\* Faulty variant: a late Join starts the match again.
HandleJoin_AnyPhase(p, a) ==
  /\ phase # "WAITING"
  /\ clients' = [clients EXCEPT ![p] = a]
  /\ IF NoAddress \notin {clients'[q] : q \in Identifier} THEN StartMatch
     ELSE UNCHANGED <<phase, game, game_threads>>
  /\ UNCHANGED <<joined, grants, direction, pictureVars, loopVars>>

HandleJoin(p, a) ==
  /\ phase = "PREPARING"
  /\ clients' = [clients EXCEPT ![p] = a]
  /\ IF NoAddress \notin {clients'[q] : q \in Identifier} THEN StartMatch
     ELSE UNCHANGED <<phase, game, game_threads>>
  /\ UNCHANGED <<joined, grants, direction, pictureVars, loopVars>>

HandleMovement(p, d) ==
  /\ direction' = [direction EXCEPT ![p] = d]
  /\ UNCHANGED <<lobbyVars, pictureVars, loopVars, game, game_threads>>

Listen ==
  \/ \E a \in Address : HandlePrepare(a)
  \/ \E p \in Identifier, a \in Address : HandleJoin(p, a)
  \/ \E p \in Identifier, d \in Moves : HandleMovement(p, d)

-----------------------------------------------------------------------------
(* The game thread. *)

ResetBallVelocity == ball_velocity' \in {-Step, Step} \X {-Step, Step}

EnterLoop ==
  /\ game = "spawned"
  /\ ResetBallVelocity
  /\ game' = "frame"
  /\ UNCHANGED <<lobbyVars, direction, location, score, frame, ball, loopVars, game_threads>>

\* playerDirections.get(PLAYER_1); the other one is read with the rest of the
\* frame, which touches nothing the listener writes.
ReadFirst ==
  /\ game = "frame" /\ phase = "STARTED"
  /\ shown' = [shown EXCEPT !["PLAYER_1"] = direction["PLAYER_1"]]
  /\ game' = "paddles"
  /\ UNCHANGED <<lobbyVars, direction, pictureVars, cursor, sent, game_threads>>

\* The paddles, the frame number and the new state are the same in all cases.
NextFrame ==
  /\ game = "paddles"
  /\ shown' = [shown EXCEPT !["PLAYER_2"] = direction["PLAYER_2"]]
  /\ location' = [p \in Identifier |-> MovedPaddle(location[p], shown'[p])]
  /\ frame' = (frame + 1) % FrameSpace
  /\ game' = "send" /\ cursor' = Players
  /\ UNCHANGED <<lobbyVars, direction, sent, game_threads>>

\* The wall comes first: neither a goal nor a paddle is looked for.
HitWall ==
  /\ AtWall(MovedBall)
  /\ ball' = MovedBall
  /\ ball_velocity' = <<ball_velocity[1], -ball_velocity[2]>>
  /\ UNCHANGED score

ScorePoint ==
  /\ ~AtWall(MovedBall) /\ InGoal(MovedBall)
  /\ LET scorer == IF MovedBall.x >= Field THEN "PLAYER_1" ELSE "PLAYER_2"
     IN  score' = [score EXCEPT ![scorer] = (@ + 1) % ScoreSpace]
  /\ ResetBallVelocity
  /\ ball' = [x |-> HalfField, y |-> HalfField]

Fly ==
  /\ ~AtWall(MovedBall) /\ ~InGoal(MovedBall)
  /\ ball' = MovedBall
  /\ ball_velocity' \in Rebound(MovedBall, location')
  /\ UNCHANGED score

\* Faulty variant: the second player is sent the state as it is by then.
SendState_Live ==
  /\ game = "send"
  /\ sent' = [sent EXCEPT ![Head(cursor)] = Datagram(direction)]
  /\ cursor' = Tail(cursor)
  /\ game' = IF cursor' = <<>> THEN "frame" ELSE "send"
  /\ UNCHANGED <<lobbyVars, direction, shown, pictureVars, game_threads>>

SendState ==
  /\ game = "send"
  /\ sent' = [sent EXCEPT ![Head(cursor)] = Datagram(shown)]
  /\ cursor' = Tail(cursor)
  /\ game' = IF cursor' = <<>> THEN "frame" ELSE "send"
  /\ UNCHANGED <<lobbyVars, direction, shown, pictureVars, game_threads>>

GameLoop ==
  \/ EnterLoop \/ ReadFirst
  \/ NextFrame /\ (HitWall \/ ScorePoint \/ Fly)
  \/ SendState

Next == Listen \/ GameLoop

-----------------------------------------------------------------------------
(* Properties. *)

\* A ball in a goal is shown there only while it is at the upper or lower wall
\* as well, where the tests of game_loop exclude each other.
GoalShownOnlyAtWall == game = "send" /\ InGoal(ball) => AtWall(ball)

\* Both players are sent the same state for a frame.
SameFrameSameState ==
  \A p, q \in Identifier : sent[p].frame = sent[q].frame => sent[p] = sent[q]
=============================================================================
