----------------------------- MODULE GameServer -----------------------------
(***************************************************************************)
(* What the Java and the Python game server share: the fields of the       *)
(* process.  A token names one player and foreign tokens change nothing,   *)
(* so clients and directions are kept by player.                           *)
(***************************************************************************)
EXTENDS PongGeometry, FiniteSets, Sequences

CONSTANTS
  Address,     \* the source addresses of datagrams
  NoAddress,   \* no address registered
  Moves,       \* the directions clients send
  FrameSpace,  \* number of values of State.frame   (uint32: 2^32)
  ScoreSpace,  \* number of values of Player.score  (uint32: 2^32)
  MaxSpeed     \* bound of the model on the ball's horizontal speed

ASSUME GameServerAssumption ==
  /\ NoAddress \notin Address
  /\ Moves \subseteq Direction
  /\ FrameSpace \in Nat /\ FrameSpace >= 2
  /\ ScoreSpace \in Nat /\ ScoreSpace >= 3
  /\ MaxSpeed \in Nat /\ MaxSpeed >= Step

VARIABLES
  phase,          \* status.phase
  clients,        \* player -> the address it joined from
  joined,         \* the players in the order in which they joined
  grants,         \* the addresses Tokens were sent to, in order
  direction,      \* player -> the direction last received for it
  shown,          \* player -> its direction in the Java server's state
  location,       \* player -> paddle_location
  score,          \* player -> score
  frame,          \* state.frame
  ball,           \* state.ball
  ball_velocity,  \* <<horizontal, vertical>>
  game,           \* where the game thread is; "off" before it is spawned
  cursor,         \* the players its current loop has still to visit
  game_threads,   \* how many game threads were spawned
  sent            \* player -> the last State datagram sent to it

lobbyVars == <<phase, clients, joined, grants>>
pictureVars == <<location, score, frame, ball, ball_velocity>>
loopVars == <<shown, cursor, sent>>
vars == <<lobbyVars, direction, pictureVars, loopVars, game, game_threads>>

Identifier == {"PLAYER_1", "PLAYER_2"}
Players == <<"PLAYER_1", "PLAYER_2">>
NothingSent == [frame |-> -1]

Init ==
  /\ phase = "WAITING" /\ grants = <<>>
  /\ clients = [p \in Identifier |-> NoAddress] /\ joined = <<>>
  /\ direction = [p \in Identifier |-> "STOP"] /\ shown = direction
  /\ location = [p \in Identifier |-> HalfField]
  /\ score = [p \in Identifier |-> 0]
  /\ frame = 0
  /\ ball = [x |-> HalfField, y |-> HalfField] /\ ball_velocity = <<0, 0>>
  /\ game = "off" /\ cursor = <<>> /\ game_threads = 0
  /\ sent = [p \in Identifier |-> NothingSent]

\* A State datagram with the given paddle directions.
Datagram(directions) ==
  [frame |-> frame, ball |-> ball, location |-> location, score |-> score, directions |-> directions]

MovedBall == [x |-> ball.x + ball_velocity[1], y |-> ball.y + ball_velocity[2]]
AtWall(b) == b.y <= 0 \/ b.y >= Field
InGoal(b) == b.x <= 0 \/ b.x >= Field

\* The velocity after the test for the paddle that ball b flies towards.
Rebound(b, places) ==
  LET left == ball_velocity[1] <= 0
      x == IF left THEN Padding ELSE Field - Padding
      y == places[IF left THEN "PLAYER_1" ELSE "PLAYER_2"]
  IN  IF DidBallHitPaddle(b, x, y)
      THEN {<<IF left THEN s ELSE -s, ball_velocity[2]>> :
              s \in ReboundSpeeds(Abs(ball_velocity[1]), EdgeOffset(b.y, y)) \cap 0 .. MaxSpeed}
      ELSE {ball_velocity}

-----------------------------------------------------------------------------
(* Properties. *)

TypeOK ==
  /\ phase \in {"WAITING", "PREPARING", "STARTED"} /\ grants \in Seq(Address)
  /\ clients \in [Identifier -> Address \cup {NoAddress}] /\ joined \in Seq(Identifier)
  /\ direction \in [Identifier -> Direction] /\ shown \in [Identifier -> Direction]
  /\ location \in [Identifier -> 0 .. Field]
  /\ score \in [Identifier -> 0 .. ScoreSpace - 1] /\ frame \in 0 .. FrameSpace - 1
  /\ ball \in [x : -MaxSpeed .. Field + MaxSpeed, y : -Step .. Field + Step]
  /\ ball_velocity \in (-MaxSpeed .. MaxSpeed) \X {-Step, 0, Step}
  /\ game \in {"off", "spawned", "frame", "paddles", "not_up", "hit", "send"}
  /\ cursor \in Seq(Identifier)

\* One game loop runs from the moment the phase is STARTED, however often and
\* from wherever the players join.
OneGameLoop == game_threads = IF phase = "STARTED" THEN 1 ELSE 0

\* A ball past the upper or lower wall is on its way back when it is shown.
NeverSticksToWall ==
  game = "send" =>
    /\ ball.y <= 0 => ball_velocity[2] > 0
    /\ ball.y >= Field => ball_velocity[2] < 0

\* A goal changes the score of one player, the ball is served again, and both
\* players have been sent the frame before it.
ScoredOnce ==
  [][score' # score =>
       /\ \E p \in Identifier : score' = [score EXCEPT ![p] = score'[p]]
       /\ ball' = [x |-> HalfField, y |-> HalfField]
       /\ \A p \in Identifier : sent[p] # NothingSent => sent[p].frame = frame]_vars

\* The seats are handed out once, and once both are taken they never change
\* hands: see MatchSeats.
Stage ==
  CASE phase = "WAITING" -> "open" [] phase = "PREPARING" -> "reserved" [] OTHER -> "playing"
Seats == INSTANCE MatchSeats WITH Client <- Address, Nobody <- NoAddress,
                                  stage <- Stage, holders <- grants, seat <- clients
SeatsSpec == Seats!Spec
=============================================================================
