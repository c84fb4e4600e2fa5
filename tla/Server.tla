------------------------------- MODULE Server -------------------------------
(***************************************************************************)
(* One game server process, cpp/server.cpp.                                *)
(*                                                                         *)
(* Two threads share the process's fields without a lock.  The listener    *)
(* (listen) takes one datagram after another and runs its handler; the     *)
(* game thread (game_loop), which handle_join spawns when both players     *)
(* have joined, moves the ball and broadcasts the state.  A datagram may   *)
(* come at any time, from any address, any number of times and in any      *)
(* order: the network of the code is UDP, so the listener's actions are    *)
(* enabled for every message the callers of this server can send.  The     *)
(* game loop is cut where it reads or writes what the listener also        *)
(* touches, the paddle direction of each player, and at each sendto.       *)
(*                                                                         *)
(* A datagram whose handler returns early changes nothing and is a         *)
(* stuttering step, and so is handle_query, which answers with the phase.  *)
(* game_loop ends only when the phase leaves STARTED,    *)
(* which no handler does, so the loop's exit is not an action.             *)
(***************************************************************************)
EXTENDS PongGeometry, FiniteSets, Sequences

CONSTANTS
  Address,     \* the source addresses of datagrams
  TokenSpace,  \* the strings generate_random_sequence can return
  NoToken,     \* the empty string
  NoAddress,   \* no address registered
  Moves,       \* the directions clients send
  FrameSpace,  \* number of values of State.frame   (uint32: 2^32)
  ScoreSpace,  \* number of values of Player.score  (uint32: 2^32)
  MaxSpeed     \* bound of the model on the ball's horizontal speed

ASSUME ServerAssumption ==
  /\ NoToken \notin TokenSpace
  /\ NoAddress \notin Address
  /\ \E t, u \in TokenSpace : t # u
  /\ Moves \subseteq Direction
  /\ FrameSpace \in Nat /\ FrameSpace >= 2
  /\ ScoreSpace \in Nat /\ ScoreSpace >= 2
  /\ MaxSpeed \in Nat /\ MaxSpeed >= Step

VARIABLES
  tokens,           \* the two player tokens of this process
  phase,            \* status.phase
  clients,          \* token -> Player
  token_addresses,  \* token -> address
  first,            \* the key clients.begin() points at
  ball,             \* state.ball
  ball_velocity,    \* <<horizontal, vertical>>
  state,            \* state.frame, state.player_1, state.player_2
  game,             \* where the game thread is; "off" before it is spawned
  cursor,           \* the keys its current for loop over clients has still to visit
  game_threads,     \* how many game threads were spawned
  sent,             \* token -> the last State datagram sent for that token
  grants            \* the addresses Tokens datagrams were sent to, in order

matchVars == <<tokens, phase, clients, token_addresses, first>>
gameVars == <<ball, ball_velocity, state, game, cursor, game_threads, sent>>
vars == <<matchVars, gameVars, grants>>

-----------------------------------------------------------------------------

Phase == {"WAITING", "PREPARING", "STARTED"}
Identifier == {"PLAYER_1", "PLAYER_2"}
ProcessTokens == {tokens.token_1, tokens.token_2}

Player == [identifier : Identifier, paddle_direction : Direction,
           paddle_location : 0 .. Field, score : 0 .. ScoreSpace - 1]

\* A player as handle_join fills it in; with PLAYER_1, the value a missing
\* key gets from operator[] but for the location, whose default is 0.5 too.
NewPlayer(id) == [identifier |-> id, paddle_direction |-> "STOP",
                  paddle_location |-> HalfField, score |-> 0]

\* map[k] = v
Put(map, k, v) ==
  [x \in DOMAIN map \cup {k} |-> IF x = k THEN v ELSE map[x]]

\* clients[t] read through operator[], which makes a default entry
Entry(t) == IF t \in DOMAIN clients THEN clients[t] ELSE NewPlayer("PLAYER_1")

\* clients[t] = p.  A new key may change the iteration order of the
\* unordered_map in any way; a known key leaves it alone.
Store(t, p) ==
  /\ clients' = Put(clients, t, p)
  /\ first' \in IF t \in DOMAIN clients THEN {first} ELSE DOMAIN clients \cup {t}

GetPlayerIdByToken(t) == IF t = tokens.token_1 THEN "PLAYER_1" ELSE "PLAYER_2"

\* The strings get_token_by_player_id may return: the first match in
\* iteration order, and the empty string when there is none.
TokensByPlayerId(id) ==
  LET found == {t \in DOMAIN clients : clients[t].identifier = id}
  IN  IF found = {} THEN {NoToken} ELSE found

-----------------------------------------------------------------------------

GenerateTokens ==
  {p \in [token_1 : TokenSpace, token_2 : TokenSpace] : p.token_1 # p.token_2}

Init ==
  /\ tokens \in GenerateTokens
  /\ phase = "WAITING"
  /\ clients = [t \in {} |-> NewPlayer("PLAYER_1")]
  /\ token_addresses = [t \in {} |-> NoAddress]
  /\ first = NoToken
  /\ ball = [x |-> HalfField, y |-> HalfField]
  /\ ball_velocity = <<0, 0>>
  /\ state = [frame |-> 0, player_1 |-> NewPlayer("PLAYER_1"), player_2 |-> NewPlayer("PLAYER_1")]
  /\ game = "off"
  /\ cursor = {}
  /\ game_threads = 0
  /\ sent = [t \in {} |-> state]
  /\ grants = <<>>

-----------------------------------------------------------------------------
(* The listener thread. *)

\* Faulty variant: hands the tokens out in every phase.
HandlePrepare_Again(a) ==
  /\ phase' = IF phase = "WAITING" THEN "PREPARING" ELSE phase
  /\ grants' = Append(grants, a)
  /\ UNCHANGED <<tokens, clients, token_addresses, first, gameVars>>

\* The secret of this server is the empty string: no authentication.
HandlePrepare(a) ==
  /\ phase = "WAITING"
  /\ phase' = "PREPARING"
  /\ grants' = Append(grants, a)
  /\ UNCHANGED <<tokens, clients, token_addresses, first, gameVars>>

StartMatch ==
  /\ phase' = "STARTED"
  /\ game' = "spawned"
  /\ game_threads' = game_threads + 1

\* Faulty variant: a player may join again after the match has started.
HandleJoin_AnyPhase(t, a) ==
  /\ phase # "WAITING"
  /\ t \in ProcessTokens
  /\ Store(t, NewPlayer(GetPlayerIdByToken(t)))
  /\ token_addresses' = Put(token_addresses, t, a)
  /\ IF Cardinality(DOMAIN clients') >= 2 THEN StartMatch ELSE UNCHANGED <<phase, game, game_threads>>
  /\ UNCHANGED <<tokens, ball, ball_velocity, state, cursor, sent, grants>>

HandleJoin(t, a) ==
  /\ phase = "PREPARING"
  /\ t \in ProcessTokens
  /\ Store(t, NewPlayer(GetPlayerIdByToken(t)))
  /\ token_addresses' = Put(token_addresses, t, a)
  /\ \/ Cardinality(DOMAIN clients') >= 2 /\ StartMatch
     \/ Cardinality(DOMAIN clients') < 2 /\ UNCHANGED <<phase, game, game_threads>>
  /\ UNCHANGED <<tokens, ball, ball_velocity, state, cursor, sent, grants>>

\* Faulty variant: takes any token, and operator[] makes an entry for it.
HandleMovement_AnyToken(t, d) ==
  /\ phase = "STARTED"
  /\ Store(t, [Entry(t) EXCEPT !.paddle_direction = d])
  /\ UNCHANGED <<tokens, phase, token_addresses, gameVars, grants>>

HandleMovement(t, d) ==
  /\ phase = "STARTED"
  /\ t \in ProcessTokens
  /\ Store(t, [Entry(t) EXCEPT !.paddle_direction = d])
  /\ UNCHANGED <<tokens, phase, token_addresses, gameVars, grants>>

Listener ==
  \/ \E a \in Address : HandlePrepare(a)
  \/ \E t \in TokenSpace, a \in Address : HandleJoin(t, a)
  \/ \E t \in TokenSpace, d \in Moves : HandleMovement(t, d)

-----------------------------------------------------------------------------
(* The game thread. *)

\* Faulty variant: a serve may leave the ball where it is.
ResetBall_MayStop ==
  /\ ball_velocity' \in {-Step, 0, Step} \X {-Step, Step}
  /\ ball' = [x |-> HalfField, y |-> HalfField]

ResetBall ==
  /\ ball_velocity' \in {-Step, Step} \X {-Step, Step}
  /\ ball' = [x |-> HalfField, y |-> HalfField]

EnterLoop ==
  /\ game = "spawned"
  /\ ResetBall
  /\ game' = "move"
  /\ UNCHANGED <<matchVars, state, cursor, game_threads, sent, grants>>

\* Where the ball goes in this frame.
MovedBall == [x |-> ball.x + ball_velocity[1], y |-> ball.y + ball_velocity[2]]
\* Faulty variant: a ball exactly on a goal line is still in play.
BallIsOut_Strict == MovedBall.x < 0 \/ MovedBall.x > Field

BallIsOut == MovedBall.x <= 0 \/ MovedBall.x >= Field

\* The top of the loop while the ball stays between the goals.
MoveBall ==
  /\ game = "move" /\ phase = "STARTED"
  /\ ~BallIsOut
  /\ ball' = MovedBall
  /\ ball_velocity' = IF MovedBall.y <= 0 \/ MovedBall.y >= Field
                      THEN <<ball_velocity[1], -ball_velocity[2]>> ELSE ball_velocity
  /\ game' = "paddles"
  /\ cursor' = DOMAIN clients
  /\ UNCHANGED <<matchVars, state, game_threads, sent, grants>>

\* Faulty variant: the point goes to the player who let the ball in.
ScorePoint_Swapped ==
  /\ game = "move" /\ phase = "STARTED"
  /\ BallIsOut
  /\ \E t \in TokensByPlayerId(IF MovedBall.x < 0 THEN "PLAYER_1" ELSE "PLAYER_2") :
       Store(t, [Entry(t) EXCEPT !.score = (@ + 1) % ScoreSpace])
  /\ ResetBall
  /\ game' = "paddles"
  /\ cursor' = DOMAIN clients'
  /\ UNCHANGED <<tokens, phase, token_addresses, state, game_threads, sent, grants>>

\* The top of the loop when the ball is in a goal.  At exactly 0 the code
\* gives the point to PLAYER_1.
ScorePoint ==
  /\ game = "move" /\ phase = "STARTED"
  /\ BallIsOut
  /\ \E t \in TokensByPlayerId(IF MovedBall.x < 0 THEN "PLAYER_2" ELSE "PLAYER_1") :
       Store(t, [Entry(t) EXCEPT !.score = (@ + 1) % ScoreSpace])
  /\ ResetBall
  /\ game' = "paddles"
  /\ cursor' = DOMAIN clients'
  /\ UNCHANGED <<tokens, phase, token_addresses, state, game_threads, sent, grants>>

\* The element a range-for over clients visits next: begin(), then the other.
NextInLoop == IF first \in cursor THEN {first} ELSE cursor

\* The paddle loop tests the direction for UP and, when it is not, reads it
\* again for DOWN: the listener may write it between the two reads.
FinishPaddle(t, direction) ==
  /\ clients' = [clients EXCEPT ![t].paddle_location = MovedPaddle(@, direction)]
  /\ cursor' = cursor \ {t}
  /\ game' = IF cursor' = {} THEN "hit" ELSE "paddles"

TestUp ==
  /\ game = "paddles"
  /\ \E t \in NextInLoop :
       \/ clients[t].paddle_direction = "UP" /\ FinishPaddle(t, "UP")
       \/ /\ clients[t].paddle_direction # "UP"
          /\ game' = "not_up"
          /\ UNCHANGED <<clients, cursor>>
  /\ UNCHANGED <<tokens, phase, token_addresses, first, ball, ball_velocity, state,
                 game_threads, sent, grants>>

TestDown ==
  /\ game = "not_up"
  /\ \E t \in NextInLoop :
       FinishPaddle(t, IF clients[t].paddle_direction = "DOWN" THEN "DOWN" ELSE "STOP")
  /\ UNCHANGED <<tokens, phase, token_addresses, first, ball, ball_velocity, state,
                 game_threads, sent, grants>>

\* The paddle the ball flies towards, and whether it hits it.
MovingLeft == ball_velocity[1] < 0
PaddleX == IF MovingLeft THEN Padding ELSE Field - Padding
PaddleY == Entry(IF MovingLeft THEN tokens.token_1 ELSE tokens.token_2).paddle_location
PaddleHit == DidBallHitPaddle(ball, PaddleX, PaddleY)

\* Faulty variant: a frame in which a paddle is hit is not counted.
HitPaddle_Uncounted ==
  /\ game = "hit"
  /\ ball_velocity' = IF PaddleHit THEN <<-ball_velocity[1], ball_velocity[2]>> ELSE ball_velocity
  /\ state' = IF PaddleHit THEN state ELSE [state EXCEPT !.frame = (@ + 1) % FrameSpace]
  /\ game' = "copy_1"
  /\ UNCHANGED <<matchVars, ball, cursor, game_threads, sent, grants>>

HitPaddle ==
  /\ game = "hit"
  /\ \/ /\ PaddleHit
        /\ \E s \in ReboundSpeeds(Abs(ball_velocity[1]), EdgeOffset(ball.y, PaddleY)) :
             /\ s <= MaxSpeed
             /\ ball_velocity' = <<IF MovingLeft THEN s ELSE -s, ball_velocity[2]>>
     \/ ~PaddleHit /\ UNCHANGED ball_velocity
  /\ state' = [state EXCEPT !.frame = (@ + 1) % FrameSpace]
  /\ game' = "copy_1"
  /\ UNCHANGED <<matchVars, ball, cursor, game_threads, sent, grants>>

\* send_state_to_all_players: it = clients.begin(); player_1 = it->second
CopyFirst ==
  /\ game = "copy_1"
  /\ state' = [state EXCEPT !.player_1 = clients[first]]
  /\ game' = "copy_2"
  /\ UNCHANGED <<matchVars, ball, ball_velocity, cursor, game_threads, sent, grants>>

\* Faulty variant: the iterator is not advanced before the second copy.
CopySecond_SameEntry ==
  /\ game = "copy_2"
  /\ state' = [state EXCEPT !.player_2 = clients[first]]
  /\ game' = "send"
  /\ cursor' = DOMAIN clients
  /\ UNCHANGED <<matchVars, ball, ball_velocity, game_threads, sent, grants>>

\* it++; player_2 = it->second
CopySecond ==
  /\ game = "copy_2"
  /\ \E t \in DOMAIN clients \ {first} : state' = [state EXCEPT !.player_2 = clients[t]]
  /\ game' = "send"
  /\ cursor' = DOMAIN clients
  /\ UNCHANGED <<matchVars, ball, ball_velocity, game_threads, sent, grants>>

\* Faulty variant: each datagram is filled from the map when it is sent.
SendState_Live ==
  /\ game = "send"
  /\ \E t \in NextInLoop :
       /\ sent' = Put(sent, t, [address |-> token_addresses[t], ball |-> ball,
                                state |-> [state EXCEPT !.player_1 = clients[first]]])
       /\ cursor' = cursor \ {t}
  /\ game' = IF cursor' = {} THEN "move" ELSE "send"
  /\ UNCHANGED <<matchVars, ball, ball_velocity, state, game_threads, grants>>

\* Faulty variant: the loop stops after the first player.
SendState_FirstOnly ==
  /\ game = "send"
  /\ sent' = Put(sent, first, [address |-> token_addresses[first], ball |-> ball, state |-> state])
  /\ cursor' = {}
  /\ game' = "move"
  /\ UNCHANGED <<matchVars, ball, ball_velocity, state, game_threads, grants>>

SendState ==
  /\ game = "send"
  /\ \E t \in NextInLoop :
       /\ sent' = Put(sent, t, [address |-> token_addresses[t], ball |-> ball, state |-> state])
       /\ cursor' = cursor \ {t}
  /\ game' = IF cursor' = {} THEN "move" ELSE "send"
  /\ UNCHANGED <<matchVars, ball, ball_velocity, state, game_threads, grants>>

GameThread ==
  \/ EnterLoop \/ MoveBall \/ ScorePoint \/ TestUp \/ TestDown
  \/ HitPaddle \/ CopyFirst \/ CopySecond \/ SendState

-----------------------------------------------------------------------------

Next == Listener \/ GameThread

Spec == Init /\ [][Next]_vars

\* The game thread never blocks: it sleeps for a bounded time in each frame.
FairSpec == Spec /\ WF_vars(GameThread)

-----------------------------------------------------------------------------
(* Properties. *)

Ball == [x : 0 .. Field, y : -Step .. Field + Step]
SentState == [frame : 0 .. FrameSpace - 1, player_1 : Player, player_2 : Player]

TypeOK ==
  /\ tokens \in [token_1 : TokenSpace, token_2 : TokenSpace]
  /\ phase \in Phase
  /\ DOMAIN clients \subseteq TokenSpace /\ clients \in [DOMAIN clients -> Player]
  /\ DOMAIN token_addresses \subseteq TokenSpace
  /\ token_addresses \in [DOMAIN token_addresses -> Address]
  /\ first \in TokenSpace \cup {NoToken}
  /\ ball \in Ball
  /\ ball_velocity \in (-MaxSpeed .. MaxSpeed) \X {-Step, 0, Step}
  /\ state \in SentState
  /\ game \in {"off", "spawned", "move", "paddles", "not_up", "hit", "copy_1", "copy_2", "send"}
  /\ cursor \subseteq TokenSpace
  /\ game_threads \in Nat
  /\ DOMAIN sent \subseteq TokenSpace
  /\ sent \in [DOMAIN sent -> [address : Address, ball : Ball, state : SentState]]
  /\ grants \in Seq(Address)

\* While the game thread runs, the two maps hold the two players, each under
\* its own token, and nothing is added: the loops over clients and the
\* operator[] calls of the game thread never meet a rehash or a default entry,
\* although no lock keeps the listener out.
PlayersStayPut ==
  game # "off" =>
    /\ DOMAIN clients = ProcessTokens
    /\ DOMAIN token_addresses = ProcessTokens
    /\ \A t \in ProcessTokens : clients[t].identifier = GetPlayerIdByToken(t)
    /\ first \in ProcessTokens
    /\ cursor \subseteq ProcessTokens

\* A process runs one game loop for its whole life, from the moment the phase
\* is STARTED: repeated and late Joins spawn no second thread on the same ball.
OneGameLoop == game_threads = IF phase = "STARTED" THEN 1 ELSE 0

\* A ball that is broadcast is between the goals; where it is past the upper or
\* lower wall it is on its way back, so it cannot stick to the wall.
BallInField ==
  /\ 0 < ball.x /\ ball.x < Field
  /\ -Step < ball.y /\ ball.y < Field + Step
  /\ game # "off" /\ ball.y <= 0 => ball_velocity[2] > 0
  /\ game # "off" /\ ball.y >= Field => ball_velocity[2] < 0

\* The two datagrams of one frame show both players the same ball, paddles and
\* scores, whatever Movement comes between the two sends.
SameFrameSameState ==
  \A t, u \in DOMAIN sent :
    sent[t].state.frame = sent[u].state.frame =>
      sent[t].ball = sent[u].ball /\ sent[t].state = sent[u].state

\* player_1 of a broadcast is the record of PLAYER_1 and player_2 that of
\* PLAYER_2, as the names of the message's fields say.
PlayerFieldsByIdentifier ==
  \A t \in DOMAIN sent : /\ sent[t].state.player_1.identifier = "PLAYER_1"
                         /\ sent[t].state.player_2.identifier = "PLAYER_2"

Scorers == {t \in ProcessTokens : Entry(t)'.score # Entry(t).score}

\* A ball that leaves the field gives one point to one player, the one on the
\* other side (a ball at exactly 0.0 may be given to either), and is served
\* again; nothing else ever changes a score.
OnePointPerGoal ==
  [][ /\ Scorers # {} <=> game = "move" /\ game' = "paddles" /\ BallIsOut
      /\ Scorers # {} =>
           \E t \in ProcessTokens :
             /\ Scorers = {t}
             /\ clients'[t].score = (clients[t].score + 1) % ScoreSpace
             /\ MovedBall.x < 0 => t = tokens.token_2
             /\ MovedBall.x >= Field => t = tokens.token_1
             /\ ball' = [x |-> HalfField, y |-> HalfField] ]_vars

\* A player is sent every frame, in order: frame n+1 follows frame n, from 1 on.
FramesInOrder ==
  [][\A t \in DOMAIN sent' :
       IF t \in DOMAIN sent
       THEN sent'[t] # sent[t] =>
              sent'[t].state.frame = (sent[t].state.frame + 1) % FrameSpace
       ELSE sent'[t].state.frame = 1]_vars

\* The two seats of this process are handed out once and, when both are taken,
\* never change hands: see MatchSeats.
Stage ==
  CASE phase = "WAITING" -> "open" [] phase = "PREPARING" -> "reserved" [] OTHER -> "playing"
Seat(t) == IF t \in DOMAIN token_addresses THEN token_addresses[t] ELSE NoAddress
SeatOf == [id \in Identifier |->
             Seat(IF id = "PLAYER_1" THEN tokens.token_1 ELSE tokens.token_2)]
Seats == INSTANCE MatchSeats WITH Client <- Address, Nobody <- NoAddress,
                                  stage <- Stage, holders <- grants, seat <- SeatOf
SeatsSpec == Seats!Spec

\* Once the game thread runs, each player is sent the newest frame again and
\* again: neither player starves.
KeepsBroadcasting ==
  \A t \in TokenSpace :
    game # "off" /\ t \in ProcessTokens
      ~> t \in DOMAIN sent /\ game = "move" /\ sent[t].state.frame = state.frame

\* The ball never hovers: it reaches a goal or is hit, again and again.
BallKeepsMoving ==
  game # "off" ~> (game = "move" /\ BallIsOut) \/ (game = "hit" /\ PaddleHit)

\* The record of player t in a State datagram, wherever it was put.
Shown(t, s) ==
  IF s.player_1.identifier = GetPlayerIdByToken(t) THEN s.player_1 ELSE s.player_2

ShownAtTheEnd(t, d) ==
  \A u \in ProcessTokens :
    IF u \in DOMAIN sent
    THEN LET p == Shown(t, sent[u].state)
         IN  p.paddle_direction = d /\ p.paddle_location = (IF d = "UP" THEN 0 ELSE Field)
    ELSE FALSE

\* A direction a player holds takes the paddle to that end of the field, and
\* both players come to see it there.
HeldDirectionArrives ==
  \A t \in TokenSpace, d \in Moves \ {"STOP"} :
    <>[](game # "off" /\ t \in ProcessTokens /\ Entry(t).paddle_direction = d)
      => <>[]ShownAtTheEnd(t, d)
=============================================================================
