---------------------------- MODULE ServerProofs ----------------------------
(***************************************************************************)
(* Theorems about Server, for any number of addresses and tokens, any size *)
(* of field, paddles and ball and any bound on frame, score and speed.     *)
(*                                                                         *)
(* The inductive invariant IInv is the conjunction of the type invariant,  *)
(* of SeatsInv (what the listener keeps true of the phase, the maps and    *)
(* the game thread) and of BallInv (what the game thread keeps true of the *)
(* ball).  The three need each other: an entry of clients has the type of  *)
(* a Player because ScorePoint finds the scoring player in the map, and it *)
(* does because the phase was set to STARTED only with both tokens there.  *)
(*                                                                         *)
(* On it rest the properties of the broadcast, of the score, and the       *)
(* refinement of MatchSeats; the last section bounds what the game thread  *)
(* does before a frame is sent, a ball arrives, or a held paddle does.     *)
(***************************************************************************)
EXTENDS Server, TLAPS, FiniteSetTheorems, PongGeometryProofs

SeatsInv ==
  /\ tokens.token_1 # tokens.token_2
  /\ DOMAIN clients = DOMAIN token_addresses
  /\ DOMAIN clients \subseteq ProcessTokens
  /\ phase = "WAITING" => DOMAIN clients = {} /\ grants = <<>>
  /\ phase = "STARTED" <=> DOMAIN clients = ProcessTokens
  /\ game = "off" <=> phase # "STARTED"
  /\ OneGameLoop
  /\ \A t \in DOMAIN clients : clients[t].identifier = GetPlayerIdByToken(t)
  /\ DOMAIN clients # {} => first \in DOMAIN clients
  /\ cursor \subseteq DOMAIN clients

BallInv ==
  /\ BallInField
  /\ game \in {"off", "spawned"} => ball = [x |-> HalfField, y |-> HalfField]
  /\ game \notin {"off", "spawned"} => ball_velocity[2] \in {-Step, Step}

IInv == TypeOK /\ SeatsInv /\ BallInv

-----------------------------------------------------------------------------
(* Lemmas. *)

\* handle_join's size() >= 2: the map holds both players.
LEMMA BothJoined ==
  ASSUME NEW a, NEW b, a # b, NEW S \in SUBSET {a, b}
  PROVE  /\ Cardinality(S) \in Nat
         /\ Cardinality(S) >= 2 <=> S = {a, b}
<1>1. Cardinality({}) = 0 /\ IsFiniteSet({})
  BY FS_EmptySet
<1>2. Cardinality({a}) = 1 /\ IsFiniteSet({a}) /\ Cardinality({b}) = 1
  BY FS_Singleton
<1>3. Cardinality({a, b}) = 2
  <2>1. Cardinality({a} \cup {b}) = Cardinality({a}) + 1
    BY <1>2, FS_AddElement
  <2>2. {a} \cup {b} = {a, b}
    OBVIOUS
  <2>3. QED
    BY <1>2, <2>1, <2>2
<1>4. S = {} \/ S = {a} \/ S = {b} \/ S = {a, b}
  OBVIOUS
<1>5. QED
  BY <1>1, <1>2, <1>3, <1>4

LEMMA NewPlayerType ==
  ASSUME NEW id \in Identifier
  PROVE  NewPlayer(id) \in Player /\ NewPlayer(id).identifier = id
<1>1. HalfField \in 0 .. Field /\ 0 \in 0 .. ScoreSpace - 1
  BY GeometryAssumption, ServerAssumption DEF Field
<1>2. QED
  BY <1>1 DEF NewPlayer, Player, Direction

\* frame and score are unsigned: they wrap.
LEMMA Wraps ==
  ASSUME NEW n \in Nat, NEW space \in Nat, space >= 2
  PROVE  (n + 1) % space \in 0 .. space - 1
  OBVIOUS

\* The three writes of the handlers and the loop to a Player.
LEMMA PlayerWrites ==
  ASSUME NEW p \in Player
  PROVE  /\ \A d \in Direction : [p EXCEPT !.paddle_direction = d] \in Player
         /\ \A v \in 0 .. Field : [p EXCEPT !.paddle_location = v] \in Player
         /\ [p EXCEPT !.score = (@ + 1) % ScoreSpace] \in Player
<1>1. (p.score + 1) % ScoreSpace \in 0 .. ScoreSpace - 1
  BY Wraps, ServerAssumption DEF Player
<1>2. QED
  BY <1>1 DEF Player

\* map[k] = v changes one entry and keeps the others.
LEMMA PutMap ==
  ASSUME NEW map, NEW k, NEW v
  PROVE  /\ DOMAIN Put(map, k, v) = DOMAIN map \cup {k}
         /\ Put(map, k, v) = [x \in DOMAIN Put(map, k, v) |-> Put(map, k, v)[x]]
         /\ Put(map, k, v)[k] = v
         /\ \A x \in DOMAIN map \ {k} : Put(map, k, v)[x] = map[x]
  BY DEF Put

\* Under the invariant, the players' entries are found, and writing one keeps
\* the key set and the iteration order.
LEMMA StoreKnown ==
  ASSUME NEW t \in DOMAIN clients, NEW p, Store(t, p)
  PROVE  /\ DOMAIN clients' = DOMAIN clients
         /\ clients' = [x \in DOMAIN clients |-> clients'[x]]
         /\ clients'[t] = p
         /\ \A x \in DOMAIN clients \ {t} : clients'[x] = clients[x]
         /\ first' = first
<1>1. clients' = Put(clients, t, p) /\ first' = first
  BY DEF Store
<1>2. QED
  BY <1>1 DEF Put

LEMMA FoundByIdentifier ==
  ASSUME IInv, phase = "STARTED", NEW id \in Identifier
  PROVE  TokensByPlayerId(id)
           = {IF id = "PLAYER_1" THEN tokens.token_1 ELSE tokens.token_2}
<1>1. /\ tokens.token_1 # tokens.token_2
      /\ DOMAIN clients = {tokens.token_1, tokens.token_2}
      /\ clients[tokens.token_1].identifier = "PLAYER_1"
      /\ clients[tokens.token_2].identifier = "PLAYER_2"
  BY DEF IInv, SeatsInv, ProcessTokens, GetPlayerIdByToken
<1>2. CASE id = "PLAYER_1"
  <2>1. {t \in DOMAIN clients : clients[t].identifier = id} = {tokens.token_1}
    BY <1>1, <1>2
  <2>2. QED
    BY <1>2, <2>1 DEF TokensByPlayerId
<1>3. CASE id = "PLAYER_2"
  <2>1. {t \in DOMAIN clients : clients[t].identifier = id} = {tokens.token_2}
    BY <1>1, <1>3
  <2>2. QED
    BY <1>3, <2>1 DEF TokensByPlayerId
<1>4. QED
  BY <1>2, <1>3 DEF Identifier

-----------------------------------------------------------------------------
(* The invariant. *)

LEMMA InitInv == Init => IInv
<1> SUFFICES ASSUME Init PROVE IInv
  OBVIOUS
<1> USE GeometryAssumption, ServerAssumption
<1>1. NewPlayer("PLAYER_1") \in Player
  BY NewPlayerType DEF Identifier
<1>2. TypeOK
  <2>1. state \in SentState
    BY <1>1 DEF Init, SentState
  <2>2. /\ clients \in [DOMAIN clients -> Player]
        /\ token_addresses \in [DOMAIN token_addresses -> Address]
        /\ sent \in [DOMAIN sent -> [address : Address, ball : Ball, state : SentState]]
        /\ DOMAIN clients = {} /\ DOMAIN token_addresses = {} /\ DOMAIN sent = {}
    BY DEF Init
  <2>3. ball \in Ball /\ ball_velocity \in (-MaxSpeed .. MaxSpeed) \X {-Step, 0, Step}
    BY DEF Init, Ball, Field
  <2>4. QED
    BY <2>1, <2>2, <2>3 DEF Init, TypeOK, GenerateTokens, Phase
<1>3. SeatsInv
  <2>1. DOMAIN clients = {} /\ DOMAIN token_addresses = {} /\ cursor = {} /\ grants = <<>>
    BY DEF Init
  <2>2. QED
    BY <2>1 DEF Init, SeatsInv, GenerateTokens, OneGameLoop, ProcessTokens
<1>4. BallInv
  BY DEF Init, BallInv, BallInField, Field
<1>5. QED
  BY <1>2, <1>3, <1>4 DEF IInv

\* A step of either thread keeps the types: the counters wrap, the paddles are
\* clamped, the maps get no entry but the two players'.
LEMMA TypeStep ==
  ASSUME IInv, [Next]_vars
  PROVE  TypeOK'
<1> USE GeometryAssumption, ServerAssumption
<1>1. TypeOK /\ SeatsInv /\ BallInv
  BY DEF IInv
<1> USE DEF TypeOK
<1>2. ASSUME NEW a \in Address, HandlePrepare(a) PROVE TypeOK'
  BY <1>1, <1>2 DEF HandlePrepare, gameVars, Phase
<1>3. ASSUME NEW t \in TokenSpace, NEW a \in Address, HandleJoin(t, a) PROVE TypeOK'
  <2>1. NewPlayer(GetPlayerIdByToken(t)) \in Player
    BY NewPlayerType DEF GetPlayerIdByToken, Identifier
  <2>2. /\ DOMAIN clients' \subseteq TokenSpace /\ clients' \in [DOMAIN clients' -> Player]
        /\ first' \in TokenSpace \cup {NoToken}
    BY <1>1, <1>3, <2>1 DEF HandleJoin, Store, Put
  <2>3. /\ DOMAIN token_addresses' \subseteq TokenSpace
        /\ token_addresses' \in [DOMAIN token_addresses' -> Address]
    BY <1>1, <1>3 DEF HandleJoin, Put
  <2>4. phase' \in Phase /\ game_threads' \in Nat
    BY <1>1, <1>3 DEF HandleJoin, StartMatch, Phase
  <2>5. game' \in {game, "spawned"}
    BY <1>3 DEF HandleJoin, StartMatch
  <2>6. QED
    BY <1>1, <1>3, <2>2, <2>3, <2>4, <2>5 DEF HandleJoin
<1>4. ASSUME NEW t \in TokenSpace, NEW d \in Moves, HandleMovement(t, d) PROVE TypeOK'
  <2>1. t \in DOMAIN clients /\ clients[t] \in Player
    BY <1>1, <1>4 DEF HandleMovement, SeatsInv
  <2>2. [Entry(t) EXCEPT !.paddle_direction = d] \in Player
    BY <2>1 DEF Entry, Player
  <2>3. DOMAIN clients' = DOMAIN clients /\ clients' \in [DOMAIN clients -> Player] /\ first' = first
    BY <1>1, <1>4, <2>1, <2>2 DEF HandleMovement, Store, Put
  <2>4. QED
    BY <1>1, <1>4, <2>3 DEF HandleMovement, gameVars
<1>5. ASSUME EnterLoop PROVE TypeOK'
  <2>1. ball' \in Ball /\ ball_velocity' \in (-MaxSpeed .. MaxSpeed) \X {-Step, 0, Step}
    BY <1>5 DEF EnterLoop, ResetBall, Ball, Field
  <2>2. QED
    BY <1>1, <1>5, <2>1 DEF EnterLoop, matchVars
<1>6. ASSUME MoveBall PROVE TypeOK'
  <2> DEFINE x == ball.x + ball_velocity[1]
             y == ball.y + ball_velocity[2]
  <2>01. /\ ball.x \in Int /\ ball.y \in Int
         /\ ball_velocity[1] \in Int /\ ball_velocity[2] \in {-Step, Step}
         /\ -Step < ball.y /\ ball.y < Field + Step
         /\ ball.y <= 0 => ball_velocity[2] > 0
         /\ ball.y >= Field => ball_velocity[2] < 0
    BY <1>1, <1>6 DEF MoveBall, BallInv, BallInField, Ball, Field
  <2> HIDE DEF TypeOK
  <2>02. ball' = [x |-> x, y |-> y] /\ x > 0 /\ x < Field
    <3>1. ball' = MovedBall /\ ~BallIsOut
      BY <1>6 DEF MoveBall
    <3>2. ~(x <= 0 \/ x >= Field)
      BY <3>1 DEF BallIsOut, MovedBall
    <3>3. x \in Int /\ Field \in Int
      BY <2>01 DEF Field
    <3>4. QED
      BY <3>1, <3>2, <3>3 DEF MovedBall
  <2>03. x \in 0 .. Field /\ y \in -Step .. Field + Step
    BY <2>01, <2>02 DEF Field
  <2>1. ball' \in Ball
    BY <2>02, <2>03 DEF Ball
  <2> USE DEF TypeOK
  <2>2. ball_velocity' \in (-MaxSpeed .. MaxSpeed) \X {-Step, 0, Step}
    BY <1>1, <1>6 DEF MoveBall
  <2>3. QED
    BY <1>1, <1>6, <2>1, <2>2 DEF MoveBall, matchVars
<1>7. ASSUME ScorePoint PROVE TypeOK'
  <2>1. ball' \in Ball /\ ball_velocity' \in (-MaxSpeed .. MaxSpeed) \X {-Step, 0, Step}
    BY <1>7 DEF ScorePoint, ResetBall, Ball, Field
  <2>2. PICK t \in DOMAIN clients : Store(t, [clients[t] EXCEPT !.score = (@ + 1) % ScoreSpace])
    <3>1. PICK id \in Identifier : \E t \in TokensByPlayerId(id) :
                 Store(t, [Entry(t) EXCEPT !.score = (@ + 1) % ScoreSpace])
      BY <1>7 DEF ScorePoint, Identifier
    <3>2. phase = "STARTED" /\ DOMAIN clients = {tokens.token_1, tokens.token_2}
      BY <1>1, <1>7 DEF ScorePoint, SeatsInv, ProcessTokens
    <3>3. TokensByPlayerId(id) \subseteq DOMAIN clients
      BY <3>2, FoundByIdentifier
    <3>4. QED
      BY <3>1, <3>3 DEF Entry
  <2>3. [clients[t] EXCEPT !.score = (@ + 1) % ScoreSpace] \in Player
    <3>1. clients[t] \in Player
      BY <1>1
    <3>2. QED
      BY <3>1, PlayerWrites
  <2>4. DOMAIN clients' = DOMAIN clients /\ clients' \in [DOMAIN clients -> Player] /\ first' = first
    BY <1>1, <2>2, <2>3 DEF Store, Put
  <2>5. QED
    BY <1>1, <1>7, <2>1, <2>4 DEF ScorePoint
<1>8. ASSUME NEW t \in NextInLoop, NEW d \in Direction, FinishPaddle(t, d)
      PROVE  DOMAIN clients' = DOMAIN clients /\ clients' \in [DOMAIN clients -> Player]
             /\ cursor' \subseteq TokenSpace /\ game' \in {"hit", "paddles"}
  <2>1. t \in DOMAIN clients
    BY <1>1, <1>8 DEF NextInLoop, SeatsInv
  <2>2. MovedPaddle(clients[t].paddle_location, d) \in 0 .. Field
    <3>1. clients[t] \in Player
      BY <1>1, <2>1
    <3>2. clients[t].paddle_location \in 0 .. Field
      BY <3>1 DEF Player
    <3>3. QED
      BY <3>2, MovedPaddleInField
  <2>3. [clients[t] EXCEPT !.paddle_location = MovedPaddle(@, d)] \in Player
    <3>1. clients[t] \in Player
      BY <1>1, <2>1
    <3>2. QED
      BY <2>2, <3>1, PlayerWrites
  <2>4. QED
    BY <1>1, <1>8, <2>1, <2>3 DEF FinishPaddle
<1>9. ASSUME TestUp PROVE TypeOK'
  <2>1. DOMAIN clients' = DOMAIN clients /\ clients' \in [DOMAIN clients -> Player]
        /\ cursor' \subseteq TokenSpace /\ game' \in {"hit", "paddles", "not_up"}
    BY <1>1, <1>8, <1>9 DEF TestUp, Direction
  <2>2. QED
    BY <1>1, <1>9, <2>1 DEF TestUp
<1>10. ASSUME TestDown PROVE TypeOK'
  <2>1. DOMAIN clients' = DOMAIN clients /\ clients' \in [DOMAIN clients -> Player]
        /\ cursor' \subseteq TokenSpace /\ game' \in {"hit", "paddles"}
    BY <1>8, <1>10 DEF TestDown, Direction
  <2>2. QED
    BY <1>1, <1>10, <2>1 DEF TestDown
<1>11. ASSUME HitPaddle PROVE TypeOK'
  <2>1. ball_velocity' \in (-MaxSpeed .. MaxSpeed) \X {-Step, 0, Step}
    <3>1. /\ ball_velocity = <<ball_velocity[1], ball_velocity[2]>>
          /\ ball_velocity[1] \in -MaxSpeed .. MaxSpeed /\ ball_velocity[2] \in {-Step, 0, Step}
      BY <1>1
    <3>2. CASE UNCHANGED ball_velocity
      BY <1>1, <3>2
    <3>3. ASSUME NEW s \in ReboundSpeeds(Abs(ball_velocity[1]), EdgeOffset(ball.y, PaddleY)),
                 s <= MaxSpeed,
                 ball_velocity' = <<IF MovingLeft THEN s ELSE -s, ball_velocity[2]>>
          PROVE  ball_velocity' \in (-MaxSpeed .. MaxSpeed) \X {-Step, 0, Step}
      <4>1. s \in Int /\ 0 <= s
        BY <3>1 DEF ReboundSpeeds, Abs
      <4>2. (IF MovingLeft THEN s ELSE -s) \in -MaxSpeed .. MaxSpeed
        BY <3>3, <4>1
      <4>3. QED
        BY <3>1, <3>3, <4>2
    <3>4. QED
      BY <1>11, <3>2, <3>3 DEF HitPaddle
  <2>2. state' \in SentState
    <3>1. (state.frame + 1) % FrameSpace \in 0 .. FrameSpace - 1
      BY <1>1, Wraps DEF SentState
    <3>2. QED
      BY <1>1, <1>11, <3>1 DEF HitPaddle, SentState
  <2>3. QED
    BY <1>1, <1>11, <2>1, <2>2 DEF HitPaddle, matchVars
<1>12. ASSUME CopyFirst PROVE TypeOK'
  <2>1. clients[first] \in Player
    <3>1. phase = "STARTED"
      BY <1>1, <1>12 DEF CopyFirst, SeatsInv
    <3>2. tokens.token_1 \in DOMAIN clients
      BY <1>1, <3>1 DEF SeatsInv, ProcessTokens
    <3>3. first \in DOMAIN clients
      BY <1>1, <3>2 DEF SeatsInv
    <3>4. QED
      BY <1>1, <3>3
  <2>2. state' \in SentState
    BY <1>1, <1>12, <2>1 DEF CopyFirst, SentState
  <2>3. QED
    BY <1>1, <1>12, <2>2 DEF CopyFirst, matchVars
<1>13. ASSUME CopySecond PROVE TypeOK'
  <2>1. state' \in SentState
    BY <1>1, <1>13 DEF CopySecond, SentState
  <2>2. QED
    BY <1>1, <1>13, <2>1 DEF CopySecond, matchVars
<1>14. ASSUME SendState PROVE TypeOK'
  <2>1. PICK t \in NextInLoop :
          sent' = Put(sent, t, [address |-> token_addresses[t], ball |-> ball, state |-> state])
    BY <1>14 DEF SendState
  <2>2. t \in DOMAIN token_addresses /\ t \in TokenSpace
    BY <1>1 DEF NextInLoop, SeatsInv
  <2>3. /\ DOMAIN sent' \subseteq TokenSpace
        /\ sent' \in [DOMAIN sent' -> [address : Address, ball : Ball, state : SentState]]
    BY <1>1, <2>1, <2>2 DEF Put
  <2>4. cursor' \subseteq TokenSpace /\ game' \in {"move", "send"}
    BY <1>1, <1>14 DEF SendState
  <2>5. QED
    BY <1>1, <1>14, <2>3, <2>4 DEF SendState, matchVars
<1>15. CASE UNCHANGED vars
  BY <1>1, <1>15 DEF vars, matchVars, gameVars, SentState
<1>16. QED
  BY <1>2, <1>3, <1>4, <1>5, <1>6, <1>7, <1>9, <1>10, <1>11, <1>12, <1>13, <1>14, <1>15
     DEF Next, Listener, GameThread

\* What the game thread leaves alone: it changes players' locations and scores,
\* never who plays.
LEMMA GameThreadKeeps ==
  ASSUME IInv, GameThread
  PROVE  /\ UNCHANGED <<tokens, phase, token_addresses, first, game_threads, grants>>
         /\ DOMAIN clients' = DOMAIN clients
         /\ \A t \in DOMAIN clients : clients'[t].identifier = clients[t].identifier
         /\ cursor' \subseteq DOMAIN clients
         /\ game # "off" /\ game' \notin {"off", "spawned"}
<1>1. TypeOK /\ SeatsInv
  BY DEF IInv
<1>2. CASE EnterLoop
  BY <1>1, <1>2 DEF EnterLoop, matchVars, SeatsInv
<1>3. CASE MoveBall
  BY <1>1, <1>3 DEF MoveBall, matchVars, SeatsInv
<1>4. CASE ScorePoint
  <2>1. PICK id \in Identifier : \E t \in TokensByPlayerId(id) :
               Store(t, [Entry(t) EXCEPT !.score = (@ + 1) % ScoreSpace])
    BY <1>4 DEF ScorePoint, Identifier
  <2>2. phase = "STARTED" /\ DOMAIN clients = {tokens.token_1, tokens.token_2}
    BY <1>1, <1>4 DEF ScorePoint, SeatsInv, ProcessTokens
  <2>3. TokensByPlayerId(id) \subseteq DOMAIN clients
    BY <2>2, FoundByIdentifier
  <2>4. PICK t \in DOMAIN clients : Store(t, [clients[t] EXCEPT !.score = (@ + 1) % ScoreSpace])
    BY <2>1, <2>3 DEF Entry
  <2>5. clients[t] \in Player
    BY <1>1 DEF TypeOK
  <2>6. [clients[t] EXCEPT !.score = (@ + 1) % ScoreSpace].identifier = clients[t].identifier
    BY <2>5 DEF Player
  <2>7. /\ DOMAIN clients' = DOMAIN clients /\ first' = first
        /\ \A u \in DOMAIN clients : clients'[u].identifier = clients[u].identifier
    BY <2>4, <2>6, StoreKnown
  <2>8. QED
    BY <1>4, <2>7 DEF ScorePoint
<1>5. ASSUME NEW t \in NextInLoop, NEW d \in Direction, FinishPaddle(t, d)
      PROVE  /\ DOMAIN clients' = DOMAIN clients
             /\ \A u \in DOMAIN clients : clients'[u].identifier = clients[u].identifier
             /\ cursor' \subseteq DOMAIN clients /\ game' \in {"hit", "paddles"}
  <2>1. t \in DOMAIN clients
    BY <1>1, <1>5 DEF NextInLoop, SeatsInv
  <2>2. clients[t] \in Player
    BY <1>1, <2>1 DEF TypeOK
  <2>3. [clients[t] EXCEPT !.paddle_location = MovedPaddle(@, d)].identifier
          = clients[t].identifier
    BY <2>2 DEF Player
  <2>4. QED
    BY <1>1, <1>5, <2>1, <2>3 DEF FinishPaddle, SeatsInv
<1>6. CASE TestUp
  <2>1. PICK t \in NextInLoop : \/ FinishPaddle(t, "UP")
                                \/ game' = "not_up" /\ UNCHANGED <<clients, cursor>>
    BY <1>6 DEF TestUp
  <2>2. QED
    BY <1>1, <1>5, <1>6, <2>1 DEF TestUp, SeatsInv, Direction
<1>7. CASE TestDown
  BY <1>5, <1>7 DEF TestDown, Direction
<1>8. CASE HitPaddle
  BY <1>1, <1>8 DEF HitPaddle, matchVars, SeatsInv
<1>9. CASE CopyFirst
  BY <1>1, <1>9 DEF CopyFirst, matchVars, SeatsInv
<1>10. CASE CopySecond
  BY <1>1, <1>10 DEF CopySecond, matchVars, SeatsInv
<1>11. CASE SendState
  BY <1>1, <1>11 DEF SendState, matchVars, SeatsInv
<1>12. QED
  BY <1>2, <1>3, <1>4, <1>6, <1>7, <1>8, <1>9, <1>10, <1>11 DEF GameThread

\* What a Join does to the maps and to the match.
LEMMA JoinStep ==
  ASSUME IInv, NEW t \in TokenSpace, NEW a \in Address, HandleJoin(t, a)
  PROVE  /\ DOMAIN clients' = DOMAIN clients \cup {t} /\ t \in ProcessTokens
         /\ DOMAIN token_addresses' = DOMAIN clients'
         /\ \A u \in DOMAIN clients' : clients'[u].identifier = GetPlayerIdByToken(u)
         /\ first' \in DOMAIN clients'
         /\ DOMAIN clients' = ProcessTokens <=> Cardinality(DOMAIN clients') >= 2
         /\ \/ DOMAIN clients' = ProcessTokens /\ StartMatch
            \/ DOMAIN clients' # ProcessTokens /\ UNCHANGED <<phase, game, game_threads>>
<1>1. SeatsInv
  BY DEF IInv
<1>2. t \in ProcessTokens /\ clients' = Put(clients, t, NewPlayer(GetPlayerIdByToken(t)))
  BY DEF HandleJoin, Store
<1>3. NewPlayer(GetPlayerIdByToken(t)).identifier = GetPlayerIdByToken(t)
  BY NewPlayerType DEF GetPlayerIdByToken, Identifier
<1>4. DOMAIN clients' = DOMAIN clients \cup {t}
  BY <1>2, PutMap
<1>5. \A u \in DOMAIN clients' : clients'[u].identifier = GetPlayerIdByToken(u)
  BY <1>1, <1>2, <1>3, <1>4 DEF Put, SeatsInv
<1>6. DOMAIN token_addresses' = DOMAIN clients'
  <2>1. token_addresses' = Put(token_addresses, t, a)
    BY DEF HandleJoin
  <2>2. DOMAIN token_addresses' = DOMAIN token_addresses \cup {t}
    BY <2>1, PutMap
  <2>3. QED
    BY <1>1, <1>4, <2>2 DEF SeatsInv
<1>7. first' \in DOMAIN clients'
  BY <1>1, <1>4 DEF HandleJoin, Store, SeatsInv
<1>8. /\ Cardinality(DOMAIN clients') \in Nat
      /\ Cardinality(DOMAIN clients') >= 2 <=> DOMAIN clients' = ProcessTokens
  <2>1. DOMAIN clients' \in SUBSET {tokens.token_1, tokens.token_2}
        /\ tokens.token_1 # tokens.token_2
    BY <1>1, <1>2, <1>4 DEF SeatsInv, ProcessTokens
  <2>2. QED
    BY <2>1, BothJoined DEF ProcessTokens
<1>9. \/ Cardinality(DOMAIN clients') >= 2 /\ StartMatch
      \/ Cardinality(DOMAIN clients') < 2 /\ UNCHANGED <<phase, game, game_threads>>
  BY DEF HandleJoin
<1>10. QED
  BY <1>2, <1>4, <1>5, <1>6, <1>7, <1>8, <1>9

LEMMA SeatsStep ==
  ASSUME IInv, [Next]_vars
  PROVE  SeatsInv'
<1>1. TypeOK /\ SeatsInv
  BY DEF IInv
<1>2. tokens' = tokens
  BY DEF Next, Listener, GameThread, HandlePrepare, HandleJoin, HandleMovement, EnterLoop,
         MoveBall, ScorePoint, TestUp, TestDown, HitPaddle, CopyFirst, CopySecond, SendState,
         vars, matchVars
<1>3. ProcessTokens' = ProcessTokens /\ \A t : GetPlayerIdByToken(t)' = GetPlayerIdByToken(t)
  BY <1>2 DEF ProcessTokens, GetPlayerIdByToken
<1>4. ASSUME NEW a \in Address, HandlePrepare(a) PROVE SeatsInv'
  <2>1. DOMAIN clients # ProcessTokens
    BY <1>1, <1>4 DEF SeatsInv, HandlePrepare
  <2>2. QED
    BY <1>1, <1>2, <1>3, <1>4, <2>1 DEF SeatsInv, OneGameLoop, HandlePrepare, gameVars
<1>5. ASSUME NEW t \in TokenSpace, NEW a \in Address, HandleJoin(t, a) PROVE SeatsInv'
  <2>1. /\ phase = "PREPARING" /\ game = "off" /\ game_threads = 0
        /\ cursor' = cursor /\ grants' = grants
    BY <1>1, <1>5 DEF HandleJoin, SeatsInv, OneGameLoop
  <2>2. CASE DOMAIN clients' = ProcessTokens
    <3>1. phase' = "STARTED" /\ game' = "spawned" /\ game_threads' = 1
      BY <1>5, <2>1, <2>2, JoinStep DEF StartMatch
    <3>2. QED
      BY <1>1, <1>2, <1>3, <1>5, <2>1, <2>2, <3>1, JoinStep DEF SeatsInv, OneGameLoop
  <2>3. CASE DOMAIN clients' # ProcessTokens
    <3>1. phase' = "PREPARING" /\ game' = "off" /\ game_threads' = 0
      BY <1>5, <2>1, <2>3, JoinStep
    <3>2. QED
      BY <1>1, <1>2, <1>3, <1>5, <2>1, <2>3, <3>1, JoinStep DEF SeatsInv, OneGameLoop
  <2>4. QED
    BY <2>2, <2>3
<1>6. ASSUME NEW t \in TokenSpace, NEW d \in Moves, HandleMovement(t, d) PROVE SeatsInv'
  <2>1. t \in DOMAIN clients
    BY <1>1, <1>6 DEF HandleMovement, SeatsInv
  <2>2. clients[t] \in Player
    BY <1>1, <2>1 DEF TypeOK
  <2>3. [Entry(t) EXCEPT !.paddle_direction = d].identifier = clients[t].identifier
    BY <2>1, <2>2 DEF Entry, Player
  <2>4. /\ DOMAIN clients' = DOMAIN clients /\ first' = first
        /\ \A u \in DOMAIN clients : clients'[u].identifier = clients[u].identifier
    BY <1>6, <2>1, <2>3, StoreKnown DEF HandleMovement
  <2>5. QED
    BY <1>1, <1>2, <1>3, <1>6, <2>4 DEF SeatsInv, OneGameLoop, HandleMovement, gameVars
<1>7. ASSUME GameThread PROVE SeatsInv'
  <2>1. /\ UNCHANGED <<tokens, phase, token_addresses, first, game_threads, grants>>
        /\ DOMAIN clients' = DOMAIN clients
        /\ \A t \in DOMAIN clients : clients'[t].identifier = clients[t].identifier
        /\ cursor' \subseteq DOMAIN clients
        /\ game # "off" /\ game' # "off"
    BY <1>7, GameThreadKeeps
  <2>2. \A t \in DOMAIN clients' : clients'[t].identifier = GetPlayerIdByToken(t)'
    BY <1>1, <1>3, <2>1 DEF SeatsInv
  <2>3. QED
    BY <1>1, <1>3, <2>1, <2>2 DEF SeatsInv, OneGameLoop
<1>8. CASE UNCHANGED vars
  BY <1>1, <1>2, <1>3, <1>8 DEF SeatsInv, OneGameLoop, vars, matchVars, gameVars
<1>9. QED
  BY <1>4, <1>5, <1>6, <1>7, <1>8 DEF Next, Listener

\* MoveBall turns a ball that is past a wall, and no other step moves it away
\* from the centre.
LEMMA BallStep ==
  ASSUME IInv, [Next]_vars
  PROVE  BallInv'
<1> USE GeometryAssumption
<1>1. TypeOK /\ SeatsInv /\ BallInv
  BY DEF IInv
<1> DEFINE centre == [x |-> HalfField, y |-> HalfField]
<1>2. ASSUME ball' = centre, game' \in {"off", "spawned"} \/ ball_velocity'[2] \in {-Step, Step}
      PROVE  BallInv'
  BY <1>2 DEF BallInv, BallInField, Field
<1>3. ASSUME UNCHANGED ball, UNCHANGED ball_velocity[2],
             game \notin {"off", "spawned"}, game' \notin {"off", "spawned"}
      PROVE  BallInv'
  BY <1>1, <1>3 DEF BallInv, BallInField
<1>4. ASSUME UNCHANGED <<ball, ball_velocity, game>> PROVE BallInv'
  BY <1>1, <1>4 DEF BallInv, BallInField
<1>5. ASSUME Listener PROVE BallInv'
  <2>1. ASSUME NEW t \in TokenSpace, NEW a \in Address, HandleJoin(t, a) PROVE BallInv'
    <3>1. game = "off" /\ UNCHANGED <<ball, ball_velocity>> /\ game' \in {"off", "spawned"}
      BY <1>1, <2>1 DEF HandleJoin, StartMatch, SeatsInv
    <3>2. ball' = centre
      BY <1>1, <3>1 DEF BallInv
    <3>3. QED
      BY <1>2, <3>1, <3>2
  <2>2. QED
    BY <1>4, <1>5, <2>1 DEF Listener, HandlePrepare, HandleMovement, gameVars
<1>6. ASSUME EnterLoop \/ ScorePoint PROVE BallInv'
  <2>1. ball' = centre /\ ball_velocity'[2] \in {-Step, Step}
    BY <1>6 DEF EnterLoop, ScorePoint, ResetBall
  <2>2. QED
    BY <1>2, <2>1
<1>7. ASSUME MoveBall PROVE BallInv'
  <2> DEFINE x == ball.x + ball_velocity[1]
             y == ball.y + ball_velocity[2]
  <2>1. /\ ball' = [x |-> x, y |-> y] /\ 0 < x /\ x < Field
        /\ game = "move" /\ game' = "paddles"
    BY <1>1, <1>7 DEF MoveBall, MovedBall, BallIsOut, TypeOK, Ball, Field
  <2>2. /\ ball.y \in Int /\ ball_velocity[2] \in {-Step, Step}
        /\ -Step < ball.y /\ ball.y < Field + Step
        /\ ball.y <= 0 => ball_velocity[2] > 0
        /\ ball.y >= Field => ball_velocity[2] < 0
    BY <1>1, <2>1 DEF TypeOK, Ball, BallInv, BallInField, Field
  <2>3. ball_velocity'[2] = IF y <= 0 \/ y >= Field THEN -ball_velocity[2] ELSE ball_velocity[2]
    BY <1>1, <1>7 DEF MoveBall, MovedBall, TypeOK
  <2>4. /\ -Step < y /\ y < Field + Step
        /\ y <= 0 => ball_velocity'[2] > 0
        /\ y >= Field => ball_velocity'[2] < 0
        /\ ball_velocity'[2] \in {-Step, Step}
    BY <2>2, <2>3 DEF Field
  <2> HIDE DEF x, y
  <2>5. QED
    BY <2>1, <2>4 DEF BallInv, BallInField
<1>8. ASSUME TestUp \/ TestDown \/ CopyFirst \/ CopySecond \/ SendState PROVE BallInv'
  <2>1. /\ UNCHANGED <<ball, ball_velocity>>
        /\ game \notin {"off", "spawned"} /\ game' \notin {"off", "spawned"}
    BY <1>8 DEF TestUp, TestDown, FinishPaddle, CopyFirst, CopySecond, SendState
  <2>2. QED
    BY <1>3, <2>1
<1>9. ASSUME HitPaddle PROVE BallInv'
  <2>1. UNCHANGED ball /\ ball_velocity'[2] = ball_velocity[2] /\ game = "hit" /\ game' = "copy_1"
    BY <1>9 DEF HitPaddle
  <2>2. QED
    BY <1>3, <2>1
<1>10. CASE UNCHANGED vars
  BY <1>4, <1>10 DEF vars, gameVars
<1>11. QED
  BY <1>5, <1>6, <1>7, <1>8, <1>9, <1>10 DEF Next, GameThread

-----------------------------------------------------------------------------
(* The theorems. *)

THEOREM Invariance == Spec => []IInv
<1>1. IInv /\ [Next]_vars => IInv'
  BY TypeStep, SeatsStep, BallStep DEF IInv
<1>2. QED
  BY InitInv, <1>1, PTL DEF Spec

\* Every variable of the server keeps its type.
THEOREM TypeCorrect == Spec => []TypeOK
<1>1. IInv => TypeOK
  BY DEF IInv
<1>2. QED
  BY Invariance, <1>1, PTL

\* The map the game thread walks without a lock holds the two players, under
\* their own tokens, as long as it runs.
THEOREM PlayersFixed == Spec => []PlayersStayPut
<1>1. IInv => PlayersStayPut
  BY DEF IInv, SeatsInv, PlayersStayPut, ProcessTokens
<1>2. QED
  BY Invariance, <1>1, PTL

\* One game loop for one match, however often and late players join.
THEOREM SingleGameLoop == Spec => []OneGameLoop
<1>1. IInv => OneGameLoop
  BY DEF IInv, SeatsInv
<1>2. QED
  BY Invariance, <1>1, PTL

\* The ball is between the goals whenever it is broadcast and always comes back
\* from the walls.
THEOREM BallStaysInField == Spec => []BallInField
<1>1. IInv => BallInField
  BY DEF IInv, BallInv
<1>2. QED
  BY Invariance, <1>1, PTL

-----------------------------------------------------------------------------
(* The server implements MatchSeats. *)

LEMMA InitImplements == Init => Seats!Init
<1> SUFFICES ASSUME Init PROVE Seats!Init
  OBVIOUS
<1>1. DOMAIN token_addresses = {} /\ Stage = "open" /\ grants = <<>>
  BY DEF Init, Stage
<1>2. SeatOf = [id \in Seats!Identifier |-> NoAddress]
  BY <1>1 DEF SeatOf, Seat, Identifier, Seats!Identifier
<1>3. QED
  BY <1>1, <1>2 DEF Seats!Init

\* Steps that touch neither the phase nor the addresses are stuttering steps of
\* MatchSeats.
LEMMA SeatsStutter ==
  ASSUME UNCHANGED <<tokens, phase, token_addresses, grants>>
  PROVE  UNCHANGED Seats!vars
<1>1. Stage' = Stage
  BY DEF Stage
<1>2. SeatOf' = SeatOf
  BY DEF SeatOf, Seat
<1>3. QED
  BY <1>1, <1>2 DEF Seats!vars

LEMMA StepImplements ==
  ASSUME IInv, IInv', [Next]_vars
  PROVE  [Seats!Next]_Seats!vars
<1> USE ServerAssumption
<1>1. ASSUME NEW a \in Address, HandlePrepare(a) PROVE Seats!Next
  <2>1. /\ Stage = "open" /\ Stage' = "reserved"
        /\ grants = <<>> /\ grants' = <<a>> /\ SeatOf' = SeatOf
    BY <1>1 DEF HandlePrepare, Stage, SeatOf, Seat, IInv, SeatsInv
  <2>2. QED
    BY <2>1 DEF Seats!Next, Seats!Reserve
<1>2. ASSUME NEW t \in TokenSpace, NEW a \in Address, HandleJoin(t, a) PROVE Seats!Next
  <2> DEFINE id == GetPlayerIdByToken(t)
  <2>1. /\ t \in ProcessTokens /\ tokens.token_1 # tokens.token_2 /\ tokens' = tokens
        /\ token_addresses' = Put(token_addresses, t, a) /\ grants' = grants
        /\ Stage = "reserved"
    BY <1>2 DEF HandleJoin, IInv, SeatsInv, Stage
  <2>2. id \in Identifier
    BY DEF GetPlayerIdByToken, Identifier
  <2>3. SeatOf' = [SeatOf EXCEPT ![id] = a]
    <3>1. \A u : Seat(u)' = IF u = t THEN a ELSE Seat(u)
      BY <2>1 DEF Seat, Put
    <3>2. /\ SeatOf'["PLAYER_1"] = Seat(tokens.token_1)'
          /\ SeatOf'["PLAYER_2"] = Seat(tokens.token_2)'
          /\ SeatOf["PLAYER_1"] = Seat(tokens.token_1)
          /\ SeatOf["PLAYER_2"] = Seat(tokens.token_2)
      BY <2>1 DEF SeatOf, Identifier, Seat
    <3>3. /\ SeatOf'["PLAYER_1"] = IF id = "PLAYER_1" THEN a ELSE SeatOf["PLAYER_1"]
          /\ SeatOf'["PLAYER_2"] = IF id = "PLAYER_2" THEN a ELSE SeatOf["PLAYER_2"]
      BY <2>1, <3>1, <3>2 DEF GetPlayerIdByToken, ProcessTokens
    <3>4. SeatOf = [i \in Identifier |-> SeatOf[i]] /\ SeatOf' = [i \in Identifier |-> SeatOf'[i]]
      BY DEF SeatOf
    <3> HIDE DEF id
    <3>5. QED
      BY <2>2, <3>3, <3>4 DEF Identifier
  <2>4. (\A i \in Identifier : SeatOf'[i] # NoAddress) <=> DOMAIN token_addresses' = ProcessTokens
    <3>1. \A u \in DOMAIN token_addresses' : token_addresses'[u] # NoAddress
      BY DEF IInv, TypeOK
    <3>2. DOMAIN token_addresses' \subseteq ProcessTokens /\ ProcessTokens' = ProcessTokens
      BY <2>1 DEF IInv, SeatsInv, ProcessTokens
    <3>3. /\ SeatOf'["PLAYER_1"] # NoAddress <=> tokens.token_1 \in DOMAIN token_addresses'
          /\ SeatOf'["PLAYER_2"] # NoAddress <=> tokens.token_2 \in DOMAIN token_addresses'
      BY <2>1, <3>1 DEF SeatOf, Seat, Identifier
    <3>4. QED
      BY <3>2, <3>3 DEF Identifier, ProcessTokens
  <2>5. Stage' = IF \A i \in Seats!Identifier : SeatOf'[i] # NoAddress
                 THEN "playing" ELSE "reserved"
    <3>1. \/ DOMAIN token_addresses' = ProcessTokens /\ phase' = "STARTED"
          \/ DOMAIN token_addresses' # ProcessTokens /\ phase' = phase
      BY <1>2, JoinStep DEF StartMatch
    <3>2. phase = "PREPARING"
      BY <1>2 DEF HandleJoin
    <3>3. QED
      BY <2>4, <3>1, <3>2 DEF Stage, Identifier, Seats!Identifier
  <2>6. Seats!TakeSeat(id, a)
    BY <2>1, <2>3, <2>5 DEF Seats!TakeSeat
  <2>7. QED
    BY <2>2, <2>6 DEF Seats!Next, Identifier, Seats!Identifier
<1>3. ASSUME NEW t \in TokenSpace, NEW d \in Moves, HandleMovement(t, d)
      PROVE  UNCHANGED Seats!vars
  BY <1>3, SeatsStutter DEF HandleMovement, gameVars
<1>4. CASE GameThread
  BY <1>4, GameThreadKeeps, SeatsStutter
<1>5. CASE UNCHANGED vars
  BY <1>5, SeatsStutter DEF vars, matchVars
<1>6. QED
  BY <1>1, <1>2, <1>3, <1>4, <1>5 DEF Next, Listener

\* A server process keeps the promise of MatchSeats: the seats are handed out
\* once, and a match that has started never changes its players.
THEOREM ImplementsMatchSeats == Spec => SeatsSpec
<1>1. Spec => [][Seats!Next]_Seats!vars
  <2>1. IInv /\ IInv' /\ [Next]_vars => [Seats!Next]_Seats!vars
    BY StepImplements
  <2>2. QED
    BY Invariance, <2>1, PTL DEF Spec
<1>2. Spec => Seats!Init
  BY InitImplements DEF Spec
<1>3. QED
  BY <1>1, <1>2, PTL DEF SeatsSpec, Seats!Spec

-----------------------------------------------------------------------------
(* The broadcast: what is known of the datagrams last sent while the loop   *)
(* works on the next frame.                                                 *)

Follows(frame, last) == frame = (last + 1) % FrameSpace

BroadcastInv ==
  /\ SameFrameSameState
  /\ DOMAIN sent \subseteq ProcessTokens
  /\ game \in {"off", "spawned"} => DOMAIN sent = {} /\ state.frame = 0
  /\ game \in {"move", "paddles", "not_up", "hit"} =>
       /\ \A t \in DOMAIN sent : sent[t].state = state
       /\ DOMAIN sent = ProcessTokens \/ (DOMAIN sent = {} /\ state.frame = 0)
  /\ game \in {"copy_1", "copy_2"} =>
       /\ \A t \in DOMAIN sent : Follows(state.frame, sent[t].state.frame)
       /\ DOMAIN sent = ProcessTokens \/ (DOMAIN sent = {} /\ state.frame = 1)
  /\ game = "send" =>
       /\ \A t \in ProcessTokens \ cursor :
            t \in DOMAIN sent /\ sent[t].state = state /\ sent[t].ball = ball
       /\ \A t \in cursor : IF t \in DOMAIN sent
                            THEN Follows(state.frame, sent[t].state.frame)
                            ELSE state.frame = 1

LEMMA NextFrameDiffers ==
  ASSUME NEW f \in 0 .. FrameSpace - 1, NEW g, Follows(g, f)
  PROVE  g # f
<1>1. FrameSpace \in Nat /\ FrameSpace >= 2
  BY ServerAssumption
<1>2. CASE f + 1 = FrameSpace
  BY <1>1, <1>2 DEF Follows
<1>3. CASE f + 1 # FrameSpace
  BY <1>1, <1>3 DEF Follows
<1>4. QED
  BY <1>2, <1>3

LEMMA InitBroadcast == Init => BroadcastInv
<1> SUFFICES ASSUME Init PROVE BroadcastInv
  OBVIOUS
<1>1. DOMAIN sent = {} /\ game = "off" /\ state.frame = 0
  BY DEF Init
<1>2. QED
  BY <1>1 DEF BroadcastInv, SameFrameSameState

\* Sending a frame to a player in the cursor keeps what is known.
LEMMA SendStateBroadcasts ==
  ASSUME IInv, BroadcastInv, SendState
  PROVE  /\ BroadcastInv'
         /\ \A t \in DOMAIN sent' :
              IF t \in DOMAIN sent
              THEN sent'[t] # sent[t] => Follows(sent'[t].state.frame, sent[t].state.frame)
              ELSE sent'[t].state.frame = 1
<1> DEFINE datagram(t) == [address |-> token_addresses[t], ball |-> ball, state |-> state]
<1>1. TypeOK /\ SeatsInv
  BY DEF IInv
<1>2. PICK t \in NextInLoop : /\ sent' = Put(sent, t, datagram(t))
                              /\ cursor' = cursor \ {t}
  BY DEF SendState
<1>3. /\ game = "send" /\ UNCHANGED <<tokens, ball, state>>
      /\ game' = IF cursor' = {} THEN "move" ELSE "send"
      /\ t \in cursor /\ cursor \subseteq ProcessTokens /\ t \in ProcessTokens
  BY <1>1 DEF SendState, matchVars, NextInLoop, SeatsInv
<1>4. /\ DOMAIN sent' = DOMAIN sent \cup {t}
      /\ sent'[t].state = state /\ sent'[t].ball = ball
      /\ \A u \in DOMAIN sent \ {t} : sent'[u] = sent[u]
  BY <1>2 DEF Put
<1>5. ProcessTokens' = ProcessTokens
  BY <1>3 DEF ProcessTokens
<1>6. \A u \in DOMAIN sent : sent[u].state.frame \in 0 .. FrameSpace - 1
  <2> TAKE u \in DOMAIN sent
  <2>1. sent[u] \in [address : Address, ball : Ball, state : SentState]
    BY <1>1 DEF TypeOK
  <2>2. QED
    BY <2>1 DEF SentState
<1>7. \A u \in ProcessTokens \ cursor' :
        u \in DOMAIN sent' /\ sent'[u].state = state /\ sent'[u].ball = ball
  BY <1>2, <1>3, <1>4 DEF BroadcastInv
<1>8. \A u \in cursor' : IF u \in DOMAIN sent'
                         THEN Follows(state.frame, sent'[u].state.frame)
                         ELSE state.frame = 1
  BY <1>2, <1>3, <1>4 DEF BroadcastInv
<1>9. \A u \in cursor' : u \in DOMAIN sent' => sent'[u].state.frame # state.frame
  BY <1>2, <1>4, <1>6, <1>8, NextFrameDiffers
<1>10. DOMAIN sent' \subseteq ProcessTokens
  BY <1>3, <1>4 DEF BroadcastInv
<1>11. SameFrameSameState'
  <2> SUFFICES ASSUME NEW u \in DOMAIN sent', NEW v \in DOMAIN sent',
                      sent'[u].state.frame = sent'[v].state.frame
               PROVE  sent'[u].ball = sent'[v].ball /\ sent'[u].state = sent'[v].state
    BY DEF SameFrameSameState
  <2>1. CASE u \notin cursor' /\ v \notin cursor'
    BY <1>7, <1>10, <2>1
  <2>2. CASE u \in cursor' /\ v \in cursor'
    <3>1. u \in DOMAIN sent \ {t} /\ v \in DOMAIN sent \ {t}
      BY <1>2, <1>4, <2>2
    <3>2. QED
      BY <1>4, <3>1 DEF BroadcastInv, SameFrameSameState
  <2>3. CASE u \in cursor' /\ v \notin cursor'
    BY <1>7, <1>9, <1>10, <2>3
  <2>4. CASE u \notin cursor' /\ v \in cursor'
    BY <1>7, <1>9, <1>10, <2>4
  <2>5. QED
    BY <2>1, <2>2, <2>3, <2>4
<1>12. cursor' = {} => DOMAIN sent' = ProcessTokens /\ \A u \in DOMAIN sent' : sent'[u].state = state
  BY <1>7, <1>10
<1>13. BroadcastInv'
  BY <1>3, <1>5, <1>7, <1>8, <1>10, <1>11, <1>12 DEF BroadcastInv, Follows
<1>14. \A u \in DOMAIN sent' :
         IF u \in DOMAIN sent
         THEN sent'[u] # sent[u] => Follows(sent'[u].state.frame, sent[u].state.frame)
         ELSE sent'[u].state.frame = 1
  BY <1>3, <1>4 DEF BroadcastInv
<1>15. QED
  BY <1>13, <1>14

LEMMA BroadcastStep ==
  ASSUME IInv, BroadcastInv, [Next]_vars
  PROVE  BroadcastInv'
<1>1. TypeOK /\ SeatsInv
  BY DEF IInv
<1>2. CASE SendState
  BY <1>2, SendStateBroadcasts
<1>3. ASSUME UNCHANGED <<tokens, sent>> PROVE ProcessTokens' = ProcessTokens
  BY <1>3 DEF ProcessTokens
<1>4. ASSUME UNCHANGED <<tokens, sent, state>>,
             \/ game' = game /\ UNCHANGED <<ball, cursor>>
             \/ game \in {"off", "spawned"} /\ game' \in {"off", "spawned", "move"}
             \/ game \in {"move", "paddles", "not_up", "hit"}
                /\ game' \in {"move", "paddles", "not_up", "hit"}
      PROVE  BroadcastInv'
  BY <1>3, <1>4 DEF BroadcastInv, SameFrameSameState, Follows
<1>5. CASE Listener
  <2>1. ASSUME NEW t \in TokenSpace, NEW a \in Address, HandleJoin(t, a) PROVE BroadcastInv'
    <3>1. UNCHANGED <<tokens, sent, state>> /\ game = "off" /\ game' \in {"off", "spawned"}
      BY <1>1, <2>1 DEF HandleJoin, StartMatch, SeatsInv
    <3>2. QED
      BY <1>4, <3>1
  <2>2. QED
    BY <1>4, <1>5, <2>1 DEF Listener, HandlePrepare, HandleMovement, gameVars
<1>6. CASE EnterLoop \/ MoveBall \/ ScorePoint \/ TestUp \/ TestDown
  <2>1. /\ UNCHANGED <<tokens, sent, state>>
        /\ \/ game = "spawned" /\ game' = "move"
           \/ game \in {"move", "paddles", "not_up"} /\ game' \in {"paddles", "not_up", "hit"}
    BY <1>6 DEF EnterLoop, MoveBall, ScorePoint, TestUp, TestDown, FinishPaddle, matchVars
  <2>2. QED
    BY <1>4, <2>1
<1>7. CASE HitPaddle
  <2>1. /\ UNCHANGED <<tokens, sent>> /\ game = "hit" /\ game' = "copy_1"
        /\ state'.frame = (state.frame + 1) % FrameSpace
    BY <1>1, <1>7 DEF HitPaddle, matchVars, TypeOK, SentState
  <2>2. \A t \in DOMAIN sent : Follows(state'.frame, sent[t].state.frame)
    BY <2>1 DEF BroadcastInv, Follows
  <2>3. state.frame = 0 => state'.frame = 1
    <3>1. FrameSpace \in Nat /\ FrameSpace >= 2
      BY ServerAssumption
    <3>2. (0 + 1) % FrameSpace = 1
      BY <3>1
    <3>3. QED
      BY <2>1, <3>2
  <2>4. QED
    BY <1>3, <2>1, <2>2, <2>3 DEF BroadcastInv, SameFrameSameState, Follows
<1>8. CASE CopyFirst
  <2>1. /\ UNCHANGED <<tokens, sent>> /\ game = "copy_1" /\ game' = "copy_2"
        /\ state'.frame = state.frame
    BY <1>1, <1>8 DEF CopyFirst, matchVars, TypeOK, SentState
  <2>2. QED
    BY <1>3, <2>1 DEF BroadcastInv, SameFrameSameState, Follows
<1>9. CASE CopySecond
  <2>1. /\ UNCHANGED <<tokens, sent>> /\ game = "copy_2" /\ game' = "send"
        /\ state'.frame = state.frame /\ cursor' = ProcessTokens
    BY <1>1, <1>9 DEF CopySecond, matchVars, TypeOK, SentState, SeatsInv
  <2>2. \A t \in cursor' : IF t \in DOMAIN sent
                           THEN Follows(state'.frame, sent[t].state.frame)
                           ELSE state'.frame = 1
    BY <2>1 DEF BroadcastInv
  <2>3. QED
    BY <1>3, <2>1, <2>2 DEF BroadcastInv, SameFrameSameState, Follows
<1>10. CASE UNCHANGED vars
  BY <1>4, <1>10 DEF vars, matchVars, gameVars
<1>11. QED
  BY <1>2, <1>5, <1>6, <1>7, <1>8, <1>9, <1>10 DEF Next, GameThread

THEOREM BroadcastInvariance == Spec => []BroadcastInv
<1>1. IInv /\ BroadcastInv /\ [Next]_vars => BroadcastInv'
  BY BroadcastStep
<1>2. QED
  BY InitBroadcast, Invariance, <1>1, PTL DEF Spec

\* Both players see the same ball, paddles and scores in a frame, whatever
\* Movement arrives while it is being sent.
THEOREM SameFrameToBoth == Spec => []SameFrameSameState
<1>1. BroadcastInv => SameFrameSameState
  BY DEF BroadcastInv
<1>2. QED
  BY BroadcastInvariance, <1>1, PTL

\* No player is sent a frame twice, out of order, or misses one.
THEOREM EveryFrameInOrder == Spec => FramesInOrder
<1> DEFINE InOrder == \A t \in DOMAIN sent' :
                        IF t \in DOMAIN sent
                        THEN sent'[t] # sent[t] =>
                               sent'[t].state.frame = (sent[t].state.frame + 1) % FrameSpace
                        ELSE sent'[t].state.frame = 1
<1>1. IInv /\ BroadcastInv /\ [Next]_vars => [InOrder]_vars
  <2> SUFFICES ASSUME IInv, BroadcastInv, [Next]_vars PROVE InOrder
    OBVIOUS
  <2>1. CASE SendState
    BY <2>1, SendStateBroadcasts DEF Follows
  <2>2. CASE ~SendState
    <3>1. sent' = sent
      BY <2>2 DEF Next, Listener, GameThread, HandlePrepare, HandleJoin, HandleMovement, EnterLoop,
                  MoveBall, ScorePoint, TestUp, TestDown, HitPaddle, CopyFirst, CopySecond,
                  vars, gameVars
    <3>2. QED
      BY <3>1
  <2>3. QED
    BY <2>1, <2>2
<1>2. QED
  BY Invariance, BroadcastInvariance, <1>1, PTL DEF Spec, FramesInOrder

-----------------------------------------------------------------------------
(* The score. *)

ScoreInv == game = "off" => \A t \in DOMAIN clients : clients[t].score = 0

\* What one step does to the scores.
OnePoint ==
  /\ Scorers # {} <=> game = "move" /\ game' = "paddles" /\ BallIsOut
  /\ Scorers # {} =>
       \E t \in ProcessTokens :
         /\ Scorers = {t}
         /\ clients'[t].score = (clients[t].score + 1) % ScoreSpace
         /\ MovedBall.x < 0 => t = tokens.token_2
         /\ MovedBall.x >= Field => t = tokens.token_1
         /\ ball' = [x |-> HalfField, y |-> HalfField]

\* Every step but ScorePoint keeps every score.
LEMMA OthersKeepScores ==
  ASSUME IInv, ScoreInv, [Next]_vars, ~ScorePoint
  PROVE  /\ \A t : Entry(t)'.score = Entry(t).score
         /\ ~(game = "move" /\ game' = "paddles" /\ BallIsOut)
         /\ ScoreInv'
<1>1. TypeOK /\ SeatsInv
  BY DEF IInv
<1>2. ASSUME DOMAIN clients' = DOMAIN clients,
             \A t \in DOMAIN clients : clients'[t].score = clients[t].score,
             game' = "off" => game = "off"
      PROVE  ScoreInv' /\ \A t : Entry(t)'.score = Entry(t).score
  BY <1>2 DEF ScoreInv, Entry
<1>3. CASE Listener
  <2>1. ASSUME NEW t \in TokenSpace, NEW a \in Address, HandleJoin(t, a)
        PROVE  game = "off" /\ ScoreInv' /\ \A u : Entry(u)'.score = Entry(u).score
    <3>1. game = "off" /\ clients' = Put(clients, t, NewPlayer(GetPlayerIdByToken(t)))
      BY <1>1, <2>1 DEF HandleJoin, Store, SeatsInv
    <3>2. \A id : NewPlayer(id).score = 0
      BY DEF NewPlayer
    <3>3. \A u \in DOMAIN clients' : clients'[u].score = 0
      BY <3>1, <3>2 DEF ScoreInv, Put
    <3>4. \A u : Entry(u).score = 0 /\ Entry(u)'.score = 0
      BY <3>1, <3>2, <3>3 DEF ScoreInv, Entry
    <3>5. QED
      BY <3>1, <3>3, <3>4 DEF ScoreInv
  <2>2. ASSUME NEW t \in TokenSpace, NEW d \in Moves, HandleMovement(t, d)
        PROVE  game' = game /\ ScoreInv' /\ \A u : Entry(u)'.score = Entry(u).score
    <3>1. t \in DOMAIN clients /\ game' = game
      BY <1>1, <2>2 DEF HandleMovement, SeatsInv, gameVars
    <3>2. clients[t] \in Player
      BY <1>1, <3>1 DEF TypeOK
    <3>3. [Entry(t) EXCEPT !.paddle_direction = d].score = clients[t].score
      BY <3>1, <3>2 DEF Entry, Player
    <3>4. /\ DOMAIN clients' = DOMAIN clients
          /\ \A u \in DOMAIN clients : clients'[u].score = clients[u].score
      BY <2>2, <3>1, <3>3, StoreKnown DEF HandleMovement
    <3>5. QED
      BY <1>2, <3>1, <3>4
  <2>3. ASSUME NEW a \in Address, HandlePrepare(a)
        PROVE  game' = game /\ ScoreInv' /\ \A u : Entry(u)'.score = Entry(u).score
    <3>1. game' = game /\ clients' = clients
      BY <2>3 DEF HandlePrepare, gameVars
    <3>2. QED
      BY <1>2, <3>1
  <2>4. QED
    BY <1>3, <2>1, <2>2, <2>3 DEF Listener
<1>4. ASSUME NEW t \in NextInLoop, NEW d \in Direction, FinishPaddle(t, d)
      PROVE  /\ DOMAIN clients' = DOMAIN clients
             /\ \A u \in DOMAIN clients : clients'[u].score = clients[u].score
  <2>1. t \in DOMAIN clients
    BY <1>1 DEF NextInLoop, SeatsInv
  <2>2. clients[t] \in Player
    BY <1>1, <2>1 DEF TypeOK
  <2>3. [clients[t] EXCEPT !.paddle_location = MovedPaddle(@, d)].score = clients[t].score
    BY <2>2 DEF Player
  <2>4. QED
    BY <1>4, <2>1, <2>3 DEF FinishPaddle
<1>5. CASE TestUp \/ TestDown
  <2>1. /\ DOMAIN clients' = DOMAIN clients
        /\ \A u \in DOMAIN clients : clients'[u].score = clients[u].score
    BY <1>4, <1>5 DEF TestUp, TestDown, Direction
  <2>2. game \in {"paddles", "not_up"} /\ game' # "off"
    BY <1>5 DEF TestUp, TestDown, FinishPaddle
  <2>3. QED
    BY <1>2, <2>1, <2>2
<1>6. CASE EnterLoop \/ MoveBall \/ HitPaddle \/ CopyFirst \/ CopySecond \/ SendState
  <2>1. clients' = clients /\ game' # "off"
    BY <1>6 DEF EnterLoop, MoveBall, HitPaddle, CopyFirst, CopySecond, SendState, matchVars
  <2>2. ~(game = "move" /\ game' = "paddles" /\ BallIsOut)
    BY <1>6 DEF EnterLoop, MoveBall, HitPaddle, CopyFirst, CopySecond, SendState
  <2>3. QED
    BY <1>2, <2>1, <2>2
<1>7. CASE UNCHANGED vars
  <2>1. clients' = clients /\ game' = game
    BY <1>7 DEF vars, matchVars, gameVars
  <2>2. QED
    BY <1>2, <2>1
<1>8. QED
  BY <1>3, <1>5, <1>6, <1>7 DEF Next, GameThread

LEMMA ScorePointScores ==
  ASSUME IInv, ScorePoint
  PROVE  OnePoint /\ ScoreInv'
<1>1. TypeOK /\ SeatsInv
  BY DEF IInv
<1> DEFINE id == IF MovedBall.x < 0 THEN "PLAYER_2" ELSE "PLAYER_1"
           t == IF id = "PLAYER_1" THEN tokens.token_1 ELSE tokens.token_2
<1>2. /\ phase = "STARTED" /\ game = "move" /\ game' = "paddles" /\ BallIsOut
      /\ ball' = [x |-> HalfField, y |-> HalfField]
  BY DEF ScorePoint, ResetBall
<1>3. DOMAIN clients = ProcessTokens /\ t \in ProcessTokens
  BY <1>1, <1>2 DEF SeatsInv, ProcessTokens
<1>4. TokensByPlayerId(id) = {t}
  BY <1>2, FoundByIdentifier DEF Identifier
<1>5. Store(t, [clients[t] EXCEPT !.score = (@ + 1) % ScoreSpace])
  <2>1. Store(t, [Entry(t) EXCEPT !.score = (@ + 1) % ScoreSpace])
    BY <1>4 DEF ScorePoint
  <2>2. QED
    BY <1>3, <2>1 DEF Entry
<1>6. clients[t] \in Player /\ clients[t].score \in 0 .. ScoreSpace - 1
  <2>1. clients[t] \in Player
    BY <1>1, <1>3 DEF TypeOK
  <2>2. QED
    BY <2>1 DEF Player
<1> HIDE DEF t
<1>7. /\ DOMAIN clients' = ProcessTokens
      /\ clients'[t].score = (clients[t].score + 1) % ScoreSpace
      /\ \A u \in ProcessTokens \ {t} : clients'[u] = clients[u]
  <2>1. [clients[t] EXCEPT !.score = (@ + 1) % ScoreSpace].score = (clients[t].score + 1) % ScoreSpace
    BY <1>6 DEF Player
  <2>2. QED
    BY <1>3, <1>5, <2>1, StoreKnown
<1>8. clients'[t].score # clients[t].score
  <2>1. ScoreSpace \in Nat /\ ScoreSpace >= 2
    BY ServerAssumption
  <2>2. CASE clients[t].score + 1 = ScoreSpace
    BY <1>6, <1>7, <2>1, <2>2
  <2>3. CASE clients[t].score + 1 # ScoreSpace
    BY <1>6, <1>7, <2>1, <2>3
  <2>4. QED
    BY <2>2, <2>3
<1>9. Scorers = {t}
  <2>1. \A u \in ProcessTokens : Entry(u) = clients[u] /\ Entry(u)' = clients'[u]
    BY <1>3, <1>7 DEF Entry
  <2>2. QED
    BY <1>3, <1>7, <1>8, <2>1 DEF Scorers
<1>10. /\ MovedBall.x < 0 => t = tokens.token_2
       /\ MovedBall.x >= Field => t = tokens.token_1
  <2>1. MovedBall.x \in Int
    BY <1>1 DEF TypeOK, Ball, MovedBall, Field
  <2>2. Field > 0
    BY GeometryAssumption DEF Field
  <2>3. QED
    BY <2>1, <2>2, GeometryAssumption DEF t, Field
<1>11. QED
  BY <1>2, <1>3, <1>7, <1>9, <1>10 DEF OnePoint, ScoreInv

\* A goal is worth one point to the player on the other side, and nothing else
\* ever changes a score.
THEOREM GoalsScoreOnce == Spec => OnePointPerGoal
<1>1. Init => ScoreInv
  BY DEF Init, ScoreInv
<1>2. IInv /\ ScoreInv /\ [Next]_vars => ScoreInv'
  BY OthersKeepScores, ScorePointScores
<1>3. Spec => []ScoreInv
  BY <1>1, <1>2, Invariance, PTL DEF Spec
<1>4. IInv /\ ScoreInv /\ [Next]_vars => [OnePoint]_vars
  <2> SUFFICES ASSUME IInv, ScoreInv, [Next]_vars PROVE OnePoint
    OBVIOUS
  <2>1. CASE ScorePoint
    BY <2>1, ScorePointScores
  <2>2. CASE ~ScorePoint
    <3>1. Scorers = {}
      BY <2>2, OthersKeepScores DEF Scorers
    <3>2. QED
      BY <2>2, <3>1, OthersKeepScores DEF OnePoint
  <2>3. QED
    BY <2>1, <2>2
<1>5. Spec => [][OnePoint]_vars
  BY Invariance, <1>3, <1>4, PTL DEF Spec
<1>6. QED
  BY <1>5 DEF OnePointPerGoal, OnePoint

-----------------------------------------------------------------------------
(* Progress.  What the game thread does next is bounded by numbers that    *)
(* only it changes: the part of the liveness properties that does not      *)
(* depend on fairness, for every field, ball and paddle.                   *)

\* The steps the game thread takes at most until it is at the top of its loop.
StepsLeft ==
  CASE game \in {"off", "spawned"} -> 10
    [] game = "move"    -> 0
    [] game = "paddles" -> 5 + 2 * Cardinality(cursor)
    [] game = "not_up"  -> 4 + 2 * Cardinality(cursor)
    [] game = "hit"     -> 5
    [] game = "copy_1"  -> 4
    [] game = "copy_2"  -> 3
    [] game = "send"    -> Cardinality(cursor)

\* How far the ball is from the goal it flies towards.
Ahead == IF MovingLeft THEN ball.x ELSE Field - ball.x

\* The steps the game thread takes at most until the ball is hit or out.
FlightLeft == 10 * Ahead + StepsLeft

\* The loops over clients have a player left whenever they look for one, and a
\* ball that was served is never slower than at its serve.
WorkInv ==
  /\ game \in {"paddles", "not_up", "send"} => cursor # {}
  /\ game \notin {"off", "spawned"} => Abs(ball_velocity[1]) >= Step

\* The two players' keys, or some of them: a small number.
LEMMA CursorSize ==
  ASSUME IInv
  PROVE  /\ IsFiniteSet(cursor) /\ Cardinality(cursor) \in 0 .. 2
         /\ cursor # {} => Cardinality(cursor) \in 1 .. 2
         /\ \A t \in cursor : /\ Cardinality(cursor \ {t}) \in Nat
                              /\ Cardinality(cursor \ {t}) = Cardinality(cursor) - 1
<1>1. cursor \subseteq {tokens.token_1, tokens.token_2} /\ tokens.token_1 # tokens.token_2
  BY DEF IInv, SeatsInv, ProcessTokens
<1>2. IsFiniteSet({tokens.token_1, tokens.token_2}) /\ Cardinality({tokens.token_1, tokens.token_2}) = 2
  <2>1. IsFiniteSet({tokens.token_1}) /\ Cardinality({tokens.token_1}) = 1
    BY FS_Singleton
  <2>2. {tokens.token_1} \cup {tokens.token_2} = {tokens.token_1, tokens.token_2}
    OBVIOUS
  <2>3. QED
    BY <1>1, <2>1, <2>2, FS_AddElement
<1>3. IsFiniteSet(cursor) /\ Cardinality(cursor) <= 2 /\ Cardinality(cursor) \in Nat
  BY <1>1, <1>2, FS_Subset, FS_CardinalityType
<1>4. cursor # {} => Cardinality(cursor) # 0
  BY <1>3, FS_EmptySet
<1>5. \A t \in cursor : /\ Cardinality(cursor \ {t}) \in Nat
                        /\ Cardinality(cursor \ {t}) = Cardinality(cursor) - 1
  BY <1>3, FS_RemoveElement, FS_CardinalityType
<1>6. QED
  BY <1>3, <1>4, <1>5

\* All the keys are two.
LEMMA BothPlayers ==
  ASSUME IInv, phase = "STARTED"
  PROVE  DOMAIN clients # {} /\ Cardinality(DOMAIN clients) = 2
<1>1. DOMAIN clients = {tokens.token_1, tokens.token_2} /\ tokens.token_1 # tokens.token_2
  BY DEF IInv, SeatsInv, ProcessTokens
<1>2. Cardinality({tokens.token_1}) = 1 /\ IsFiniteSet({tokens.token_1})
  BY FS_Singleton
<1>3. {tokens.token_1} \cup {tokens.token_2} = {tokens.token_1, tokens.token_2}
  OBVIOUS
<1>4. QED
  BY <1>1, <1>2, <1>3, FS_AddElement

\* A paddle that has been looked at is out of the loop, which goes on as long
\* as there is another.
LEMMA PaddleLeaves ==
  ASSUME IInv, NEW t \in NextInLoop, NEW d, FinishPaddle(t, d)
  PROVE  /\ t \in cursor /\ cursor' = cursor \ {t}
         /\ game' = IF cursor' = {} THEN "hit" ELSE "paddles"
         /\ Cardinality(cursor') \in Nat /\ Cardinality(cursor') = Cardinality(cursor) - 1
<1>1. t \in cursor /\ cursor' = cursor \ {t} /\ game' = IF cursor' = {} THEN "hit" ELSE "paddles"
  BY DEF FinishPaddle, NextInLoop
<1>2. QED
  BY <1>1, CursorSize

\* The rebound keeps at least the speed, in the other direction.
LEMMA ReboundKeepsSpeed ==
  ASSUME IInv, HitPaddle, Abs(ball_velocity[1]) >= Step
  PROVE  Abs(ball_velocity'[1]) >= Step
<1>1. ball_velocity[1] \in Int /\ Step \in Nat /\ Abs(ball_velocity[1]) \in Nat
  BY GeometryAssumption DEF IInv, TypeOK, Abs
<1>2. CASE UNCHANGED ball_velocity
  BY <1>2
<1>3. ASSUME NEW s \in ReboundSpeeds(Abs(ball_velocity[1]), EdgeOffset(ball.y, PaddleY)),
             ball_velocity' = <<IF MovingLeft THEN s ELSE -s, ball_velocity[2]>>
      PROVE  Abs(ball_velocity'[1]) >= Step
  <2>1. s \in Int /\ Abs(ball_velocity[1]) <= s
    BY <1>1 DEF ReboundSpeeds
  <2>2. ball_velocity'[1] = s \/ ball_velocity'[1] = -s
    BY <1>3
  <2>3. s >= Step
    BY <1>1, <2>1
  <2>4. QED
    BY <1>1, <2>1, <2>2, <2>3 DEF Abs
<1>4. QED
  BY <1>2, <1>3 DEF HitPaddle

\* Every step leaves the loops their work and the ball its speed.
LEMMA WorkStep ==
  ASSUME IInv, WorkInv, [Next]_vars
  PROVE  WorkInv'
<1> USE DEF WorkInv
<1>1. CASE Listener
  <2>1. ASSUME NEW t \in TokenSpace, NEW a \in Address, HandleJoin(t, a)
        PROVE  game' \in {"off", "spawned"}
    BY <2>1 DEF HandleJoin, StartMatch, IInv, SeatsInv
  <2>2. ASSUME NEW t \in TokenSpace, NEW a \in Address, HandleJoin(t, a)
        PROVE  WorkInv'
    BY <2>1, <2>2
  <2>3. QED
    BY <1>1, <2>2 DEF Listener, HandlePrepare, HandleMovement, gameVars
<1>2. CASE EnterLoop \/ ScorePoint
  <2>1. ball_velocity'[1] \in {-Step, Step}
    BY <1>2 DEF EnterLoop, ScorePoint, ResetBall
  <2>2. Abs(ball_velocity'[1]) >= Step
    BY <2>1, GeometryAssumption DEF Abs
  <2>3. game' \in {"paddles", "not_up", "send"} => cursor' # {}
    <3>1. CASE EnterLoop
      BY <3>1 DEF EnterLoop
    <3>2. CASE ScorePoint
      <4>1. phase' = "STARTED" /\ cursor' = DOMAIN clients'
        BY <3>2 DEF ScorePoint
      <4>2. IInv'
        BY TypeStep, SeatsStep, BallStep DEF IInv
      <4>3. DOMAIN clients' = {tokens.token_1', tokens.token_2'}
        BY <4>1, <4>2 DEF IInv, SeatsInv, ProcessTokens
      <4>4. QED
        BY <4>1, <4>3
    <3>3. QED
      BY <1>2, <3>1, <3>2
  <2>4. QED
    BY <2>2, <2>3
<1>3. CASE MoveBall
  <2>1. ball_velocity'[1] = ball_velocity[1] /\ game = "move" /\ cursor' = DOMAIN clients /\ phase = "STARTED"
    BY <1>3 DEF MoveBall
  <2>2. QED
    BY <2>1, BothPlayers
<1>4. CASE TestUp \/ TestDown
  <2>1. UNCHANGED ball_velocity /\ game \notin {"off", "spawned"}
    BY <1>4 DEF TestUp, TestDown
  <2>2. game' \in {"paddles", "not_up", "send"} => cursor' # {}
    BY <1>4 DEF TestUp, TestDown, FinishPaddle
  <2>3. QED
    BY <2>1, <2>2
<1>5. CASE HitPaddle
  <2>1. game = "hit" /\ game' = "copy_1"
    BY <1>5 DEF HitPaddle
  <2>2. QED
    BY <1>5, <2>1, ReboundKeepsSpeed
<1>6. CASE CopyFirst
  BY <1>6 DEF CopyFirst
<1>7. CASE CopySecond
  <2>1. game = "copy_2" /\ cursor' = DOMAIN clients /\ UNCHANGED ball_velocity
    BY <1>7 DEF CopySecond
  <2>2. phase = "STARTED"
    BY <2>1 DEF IInv, SeatsInv, TypeOK, Phase
  <2>3. QED
    BY <2>1, <2>2, BothPlayers
<1>8. CASE SendState
  BY <1>8 DEF SendState
<1>9. CASE UNCHANGED vars
  BY <1>9 DEF vars, gameVars
<1>10. QED
  BY <1>1, <1>2, <1>3, <1>4, <1>5, <1>6, <1>7, <1>8, <1>9 DEF Next, GameThread

\* The invariant holds from the start.
LEMMA WorkInvariance == Spec => []WorkInv
<1>1. Init => WorkInv
  BY DEF Init, WorkInv
<1>2. IInv /\ WorkInv /\ [Next]_vars => WorkInv'
  BY WorkStep
<1>3. QED
  BY <1>1, <1>2, Invariance, PTL DEF Spec

\* The steps left are few.
LEMMA StepsBounded ==
  ASSUME IInv
  PROVE  StepsLeft \in 0 .. 10
<1>1. game \in {"off", "spawned", "move", "paddles", "not_up", "hit", "copy_1", "copy_2", "send"}
  BY DEF IInv, TypeOK
<1>2. Cardinality(cursor) \in 0 .. 2
  BY CursorSize
<1>3. 5 + 2 * Cardinality(cursor) \in 0 .. 10 /\ 4 + 2 * Cardinality(cursor) \in 0 .. 10
  BY <1>2
<1>4. QED
  BY <1>1, <1>2, <1>3 DEF StepsLeft

\* Each step of the game thread but the one at the top leaves fewer.
LEMMA StepsFewer ==
  ASSUME IInv, WorkInv, GameThread, game # "move"
  PROVE  StepsLeft' < StepsLeft
<1>1. Cardinality(cursor) \in 0 .. 2 /\ (cursor # {} => Cardinality(cursor) \in 1 .. 2)
  BY CursorSize
<1>2. CASE EnterLoop
  BY <1>2 DEF EnterLoop, StepsLeft
<1>3. ASSUME NEW t \in NextInLoop, NEW d, FinishPaddle(t, d), game \in {"paddles", "not_up"}
      PROVE  StepsLeft' < StepsLeft
  <2>1. /\ game' = IF cursor' = {} THEN "hit" ELSE "paddles"
        /\ Cardinality(cursor') \in Nat /\ Cardinality(cursor') = Cardinality(cursor) - 1
    BY <1>3, PaddleLeaves
  <2> DEFINE n == Cardinality(cursor)
             next == Cardinality(cursor')
  <2>2. next = n - 1 /\ next \in Nat /\ n \in 1 .. 2
    BY <1>1, <2>1
  <2>3. StepsLeft >= 4 + 2 * n /\ StepsLeft \in Int
    <3>1. StepsLeft = 5 + 2 * n \/ StepsLeft = 4 + 2 * n
      BY <1>3 DEF StepsLeft
    <3> HIDE DEF n
    <3>2. QED
      BY <2>2, <3>1
  <2>4. StepsLeft' = 5 \/ StepsLeft' = 5 + 2 * next
    BY <2>1 DEF StepsLeft
  <2> HIDE DEF n, next
  <2>5. QED
    BY <2>2, <2>3, <2>4
<1>4. CASE TestUp
  <2>1. CASE \E t \in NextInLoop : FinishPaddle(t, "UP")
    BY <1>3, <1>4, <2>1 DEF TestUp
  <2>2. CASE game' = "not_up" /\ UNCHANGED cursor
    <3>1. game = "paddles"
      BY <1>4 DEF TestUp
    <3> DEFINE n == Cardinality(cursor)
    <3>2. n \in 0 .. 2 /\ StepsLeft = 5 + 2 * n /\ StepsLeft' = 4 + 2 * n
      BY <1>1, <2>2, <3>1 DEF StepsLeft
    <3> HIDE DEF n
    <3>3. QED
      BY <3>2
  <2>3. QED
    BY <1>4, <2>1, <2>2 DEF TestUp
<1>5. CASE TestDown
  BY <1>3, <1>5 DEF TestDown
<1>6. CASE HitPaddle
  BY <1>6 DEF HitPaddle, StepsLeft
<1>7. CASE CopyFirst
  BY <1>7 DEF CopyFirst, StepsLeft
<1>8. CASE CopySecond
  <2>1. game = "copy_2" /\ game' = "send" /\ cursor' = DOMAIN clients
    BY <1>8 DEF CopySecond
  <2>2. phase = "STARTED"
    BY <2>1 DEF IInv, SeatsInv, TypeOK, Phase
  <2>3. StepsLeft' = 2 /\ StepsLeft = 3
    BY <2>1, <2>2, BothPlayers DEF StepsLeft
  <2>4. QED
    BY <2>3
<1>9. CASE SendState
  <2>1. PICK t \in NextInLoop : cursor' = cursor \ {t}
    BY <1>9 DEF SendState
  <2>2. game = "send" /\ game' = (IF cursor' = {} THEN "move" ELSE "send") /\ t \in cursor
    BY <1>9, <2>1 DEF SendState, NextInLoop
  <2> DEFINE n == Cardinality(cursor)
             next == Cardinality(cursor')
  <2>3. next = n - 1 /\ next \in Nat /\ n \in 1 .. 2
    BY <1>1, <2>1, <2>2, CursorSize
  <2>4. StepsLeft = n /\ (StepsLeft' = 0 \/ StepsLeft' = next)
    BY <2>2 DEF StepsLeft
  <2> HIDE DEF n, next
  <2>5. QED
    BY <2>3, <2>4
<1>10. QED
  BY <1>2, <1>4, <1>5, <1>6, <1>7, <1>8, <1>9 DEF GameThread, MoveBall, ScorePoint

\* The listener does not touch what the game thread counts down.
LEMMA ListenerLeavesGame ==
  ASSUME IInv, [Next]_vars, ~GameThread, game # "off"
  PROVE  UNCHANGED gameVars
BY DEF Next, Listener, HandlePrepare, HandleJoin, HandleMovement, IInv, SeatsInv, vars

\* No flood of datagrams holds the broadcast up: from wherever it is the game
\* thread is back at the top of its loop, with the frame sent to both players,
\* after at most ten steps of its own, and the listener's handlers leave
\* everything alone that these steps depend on.
THEOREM FramesAreFinished ==
  Spec => /\ [](StepsLeft \in 0 .. 10)
          /\ [][ /\ GameThread => game = "move" \/ StepsLeft' < StepsLeft
                 /\ ~GameThread /\ game # "off" => UNCHANGED gameVars ]_vars
<1>1. IInv => StepsLeft \in 0 .. 10
  BY StepsBounded
<1>2. IInv /\ WorkInv /\ [Next]_vars
        => [ /\ GameThread => game = "move" \/ StepsLeft' < StepsLeft
             /\ ~GameThread /\ game # "off" => UNCHANGED gameVars ]_vars
  BY StepsFewer, ListenerLeavesGame
<1>3. QED
  BY Invariance, WorkInvariance, <1>1, <1>2, PTL DEF Spec

\* The goal ahead is in the field.
LEMMA AheadBounded ==
  ASSUME IInv
  PROVE  Ahead \in 1 .. Field /\ Ahead \in Nat
<1>1. ball.x \in Int /\ 0 < ball.x /\ ball.x < Field /\ Field \in Nat
  BY GeometryAssumption DEF IInv, TypeOK, Ball, BallInv, BallInField, Field
<1>2. QED
  BY <1>1 DEF Ahead

\* A ball that stays in play is nearer to its goal after each frame.
LEMMA BallApproaches ==
  ASSUME IInv, WorkInv, MoveBall
  PROVE  Ahead' < Ahead
<1>1. /\ ball.x \in Int /\ ball_velocity[1] \in Int /\ Field \in Nat /\ Step \in Nat /\ Step > 0
  BY GeometryAssumption DEF IInv, TypeOK, Ball, Field
<1>2. ball'.x = ball.x + ball_velocity[1] /\ ball_velocity'[1] = ball_velocity[1]
  BY DEF MoveBall, MovedBall
<1>3. Abs(ball_velocity[1]) >= Step
  BY DEF MoveBall, WorkInv
<1>4. IF ball_velocity[1] < 0 THEN ball_velocity[1] <= -1 ELSE ball_velocity[1] >= 1
  BY <1>1, <1>3 DEF Abs
<1>5. MovingLeft' <=> MovingLeft
  BY <1>2 DEF MovingLeft
<1>6. Ahead' = IF ball_velocity[1] < 0 THEN ball.x + ball_velocity[1] ELSE Field - (ball.x + ball_velocity[1])
  BY <1>2, <1>5 DEF Ahead, MovingLeft
<1>7. Ahead = IF ball_velocity[1] < 0 THEN ball.x ELSE Field - ball.x
  BY DEF Ahead, MovingLeft
<1>8. QED
  BY <1>1, <1>4, <1>6, <1>7

\* Each step of the game thread brings the ball nearer to a goal or a paddle,
\* unless it is there or is served.
LEMMA FlightShorter ==
  ASSUME IInv, WorkInv, GameThread, StepsLeft' \in Nat, Ahead' \in Nat,
         game # "spawned", ~(game = "move" /\ BallIsOut), ~(game = "hit" /\ PaddleHit)
  PROVE  FlightLeft' < FlightLeft
<1>1. /\ StepsLeft \in 0 .. 10 /\ Ahead \in Nat
  BY StepsBounded, AheadBounded
<1> DEFINE a == Ahead
           s == StepsLeft
           nextA == Ahead'
           nextS == StepsLeft'
<1>2. /\ FlightLeft = 10 * a + s /\ FlightLeft' = 10 * nextA + nextS
      /\ a \in Nat /\ s \in Nat /\ nextA \in Nat /\ nextS \in Nat
  BY <1>1 DEF FlightLeft
<1>3. CASE MoveBall
  <2>1. Ahead' < Ahead
    BY <1>3, BallApproaches
  <2>2. StepsLeft = 0 /\ StepsLeft' = 9
    <3>1. game = "move" /\ game' = "paddles" /\ cursor' = DOMAIN clients /\ phase = "STARTED"
      BY <1>3 DEF MoveBall
    <3>2. Cardinality(cursor') = 2
      BY <3>1, BothPlayers
    <3>3. QED
      BY <3>1, <3>2 DEF StepsLeft
  <2>3. nextA < a /\ s = 0 /\ nextS = 9
    BY <2>1, <2>2
  <2> HIDE DEF a, s, nextA, nextS
  <2>4. QED
    BY <1>2, <2>3
<1>4. CASE ~MoveBall
  <2>1. game # "move" /\ UNCHANGED ball /\ ball_velocity'[1] = ball_velocity[1]
    BY <1>4 DEF GameThread, EnterLoop, ScorePoint, TestUp, TestDown, HitPaddle, CopyFirst, CopySecond,
                SendState
  <2>2. Ahead' = Ahead
    BY <2>1 DEF Ahead, MovingLeft
  <2>3. StepsLeft' < StepsLeft
    BY <2>1, StepsFewer
  <2>4. nextA = a /\ nextS < s
    BY <2>2, <2>3
  <2> HIDE DEF a, s, nextA, nextS
  <2>5. QED
    BY <1>2, <2>4
<1>5. QED
  BY <1>3, <1>4

\* The ball never hovers: every step of the game thread lowers the number of
\* steps that are left until the ball is in a goal or on a paddle, but for the
\* steps that serve it, score it or hit it.  How fast it flies is not bounded.
THEOREM BallArrives ==
  Spec => /\ [](FlightLeft \in Nat)
          /\ [][ GameThread => \/ FlightLeft' < FlightLeft
                               \/ game = "spawned"
                               \/ game = "move" /\ BallIsOut
                               \/ game = "hit" /\ PaddleHit ]_vars
<1> DEFINE Numbers == StepsLeft \in Nat /\ Ahead \in Nat
<1>0. IInv => Numbers
  BY StepsBounded, AheadBounded
<1>1. Numbers => FlightLeft \in Nat
  BY DEF FlightLeft
<1>2. IInv /\ WorkInv /\ Numbers' /\ [Next]_vars
        => [ GameThread => \/ FlightLeft' < FlightLeft
                           \/ game = "spawned"
                           \/ game = "move" /\ BallIsOut
                           \/ game = "hit" /\ PaddleHit ]_vars
  BY FlightShorter
<1>3. QED
  BY Invariance, WorkInvariance, <1>0, <1>1, <1>2, PTL DEF Spec

-----------------------------------------------------------------------------
(* A held paddle.                                                          *)

\* A player holds a direction.
Holds(t, d) == game # "off" /\ t \in ProcessTokens /\ Entry(t).paddle_direction = d

\* How far the paddle is from the end of the field it is held towards.
Gap(t, d) == IF d = "UP" THEN Entry(t).paddle_location ELSE Field - Entry(t).paddle_location

\* The steps the game thread takes at most until it has visited this paddle.
VisitLeft(t) ==
  IF game \in {"paddles", "not_up"} /\ t \in cursor
  THEN IF game = "paddles" THEN 2 * Cardinality(cursor) ELSE 2 * Cardinality(cursor) - 1
  ELSE StepsLeft + 5

\* The steps it takes at most until the paddle is at the end.
HeldLeft(t, d) == 16 * Gap(t, d) + VisitLeft(t)

\* The paddle is between its two tests, so that UP comes too late for the first.
BetweenTests(t) == game = "not_up" /\ t \in NextInLoop

\* While the game runs, a player's entry is in the map.
LEMMA EntryFound ==
  ASSUME IInv, game # "off", NEW t \in ProcessTokens
  PROVE  /\ phase = "STARTED" /\ DOMAIN clients = ProcessTokens
         /\ Entry(t) = clients[t] /\ clients[t] \in Player
         /\ Entry(t).paddle_location \in 0 .. Field
<1>1. phase = "STARTED" /\ DOMAIN clients = ProcessTokens
  BY DEF IInv, SeatsInv
<1>2. Entry(t) = clients[t] /\ clients[t] \in Player
  BY <1>1 DEF Entry, IInv, TypeOK
<1>3. QED
  BY <1>1, <1>2 DEF Player

\* A visit with the held direction brings the paddle nearer to its end, and a
\* visit with none leaves it where it is.
LEMMA PaddleCloses ==
  ASSUME NEW l \in 0 .. Field
  PROVE  /\ MovedPaddle(l, "STOP") = l
         /\ MovedPaddle(l, "UP") <= l /\ (l # 0 => MovedPaddle(l, "UP") < l)
         /\ MovedPaddle(l, "DOWN") >= l /\ (l # Field => MovedPaddle(l, "DOWN") > l)
BY GeometryAssumption DEF MovedPaddle, Clamp, Larger, Smaller, Field

\* The paddle loop moves the paddle it visits and no other.
LEMMA FinishMovesOne ==
  ASSUME IInv, game # "off", NEW u \in NextInLoop, NEW e, FinishPaddle(u, e), UNCHANGED tokens,
         NEW t \in ProcessTokens
  PROVE  Entry(t)'.paddle_location = IF t = u THEN MovedPaddle(Entry(t).paddle_location, e)
                                              ELSE Entry(t).paddle_location
<1>1. /\ DOMAIN clients = ProcessTokens /\ Entry(t) = clients[t] /\ clients[t] \in Player
  BY EntryFound
<1>2. /\ DOMAIN clients' = ProcessTokens
      /\ clients' = [clients EXCEPT ![u].paddle_location = MovedPaddle(@, e)]
  BY <1>1 DEF FinishPaddle
<1>3. Entry(t)' = clients'[t]
  BY <1>2 DEF Entry, ProcessTokens
<1>4. CASE t = u
  <2>1. clients'[t] = [clients[t] EXCEPT !.paddle_location = MovedPaddle(@, e)]
    BY <1>1, <1>2, <1>4
  <2>2. clients'[t].paddle_location = MovedPaddle(clients[t].paddle_location, e)
    BY <1>1, <2>1 DEF Player
  <2>3. QED
    BY <1>1, <1>3, <1>4, <2>2
<1>5. CASE t # u
  BY <1>1, <1>2, <1>3, <1>5
<1>6. QED
  BY <1>4, <1>5

\* Nothing but the paddle loop moves a paddle.
LEMMA OthersKeepLocation ==
  ASSUME IInv, [Next]_vars, game # "off", ~TestUp, ~TestDown, NEW t \in ProcessTokens
  PROVE  Entry(t)'.paddle_location = Entry(t).paddle_location
<1>1. /\ phase = "STARTED" /\ DOMAIN clients = ProcessTokens
      /\ Entry(t) = clients[t]
  BY EntryFound
<1>2. ASSUME clients' = clients, tokens' = tokens
      PROVE  Entry(t)'.paddle_location = Entry(t).paddle_location
  BY <1>2 DEF Entry
<1>3. ASSUME NEW u \in ProcessTokens, NEW p, Store(u, p), p.paddle_location = clients[u].paddle_location
      PROVE  Entry(t)'.paddle_location = Entry(t).paddle_location
  <2>1. /\ DOMAIN clients' = DOMAIN clients /\ clients'[u] = p
        /\ \A x \in DOMAIN clients \ {u} : clients'[x] = clients[x]
    BY <1>1, <1>3, StoreKnown
  <2>2. Entry(t)' = clients'[t]
    BY <1>1, <2>1 DEF Entry
  <2>3. QED
    BY <1>1, <1>3, <2>1, <2>2
<1>4. ASSUME NEW u \in TokenSpace, NEW d \in Moves, HandleMovement(u, d)
      PROVE  Entry(t)'.paddle_location = Entry(t).paddle_location
  <2>1. u \in ProcessTokens /\ Store(u, [Entry(u) EXCEPT !.paddle_direction = d])
    BY <1>4 DEF HandleMovement
  <2>2. Entry(u) = clients[u] /\ clients[u] \in Player
    BY <2>1, EntryFound
  <2>3. [Entry(u) EXCEPT !.paddle_direction = d].paddle_location = clients[u].paddle_location
    BY <2>2 DEF Player
  <2>4. QED
    BY <1>3, <2>1, <2>3
<1>5. CASE Listener
  <2>1. ~\E u \in TokenSpace, a \in Address : HandleJoin(u, a)
    BY <1>1 DEF HandleJoin
  <2>2. ~\E a \in Address : HandlePrepare(a)
    BY <1>1 DEF HandlePrepare
  <2>3. QED
    BY <1>4, <1>5, <2>1, <2>2 DEF Listener
<1>6. CASE ScorePoint
  <2> DEFINE id == IF MovedBall.x < 0 THEN "PLAYER_2" ELSE "PLAYER_1"
             u == IF id = "PLAYER_1" THEN tokens.token_1 ELSE tokens.token_2
  <2>1. TokensByPlayerId(id) = {u} /\ u \in ProcessTokens
    BY <1>1, FoundByIdentifier DEF Identifier, ProcessTokens
  <2>2. Store(u, [Entry(u) EXCEPT !.score = (@ + 1) % ScoreSpace])
    BY <1>6, <2>1 DEF ScorePoint
  <2> HIDE DEF u
  <2>3. Entry(u) = clients[u] /\ clients[u] \in Player
    BY <2>1, EntryFound
  <2>4. [Entry(u) EXCEPT !.score = (@ + 1) % ScoreSpace].paddle_location = clients[u].paddle_location
    BY <2>3 DEF Player
  <2>5. QED
    BY <1>3, <2>1, <2>2, <2>4
<1>7. CASE EnterLoop \/ MoveBall \/ HitPaddle \/ CopyFirst \/ CopySecond \/ SendState
  <2>1. clients' = clients /\ tokens' = tokens
    BY <1>7 DEF EnterLoop, MoveBall, HitPaddle, CopyFirst, CopySecond, SendState, matchVars
  <2>2. QED
    BY <1>2, <2>1
<1>8. CASE UNCHANGED vars
  BY <1>2, <1>8 DEF vars, matchVars
<1>9. QED
  BY <1>5, <1>6, <1>7, <1>8 DEF Next, GameThread

\* The visit is never far away.
LEMMA VisitBounded ==
  ASSUME IInv, NEW t
  PROVE  VisitLeft(t) \in 1 .. 15
<1> DEFINE n == Cardinality(cursor)
<1>1. n \in 0 .. 2 /\ (t \in cursor => n \in 1 .. 2) /\ StepsLeft \in 0 .. 10
  BY CursorSize, StepsBounded
<1>2. \/ t \in cursor /\ (VisitLeft(t) = 2 * n \/ VisitLeft(t) = 2 * n - 1)
      \/ VisitLeft(t) = StepsLeft + 5
  BY DEF VisitLeft
<1> HIDE DEF n
<1>3. QED
  BY <1>1, <1>2

\* Each step of the game thread brings the visit nearer, until it is made.
LEMMA VisitCloser ==
  ASSUME IInv, WorkInv, GameThread, NEW t \in ProcessTokens,
         ~\E e : FinishPaddle(t, e) /\ t \in NextInLoop /\ game \in {"paddles", "not_up"},
         StepsLeft' \in Nat
  PROVE  VisitLeft(t)' < VisitLeft(t)
<1> DEFINE n == Cardinality(cursor)
           next == Cardinality(cursor')
<1>1. n \in 0 .. 2 /\ (cursor # {} => n \in 1 .. 2) /\ StepsLeft \in 0 .. 10
  BY CursorSize, StepsBounded
<1>2. ASSUME game # "move",
             ~(game \in {"paddles", "not_up"} /\ t \in cursor),
             ~(game' \in {"paddles", "not_up"} /\ t \in cursor')
      PROVE  VisitLeft(t)' < VisitLeft(t)
  <2>1. StepsLeft' < StepsLeft
    BY <1>2, StepsFewer
  <2> DEFINE s == StepsLeft
             nextS == StepsLeft'
  <2>2. VisitLeft(t) = s + 5 /\ VisitLeft(t)' = nextS + 5
    BY <1>2 DEF VisitLeft
  <2>3. s \in 0 .. 10 /\ nextS \in Nat /\ nextS < s
    BY <1>1, <2>1
  <2> HIDE DEF s, nextS
  <2>4. QED
    BY <2>2, <2>3
<1>3. CASE MoveBall \/ ScorePoint
  <2>1. game = "move" /\ game' = "paddles" /\ phase = "STARTED" /\ cursor' = DOMAIN clients'
        /\ UNCHANGED tokens
    BY <1>3 DEF MoveBall, ScorePoint, matchVars
  <2>2. DOMAIN clients' = DOMAIN clients
    <3>1. CASE MoveBall
      BY <3>1 DEF MoveBall, matchVars
    <3>2. CASE ScorePoint
      BY <3>2, GameThreadKeeps
    <3>3. QED
      BY <1>3, <3>1, <3>2
  <2>3. next = 2 /\ t \in cursor'
    BY <2>1, <2>2, BothPlayers, EntryFound
  <2>4. VisitLeft(t)' = 4 /\ VisitLeft(t) = 5
    BY <2>1, <2>3 DEF VisitLeft, StepsLeft
  <2>5. QED
    BY <2>4
<1>4. ASSUME NEW u \in NextInLoop, NEW e, FinishPaddle(u, e), game \in {"paddles", "not_up"}
      PROVE  VisitLeft(t)' < VisitLeft(t)
  <2>1. u # t
    BY <1>4
  <2>2. /\ u \in cursor /\ cursor' = cursor \ {u}
        /\ game' = IF cursor' = {} THEN "hit" ELSE "paddles"
        /\ next \in Nat /\ next = n - 1
    BY <1>4, PaddleLeaves
  <2>3. CASE t \in cursor
    <3>1. VisitLeft(t) = 2 * n \/ VisitLeft(t) = 2 * n - 1
      BY <1>4, <2>3 DEF VisitLeft
    <3>2. VisitLeft(t)' = 2 * next
      BY <2>1, <2>2, <2>3 DEF VisitLeft
    <3>3. next \in Nat /\ next = n - 1 /\ n \in 0 .. 2
      BY <1>1, <2>2
    <3> HIDE DEF n, next
    <3>4. QED
      BY <3>1, <3>2, <3>3
  <2>4. CASE t \notin cursor
    BY <1>2, <1>4, <2>2, <2>4
  <2>5. QED
    BY <2>3, <2>4
<1>5. CASE TestUp
  <2>1. game = "paddles"
    BY <1>5 DEF TestUp
  <2>2. CASE \E u \in NextInLoop : FinishPaddle(u, "UP")
    BY <1>4, <2>1, <2>2
  <2>3. CASE game' = "not_up" /\ UNCHANGED cursor
    <3>1. CASE t \in cursor
      <4>1. VisitLeft(t) = 2 * n /\ VisitLeft(t)' = 2 * n - 1
        BY <2>1, <2>3, <3>1 DEF VisitLeft
      <4>2. n \in 0 .. 2
        BY <1>1
      <4> HIDE DEF n
      <4>3. QED
        BY <4>1, <4>2
    <3>2. CASE t \notin cursor
      BY <1>2, <2>1, <2>3, <3>2
    <3>3. QED
      BY <3>1, <3>2
  <2>4. QED
    BY <1>5, <2>2, <2>3 DEF TestUp
<1>6. CASE TestDown
  BY <1>4, <1>6 DEF TestDown
<1>7. CASE EnterLoop \/ HitPaddle \/ CopyFirst \/ CopySecond \/ SendState
  <2>1. game \notin {"move", "paddles", "not_up"} /\ game' \notin {"paddles", "not_up"}
    BY <1>7 DEF EnterLoop, HitPaddle, CopyFirst, CopySecond, SendState
  <2>2. QED
    BY <1>2, <2>1
<1>8. QED
  BY <1>3, <1>5, <1>6, <1>7 DEF GameThread

\* What one step does to a held paddle.
HeldStep(t, d) ==
  /\ Gap(t, d)' <= Gap(t, d)
  /\ GameThread => \/ Gap(t, d) = 0
                   \/ HeldLeft(t, d)' < HeldLeft(t, d)
                   \/ d = "UP" /\ BetweenTests(t)
  /\ ~GameThread => HeldLeft(t, d)' = HeldLeft(t, d)

\* The gap is a distance in the field.
LEMMA GapBounded ==
  ASSUME IInv, NEW t, NEW d \in {"UP", "DOWN"}, Holds(t, d)
  PROVE  Gap(t, d) \in Nat /\ HeldLeft(t, d) \in Nat
<1>1. Entry(t).paddle_location \in 0 .. Field /\ Field \in Nat
  BY EntryFound, GeometryAssumption DEF Holds, Field
<1>2. VisitLeft(t) \in 1 .. 15
  BY VisitBounded
<1>3. Gap(t, d) \in Nat
  BY <1>1 DEF Gap
<1>4. QED
  BY <1>2, <1>3 DEF HeldLeft

\* The game thread does so.
LEMMA GameHeldStep ==
  ASSUME IInv, WorkInv, GameThread, [Next]_vars, NEW t, NEW d \in {"UP", "DOWN"}, Holds(t, d),
         StepsLeft' \in Nat, VisitLeft(t)' \in 1 .. 15
  PROVE  HeldStep(t, d)
<1>1. /\ game # "off" /\ t \in ProcessTokens
      /\ clients[t].paddle_direction = d
      /\ Entry(t).paddle_location \in 0 .. Field /\ Field \in Nat
  BY EntryFound, GeometryAssumption DEF Holds, Field
<1>2. UNCHANGED tokens
  BY DEF GameThread, EnterLoop, MoveBall, ScorePoint, TestUp, TestDown, HitPaddle, CopyFirst,
         CopySecond, SendState, matchVars
<1>3. Gap(t, d) \in Nat /\ VisitLeft(t) \in 1 .. 15
  BY GapBounded, VisitBounded
<1> DEFINE g == Gap(t, d)
           v == VisitLeft(t)
           nextG == Gap(t, d)'
           nextV == VisitLeft(t)'
<1>4. /\ HeldLeft(t, d) = 16 * g + v /\ HeldLeft(t, d)' = 16 * nextG + nextV
      /\ g \in Nat /\ v \in 1 .. 15 /\ nextV \in 1 .. 15
  BY <1>3 DEF HeldLeft
<1>5. ASSUME Entry(t)'.paddle_location = Entry(t).paddle_location
      PROVE  Gap(t, d)' = Gap(t, d)
  BY <1>5 DEF Gap
<1>6. ASSUME Gap(t, d)' = Gap(t, d),
             ~\E e : FinishPaddle(t, e) /\ t \in NextInLoop /\ game \in {"paddles", "not_up"}
      PROVE  HeldStep(t, d)
  <2>1. nextV < v /\ nextG = g
    BY <1>1, <1>6, VisitCloser
  <2>2. HeldLeft(t, d)' < HeldLeft(t, d)
    <3> HIDE DEF g, v, nextG, nextV
    <3>1. QED
      BY <1>4, <2>1
  <2>3. QED
    BY <1>3, <1>6, <2>2 DEF HeldStep
<1>7. ASSUME FinishPaddle(t, d), t \in NextInLoop
      PROVE  HeldStep(t, d)
  <2>1. Entry(t)'.paddle_location = MovedPaddle(Entry(t).paddle_location, d)
    BY <1>1, <1>2, <1>7, FinishMovesOne
  <2>2. Gap(t, d)' \in Int /\ Gap(t, d)' <= Gap(t, d) /\ (Gap(t, d) # 0 => Gap(t, d)' < Gap(t, d))
    <3>1. MovedPaddle(Entry(t).paddle_location, d) \in 0 .. Field
      BY <1>1, MovedPaddleInField DEF Direction
    <3>2. CASE d = "UP"
      BY <1>1, <2>1, <3>1, <3>2, PaddleCloses DEF Gap
    <3>3. CASE d = "DOWN"
      <4>1. /\ Gap(t, d) = Field - Entry(t).paddle_location
            /\ Gap(t, d)' = Field - MovedPaddle(Entry(t).paddle_location, "DOWN")
        BY <2>1, <3>3 DEF Gap, Field
      <4>2. QED
        BY <1>1, <3>1, <3>3, <4>1, PaddleCloses
    <3>4. QED
      BY <3>2, <3>3
  <2>3. nextG \in Int /\ nextG <= g /\ (g # 0 => nextG < g)
    BY <2>2
  <2>4. g = 0 \/ HeldLeft(t, d)' < HeldLeft(t, d)
    <3> HIDE DEF g, v, nextG, nextV
    <3>1. QED
      BY <1>4, <2>3
  <2>5. QED
    BY <2>2, <2>4 DEF HeldStep
<1>8. ASSUME NEW u \in NextInLoop, NEW e, FinishPaddle(u, e), u # t
      PROVE  HeldStep(t, d)
  <2>1. Gap(t, d)' = Gap(t, d)
    BY <1>1, <1>2, <1>5, <1>8, FinishMovesOne
  <2>2. ~\E f : FinishPaddle(t, f) /\ t \in NextInLoop /\ game \in {"paddles", "not_up"}
    BY <1>8 DEF FinishPaddle, NextInLoop
  <2>3. QED
    BY <1>6, <2>1, <2>2
<1>9. CASE TestUp
  <2>1. PICK u \in NextInLoop :
          \/ clients[u].paddle_direction = "UP" /\ FinishPaddle(u, "UP")
          \/ game' = "not_up" /\ UNCHANGED <<clients, cursor>>
    BY <1>9 DEF TestUp
  <2>2. CASE FinishPaddle(u, "UP") /\ clients[u].paddle_direction = "UP"
    BY <1>1, <1>7, <1>8, <2>2
  <2>3. CASE game' = "not_up" /\ UNCHANGED <<clients, cursor>>
    <3>1. Gap(t, d)' = Gap(t, d)
      BY <1>5, <2>3 DEF Entry
    <3>2. ~\E e : FinishPaddle(t, e) /\ t \in NextInLoop /\ game \in {"paddles", "not_up"}
      BY <2>3 DEF FinishPaddle
    <3>3. QED
      BY <1>6, <3>1, <3>2
  <2>4. QED
    BY <2>1, <2>2, <2>3
<1>10. CASE TestDown
  <2>1. PICK u \in NextInLoop :
          FinishPaddle(u, IF clients[u].paddle_direction = "DOWN" THEN "DOWN" ELSE "STOP")
    BY <1>10 DEF TestDown
  <2>2. CASE u = t /\ d = "DOWN"
    BY <1>1, <1>7, <2>1, <2>2
  <2>3. CASE u = t /\ d = "UP"
    <3>1. FinishPaddle(t, "STOP") /\ BetweenTests(t)
      BY <1>1, <1>10, <2>1, <2>3 DEF BetweenTests, TestDown
    <3>2. Entry(t)'.paddle_location = Entry(t).paddle_location
      BY <1>1, <1>2, <2>1, <2>3, <3>1, FinishMovesOne, PaddleCloses
    <3>3. QED
      BY <1>3, <1>5, <2>3, <3>1, <3>2 DEF HeldStep
  <2>4. CASE u # t
    BY <1>8, <2>1, <2>4
  <2>5. QED
    BY <2>2, <2>3, <2>4
<1>11. CASE ~TestUp /\ ~TestDown
  <2>1. Gap(t, d)' = Gap(t, d)
    BY <1>1, <1>5, <1>11, OthersKeepLocation
  <2>2. ~\E e : FinishPaddle(t, e) /\ t \in NextInLoop /\ game \in {"paddles", "not_up"}
    BY <1>11 DEF GameThread, EnterLoop, MoveBall, ScorePoint, HitPaddle, CopyFirst, CopySecond, SendState
  <2>3. QED
    BY <1>6, <2>1, <2>2
<1>12. QED
  BY <1>9, <1>10, <1>11

\* The listener moves no paddle.
LEMMA ListenerHeldStep ==
  ASSUME IInv, [Next]_vars, ~GameThread, NEW t, NEW d \in {"UP", "DOWN"}, Holds(t, d)
  PROVE  HeldStep(t, d)
<1>1. UNCHANGED <<game, cursor>>
  BY ListenerLeavesGame DEF Holds, gameVars
<1>2. Entry(t)'.paddle_location = Entry(t).paddle_location
  BY OthersKeepLocation DEF Holds, GameThread
<1>3. Gap(t, d)' = Gap(t, d)
  BY <1>2 DEF Gap
<1>4. VisitLeft(t)' = VisitLeft(t)
  BY <1>1 DEF VisitLeft, StepsLeft
<1>5. Gap(t, d) \in Nat
  BY GapBounded
<1>6. QED
  BY <1>3, <1>4, <1>5 DEF HeldStep, HeldLeft

\* A direction a player holds is never lost on the way to its paddle: while it
\* is held the paddle does not turn back, and each step of the game thread lowers
\* the number of steps until the paddle is at its end, but for the one visit in
\* which UP came between the paddle's two tests.  The listener does not delay it.
THEOREM HeldPaddleArrives ==
  ASSUME NEW t, NEW d \in {"UP", "DOWN"}
  PROVE  Spec => /\ [](Holds(t, d) => HeldLeft(t, d) \in Nat)
                 /\ [][Holds(t, d) => HeldStep(t, d)]_vars
<1> DEFINE Numbers == StepsLeft \in Nat /\ VisitLeft(t) \in 1 .. 15
<1>1. IInv => Numbers
  BY StepsBounded, VisitBounded
<1>2. IInv => (Holds(t, d) => HeldLeft(t, d) \in Nat)
  BY GapBounded
<1>3. IInv /\ WorkInv /\ Numbers' /\ [Next]_vars => [Holds(t, d) => HeldStep(t, d)]_vars
  BY GameHeldStep, ListenerHeldStep
<1>4. QED
  BY Invariance, WorkInvariance, <1>1, <1>2, <1>3, PTL DEF Spec
=============================================================================
