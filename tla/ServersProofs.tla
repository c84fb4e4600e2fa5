---------------------------- MODULE ServersProofs ----------------------------
(***************************************************************************)
(* The Java and the Python game server, proved for any addresses, field,   *)
(* speeds and counters: they implement MatchSeats, run one game loop, show *)
(* the ball where it may be, show both players the same, score once, have  *)
(* their types, and finish every frame.                                    *)
(*                                                                         *)
(* The invariant has four parts.  Each is kept by the steps of the Java    *)
(* server and by those of the Python server, which are two lemmas.         *)
(***************************************************************************)
EXTENDS MCServers, SequenceTheorems, PongGeometryProofs, TLAPS

\* Append makes a pair of a sequence of one.
LEMMA AppendSecond ==
  ASSUME NEW S, NEW p \in S, NEW q \in S
  PROVE  Append(<<p>>, q) = <<p, q>>
<1>1. <<p>> \in Seq(S) /\ Len(<<p>>) = 1 /\ <<p>>[1] = p
  OBVIOUS
<1>2. <<p, q>> \in Seq(S) /\ Len(<<p, q>>) = 2 /\ <<p, q>>[1] = p /\ <<p, q>>[2] = q
  OBVIOUS
<1>3. /\ Append(<<p>>, q) \in Seq(S) /\ Len(Append(<<p>>, q)) = 2
      /\ Append(<<p>>, q)[1] = p /\ Append(<<p>>, q)[2] = q
  BY <1>1, AppendProperties
<1>4. \A i \in 1 .. 2 : i = 1 \/ i = 2
  OBVIOUS
<1> QED BY <1>1, <1>2, <1>3, <1>4, SeqEqual

-----------------------------------------------------------------------------
(* The lobby. *)

\* The players of the Python server are in joined as well, in some order.
JoinedOK ==
  \/ joined = <<>> /\ \A p \in Identifier : clients[p] = NoAddress
  \/ \E p \in Identifier :
       joined = <<p>> /\ \A q \in Identifier : clients[q] # NoAddress <=> q = p
  \/ \E p, q \in Identifier :
       p # q /\ joined = <<p, q>> /\ \A r \in Identifier : clients[r] # NoAddress

LobbyOK ==
  /\ phase \in {"WAITING", "PREPARING", "STARTED"}
  /\ clients \in [Identifier -> Address \cup {NoAddress}]
  /\ phase = "WAITING" => grants = <<>>
  /\ phase = "STARTED" <=> game # "off"
  /\ phase = "STARTED" => \A p \in Identifier : clients[p] # NoAddress
  /\ OneGameLoop
  /\ impl = "python" => JoinedOK

\* A step that leaves the lobby alone, once the game runs or while it does not.
LEMMA LobbyStutter ==
  ASSUME LobbyOK, UNCHANGED <<phase, clients, joined, grants, game_threads, impl>>,
         game # "off" <=> game' # "off"
  PROVE  LobbyOK'
BY DEF LobbyOK, OneGameLoop, JoinedOK

\* The Java server keeps the lobby in order.
LEMMA JavaLobby ==
  ASSUME LobbyOK, Java!Next, impl = "java", impl' = impl
  PROVE  LobbyOK'
<1>1. ASSUME NEW a \in Address, Java!HandlePrepare(a)
      PROVE  LobbyOK'
  BY <1>1 DEF Java!HandlePrepare, LobbyOK, OneGameLoop
<1>2. ASSUME NEW p \in Identifier, NEW a \in Address, Java!HandleJoin(p, a)
      PROVE  LobbyOK'
  <2>1. clients' \in [Identifier -> Address \cup {NoAddress}]
    BY <1>2 DEF Java!HandleJoin, LobbyOK
  <2>2. \/ /\ \A q \in Identifier : clients'[q] # NoAddress
           /\ phase' = "STARTED" /\ game' = "spawned" /\ game_threads' = game_threads + 1
        \/ UNCHANGED <<phase, game, game_threads>>
    BY <1>2 DEF Java!HandleJoin, Java!StartMatch, Java!Identifier, Identifier
  <2> QED BY <1>2, <2>1, <2>2 DEF Java!HandleJoin, LobbyOK, OneGameLoop
<1>3. ASSUME NEW p \in Identifier, NEW d \in Moves, Java!HandleMovement(p, d)
      PROVE  LobbyOK'
  BY <1>3, LobbyStutter DEF Java!HandleMovement, Java!lobbyVars
<1>4. CASE Java!GameLoop
  BY <1>4, LobbyStutter DEF Java!GameLoop, Java!EnterLoop, Java!ReadFirst, Java!NextFrame,
     Java!SendState, Java!lobbyVars
<1> QED BY <1>1, <1>2, <1>3, <1>4 DEF Java!Next, Java!Listen, Java!Identifier, Identifier

\* So does the Python server; it starts the match when two players have joined.
LEMMA PythonLobby ==
  ASSUME LobbyOK, Python!Next, impl = "python", impl' = impl
  PROVE  LobbyOK'
<1> USE GameServerAssumption
<1>1. ASSUME NEW a \in Address, Python!HandlePrepare(a)
      PROVE  LobbyOK'
  BY <1>1 DEF Python!HandlePrepare, LobbyOK, OneGameLoop, JoinedOK
<1>2. ASSUME NEW p \in Identifier, NEW a \in Address, Python!HandleJoin(p, a)
      PROVE  LobbyOK'
  <2>1. /\ clients' \in [Identifier -> Address \cup {NoAddress}]
        /\ \A q \in Identifier : clients'[q] = IF q = p THEN a ELSE clients[q]
    BY <1>2 DEF Python!HandleJoin, LobbyOK
  <2>2. JoinedOK' /\ (Len(joined') = 2 => \A q \in Identifier : clients'[q] # NoAddress)
    <3>1. CASE clients[p] # NoAddress
      BY <1>2, <2>1, <3>1 DEF Python!HandleJoin, LobbyOK, JoinedOK
    <3>2. CASE clients[p] = NoAddress
      <4>1. joined' = Append(joined, p)
        BY <1>2, <3>2 DEF Python!HandleJoin
      <4>2. CASE joined = <<>> /\ \A q \in Identifier : clients[q] = NoAddress
        BY <2>1, <4>1, <4>2 DEF JoinedOK
      <4>3. ASSUME NEW r \in Identifier, joined = <<r>>,
                   \A q \in Identifier : clients[q] # NoAddress <=> q = r
            PROVE  JoinedOK' /\ \A q \in Identifier : clients'[q] # NoAddress
        <5>1. r # p /\ joined' = <<r, p>>
          <6>1. clients[r] # NoAddress
            BY <4>3
          <6>2. Append(<<r>>, p) = <<r, p>>
            BY AppendSecond
          <6> QED BY <3>2, <4>1, <4>3, <6>1, <6>2
        <5>2. \A q \in Identifier : clients'[q] # NoAddress
          BY <2>1, <4>3, <5>1 DEF Identifier
        <5> QED BY <5>1, <5>2 DEF JoinedOK
      <4> QED BY <3>2, <4>2, <4>3 DEF LobbyOK, JoinedOK
    <3> QED BY <3>1, <3>2
  <2>3. \/ /\ \A q \in Identifier : clients'[q] # NoAddress
           /\ phase' = "STARTED" /\ game' = "spawned" /\ game_threads' = game_threads + 1
        \/ UNCHANGED <<phase, game, game_threads>>
    BY <1>2, <2>2 DEF Python!HandleJoin, Python!StartMatch
  <2> QED BY <1>2, <2>1, <2>2, <2>3 DEF Python!HandleJoin, LobbyOK, OneGameLoop
<1>3. ASSUME NEW p \in Identifier, NEW d \in Moves, Python!HandleMovement(p, d)
      PROVE  LobbyOK'
  BY <1>3, LobbyStutter DEF Python!HandleMovement, Python!lobbyVars
<1>4. CASE Python!GameLoop
  BY <1>4, LobbyStutter DEF Python!GameLoop, Python!EnterLoop, Python!MoveBall, Python!ScorePoint,
     Python!TestUp, Python!TestDown, Python!FinishPaddle, Python!HitPaddle, Python!SendState,
     Python!lobbyVars
<1> QED BY <1>1, <1>2, <1>3, <1>4 DEF Python!Next, Python!Listen, Python!Identifier, Identifier

-----------------------------------------------------------------------------
(* The broadcast. *)

\* What p was sent last is the frame as it is, but for the directions.
Current(p) ==
  sent[p] = [frame |-> frame, ball |-> ball, location |-> location, score |-> score,
             directions |-> sent[p].directions]

\* Between two broadcasts both were sent the last frame, or nothing.  In one,
\* those still to be served were sent an older frame, the others this one.
BroadcastOK ==
  /\ frame \in 0 .. FrameSpace - 1
  /\ sent = [p \in Identifier |-> sent[p]]
  /\ game # "send" => \A p \in Identifier : sent[p] = NothingSent \/ sent[p].frame = frame
  /\ game = "send" =>
       \E p, q \in Identifier :
         /\ p # q /\ sent[q].frame # frame
         /\ \/ cursor = <<p, q>> /\ sent[p].frame # frame
            \/ /\ cursor = <<q>> /\ Current(p)
               /\ impl = "java" => sent[p].directions = shown
  /\ SameForBoth

\* The number of the next frame is another one.
LEMMA NextFrameDiffers ==
  ASSUME frame \in 0 .. FrameSpace - 1
  PROVE  /\ (frame + 1) % FrameSpace \in 0 .. FrameSpace - 1
         /\ (frame + 1) % FrameSpace # frame /\ (frame + 1) % FrameSpace # -1
<1> USE GameServerAssumption
<1>1. CASE frame + 1 = FrameSpace
  <2>1. (frame + 1) % FrameSpace = 0
    BY <1>1
  <2> QED BY <1>1, <2>1
<1>2. CASE frame + 1 # FrameSpace
  <2>1. (frame + 1) % FrameSpace = frame + 1
    BY <1>2
  <2> QED BY <1>2, <2>1
<1> QED BY <1>1, <1>2

\* A step that neither sends nor counts.
LEMMA BroadcastStutter ==
  ASSUME BroadcastOK, UNCHANGED <<frame, sent, impl>>,
         \/ game # "send" /\ game' # "send"
         \/ UNCHANGED <<game, cursor, shown, ball, location, score>>
  PROVE  BroadcastOK'
<1>1. SameForBoth' <=> SameForBoth
  BY DEF SameForBoth, Java!SameFrameSameState, Python!SameFrameSamePicture, Java!Identifier,
     Python!Identifier, Java!NothingSent, Python!NothingSent
<1> QED BY <1>1 DEF BroadcastOK, Current

\* A step that begins the broadcast of the next frame.
LEMMA BroadcastBegins ==
  ASSUME BroadcastOK, game # "send", game' = "send", UNCHANGED <<sent, impl>>,
         frame' = (frame + 1) % FrameSpace,
         NEW p \in Identifier, NEW q \in Identifier, p # q, cursor' = <<p, q>>
  PROVE  BroadcastOK'
<1>1. SameForBoth' <=> SameForBoth
  BY DEF SameForBoth, Java!SameFrameSameState, Python!SameFrameSamePicture, Java!Identifier,
     Python!Identifier, Java!NothingSent, Python!NothingSent
<1>2. \A r \in Identifier : sent[r].frame # frame'
  BY NextFrameDiffers DEF BroadcastOK, NothingSent
<1>3. frame' \in 0 .. FrameSpace - 1
  BY NextFrameDiffers DEF BroadcastOK
<1> QED BY <1>1, <1>2, <1>3 DEF BroadcastOK

\* A step that sends the frame to the first player of the cursor.
LEMMA BroadcastSends ==
  ASSUME BroadcastOK, game = "send", UNCHANGED <<impl, frame, ball, location, score, shown>>,
         impl \in {"java", "python"}, NEW ds, impl = "java" => ds = shown,
         sent' = [sent EXCEPT ![Head(cursor)] =
                    [frame |-> frame, ball |-> ball, location |-> location, score |-> score,
                     directions |-> ds]],
         cursor' = Tail(cursor), game' = IF cursor' = <<>> THEN "frame" ELSE "send"
  PROVE  BroadcastOK'
<1> DEFINE now == [frame |-> frame, ball |-> ball, location |-> location, score |-> score,
                   directions |-> ds]
<1>1. PICK p \in Identifier, q \in Identifier :
        /\ p # q /\ sent[q].frame # frame
        /\ \/ cursor = <<p, q>> /\ sent[p].frame # frame
           \/ /\ cursor = <<q>> /\ Current(p)
              /\ impl = "java" => sent[p].directions = shown
  BY DEF BroadcastOK
<1>2. Identifier = {p, q}
  BY <1>1 DEF Identifier
<1>3. sent' = [r \in Identifier |-> sent'[r]]
  BY DEF BroadcastOK
<1>4. CASE cursor = <<p, q>> /\ sent[p].frame # frame
  <2>1. Head(cursor) = p /\ Tail(cursor) = <<q>>
    BY <1>4
  <2>2. sent'[p] = now /\ sent'[q] = sent[q]
    BY <1>1, <2>1 DEF BroadcastOK
  <2>3. game' = "send" /\ cursor' = <<q>>
    BY <2>1
  <2>4. Current(p)' /\ (impl = "java" => sent'[p].directions = shown')
    BY <2>2 DEF Current
  <2>5. sent'[p].frame # sent'[q].frame
    BY <1>1, <2>2
  <2>6. SameForBoth'
    <3>1. CASE impl = "java"
      BY <1>2, <2>5, <3>1 DEF SameForBoth, Java!SameFrameSameState, Java!Identifier, Identifier
    <3>2. CASE impl = "python"
      <4>1. sent'[p] = [sent'[p] EXCEPT !.directions = sent'[p].directions]
        BY <2>2
      <4>2. sent[q] = NothingSent \/ sent[q] = [sent[q] EXCEPT !.directions = sent[q].directions]
        BY <3>2 DEF BroadcastOK, SameForBoth, Python!SameFrameSamePicture, Python!Identifier,
           Identifier, Python!NothingSent, NothingSent
      <4> QED BY <1>2, <2>2, <2>5, <3>2, <4>1, <4>2 DEF SameForBoth, Python!SameFrameSamePicture,
             Python!Identifier, Identifier, Python!NothingSent, NothingSent
    <3> QED BY <3>1, <3>2
  <2>7. sent'[q].frame # frame'
    BY <1>1, <2>2
  <2>8. frame' \in 0 .. FrameSpace - 1
    BY DEF BroadcastOK
  <2> HIDE DEF now
  <2> QED BY <1>1, <1>3, <2>3, <2>4, <2>6, <2>7, <2>8 DEF BroadcastOK
<1>5. CASE cursor = <<q>> /\ Current(p) /\ (impl = "java" => sent[p].directions = shown)
  <2>1. Head(cursor) = q /\ Tail(cursor) = <<>>
    BY <1>5
  <2>2. sent'[q] = now /\ sent'[p] = sent[p]
    BY <1>1, <2>1 DEF BroadcastOK
  <2>3. game' = "frame"
    BY <2>1
  <2>4. \A r \in Identifier : sent'[r].frame = frame'
    BY <1>2, <1>5, <2>2 DEF Current
  <2>5. SameForBoth'
    <3>1. CASE impl = "java"
      <4>1. sent'[p] = sent'[q]
        BY <1>5, <2>2, <3>1 DEF Current
      <4> QED BY <1>2, <4>1, <3>1 DEF SameForBoth, Java!SameFrameSameState, Java!Identifier, Identifier
    <3>2. CASE impl = "python"
      <4>1. \A r, s \in {p, q} : sent'[r] = [sent'[s] EXCEPT !.directions = sent'[r].directions]
        BY <1>5, <2>2 DEF Current
      <4> QED BY <1>2, <3>2, <4>1 DEF SameForBoth, Python!SameFrameSamePicture, Python!Identifier, Identifier
    <3> QED BY <3>1, <3>2
  <2> QED BY <1>3, <2>3, <2>4, <2>5 DEF BroadcastOK
<1> QED BY <1>1, <1>4, <1>5

\* The Java server sends one immutable state to both players.
LEMMA JavaBroadcast ==
  ASSUME LobbyOK, BroadcastOK, Java!Next, impl = "java", impl' = impl
  PROVE  BroadcastOK'
<1>1. CASE Java!Listen
  <2>1. UNCHANGED <<frame, sent, cursor, shown, ball, location, score>>
    BY <1>1 DEF Java!Listen, Java!HandlePrepare, Java!HandleJoin, Java!HandleMovement,
       Java!pictureVars, Java!loopVars
  <2>2. UNCHANGED game \/ (game # "send" /\ game' # "send")
    BY <1>1 DEF Java!Listen, Java!HandlePrepare, Java!HandleJoin, Java!StartMatch,
       Java!HandleMovement, LobbyOK
  <2> QED BY <2>1, <2>2, BroadcastStutter
<1>2. CASE Java!EnterLoop \/ Java!ReadFirst
  <2>1. UNCHANGED <<frame, sent>> /\ game # "send" /\ game' # "send"
    BY <1>2 DEF Java!EnterLoop, Java!ReadFirst, Java!pictureVars, Java!loopVars
  <2> QED BY <2>1, BroadcastStutter
<1>3. CASE Java!NextFrame
  <2>1. /\ game # "send" /\ game' = "send" /\ UNCHANGED sent
        /\ frame' = (frame + 1) % FrameSpace
        /\ cursor' = <<"PLAYER_1", "PLAYER_2">>
    BY <1>3 DEF Java!NextFrame, Java!Players
  <2> QED BY <2>1, BroadcastBegins DEF Identifier
<1>4. CASE Java!SendState
  <2>1. /\ game = "send" /\ UNCHANGED <<frame, ball, location, score, shown>>
        /\ sent' = [sent EXCEPT ![Head(cursor)] =
                      [frame |-> frame, ball |-> ball, location |-> location, score |-> score,
                       directions |-> shown]]
        /\ cursor' = Tail(cursor) /\ game' = IF cursor' = <<>> THEN "frame" ELSE "send"
    BY <1>4 DEF Java!SendState, Java!Datagram, Java!pictureVars
  <2> QED BY <2>1, BroadcastSends
<1> QED BY <1>1, <1>2, <1>3, <1>4 DEF Java!Next, Java!GameLoop

\* The Python server sends its state while Movements change the directions in it.
LEMMA PythonBroadcast ==
  ASSUME LobbyOK, BroadcastOK, Python!Next, impl = "python", impl' = impl
  PROVE  BroadcastOK'
<1>1. CASE Python!Listen
  <2>1. UNCHANGED <<frame, sent, cursor, shown, ball, location, score>>
    BY <1>1 DEF Python!Listen, Python!HandlePrepare, Python!HandleJoin, Python!HandleMovement,
       Python!pictureVars, Python!loopVars
  <2>2. UNCHANGED game \/ (game # "send" /\ game' # "send")
    BY <1>1 DEF Python!Listen, Python!HandlePrepare, Python!HandleJoin, Python!StartMatch,
       Python!HandleMovement, LobbyOK
  <2> QED BY <2>1, <2>2, BroadcastStutter
<1>2. CASE Python!EnterLoop \/ Python!MoveBall \/ Python!ScorePoint
  <2>1. UNCHANGED <<frame, sent>> /\ game # "send" /\ game' # "send"
    BY <1>2 DEF Python!EnterLoop, Python!MoveBall, Python!ScorePoint, Python!loopVars
  <2> QED BY <2>1, BroadcastStutter
<1>3. CASE Python!TestUp \/ Python!TestDown
  <2>1. UNCHANGED <<frame, sent>> /\ game # "send" /\ game' # "send"
    BY <1>3 DEF Python!TestUp, Python!TestDown, Python!FinishPaddle
  <2> QED BY <2>1, BroadcastStutter
<1>4. CASE Python!HitPaddle
  <2>1. /\ game = "hit" /\ game' = "send" /\ UNCHANGED sent
        /\ frame' = (frame + 1) % FrameSpace /\ cursor' = joined
    BY <1>4 DEF Python!HitPaddle
  <2>2. PICK p, q \in Identifier : p # q /\ joined = <<p, q>>
    <3>1. JoinedOK /\ \A r \in Identifier : clients[r] # NoAddress
      BY <2>1 DEF LobbyOK
    <3>2. ~\A r \in Identifier : clients[r] = NoAddress
      BY <3>1 DEF Identifier
    <3>3. \A p \in Identifier : ~\A q \in Identifier : clients[q] # NoAddress <=> q = p
      BY <3>1 DEF Identifier
    <3> QED BY <3>1, <3>2, <3>3 DEF JoinedOK
  <2> QED BY <2>1, <2>2, BroadcastBegins
<1>5. CASE Python!SendState
  <2>1. /\ game = "send" /\ UNCHANGED <<frame, ball, location, score, shown>>
        /\ sent' = [sent EXCEPT ![Head(cursor)] =
                      [frame |-> frame, ball |-> ball, location |-> location, score |-> score,
                       directions |-> direction]]
        /\ cursor' = Tail(cursor) /\ game' = IF cursor' = <<>> THEN "frame" ELSE "send"
    BY <1>5 DEF Python!SendState, Python!Datagram, Python!pictureVars
  <2> QED BY <2>1, BroadcastSends
<1> QED BY <1>1, <1>2, <1>3, <1>4, <1>5 DEF Python!Next, Python!GameLoop

-----------------------------------------------------------------------------
(* The ball. *)

\* A ball past the upper or lower wall flies back, and is past it by less than a
\* step; where a goal may be shown.
BallOK ==
  /\ ball.y \in Int
  /\ game \in {"off", "spawned"} => ball = [x |-> HalfField, y |-> HalfField]
  /\ game \notin {"off", "spawned"} =>
       /\ ball_velocity[2] \in {-Step, Step}
       /\ -Step < ball.y /\ ball.y < Field + Step
       /\ ball.y <= 0 => ball_velocity[2] = Step
       /\ ball.y >= Field => ball_velocity[2] = -Step
  /\ impl = "java" /\ game = "send" /\ InGoal(ball) => AtWall(ball)
  /\ impl = "python" /\ game \in {"paddles", "not_up", "hit", "send"} => ~InGoal(ball)

\* The middle of the field is at no wall and in no goal.
LEMMA MiddleIsFree ==
  /\ HalfField \in Int /\ -Step < HalfField /\ HalfField < Field + Step
  /\ 0 < HalfField /\ HalfField < Field /\ Step \in Int /\ 0 < Step /\ Field \in Int
  /\ Step < Field
BY GeometryAssumption DEF Field

\* One step further, a ball is past a wall by less than a step, and only past
\* the one it flew to.
LEMMA MovedBallNearField ==
  ASSUME BallOK, game \notin {"off", "spawned"}
  PROVE  /\ MovedBall.y \in Int /\ -Step < MovedBall.y /\ MovedBall.y < Field + Step
         /\ MovedBall.y <= 0 => ball_velocity[2] = -Step
         /\ MovedBall.y >= Field => ball_velocity[2] = Step
<1>1. /\ ball.y \in Int /\ ball_velocity[2] \in {-Step, Step}
      /\ -Step < ball.y /\ ball.y < Field + Step
      /\ ball.y <= 0 => ball_velocity[2] = Step
      /\ ball.y >= Field => ball_velocity[2] = -Step
  BY DEF BallOK
<1>2. MovedBall.y = ball.y + ball_velocity[2]
  BY DEF MovedBall
<1>3. CASE ball_velocity[2] = Step
  BY <1>1, <1>2, <1>3, MiddleIsFree
<1>4. CASE ball_velocity[2] = -Step
  BY <1>1, <1>2, <1>4, MiddleIsFree
<1> QED BY <1>1, <1>3, <1>4

\* A paddle changes the horizontal velocity only.
LEMMA ReboundKeepsVertical ==
  ASSUME NEW b, NEW places
  PROVE  /\ \A v \in Java!Rebound(b, places) : v[2] = ball_velocity[2]
         /\ \A v \in Python!Rebound(b, places) : v[2] = ball_velocity[2]
BY DEF Java!Rebound, Python!Rebound

\* The Java server: wall, goal and paddle exclude each other.
LEMMA JavaBall ==
  ASSUME LobbyOK, BallOK, Java!Next, impl = "java", impl' = impl
  PROVE  BallOK'
<1>1. CASE UNCHANGED <<ball, ball_velocity>> /\ (game' \in {"off", "spawned"} <=> game \in {"off", "spawned"})
           /\ (game' = "send" => game = "send")
  BY <1>1 DEF BallOK, InGoal, AtWall
<1>2. CASE Java!Listen
  <2>1. UNCHANGED <<ball, ball_velocity>>
    BY <1>2 DEF Java!Listen, Java!HandlePrepare, Java!HandleJoin, Java!HandleMovement, Java!pictureVars
  <2>2. UNCHANGED game \/ (game = "off" /\ game' = "spawned")
    BY <1>2 DEF Java!Listen, Java!HandlePrepare, Java!HandleJoin, Java!StartMatch,
       Java!HandleMovement, LobbyOK
  <2> QED BY <1>1, <2>1, <2>2
<1>3. CASE Java!EnterLoop
  <2>1. /\ game = "spawned" /\ game' = "frame" /\ UNCHANGED ball
        /\ ball_velocity'[2] \in {-Step, Step}
    BY <1>3 DEF Java!EnterLoop, Java!ResetBallVelocity
  <2> QED BY <2>1, MiddleIsFree DEF BallOK
<1>4. CASE Java!ReadFirst
  BY <1>1, <1>4 DEF Java!ReadFirst, Java!pictureVars
<1>5. CASE Java!NextFrame /\ (Java!HitWall \/ Java!ScorePoint \/ Java!Fly)
  <2>1. game = "paddles" /\ game' = "send"
    BY <1>5 DEF Java!NextFrame
  <2> USE MiddleIsFree, MovedBallNearField
  <2>2. CASE Java!HitWall
    <3>1. /\ ball' = MovedBall /\ ball_velocity'[2] = -ball_velocity[2] /\ AtWall(MovedBall)
      BY <2>2 DEF Java!HitWall, Java!MovedBall, MovedBall, Java!AtWall, AtWall, Java!Field, Field
    <3>2. ball_velocity[2] \in {-Step, Step}
      BY <2>1 DEF BallOK
    <3>3. AtWall(ball)' /\ ball'.y = MovedBall.y
      BY <3>1 DEF AtWall
    <3> QED BY <2>1, <3>1, <3>2, <3>3 DEF BallOK, AtWall
  <2>3. CASE Java!ScorePoint
    <3>1. ball' = [x |-> HalfField, y |-> HalfField] /\ ball_velocity'[2] \in {-Step, Step}
      BY <2>3 DEF Java!ScorePoint, Java!ResetBallVelocity
    <3> QED BY <2>1, <3>1 DEF BallOK, InGoal
  <2>4. CASE Java!Fly
    <3>1. /\ ball' = MovedBall /\ ~AtWall(MovedBall) /\ ~InGoal(MovedBall)
          /\ ball_velocity'[2] = ball_velocity[2]
      BY <2>4, ReboundKeepsVertical DEF Java!Fly, Java!MovedBall, MovedBall, Java!AtWall, AtWall,
         Java!InGoal, InGoal, Java!Field, Field
    <3>2. ball_velocity[2] \in {-Step, Step}
      BY <2>1 DEF BallOK
    <3>3. ~InGoal(ball)'
      BY <3>1 DEF InGoal
    <3> QED BY <2>1, <3>1, <3>2, <3>3 DEF BallOK, AtWall
  <2> QED BY <1>5, <2>2, <2>3, <2>4
<1>6. CASE Java!SendState
  BY <1>1, <1>6 DEF Java!SendState, Java!pictureVars
<1> QED BY <1>2, <1>3, <1>4, <1>5, <1>6 DEF Java!Next, Java!GameLoop

\* The Python server: a goal comes before the walls and the paddles.
LEMMA PythonBall ==
  ASSUME LobbyOK, BallOK, Python!Next, impl = "python", impl' = impl
  PROVE  BallOK'
<1> DEFINE Shown == {"paddles", "not_up", "hit", "send"}
<1>1. CASE /\ UNCHANGED <<ball, ball_velocity>>
           /\ game' \in {"off", "spawned"} <=> game \in {"off", "spawned"}
           /\ game' \in Shown => game \in Shown
  BY <1>1 DEF BallOK, InGoal
<1>2. CASE Python!Listen
  <2>1. UNCHANGED <<ball, ball_velocity>>
    BY <1>2 DEF Python!Listen, Python!HandlePrepare, Python!HandleJoin, Python!HandleMovement,
       Python!pictureVars
  <2>2. UNCHANGED game \/ (game = "off" /\ game' = "spawned")
    BY <1>2 DEF Python!Listen, Python!HandlePrepare, Python!HandleJoin, Python!StartMatch,
       Python!HandleMovement, LobbyOK
  <2> QED BY <1>1, <2>1, <2>2
<1>3. CASE Python!EnterLoop \/ Python!ScorePoint
  <2>1. /\ ball' = [x |-> HalfField, y |-> HalfField] /\ ball_velocity'[2] \in {-Step, Step}
        /\ game' \in {"frame", "paddles"}
    BY <1>3 DEF Python!EnterLoop, Python!ScorePoint, Python!ResetBall
  <2> QED BY <2>1, MiddleIsFree DEF BallOK, InGoal
<1>4. CASE Python!MoveBall
  <2>1. /\ game = "frame" /\ game' = "paddles" /\ ball' = MovedBall /\ ~InGoal(MovedBall)
        /\ ball_velocity'[2] = IF AtWall(MovedBall) THEN -ball_velocity[2] ELSE ball_velocity[2]
    BY <1>4 DEF Python!MoveBall, Python!Scored, Python!MovedBall, MovedBall, Python!AtWall, AtWall,
       Python!InGoal, InGoal, Python!Field, Field
  <2>2. ball_velocity[2] \in {-Step, Step}
    BY <2>1 DEF BallOK
  <2>3. ~InGoal(ball)'
    BY <2>1 DEF InGoal
  <2> QED BY <2>1, <2>2, <2>3, MiddleIsFree, MovedBallNearField DEF BallOK, AtWall
<1>5. CASE Python!TestUp \/ Python!TestDown
  BY <1>1, <1>5 DEF Python!TestUp, Python!TestDown, Python!FinishPaddle
<1>6. CASE Python!HitPaddle
  <2>1. /\ UNCHANGED ball /\ game = "hit" /\ game' = "send"
        /\ ball_velocity'[2] = ball_velocity[2]
    BY <1>6, ReboundKeepsVertical DEF Python!HitPaddle
  <2> QED BY <2>1 DEF BallOK, InGoal
<1>7. CASE Python!SendState
  BY <1>1, <1>7 DEF Python!SendState, Python!pictureVars
<1> QED BY <1>2, <1>3, <1>4, <1>5, <1>6, <1>7 DEF Python!Next, Python!GameLoop

-----------------------------------------------------------------------------
(* The invariant. *)

ServersInv ==
  /\ impl \in {"java", "python"}
  /\ score = [p \in Identifier |-> score[p]]
  /\ LobbyOK /\ BroadcastOK /\ BallOK

\* It holds when a server starts.
LEMMA InitServersInv ==
  ASSUME ServersInit
  PROVE  ServersInv
<1> USE GameServerAssumption, MiddleIsFree DEF ServersInit, Init
<1>1. LobbyOK
  BY DEF LobbyOK, OneGameLoop, JoinedOK
<1>2. BroadcastOK
  BY DEF BroadcastOK, SameForBoth, Java!SameFrameSameState, Java!Identifier, Identifier,
     Python!SameFrameSamePicture, Python!Identifier, Python!NothingSent, NothingSent
<1>3. BallOK
  BY DEF BallOK
<1> QED BY <1>1, <1>2, <1>3 DEF ServersInv

\* A goal changes the score of one player, puts the ball in the middle, and
\* comes between two broadcasts; no other step changes the score.
LEMMA ScoreStep ==
  ASSUME score = [p \in Identifier |-> score[p]], ServersNext
  PROVE  \/ UNCHANGED score
         \/ /\ game # "send"
            /\ \E p \in Identifier : score' = [score EXCEPT ![p] = score'[p]]
            /\ ball' = [x |-> HalfField, y |-> HalfField]
<1> DEFINE Goal == /\ game # "send"
                   /\ \E p \in Identifier : score' = [score EXCEPT ![p] = score'[p]]
                   /\ ball' = [x |-> HalfField, y |-> HalfField]
<1>1. ASSUME NEW p \in Identifier, NEW n, score' = [score EXCEPT ![p] = n]
      PROVE  score' = [score EXCEPT ![p] = score'[p]]
  BY <1>1
<1>2. CASE Java!Next
  <2>1. CASE Java!Listen
    BY <2>1 DEF Java!Listen, Java!HandlePrepare, Java!HandleJoin, Java!HandleMovement, Java!pictureVars
  <2>2. CASE Java!EnterLoop \/ Java!ReadFirst \/ Java!SendState
    BY <2>2 DEF Java!EnterLoop, Java!ReadFirst, Java!SendState, Java!pictureVars
  <2>3. CASE Java!NextFrame /\ Java!ScorePoint
    <3>1. PICK p \in Identifier, n \in {(score["PLAYER_1"] + 1) % ScoreSpace,
                                        (score["PLAYER_2"] + 1) % ScoreSpace} :
            score' = [score EXCEPT ![p] = n]
      BY <2>3 DEF Java!ScorePoint, Identifier
    <3> QED BY <1>1, <2>3, <3>1 DEF Java!NextFrame, Java!ScorePoint
  <2>4. CASE Java!NextFrame /\ (Java!HitWall \/ Java!Fly)
    BY <2>4 DEF Java!HitWall, Java!Fly
  <2> QED BY <1>2, <2>1, <2>2, <2>3, <2>4 DEF Java!Next, Java!GameLoop
<1>3. CASE Python!Next
  <2>1. CASE Python!Listen
    BY <2>1 DEF Python!Listen, Python!HandlePrepare, Python!HandleJoin, Python!HandleMovement,
       Python!pictureVars
  <2>2. CASE Python!EnterLoop \/ Python!MoveBall \/ Python!TestUp \/ Python!TestDown
             \/ Python!HitPaddle \/ Python!SendState
    BY <2>2 DEF Python!EnterLoop, Python!MoveBall, Python!TestUp, Python!TestDown,
       Python!HitPaddle, Python!SendState, Python!pictureVars
  <2>3. CASE Python!ScorePoint
    <3>1. \/ score' = [score EXCEPT !["PLAYER_2"] = (score["PLAYER_2"] + 2) % ScoreSpace]
          \/ score' = [score EXCEPT !["PLAYER_1"] = (score["PLAYER_1"] + 1) % ScoreSpace]
      BY <2>3 DEF Python!ScorePoint
    <3>2. \E p \in Identifier : score' = [score EXCEPT ![p] = score'[p]]
      BY <1>1, <3>1 DEF Identifier
    <3> QED BY <2>3, <3>2 DEF Python!ScorePoint, Python!ResetBall
  <2> QED BY <1>3, <2>1, <2>2, <2>3 DEF Python!Next, Python!GameLoop
<1> QED BY <1>2, <1>3 DEF ServersNext

\* Every step of either server keeps it.
LEMMA StepServersInv ==
  ASSUME ServersInv, [ServersNext]_<<vars, impl>>
  PROVE  ServersInv'
<1>0. LobbyOK /\ BroadcastOK /\ BallOK /\ score = [p \in Identifier |-> score[p]]
  BY DEF ServersInv
<1>1. CASE impl = "java" /\ Java!Next /\ impl' = impl
  <2>1. LobbyOK' /\ BroadcastOK' /\ BallOK'
    BY <1>0, <1>1, JavaLobby, JavaBroadcast, JavaBall
  <2>2. ServersNext
    BY <1>1 DEF ServersNext
  <2>3. score' = [p \in Identifier |-> score'[p]]
    BY <1>0, <2>2, ScoreStep
  <2> QED BY <1>1, <2>1, <2>3 DEF ServersInv
<1>2. CASE impl = "python" /\ Python!Next /\ impl' = impl
  <2>1. LobbyOK' /\ BroadcastOK' /\ BallOK'
    BY <1>0, <1>2, PythonLobby, PythonBroadcast, PythonBall
  <2>2. ServersNext
    BY <1>2 DEF ServersNext
  <2>3. score' = [p \in Identifier |-> score'[p]]
    BY <1>0, <2>2, ScoreStep
  <2> QED BY <1>2, <2>1, <2>3 DEF ServersInv
<1>3. CASE UNCHANGED <<vars, impl>>
  BY <1>3, LobbyStutter, BroadcastStutter DEF ServersInv, vars, lobbyVars, pictureVars, loopVars,
     BallOK, InGoal, AtWall
<1> QED BY <1>1, <1>2, <1>3 DEF ServersNext

\* So it holds in every state.
THEOREM ServersInvariance == ServersSpec => []ServersInv
<1>1. ServersInit => ServersInv
  BY InitServersInv
<1>2. ServersInv /\ [ServersNext]_<<vars, impl>> => ServersInv'
  BY StepServersInv
<1> QED BY <1>1, <1>2, PTL DEF ServersSpec

\* One game loop runs from the moment the match starts, in either server,
\* whatever Joins arrive.
THEOREM ServersOneGameLoop == ServersSpec => []OneGameLoop
<1>1. ServersInv => OneGameLoop
  BY DEF ServersInv, LobbyOK
<1> QED BY <1>1, ServersInvariance, PTL

\* Both players are shown the same frame, in Python but for the directions a
\* Movement changed between the two sends.
THEOREM ServersSameForBoth == ServersSpec => []SameForBoth
<1>1. ServersInv => SameForBoth
  BY DEF ServersInv, BroadcastOK
<1> QED BY <1>1, ServersInvariance, PTL

\* A ball that is shown is on its way back from a wall it is past; it is not in a
\* goal in Python, and in Java only at a wall.
THEOREM ServersShowBallInField == ServersSpec => []BallShownInField
<1>1. ServersInv => BallShownInField
  <2> SUFFICES ASSUME ServersInv, game = "send"
               PROVE  BallShownInField
    BY DEF BallShownInField, NeverSticksToWall, Java!GoalShownOnlyAtWall, Python!GoalNeverShown
  <2>1. BallOK /\ impl \in {"java", "python"}
    BY DEF ServersInv
  <2>2. NeverSticksToWall
    BY <2>1, MiddleIsFree DEF BallOK, NeverSticksToWall
  <2>3. Java!InGoal(ball) <=> InGoal(ball)
    BY DEF Java!InGoal, InGoal, Java!Field, Field
  <2>4. Python!InGoal(ball) <=> InGoal(ball)
    BY DEF Python!InGoal, InGoal, Python!Field, Field
  <2>5. Java!AtWall(ball) <=> AtWall(ball)
    BY DEF Java!AtWall, AtWall, Java!Field, Field
  <2> QED BY <2>1, <2>2, <2>3, <2>4, <2>5 DEF BallOK, BallShownInField, Java!GoalShownOnlyAtWall,
         Python!GoalNeverShown
<1> QED BY <1>1, ServersInvariance, PTL

\* A goal changes the score of one player, the ball is served again, and both
\* players have been sent the frame before it.
THEOREM ServersScoreOnce == ServersSpec => ScoredOnce
<1>1. ServersInv /\ [ServersNext]_<<vars, impl>>
      => [score' # score =>
            /\ \E p \in Identifier : score' = [score EXCEPT ![p] = score'[p]]
            /\ ball' = [x |-> HalfField, y |-> HalfField]
            /\ \A p \in Identifier : sent[p] # NothingSent => sent[p].frame = frame]_vars
  BY ScoreStep DEF ServersInv, BroadcastOK, vars, pictureVars
<1> QED BY <1>1, ServersInvariance, PTL DEF ServersSpec, ScoredOnce

-----------------------------------------------------------------------------
(* The refinement of MatchSeats. *)

\* A step of a server that leaves its lobby alone is a stutter of MatchSeats.
LEMMA SeatsStutter ==
  ASSUME UNCHANGED <<phase, clients, grants>>
  PROVE  UNCHANGED Seats!vars
BY DEF Seats!vars, Stage

\* A Prepare that is obeyed reserves the seats.
LEMMA SeatsReserve ==
  ASSUME LobbyOK, NEW a \in Address, phase = "WAITING", phase' = "PREPARING",
         grants' = Append(grants, a), clients' = clients
  PROVE  Seats!Next
<1>1. grants' = <<a>>
  BY DEF LobbyOK
<1>2. Stage = "open" /\ Stage' = "reserved"
  BY DEF Stage
<1> QED BY <1>1, <1>2 DEF Seats!Next, Seats!Reserve

\* A Join that is obeyed takes one, and starts the match if it was the last.
LEMMA SeatsTake ==
  ASSUME NEW p \in Identifier, NEW a \in Address, phase = "PREPARING",
         clients' = [clients EXCEPT ![p] = a], grants' = grants,
         phase' = IF \A q \in Identifier : clients'[q] # NoAddress THEN "STARTED" ELSE phase
  PROVE  Seats!Next
<1>1. Stage = "reserved"
  BY DEF Stage
<1>2. Stage' = IF \A q \in Seats!Identifier : clients'[q] # NoAddress THEN "playing" ELSE "reserved"
  BY DEF Stage, Seats!Identifier, Identifier
<1>3. Seats!TakeSeat(p, a)
  BY <1>1, <1>2 DEF Seats!TakeSeat
<1> QED BY <1>3 DEF Seats!Next, Seats!Identifier, Identifier

\* A step of the Java server is one of MatchSeats, or leaves it alone.
LEMMA JavaImplements ==
  ASSUME LobbyOK, Java!Next
  PROVE  [Seats!Next]_Seats!vars
<1>1. ASSUME NEW a \in Address, Java!HandlePrepare(a)
      PROVE  Seats!Next
  BY <1>1, SeatsReserve DEF Java!HandlePrepare
<1>2. ASSUME NEW p \in Identifier, NEW a \in Address, Java!HandleJoin(p, a)
      PROVE  Seats!Next
  <2>1. phase' = IF \A q \in Identifier : clients'[q] # NoAddress THEN "STARTED" ELSE phase
    BY <1>2 DEF Java!HandleJoin, Java!StartMatch, Java!Identifier, Identifier
  <2> QED BY <1>2, <2>1, SeatsTake DEF Java!HandleJoin
<1>3. ASSUME NEW p \in Identifier, NEW d \in Moves, Java!HandleMovement(p, d)
      PROVE  UNCHANGED Seats!vars
  BY <1>3, SeatsStutter DEF Java!HandleMovement, Java!lobbyVars
<1>4. CASE Java!GameLoop
  BY <1>4, SeatsStutter DEF Java!GameLoop, Java!EnterLoop, Java!ReadFirst, Java!NextFrame,
     Java!SendState, Java!lobbyVars
<1> QED BY <1>1, <1>2, <1>3, <1>4 DEF Java!Next, Java!Listen, Java!Identifier, Identifier

\* So is one of the Python server, which counts the players that joined.
LEMMA PythonImplements ==
  ASSUME LobbyOK, impl = "python", Python!Next, LobbyOK', impl' = impl
  PROVE  [Seats!Next]_Seats!vars
<1>1. ASSUME NEW a \in Address, Python!HandlePrepare(a)
      PROVE  Seats!Next
  BY <1>1, SeatsReserve DEF Python!HandlePrepare
<1>2. ASSUME NEW p \in Identifier, NEW a \in Address, Python!HandleJoin(p, a)
      PROVE  Seats!Next
  <2>1. Len(joined') = 2 <=> \A q \in Identifier : clients'[q] # NoAddress
    <3>1. JoinedOK'
      BY DEF LobbyOK
    <3>2. CASE joined' = <<>> /\ \A q \in Identifier : clients'[q] = NoAddress
      BY <3>2 DEF Identifier
    <3>3. ASSUME NEW r \in Identifier, joined' = <<r>>,
                 \A q \in Identifier : clients'[q] # NoAddress <=> q = r
          PROVE  /\ Len(joined') = 1
                 /\ ~\A q \in Identifier : clients'[q] # NoAddress
      BY <3>3 DEF Identifier
    <3> QED BY <3>1, <3>2, <3>3 DEF JoinedOK
  <2>2. phase' = IF \A q \in Identifier : clients'[q] # NoAddress THEN "STARTED" ELSE phase
    BY <1>2, <2>1 DEF Python!HandleJoin, Python!StartMatch
  <2> QED BY <1>2, <2>2, SeatsTake DEF Python!HandleJoin
<1>3. ASSUME NEW p \in Identifier, NEW d \in Moves, Python!HandleMovement(p, d)
      PROVE  UNCHANGED Seats!vars
  BY <1>3, SeatsStutter DEF Python!HandleMovement, Python!lobbyVars
<1>4. CASE Python!GameLoop
  BY <1>4, SeatsStutter DEF Python!GameLoop, Python!EnterLoop, Python!MoveBall, Python!ScorePoint,
     Python!TestUp, Python!TestDown, Python!FinishPaddle, Python!HitPaddle, Python!SendState,
     Python!lobbyVars
<1> QED BY <1>1, <1>2, <1>3, <1>4 DEF Python!Next, Python!Listen, Python!Identifier, Identifier

\* Both servers keep the promise of MatchSeats: the seats are handed out once, and
\* a match that has started never changes its players.
THEOREM ServersImplementMatchSeats == ServersSpec => SeatsSpec
<1>1. ServersInit => Seats!Init
  BY DEF ServersInit, Init, Seats!Init, Stage, Seats!Identifier, Identifier
<1>2. ServersInv /\ ServersInv' /\ [ServersNext]_<<vars, impl>> => [Seats!Next]_Seats!vars
  <2> SUFFICES ASSUME ServersInv, ServersInv', [ServersNext]_<<vars, impl>>
               PROVE  [Seats!Next]_Seats!vars
    OBVIOUS
  <2>1. CASE impl = "java" /\ Java!Next
    BY <2>1, JavaImplements DEF ServersInv
  <2>2. CASE impl = "python" /\ Python!Next /\ impl' = impl
    BY <2>2, PythonImplements DEF ServersInv
  <2>3. CASE UNCHANGED <<vars, impl>>
    BY <2>3, SeatsStutter DEF vars, lobbyVars
  <2> QED BY <2>1, <2>2, <2>3 DEF ServersNext
<1> QED BY <1>1, <1>2, ServersInvariance, PTL DEF ServersSpec, SeatsSpec, Seats!Spec

-----------------------------------------------------------------------------
(* The types of everything. *)

\* What is sent, and who is visited, by the game loop.
FieldsOK ==
  /\ grants \in Seq(Address) /\ joined \in Seq(Identifier) /\ cursor \in Seq(Identifier)
  /\ direction \in [Identifier -> Direction] /\ shown \in [Identifier -> Direction]
  /\ location \in [Identifier -> 0 .. Field]
  /\ score \in [Identifier -> 0 .. ScoreSpace - 1]
  /\ game \in {"off", "spawned", "frame", "paddles", "not_up", "hit", "send"}
  /\ impl = "python" /\ game \in {"paddles", "not_up"} => cursor # <<>>

\* A ball past a goal line is at a wall, and flies on: the next step of the
\* game loop finds it in the goal.
FlightOK ==
  /\ ball \in [x : -MaxSpeed .. Field + MaxSpeed, y : Int]
  /\ ball_velocity \in (-MaxSpeed .. MaxSpeed) \X {-Step, 0, Step}
  /\ ball.x <= 0 => AtWall(ball) /\ ball_velocity[1] < 0
  /\ ball.x >= Field => AtWall(ball) /\ ball_velocity[1] > 0

\* The servers move a paddle as PongGeometry does.
LEMMA PaddlesInField ==
  ASSUME NEW places \in [Identifier -> 0 .. Field], NEW p \in Identifier, NEW d \in Direction
  PROVE  /\ Java!MovedPaddle(places[p], d) \in 0 .. Field
         /\ Python!MovedPaddle(places[p], d) \in 0 .. Field
<1>1. MovedPaddle(places[p], d) \in 0 .. Field
  BY MovedPaddleInField
<1>2. Java!MovedPaddle(places[p], d) = MovedPaddle(places[p], d)
  BY DEF Java!MovedPaddle, MovedPaddle, Java!Clamp, Clamp, Java!Larger, Larger, Java!Smaller, Smaller,
     Java!Field, Field
<1>3. Python!MovedPaddle(places[p], d) = MovedPaddle(places[p], d)
  BY DEF Python!MovedPaddle, MovedPaddle, Python!Clamp, Clamp, Python!Larger, Larger,
     Python!Smaller, Smaller, Python!Field, Field
<1> QED BY <1>1, <1>2, <1>3

\* A score that wraps is a score.
LEMMA ScoresWrap ==
  ASSUME score \in [Identifier -> 0 .. ScoreSpace - 1], NEW p \in Identifier, NEW n \in {1, 2}
  PROVE  [score EXCEPT ![p] = (@ + n) % ScoreSpace] \in [Identifier -> 0 .. ScoreSpace - 1]
<1>1. score[p] + n \in Nat /\ ScoreSpace \in Nat /\ ScoreSpace > 0
  BY GameServerAssumption
<1>2. (score[p] + n) % ScoreSpace \in 0 .. ScoreSpace - 1
  BY <1>1
<1> QED BY <1>2

\* What the listener of the Java server stores.
LEMMA JavaFields ==
  ASSUME LobbyOK, BroadcastOK, FieldsOK, Java!Next, impl = "java", impl' = impl
  PROVE  FieldsOK'
<1> USE DEF FieldsOK
<1>1. ASSUME NEW a \in Address, Java!HandlePrepare(a)
      PROVE  FieldsOK'
  BY <1>1 DEF Java!HandlePrepare, Java!pictureVars, Java!loopVars
<1>2. ASSUME NEW p \in Identifier, NEW a \in Address, Java!HandleJoin(p, a)
      PROVE  FieldsOK'
  BY <1>2 DEF Java!HandleJoin, Java!StartMatch, Java!pictureVars, Java!loopVars
<1>3. ASSUME NEW p \in Identifier, NEW d \in Moves, Java!HandleMovement(p, d)
      PROVE  FieldsOK'
  BY <1>3, GameServerAssumption DEF Java!HandleMovement, Java!pictureVars, Java!loopVars, Java!lobbyVars
<1>4. CASE Java!EnterLoop
  BY <1>4 DEF Java!EnterLoop, Java!loopVars, Java!lobbyVars
<1>5. CASE Java!ReadFirst
  BY <1>5 DEF Java!ReadFirst, Java!pictureVars, Java!lobbyVars, Identifier
<1>6. CASE Java!NextFrame /\ (Java!HitWall \/ Java!ScorePoint \/ Java!Fly)
  <2>1. /\ shown' = [shown EXCEPT !["PLAYER_2"] = direction["PLAYER_2"]]
        /\ location' = [p \in Identifier |-> Java!MovedPaddle(location[p], shown'[p])]
        /\ game' = "send" /\ cursor' = <<"PLAYER_1", "PLAYER_2">>
        /\ UNCHANGED <<grants, joined, direction>>
    BY <1>6 DEF Java!NextFrame, Java!Identifier, Identifier, Java!Players, Java!lobbyVars
  <2>2. shown' \in [Identifier -> Direction]
    BY <2>1 DEF Identifier
  <2>3. location' \in [Identifier -> 0 .. Field]
    BY <2>1, <2>2, PaddlesInField
  <2>4. score' \in [Identifier -> 0 .. ScoreSpace - 1]
    <3>1. CASE Java!ScorePoint
      <4>1. PICK p \in Identifier : score' = [score EXCEPT ![p] = (@ + 1) % ScoreSpace]
        BY <3>1 DEF Java!ScorePoint, Identifier
      <4> QED BY <4>1, ScoresWrap
    <3>2. CASE Java!HitWall \/ Java!Fly
      BY <3>2 DEF Java!HitWall, Java!Fly
    <3> QED BY <1>6, <3>1, <3>2
  <2>5. cursor' \in Seq(Identifier)
    BY <2>1 DEF Identifier
  <2> QED BY <2>1, <2>2, <2>3, <2>4, <2>5
<1>7. CASE Java!SendState
  <2>1. cursor # <<>>
    BY <1>7 DEF Java!SendState, BroadcastOK
  <2>2. cursor' \in Seq(Identifier)
    BY <1>7, <2>1 DEF Java!SendState
  <2> QED BY <1>7, <2>2 DEF Java!SendState, Java!pictureVars, Java!lobbyVars
<1> QED BY <1>1, <1>2, <1>3, <1>4, <1>5, <1>6, <1>7 DEF Java!Next, Java!Listen, Java!GameLoop,
       Java!Identifier, Identifier

\* What the Python server stores.
LEMMA PythonFields ==
  ASSUME LobbyOK, BroadcastOK, FieldsOK, Python!Next, impl = "python", impl' = impl
  PROVE  FieldsOK'
<1> USE DEF FieldsOK
<1>1. ASSUME NEW a \in Address, Python!HandlePrepare(a)
      PROVE  FieldsOK'
  BY <1>1 DEF Python!HandlePrepare, Python!pictureVars, Python!loopVars
<1>2. ASSUME NEW p \in Identifier, NEW a \in Address, Python!HandleJoin(p, a)
      PROVE  FieldsOK'
  <2>1. joined' \in Seq(Identifier)
    BY <1>2 DEF Python!HandleJoin
  <2>2. UNCHANGED <<grants, cursor, direction, shown, location, score>>
        /\ (UNCHANGED game \/ game' = "spawned")
    BY <1>2 DEF Python!HandleJoin, Python!StartMatch, Python!pictureVars, Python!loopVars
  <2> QED BY <2>1, <2>2
<1>3. ASSUME NEW p \in Identifier, NEW d \in Moves, Python!HandleMovement(p, d)
      PROVE  FieldsOK'
  BY <1>3, GameServerAssumption DEF Python!HandleMovement, Python!pictureVars, Python!loopVars,
     Python!lobbyVars
<1>4. CASE Python!EnterLoop
  BY <1>4 DEF Python!EnterLoop, Python!loopVars, Python!lobbyVars
<1>5. CASE Python!MoveBall \/ Python!ScorePoint
  <2>1. /\ game' = "paddles" /\ cursor' = <<"PLAYER_1", "PLAYER_2">>
        /\ UNCHANGED <<grants, joined, direction, shown, location>>
    BY <1>5 DEF Python!MoveBall, Python!ScorePoint, Python!Players, Python!lobbyVars
  <2>2. cursor' \in Seq(Identifier) /\ cursor' # <<>>
    BY <2>1 DEF Identifier
  <2>3. score' \in [Identifier -> 0 .. ScoreSpace - 1]
    <3>1. CASE Python!ScorePoint
      <4>1. PICK p \in Identifier, n \in {1, 2} : score' = [score EXCEPT ![p] = (@ + n) % ScoreSpace]
        BY <3>1 DEF Python!ScorePoint, Identifier
      <4> QED BY <4>1, ScoresWrap
    <3>2. CASE Python!MoveBall
      BY <3>2 DEF Python!MoveBall
    <3> QED BY <1>5, <3>1, <3>2
  <2> QED BY <2>1, <2>2, <2>3
<1>6. ASSUME NEW d \in Direction, cursor # <<>>, Python!FinishPaddle(d),
             UNCHANGED <<grants, joined, direction, shown, score>>
      PROVE  FieldsOK'
  <2>1. Head(cursor) \in Identifier /\ Tail(cursor) \in Seq(Identifier)
    BY <1>6
  <2>2. location' = [location EXCEPT ![Head(cursor)] = Python!MovedPaddle(@, d)]
    BY <1>6 DEF Python!FinishPaddle
  <2>3. location' \in [Identifier -> 0 .. Field]
    BY <2>1, <2>2, PaddlesInField
  <2>4. cursor' \in Seq(Identifier) /\ game' \in {"hit", "paddles"}
        /\ (game' = "paddles" => cursor' # <<>>)
    BY <1>6, <2>1 DEF Python!FinishPaddle
  <2> QED BY <1>6, <2>3, <2>4
<1>7. CASE Python!TestUp
  <2>1. UNCHANGED <<grants, joined, direction, shown, score>> /\ cursor # <<>> /\ "UP" \in Direction
    BY <1>7 DEF Python!TestUp, Python!lobbyVars, Direction
  <2>2. Python!FinishPaddle("UP") \/ (game' = "not_up" /\ UNCHANGED <<location, cursor>>)
    BY <1>7 DEF Python!TestUp
  <2>3. CASE game' = "not_up" /\ UNCHANGED <<location, cursor>>
    BY <2>1, <2>3
  <2> QED BY <1>6, <2>1, <2>2, <2>3
<1>8. CASE Python!TestDown
  <2>1. UNCHANGED <<grants, joined, direction, shown, score>> /\ cursor # <<>>
    BY <1>8 DEF Python!TestDown, Python!lobbyVars
  <2>2. Python!FinishPaddle("DOWN") \/ Python!FinishPaddle("STOP")
    BY <1>8 DEF Python!TestDown
  <2>3. "DOWN" \in Direction /\ "STOP" \in Direction
    BY DEF Direction
  <2> QED BY <1>6, <2>1, <2>2, <2>3
<1>9. CASE Python!HitPaddle
  BY <1>9 DEF Python!HitPaddle, Python!lobbyVars
<1>10. CASE Python!SendState
  <2>1. cursor # <<>>
    BY <1>10 DEF Python!SendState, BroadcastOK
  <2>2. cursor' \in Seq(Identifier)
    BY <1>10, <2>1 DEF Python!SendState
  <2> QED BY <1>10, <2>2 DEF Python!SendState, Python!pictureVars, Python!lobbyVars
<1> QED BY <1>1, <1>2, <1>3, <1>4, <1>5, <1>7, <1>8, <1>9, <1>10 DEF Python!Next, Python!Listen,
       Python!GameLoop, Python!Identifier, Identifier

\* A paddle gives the ball a speed within the bound.
LEMMA ReboundBelowMaxSpeed ==
  ASSUME FlightOK, NEW b, NEW places
  PROVE  /\ \A v \in Java!Rebound(b, places) : v \in (-MaxSpeed .. MaxSpeed) \X {-Step, 0, Step}
         /\ \A v \in Python!Rebound(b, places) : v \in (-MaxSpeed .. MaxSpeed) \X {-Step, 0, Step}
<1>1. ball_velocity \in (-MaxSpeed .. MaxSpeed) \X {-Step, 0, Step} /\ MaxSpeed \in Nat
  BY GameServerAssumption DEF FlightOK
<1>2. ASSUME NEW s \in 0 .. MaxSpeed, NEW left \in BOOLEAN
      PROVE  <<IF left THEN s ELSE -s, ball_velocity[2]>> \in (-MaxSpeed .. MaxSpeed) \X {-Step, 0, Step}
  <2>1. (IF left THEN s ELSE -s) \in -MaxSpeed .. MaxSpeed
    BY <1>1
  <2> QED BY <1>1, <2>1
<1>3. (ball_velocity[1] <= 0) \in BOOLEAN
  OBVIOUS
<1>4. ASSUME NEW v \in Java!Rebound(b, places)
      PROVE  \/ v = ball_velocity
             \/ \E s \in 0 .. MaxSpeed : v = <<IF ball_velocity[1] <= 0 THEN s ELSE -s, ball_velocity[2]>>
  BY <1>4 DEF Java!Rebound
<1>5. ASSUME NEW v \in Python!Rebound(b, places)
      PROVE  \/ v = ball_velocity
             \/ \E s \in 0 .. MaxSpeed : v = <<IF ball_velocity[1] <= 0 THEN s ELSE -s, ball_velocity[2]>>
  BY <1>5 DEF Python!Rebound
<1> QED BY <1>1, <1>2, <1>3, <1>4, <1>5

\* A served ball may fly anywhere.
LEMMA Served ==
  ASSUME ball' = [x |-> HalfField, y |-> HalfField],
         ball_velocity' \in {-Step, Step} \X {-Step, Step}
  PROVE  FlightOK'
<1>1. HalfField \in -MaxSpeed .. Field + MaxSpeed /\ -Step \in -MaxSpeed .. MaxSpeed
      /\ Step \in -MaxSpeed .. MaxSpeed /\ ~(HalfField <= 0) /\ ~(HalfField >= Field) /\ HalfField \in Int
  BY MiddleIsFree, GameServerAssumption
<1>2. ball' \in [x : -MaxSpeed .. Field + MaxSpeed, y : Int] /\ ball'.x = HalfField
  BY <1>1
<1>3. ball_velocity' \in (-MaxSpeed .. MaxSpeed) \X {-Step, 0, Step}
  BY <1>1
<1> QED BY <1>1, <1>2, <1>3 DEF FlightOK

\* One step further, a ball that was in play is past a goal line by no more
\* than its speed, and only past the one it flew to.  One that was past it is
\* past it still, and at no wall.
LEMMA MovedBallInFlight ==
  ASSUME BallOK, FlightOK, game \notin {"off", "spawned"}
  PROVE  /\ MovedBall = [x |-> MovedBall.x, y |-> MovedBall.y] /\ MovedBall.x \in Int /\ MovedBall.y \in Int
         /\ InGoal(ball) => ~AtWall(MovedBall) /\ InGoal(MovedBall)
         /\ ~InGoal(ball) =>
              /\ MovedBall.x \in -MaxSpeed .. Field + MaxSpeed
              /\ MovedBall.x <= 0 => ball_velocity[1] < 0
              /\ MovedBall.x >= Field => ball_velocity[1] > 0
<1>1. /\ ball.x \in Int /\ ball.y \in Int /\ ball_velocity[1] \in -MaxSpeed .. MaxSpeed
      /\ ball_velocity[2] \in {-Step, Step} /\ -Step < ball.y /\ ball.y < Field + Step
      /\ ball.y <= 0 => ball_velocity[2] = Step
      /\ ball.y >= Field => ball_velocity[2] = -Step
      /\ MaxSpeed \in Nat /\ Step \in Int /\ Field \in Int /\ 0 < Step /\ Step < Field
  BY MiddleIsFree, GameServerAssumption DEF BallOK, FlightOK
<1>2. MovedBall = [x |-> ball.x + ball_velocity[1], y |-> ball.y + ball_velocity[2]]
  BY DEF MovedBall
<1>3. MovedBall.x = ball.x + ball_velocity[1] /\ MovedBall.y = ball.y + ball_velocity[2]
  BY <1>2
<1>4. ASSUME InGoal(ball)
      PROVE  ~AtWall(MovedBall) /\ InGoal(MovedBall)
  <2>1. AtWall(ball) /\ (ball.x <= 0 => ball_velocity[1] < 0) /\ (ball.x >= Field => ball_velocity[1] > 0)
    BY <1>4 DEF FlightOK, InGoal
  <2>2. MovedBall.x <= 0 \/ MovedBall.x >= Field
    BY <1>1, <1>3, <1>4, <2>1 DEF InGoal
  <2>3. ~(MovedBall.y <= 0) /\ ~(MovedBall.y >= Field)
    BY <1>1, <1>3, <2>1 DEF AtWall
  <2> QED BY <2>2, <2>3 DEF AtWall, InGoal
<1>5. ASSUME ~InGoal(ball)
      PROVE  /\ MovedBall.x \in -MaxSpeed .. Field + MaxSpeed
             /\ MovedBall.x <= 0 => ball_velocity[1] < 0
             /\ MovedBall.x >= Field => ball_velocity[1] > 0
  BY <1>1, <1>3, <1>5 DEF InGoal
<1> QED BY <1>1, <1>2, <1>3, <1>4, <1>5

\* The ball of the Java server.
LEMMA JavaFlight ==
  ASSUME LobbyOK, BallOK, FlightOK, Java!Next, impl = "java", impl' = impl
  PROVE  FlightOK'
<1>1. CASE UNCHANGED <<ball, ball_velocity>>
  BY <1>1 DEF FlightOK, AtWall
<1>2. CASE Java!Listen \/ Java!ReadFirst \/ Java!SendState
  BY <1>1, <1>2 DEF Java!Listen, Java!HandlePrepare, Java!HandleJoin, Java!HandleMovement, Java!ReadFirst,
     Java!SendState, Java!pictureVars
<1>3. CASE Java!EnterLoop
  <2>1. ball' = [x |-> HalfField, y |-> HalfField] /\ ball_velocity' \in {-Step, Step} \X {-Step, Step}
    BY <1>3 DEF Java!EnterLoop, Java!ResetBallVelocity, BallOK
  <2> QED BY <2>1, Served
<1>4. CASE Java!NextFrame /\ (Java!HitWall \/ Java!ScorePoint \/ Java!Fly)
  <2>1. game \notin {"off", "spawned"}
    BY <1>4 DEF Java!NextFrame
  <2>2. CASE Java!HitWall
    <3>1. /\ ball' = MovedBall /\ ball_velocity' = <<ball_velocity[1], -ball_velocity[2]>> /\ AtWall(MovedBall)
      BY <2>2 DEF Java!HitWall, Java!MovedBall, MovedBall, Java!AtWall, AtWall, Java!Field, Field
    <3>2. ball_velocity' \in (-MaxSpeed .. MaxSpeed) \X {-Step, 0, Step} /\ ball_velocity'[1] = ball_velocity[1]
      BY <3>1, MiddleIsFree DEF FlightOK
    <3>3. ~InGoal(ball)
      BY <2>1, <3>1, MovedBallInFlight
    <3>4. ball' \in [x : -MaxSpeed .. Field + MaxSpeed, y : Int] /\ AtWall(ball')
      BY <2>1, <3>1, <3>3, MovedBallInFlight
    <3>5. /\ ball'.x <= 0 => ball_velocity'[1] < 0
          /\ ball'.x >= Field => ball_velocity'[1] > 0
      BY <2>1, <3>1, <3>2, <3>3, MovedBallInFlight
    <3> QED BY <3>2, <3>4, <3>5 DEF FlightOK, AtWall
  <2>3. CASE Java!ScorePoint
    <3>1. ball' = [x |-> HalfField, y |-> HalfField] /\ ball_velocity' \in {-Step, Step} \X {-Step, Step}
      BY <2>3 DEF Java!ScorePoint, Java!ResetBallVelocity
    <3> QED BY <3>1, Served
  <2>4. CASE Java!Fly
    <3>1. /\ ball' = MovedBall /\ ~InGoal(MovedBall)
          /\ ball_velocity' \in (-MaxSpeed .. MaxSpeed) \X {-Step, 0, Step}
      BY <2>4, ReboundBelowMaxSpeed DEF Java!Fly, Java!MovedBall, MovedBall, Java!InGoal, InGoal,
         Java!Field, Field
    <3>2. ball' \in [x : -MaxSpeed .. Field + MaxSpeed, y : Int]
      BY <2>1, <3>1, MovedBallInFlight
    <3> QED BY <3>1, <3>2 DEF FlightOK, InGoal
  <2> QED BY <1>4, <2>2, <2>3, <2>4
<1> QED BY <1>2, <1>3, <1>4 DEF Java!Next, Java!GameLoop

\* The ball of the Python server.
LEMMA PythonFlight ==
  ASSUME LobbyOK, BallOK, FlightOK, Python!Next, impl = "python", impl' = impl
  PROVE  FlightOK'
<1>1. CASE UNCHANGED <<ball, ball_velocity>>
  BY <1>1 DEF FlightOK, AtWall
<1>2. CASE Python!Listen \/ Python!TestUp \/ Python!TestDown \/ Python!SendState
  BY <1>1, <1>2 DEF Python!Listen, Python!HandlePrepare, Python!HandleJoin, Python!HandleMovement,
     Python!TestUp, Python!TestDown, Python!SendState, Python!pictureVars
<1>3. CASE Python!EnterLoop \/ Python!ScorePoint
  <2>1. ball' = [x |-> HalfField, y |-> HalfField] /\ ball_velocity' \in {-Step, Step} \X {-Step, Step}
    BY <1>3 DEF Python!EnterLoop, Python!ScorePoint, Python!ResetBall
  <2> QED BY <2>1, Served
<1>4. CASE Python!MoveBall
  <2>1. /\ game \notin {"off", "spawned"} /\ ball' = MovedBall /\ ~InGoal(MovedBall)
        /\ ball_velocity' = <<ball_velocity[1], -ball_velocity[2]>> \/ ball_velocity' = ball_velocity
    BY <1>4 DEF Python!MoveBall, Python!Scored, Python!MovedBall, MovedBall, Python!InGoal, InGoal,
       Python!Field, Field
  <2>2. ball_velocity' \in (-MaxSpeed .. MaxSpeed) \X {-Step, 0, Step}
    BY <2>1, MiddleIsFree DEF FlightOK
  <2>3. ball' = [x |-> ball'.x, y |-> ball'.y] /\ ball'.x \in Int /\ ball'.y \in Int
        /\ ~(ball'.x <= 0) /\ ~(ball'.x >= Field)
    BY <2>1, MovedBallInFlight DEF InGoal
  <2>4. ball'.x \in -MaxSpeed .. Field + MaxSpeed
    BY <2>3, MiddleIsFree, GameServerAssumption
  <2>5. ball' \in [x : -MaxSpeed .. Field + MaxSpeed, y : Int]
    BY <2>3, <2>4
  <2> QED BY <2>2, <2>3, <2>5 DEF FlightOK
<1>5. CASE Python!HitPaddle
  <2>1. ball' = ball /\ game = "hit" /\ ball_velocity' \in (-MaxSpeed .. MaxSpeed) \X {-Step, 0, Step}
    BY <1>5, ReboundBelowMaxSpeed DEF Python!HitPaddle
  <2>2. ~InGoal(ball)
    BY <2>1 DEF BallOK
  <2> QED BY <2>1, <2>2 DEF FlightOK, InGoal
<1> QED BY <1>2, <1>3, <1>4, <1>5 DEF Python!Next, Python!GameLoop

\* The fields of both servers and the flight of the ball are as they should.
LEMMA FieldsInvariance == ServersSpec => [](FieldsOK /\ FlightOK)
<1>1. ServersInit => FieldsOK /\ FlightOK
  <2> SUFFICES ASSUME ServersInit
               PROVE  FieldsOK /\ FlightOK
    OBVIOUS
  <2> USE GameServerAssumption, MiddleIsFree DEF ServersInit, Init
  <2>1. FieldsOK
    <3>1. HalfField \in 0 .. Field /\ 0 \in 0 .. ScoreSpace - 1 /\ "STOP" \in Direction
      BY DEF Direction
    <3> QED BY <3>1 DEF FieldsOK
  <2>2. FlightOK
    <3>1. ball = [x |-> HalfField, y |-> HalfField] /\ ball_velocity = <<0, 0>>
      OBVIOUS
    <3>2. HalfField \in -MaxSpeed .. Field + MaxSpeed /\ 0 \in -MaxSpeed .. MaxSpeed
          /\ ~(HalfField <= 0) /\ ~(HalfField >= Field)
      OBVIOUS
    <3>3. ball_velocity \in (-MaxSpeed .. MaxSpeed) \X {-Step, 0, Step} /\ ball.x = HalfField
      BY <3>1, <3>2
    <3> QED BY <3>1, <3>2, <3>3 DEF FlightOK
  <2> QED BY <2>1, <2>2
<1>2. ASSUME ServersInv, FieldsOK, FlightOK, [ServersNext]_<<vars, impl>>
      PROVE  FieldsOK' /\ FlightOK'
  <2>0. LobbyOK /\ BroadcastOK /\ BallOK
    BY <1>2 DEF ServersInv
  <2>1. CASE impl = "java" /\ Java!Next /\ impl' = impl
    BY <1>2, <2>0, <2>1, JavaFields, JavaFlight
  <2>2. CASE impl = "python" /\ Python!Next /\ impl' = impl
    BY <1>2, <2>0, <2>2, PythonFields, PythonFlight
  <2>3. CASE UNCHANGED <<vars, impl>>
    BY <1>2, <2>3 DEF FieldsOK, FlightOK, AtWall, vars, lobbyVars, pictureVars, loopVars
  <2> QED BY <1>2, <2>1, <2>2, <2>3 DEF ServersNext
<1> QED BY <1>1, <1>2, ServersInvariance, PTL DEF ServersSpec

\* TypeOK of the Java and the Python server: besides the types, the ball never
\* leaves the field by more than one step of its flight, the paddles stay in
\* it, and scores and frames wrap.
THEOREM ServersTypeCorrect == ServersSpec => []TypeOK
<1>1. ServersInv /\ FieldsOK /\ FlightOK => TypeOK
  <2> SUFFICES ASSUME ServersInv, FieldsOK, FlightOK
               PROVE  TypeOK
    OBVIOUS
  <2>1. ball.y \in -Step .. Field + Step
    <3>1. CASE game \in {"off", "spawned"}
      BY <3>1, MiddleIsFree DEF ServersInv, BallOK
    <3>2. CASE game \notin {"off", "spawned"}
      BY <3>2, MiddleIsFree DEF ServersInv, BallOK
    <3> QED BY <3>1, <3>2
  <2>2. ball \in [x : -MaxSpeed .. Field + MaxSpeed, y : -Step .. Field + Step]
    BY <2>1 DEF FlightOK
  <2>3. phase \in {"WAITING", "PREPARING", "STARTED"} /\ frame \in 0 .. FrameSpace - 1
        /\ clients \in [Identifier -> Address \cup {NoAddress}]
    BY DEF ServersInv, LobbyOK, BroadcastOK
  <2> QED BY <2>2, <2>3 DEF FieldsOK, FlightOK, TypeOK
<1> QED BY <1>1, ServersInvariance, FieldsInvariance, PTL

-----------------------------------------------------------------------------
(* Every frame is finished.                                                *)

\* A step of the game loop of the server that runs.
Plays == (impl = "java" /\ Java!GameLoop) \/ (impl = "python" /\ Python!GameLoop)

\* How many steps of its own the game loop is at most from the top: the Java one
\* computes the frame in one, the Python one visits the two paddles, which takes
\* one or two each; then there are two sends.
StepsLeft ==
  CASE game \in {"off", "spawned"} -> 8
    [] game = "frame"   -> 0
    [] game = "paddles" -> IF impl = "java" THEN 3 ELSE 3 + 2 * Len(cursor)
    [] game = "not_up"  -> 2 + 2 * Len(cursor)
    [] game = "hit"     -> 3
    [] game = "send"    -> Len(cursor)

\* Whoever is still to be visited, by paddle or by datagram, is one of two; the
\* Java server moves the paddles in one step.
CursorOK ==
  /\ game = "send" => cursor # <<>> /\ Len(cursor) <= 2
  /\ impl = "python" /\ game \in {"paddles", "not_up"} => cursor # <<>> /\ Len(cursor) <= 2
  /\ impl = "java" => game \notin {"not_up", "hit"}

\* What a visit leaves of the cursor.
LEMMA OneVisitLess ==
  ASSUME cursor \in Seq(Identifier), cursor # <<>>
  PROVE  /\ Len(cursor) \in Nat \ {0}
         /\ Tail(cursor) \in Seq(Identifier) /\ Len(Tail(cursor)) = Len(cursor) - 1
         /\ Tail(cursor) = <<>> <=> Len(cursor) = 1
<1>1. Len(cursor) \in Nat /\ Len(cursor) # 0
  BY EmptySeq, LenProperties
<1>2. Tail(cursor) \in Seq(Identifier) /\ Len(Tail(cursor)) = Len(cursor) - 1
  BY HeadTailProperties
<1>3. Tail(cursor) = <<>> <=> Len(Tail(cursor)) = 0
  BY <1>2, EmptySeq
<1> QED BY <1>1, <1>2, <1>3

\* The two of them, in one order or the other.
LEMMA PairLength ==
  ASSUME NEW p, NEW q
  PROVE  Len(<<p, q>>) = 2 /\ <<p, q>> # <<>> /\ Len(<<p>>) = 1 /\ <<p>> # <<>>
OBVIOUS

\* The Java server's game loop.
LEMMA JavaSteps ==
  ASSUME FieldsOK, CursorOK, impl = "java", impl' = impl, Java!GameLoop
  PROVE  CursorOK' /\ (game = "frame" \/ StepsLeft' < StepsLeft)
<1>1. Len(cursor) \in Nat /\ cursor \in Seq(Identifier)
  BY LenProperties DEF FieldsOK
<1>2. CASE Java!EnterLoop \/ Java!ReadFirst
  BY <1>2 DEF Java!EnterLoop, Java!ReadFirst, CursorOK, StepsLeft
<1>3. CASE Java!NextFrame
  <2>1. game = "paddles" /\ game' = "send" /\ cursor' = <<"PLAYER_1", "PLAYER_2">>
    BY <1>3 DEF Java!NextFrame, Java!Players
  <2>2. Len(cursor') = 2 /\ cursor' # <<>>
    BY <2>1, PairLength
  <2> QED BY <2>1, <2>2 DEF CursorOK, StepsLeft
<1>4. CASE Java!SendState
  <2>1. /\ game = "send" /\ cursor # <<>> /\ cursor' = Tail(cursor)
        /\ game' = IF cursor' = <<>> THEN "frame" ELSE "send"
    BY <1>4 DEF Java!SendState, CursorOK
  <2>2. /\ Len(cursor) \in Nat \ {0} /\ Len(cursor') = Len(cursor) - 1
        /\ cursor' = <<>> <=> Len(cursor) = 1
    BY <1>1, <2>1, OneVisitLess
  <2> QED BY <2>1, <2>2 DEF CursorOK, StepsLeft
<1> QED BY <1>2, <1>3, <1>4 DEF Java!GameLoop

\* The Python server's game loop.
LEMMA PythonSteps ==
  ASSUME LobbyOK, FieldsOK, CursorOK, impl = "python", impl' = impl, Python!GameLoop
  PROVE  CursorOK' /\ (game = "frame" \/ StepsLeft' < StepsLeft)
<1>1. Len(cursor) \in Nat /\ cursor \in Seq(Identifier)
  BY LenProperties DEF FieldsOK
<1>2. CASE Python!EnterLoop
  BY <1>2 DEF Python!EnterLoop, CursorOK, StepsLeft
<1>3. CASE Python!MoveBall \/ Python!ScorePoint
  <2>1. game = "frame" /\ game' = "paddles" /\ cursor' = <<"PLAYER_1", "PLAYER_2">>
    BY <1>3 DEF Python!MoveBall, Python!ScorePoint, Python!Players
  <2> QED BY <2>1, PairLength DEF CursorOK
<1>4. CASE Python!TestUp \/ Python!TestDown
  <2>1. /\ game \in {"paddles", "not_up"} /\ cursor # <<>> /\ Len(cursor) <= 2
        /\ \/ game = "paddles" /\ game' = "not_up" /\ cursor' = cursor
           \/ cursor' = Tail(cursor) /\ game' = IF cursor' = <<>> THEN "hit" ELSE "paddles"
    BY <1>4 DEF Python!TestUp, Python!TestDown, Python!FinishPaddle, CursorOK
  <2>2. /\ Len(cursor) \in Nat \ {0}
        /\ Len(Tail(cursor)) = Len(cursor) - 1 /\ Tail(cursor) = <<>> <=> Len(cursor) = 1
    BY <1>1, <2>1, OneVisitLess
  <2>3. CASE game = "paddles" /\ game' = "not_up" /\ cursor' = cursor
    BY <2>1, <2>2, <2>3 DEF CursorOK, StepsLeft
  <2>4. CASE cursor' = Tail(cursor) /\ cursor' = <<>> /\ game' = "hit"
    <3>1. Len(cursor) = 1
      BY <2>2, <2>4
    <3> QED BY <2>1, <2>4, <3>1 DEF CursorOK, StepsLeft
  <2>5. CASE cursor' = Tail(cursor) /\ cursor' # <<>> /\ game' = "paddles"
    <3>1. Len(cursor') = Len(cursor) - 1
      BY <2>2, <2>5
    <3> QED BY <2>1, <2>2, <2>5, <3>1 DEF CursorOK, StepsLeft
  <2> QED BY <2>1, <2>3, <2>4, <2>5
<1>5. CASE Python!HitPaddle
  <2>1. game = "hit" /\ game' = "send" /\ cursor' = joined
    BY <1>5 DEF Python!HitPaddle
  <2>2. \E p, q \in Identifier : joined = <<p, q>>
    <3>1. \A p \in Identifier : clients[p] # NoAddress
      BY <2>1 DEF LobbyOK
    <3>2. "PLAYER_1" \in Identifier /\ "PLAYER_2" \in Identifier
      BY DEF Identifier
    <3> QED BY <3>1, <3>2 DEF LobbyOK, JoinedOK
  <2>3. Len(cursor') = 2 /\ cursor' # <<>>
    BY <2>1, <2>2, PairLength
  <2> QED BY <2>1, <2>3 DEF CursorOK, StepsLeft
<1>6. CASE Python!SendState
  <2>1. /\ game = "send" /\ cursor # <<>> /\ cursor' = Tail(cursor) /\ Len(cursor) <= 2
        /\ game' = IF cursor' = <<>> THEN "frame" ELSE "send"
    BY <1>6 DEF Python!SendState, CursorOK
  <2>2. /\ Len(cursor) \in Nat \ {0} /\ Len(cursor') = Len(cursor) - 1
        /\ cursor' = <<>> <=> Len(cursor) = 1
    BY <1>1, <2>1, OneVisitLess
  <2> QED BY <2>1, <2>2 DEF CursorOK, StepsLeft
<1> QED BY <1>2, <1>3, <1>4, <1>5, <1>6 DEF Python!GameLoop

\* The listeners leave the game loop where it is, but for starting it.
LEMMA OthersLeaveLoop ==
  ASSUME LobbyOK, [ServersNext]_<<vars, impl>>, ~Plays
  PROVE  /\ UNCHANGED <<cursor, impl>>
         /\ (game = "off" /\ game' = "spawned") \/ UNCHANGED game
<1>1. CASE Java!Listen /\ UNCHANGED impl
  BY <1>1 DEF Java!Listen, Java!HandlePrepare, Java!HandleJoin, Java!StartMatch,
     Java!HandleMovement, Java!loopVars, LobbyOK
<1>2. CASE Python!Listen /\ UNCHANGED impl
  BY <1>2 DEF Python!Listen, Python!HandlePrepare, Python!HandleJoin, Python!StartMatch,
     Python!HandleMovement, Python!loopVars, LobbyOK
<1>3. CASE UNCHANGED <<vars, impl>>
  BY <1>3 DEF vars, loopVars
<1> QED BY <1>1, <1>2, <1>3 DEF ServersNext, Java!Next, Python!Next, Plays

\* From wherever the game loop of the Java or the Python server is, it has sent the
\* frame to both players after at most eight steps of its own, and no datagram
\* the listener handles meanwhile makes it more.
THEOREM ServersFinishFrames ==
  ServersSpec => /\ [](StepsLeft \in 0 .. 8)
                 /\ [][ /\ Plays => game = "frame" \/ StepsLeft' < StepsLeft
                        /\ ~Plays => StepsLeft' = StepsLeft ]_<<vars, impl>>
<1>1. ServersInit => CursorOK
  BY DEF ServersInit, Init, CursorOK
<1>2. ASSUME ServersInv, FieldsOK, CursorOK, [ServersNext]_<<vars, impl>>
      PROVE  /\ CursorOK'
             /\ Plays => game = "frame" \/ StepsLeft' < StepsLeft
             /\ ~Plays => StepsLeft' = StepsLeft
  <2>1. CASE Plays
    <3>1. impl' = impl
      BY <1>2, <2>1 DEF ServersNext, vars
    <3> QED BY <1>2, <2>1, <3>1, JavaSteps, PythonSteps DEF Plays, ServersInv
  <2>2. CASE ~Plays
    BY <1>2, <2>2, OthersLeaveLoop DEF CursorOK, StepsLeft, ServersInv
  <2> QED BY <2>1, <2>2
<1>3. ServersInv /\ FieldsOK /\ CursorOK => StepsLeft \in 0 .. 8
  <2> SUFFICES ASSUME ServersInv, FieldsOK, CursorOK
               PROVE  StepsLeft \in 0 .. 8
    OBVIOUS
  <2> DEFINE n == Len(cursor)
  <2>1. n \in Nat
    BY LenProperties DEF FieldsOK
  <2>2. /\ impl \in {"java", "python"}
        /\ game \in {"off", "spawned", "frame", "paddles", "not_up", "hit", "send"}
        /\ game = "send" => n <= 2
        /\ impl = "python" /\ game \in {"paddles", "not_up"} => n <= 2
        /\ impl = "java" => game \notin {"not_up", "hit"}
    BY DEF ServersInv, FieldsOK, CursorOK
  <2>3. StepsLeft = CASE game \in {"off", "spawned"} -> 8
                      [] game = "frame"   -> 0
                      [] game = "paddles" -> IF impl = "java" THEN 3 ELSE 3 + 2 * n
                      [] game = "not_up"  -> 2 + 2 * n
                      [] game = "hit"     -> 3
                      [] game = "send"    -> n
    BY DEF StepsLeft
  <2> HIDE DEF n
  <2> QED BY <2>1, <2>2, <2>3
<1> QED BY <1>1, <1>2, <1>3, ServersInvariance, FieldsInvariance, PTL DEF ServersSpec
=============================================================================
