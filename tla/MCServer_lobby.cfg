SPECIFICATION Spec
CONSTANTS
  NoToken = NoToken
  NoAddress = NoAddress
  Address = {a1, a2}
  TokenSpace = {t1, t2, t3}
  Moves = {"UP"}
  FrameSpace = 2
  ScoreSpace = 2
  MaxSpeed = 1
  HalfField = 2
  Step = 1
  PaddleSpeed = 4
  Padding = 1
  BallHalfW = 0
  BallHalfH = 1
  PaddleHalfW = 1
  PaddleHalfH = 1
SYMMETRY Symmetry
INVARIANTS TypeOK PlayersStayPut OneGameLoop
PROPERTY SeatsSpec
