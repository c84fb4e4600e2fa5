CONSTANTS
  NoAddress = NoAddress
  Address = {a1, a2}
  Moves = {"STOP", "UP"}
  FrameSpace = 2
  ScoreSpace = 3
  MaxSpeed = 1
  HalfField = 2
  Step = 1
  PaddleSpeed = 2
  Padding = 1
  BallHalfW = 0
  BallHalfH = 1
  PaddleHalfW = 1
  PaddleHalfH = 1
SYMMETRY Perms
SPECIFICATION ServersSpec
INVARIANTS TypeOK OneGameLoop BallShownInField SameForBoth
PROPERTIES ScoredOnce SeatsSpec
CHECK_DEADLOCK FALSE
