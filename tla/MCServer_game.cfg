SPECIFICATION Spec
CONSTANTS
  NoToken = NoToken
  NoAddress = NoAddress
  Address = {a1}
  TokenSpace = {t1, t2}
  Moves = {"STOP", "UP"}
  FrameSpace = 2
  ScoreSpace = 2
  MaxSpeed = 2
  HalfField = 3
  Step = 1
  PaddleSpeed = 2
  Padding = 1
  BallHalfW = 0
  BallHalfH = 1
  PaddleHalfW = 1
  PaddleHalfH = 1
SYMMETRY Symmetry
INVARIANTS BallInField SameFrameSameState
PROPERTIES OnePointPerGoal FramesInOrder
