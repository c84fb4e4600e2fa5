SPECIFICATION FairSpec
CONSTANTS
  NoToken = NoToken
  NoAddress = NoAddress
  Address = {a1}
  TokenSpace = {t1, t2}
  Moves = {"STOP", "DOWN"}
  FrameSpace = 2
  ScoreSpace = 2
  MaxSpeed = 1
  HalfField = 2
  Step = 1
  PaddleSpeed = 2
  Padding = 1
  BallHalfW = 0
  BallHalfH = 1
  PaddleHalfW = 1
  PaddleHalfH = 1
PROPERTIES KeepsBroadcasting BallKeepsMoving HeldDirectionArrives
