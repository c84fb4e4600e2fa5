CONSTANTS
  Token = {t1, t2}
  Implementation = {"cpp", "java", "python"}
  MaxFrame = 2
CONSTRAINT Bounds
SYMMETRY Perms
SPECIFICATION Spec
INVARIANTS
  TypeOK
  MisaddressedOnlyByOverlap
  NeverTokenless
  MatchIsJoined
  FrozenOnlyAtFirstFrame
  StaleOnlyByRace
PROPERTIES
  ScreenNeverGoesBack
CHECK_DEADLOCK FALSE
