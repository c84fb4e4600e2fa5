SPECIFICATION SystemSpec
CONSTANTS
  Client = {c1, c2, c3, c4}
  Fd = {f1, f2, f3, f4}
  ServerId = {s1}
  Nobody = Nobody
  MaxEpoch = 1
  Lossy = TRUE
CONSTRAINT Bounds
SYMMETRY Symmetry
INVARIANTS NeighboursPlay MatchedPlay
PROPERTY ImplementsCoordinator
CHECK_DEADLOCK FALSE
