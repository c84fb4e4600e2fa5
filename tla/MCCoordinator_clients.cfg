SPECIFICATION Spec
CONSTANTS
  Client = {c1, c2, c3, c4}
  Fd = {f1, f2, f3}
  ServerId = {s1}
  Nobody = Nobody
  MaxEpoch = 1
  Lossy = FALSE
SYMMETRY Symmetry
INVARIANTS QueuedAreConnected ServedInOrder UndefinedOnlyIfLeft
CHECK_DEADLOCK FALSE
