SPECIFICATION Spec
CONSTANTS
  Client = {c1, c2, c3}
  Fd = {f1, f2}
  ServerId = {s1, s2}
  Nobody = Nobody
  MaxEpoch = 1
  Lossy = TRUE
SYMMETRY Symmetry
INVARIANTS TypeOK NoSeatTwice StrandedOnlyByTrouble
CHECK_DEADLOCK FALSE
