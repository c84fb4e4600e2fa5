SPECIFICATION FairSpec
CONSTANTS
  Client = {c1, c2, c3}
  Fd = {f1, f2}
  ServerId = {s1, s2}
  Nobody = Nobody
  MaxEpoch = 0
  Lossy = FALSE
PROPERTY WaitingAreMatched
CHECK_DEADLOCK FALSE
