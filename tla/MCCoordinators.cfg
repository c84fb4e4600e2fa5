CONSTANTS
  Client = {c1, c2, c3, c4}
  ServerId = {s1, s2}
  Nobody = nobody
  MaxLeave = 1
  MaxLate = 1
SYMMETRY Perms
SPECIFICATION CoordinatorsSpec
INVARIANTS
  TypeOK
  NoSeatGivenTwice
  JavaMatchFitsServer
  JavaServedInOrder
  PythonMatchFitsServer
  PythonServedInOrder
CHECK_DEADLOCK FALSE
