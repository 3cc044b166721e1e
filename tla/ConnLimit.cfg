SPECIFICATION Spec
CONSTANTS
  MAX_CLIENTS = 2
  Conns = {c1, c2, c3}
  FDs = {4, 5, 6}
  Disturbances = {}
  NoConn = NoConn
INVARIANT ClientLimit
CHECK_DEADLOCK FALSE
