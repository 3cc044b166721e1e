SPECIFICATION FairSpec
CONSTANTS
  MAX_CLIENTS = 2
  Conns = {c1, c2, c3}
  FDs = {4, 5}
  Disturbances = {}
  NoConn = NoConn
INVARIANT JoinSafe
PROPERTY Answered
CHECK_DEADLOCK FALSE
