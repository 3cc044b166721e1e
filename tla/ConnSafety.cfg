SPECIFICATION Spec
CONSTANTS
  MAX_CLIENTS = 2
  Conns = {c1, c2, c3, c4}
  FDs = {4, 5, 6}
  Disturbances = {"accept_error", "select_error"}
  NoConn = NoConn
SYMMETRY Symmetric
INVARIANTS TypeOK OneServer OwnDescriptor NoDescriptorLeak CountExact
CHECK_DEADLOCK FALSE
