SPECIFICATION Spec
CONSTANTS
  MAX_DEVICES = 1
  Clients = {a, b}
  Watcher = a
  Units = {u}
  Handles = {h1}
  Levels = {l1, l2}
  MaxPlugs = 1
  Words = {"lock", "unlock", "start", "stop"}
  Overlaps = {}
  None = None
INVARIANT LockRespected
CHECK_DEADLOCK FALSE
