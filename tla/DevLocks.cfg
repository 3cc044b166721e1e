SPECIFICATION Spec
CONSTANTS
  MAX_DEVICES = 1
  Clients = {a, b}
  Watcher = a
  Units = {u}
  Handles = {h1}
  Levels = {l1}
  MaxPlugs = 1
  Words = {"lock", "unlock", "force unlock", "stop"}
  Overlaps = {"command", "monitor", "notifier"}
  None = None
INVARIANTS TypeOK 
CHECK_DEADLOCK FALSE
