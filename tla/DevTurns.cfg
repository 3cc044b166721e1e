SPECIFICATION Spec
CONSTANTS
  MAX_DEVICES = 1
  Clients = {a, b}
  Watcher = a
  Units = {u}
  Handles = {h1}
  Levels = {l1, l2}
  MaxPlugs = 1
  Words = {"lock", "unlock", "force unlock", "brightness temp", "brightness", "brightness save", "brightness reset", "color?", "color"}
  Overlaps = {}
  None = None
SYMMETRY Symmetric
INVARIANTS LockedToClient NoGhost DeviceAgrees 
CHECK_DEADLOCK FALSE
