CONSTANTS
    Commands <- MCCommands
    NumberLines = 5
    DataLines = 2
    MaxUpdates = 1
    MaxMishaps = 2
    Mishaps = {"gone"}
SPECIFICATION Spec
INVARIANT BlankLineFirst
CHECK_DEADLOCK FALSE
