CONSTANTS
    Commands <- MCCommands
    NumberLines = 5
    DataLines = 2
    MaxUpdates = 1
    MaxMishaps = 2
    Mishaps = {"joined", "split", "slow", "gone"}
SPECIFICATION FairSpec
INVARIANTS TypeOK NothingWithoutCode RunAsSent   
PROPERTIES  ClientEnds 
CHECK_DEADLOCK FALSE
