SPECIFICATION FairSpec
CONSTANTS
  Threads = {t1, t2, t3}
  loopStart = 5
  activeSlots = 9
  Laps = 3
  Disturbances = {"open_error"}
INVARIANTS TypeOK TogetherInStep
PROPERTIES Resync KeepsPlaying
CHECK_DEADLOCK FALSE
