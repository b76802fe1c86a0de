SPECIFICATION FairSpec
CONSTANTS
  NCYCLES = 1
  Depth = 2
  Length = 3
  MaxPause = 1
  Faults = TRUE
PROPERTIES
  StoppedHartsRestart
