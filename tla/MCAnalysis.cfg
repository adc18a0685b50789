CONSTANTS
  Dirs = {"r", "a", "x", "b"}
  Root = "r"
  Walk <- SmallTree
  MaxStops = 2
  MaxLives = 2
  MaxFaults = 1
SPECIFICATION FairSpec
INVARIANTS TypeOK   ReportExact ReadBack  
PROPERTIES ReportStays StopEndsWalk 
CHECK_DEADLOCK FALSE
