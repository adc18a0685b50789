CONSTANTS
  Dirs = {"r", "a", "x", "b"}
  Root = "r"
  Walk <- SmallTree
  MaxStops = 2
  MaxLives = 2
  MaxFaults = 1
SPECIFICATION Spec
INVARIANTS ReportWhole
CHECK_DEADLOCK FALSE
