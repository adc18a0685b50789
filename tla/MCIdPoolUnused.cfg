CONSTANTS
  IdMax = 5
  Workloads = {"any"}
  MaxHeld = 4
SPECIFICATION Spec
INVARIANT NextIdUnused
CHECK_DEADLOCK FALSE
