CONSTANTS
  IdMax = 7
  Workloads = {"removes", "fails"}
  MaxHeld = 6
SPECIFICATION Spec
INVARIANTS TypeOK Partition
PROPERTY AllocatorSpec
CHECK_DEADLOCK FALSE
