CONSTANTS
  Client = {c1, c2}
  Nil = Nil
  MaxStops = 1
  Faults = {"accept", "fork"}
SPECIFICATION FairSpec
INVARIANTS TypeOK OwnDescriptor RequestsFirst SavedLast
 
CHECK_DEADLOCK FALSE
