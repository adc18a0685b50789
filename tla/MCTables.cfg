CONSTANTS
  IdMax = 4
  HashMod = 2
  Paths <- SmallPaths
  HeapVals = {1, 2}
  OldFiles <- SmallFiles
  MaxAnalyses = 3
  MaxStarts = 2
SPECIFICATION Spec
INVARIANTS SearchOrder PoolIsSet PathsExact CountExact 
PROPERTIES StartsAsSaved
CHECK_DEADLOCK FALSE
