SPECIFICATION Spec
CONSTANTS
  vertexNum = 5
  edgeNum = 4
  Pairs <- FivePairs
  source = 1
  MAX_COROS = 2
  YieldAt <- BfsYields
CHECK_DEADLOCK FALSE
INVARIANT
  NoPathMeansNone
