SPECIFICATION FairSpec
CONSTANTS
  vertexNum = 5
  edgeNum = 4
  Pairs <- FivePairs
  source = 1
  MAX_COROS = 2
  YieldAt <- MpbfsYields
CHECK_DEADLOCK FALSE
INVARIANTS
  TypeOK
  LinkedListHoldsEdges
  LevelsAreLayers
  ShortestPathTree
  FindsWhatThreadbfsFinds
  NaiveTreeIsShortest
PROPERTIES
  SearchEnds
