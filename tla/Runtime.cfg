SPECIFICATION Spec
CONSTANTS
  Worker = {w1, w2, w3, w4}
  Master = Master
  NULL = NULL
  Wild = Wild
  Func = Func
  Calls = {"create", "yield", "suspend", "wake", "yield_wake", "suspend_wake", "master_wake"}
  PrefetchDistance = 1
  STACK_SIZE = 8
  Reserve = 4
  LineSize = 4
  NumOffsets = 2
SYMMETRY WorkerSymmetry
INVARIANTS
  TypeOK
  StartsWithItsArguments
  StackInAllocation
  QueueKeepsShape
  TrackingList
PROPERTIES
  ImplementsScheduler
