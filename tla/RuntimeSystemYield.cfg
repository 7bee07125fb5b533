SPECIFICATION Spec
CONSTANTS
  Worker = {w1, w2}
  Master = Master
  NULL = NULL
  Wild = Wild
  Func = Func
  Calls = {"yield", "master_yield"}
  PrefetchDistance = 1
  STACK_SIZE = 8
  Reserve = 4
  LineSize = 4
  NumOffsets = 2
SYMMETRY WorkerSymmetry
INVARIANTS
  SystemWorkerNotQueued
