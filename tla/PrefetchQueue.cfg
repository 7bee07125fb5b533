SPECIFICATION Spec
CONSTANTS
  Worker = {w1, w2, w3, w4, w5, w6}
  Wild = Wild
  NULL = NULL
  PrefetchDistance = 2
  UsingMalloc = FALSE
SYMMETRY WorkerSymmetry
INVARIANTS
  TypeOK
  Balanced
  LengthsSumToLen
  DealtRoundRobin
PROPERTY
  ImplementsFifo
