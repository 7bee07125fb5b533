SPECIFICATION Spec
CONSTANTS
  Worker = {w1, w2, w3, w4, w5}
  Wild = Wild
  NULL = NULL
  PrefetchDistance = 1
  UsingMalloc = TRUE
INVARIANTS
  LengthsSumToLen
