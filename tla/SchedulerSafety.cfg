SPECIFICATION Spec
CONSTANTS
  Worker = {w1, w2, w3, w4}
  Master = Master
  NULL = NULL
  Calls = {"create", "yield", "suspend", "wake", "yield_wake", "suspend_wake",
           "set_no_switch_region", "master_wake"}
SYMMETRY WorkerSymmetry
INVARIANTS
  TypeOK
  CurrentIsOnCpu
  OnePlaceEach
  WorkerCount
  ExitsReported
  IdsIdentify
  SpinsOnlyWhenAllSuspended
PROPERTY
  RunDrainsReadyQ
