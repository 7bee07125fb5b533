SPECIFICATION FairSpec
CONSTANTS
  Worker = {w1, w2, w3, w4}
  Master = Master
  NULL = NULL
  Calls = {"create", "yield", "suspend", "wake", "yield_wake", "suspend_wake"}
PROPERTIES
  ReadyTasksRun
  RunTerminates
