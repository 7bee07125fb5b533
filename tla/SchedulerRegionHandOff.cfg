SPECIFICATION Spec
CONSTANTS
  Worker = {w1, w2}
  Master = Master
  NULL = NULL
  Calls = {"suspend", "yield_wake", "set_no_switch_region"}
PROPERTIES
  NoSwitchInRegion
