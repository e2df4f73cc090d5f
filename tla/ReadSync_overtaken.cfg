\* Two devices, nothing fails.
CONSTANTS
  MaxPos = 3
  Window = 3
  MaxQueue = 2
  MaxDrops = 1
  Scenarios = {{}}
CHECK_DEADLOCK FALSE
SPECIFICATION Spec
PROPERTIES
  NeverRegressive
