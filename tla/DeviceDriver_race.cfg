CONSTANTS
  Events = {e1, e2}
  Modes = {"blocking", "deaf", "polled", "level2"}
  MaxItems = 1
  None = None
SPECIFICATION Spec
CHECK_DEADLOCK FALSE
INVARIANT ListUnshared
