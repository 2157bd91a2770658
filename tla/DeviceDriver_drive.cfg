CONSTANTS
  Events = {e1, e2, e3}
  Modes = {"blocking", "deaf", "polled", "level2"}
  MaxItems = 1
  None = None
SPECIFICATION FairSpec
CHECK_DEADLOCK FALSE
INVARIANTS TypeOK HeldIsHead ServedInOrder NothingVanishes NoCallAfterClose
PROPERTY ShutdownCompletes
