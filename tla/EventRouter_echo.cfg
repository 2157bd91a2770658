CONSTANTS
  a = a
  b = b
  dev = dev
  k1 = k1
  Clients = {a, b}
  Binary = {b}
  Devices = {}
  Services = {}
  Matrix = {}
  Kinds = {k1}
  Filters <- OnlyAll
  MaxItems = 1
  MaxSend = 1
  RelockBlocks = FALSE
  Worker = Worker
  None = None
SPECIFICATION Spec
CHECK_DEADLOCK FALSE
INVARIANT NoEchoBinary
