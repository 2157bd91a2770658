CONSTANTS
  a = a
  b = b
  dev = dev
  k1 = k1
  Clients = {a, b}
  Binary = {b}
  Devices = {}
  Services = {}
  Matrix = {}
  Kinds = {k1}
  Filters <- OnlyAll
  MaxItems = 2
  MaxSend = 2
  RelockBlocks = TRUE
  Worker = Worker
  None = None
SPECIFICATION Spec
CHECK_DEADLOCK FALSE
INVARIANTS OutQueueBound PerSenderOrder NoEcho
