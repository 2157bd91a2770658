CONSTANTS
  a = a
  b = b
  dev = dev
  k1 = k1
  Clients = {a, dev}
  Binary = {}
  Devices = {dev}
  Services = {}
  Matrix = {}
  Kinds = {k1}
  Filters <- OnlyAll
  MaxItems = 1
  MaxSend = 1
  RelockBlocks = FALSE
  Worker = Worker
  None = None
SPECIFICATION FairSpec
CHECK_DEADLOCK FALSE
PROPERTY DeviceRetries
