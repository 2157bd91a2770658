CONSTANTS
  a = a
  b = b
  dev = dev
  k1 = k1
  Clients = {a, b, dev}
  Binary = {}
  Devices = {dev}
  Services = {}
  Matrix = {b}
  Kinds = {k1}
  Filters <- OnlyAll
  MaxItems = 1
  MaxSend = 1
  RelockBlocks = FALSE
  Worker = Worker
  None = None
SPECIFICATION Spec
CHECK_DEADLOCK FALSE
INVARIANTS TypeOK InQueueBound NoLostWakeup NoUseAfterRemove AddressedOnce
