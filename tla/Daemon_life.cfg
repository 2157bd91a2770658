CONSTANTS
  c1 = c1
  c2 = c2
  Services = {"device", "udpReceive"}
  Conns = {c1, c2}
  MaxClients = 1
SPECIFICATION FairSpec
CHECK_DEADLOCK FALSE
INVARIANTS TypeOK EntryAsLongAsThread NoneOutlivesItsObject
PROPERTIES ShutdownEnds
