CONSTANTS
  a = a
  b = b
  Junk = Junk
  Frames <- BusFrames
  Events <- Queued
  MaxList = 1
  MaxFrames = 3
  MaxWrites = 2
  MaxErrors = 1
SPECIFICATION FairSpec
CHECK_DEADLOCK FALSE
INVARIANTS TypeOK FramesKept
PROPERTIES CloseEndsOrHangs
