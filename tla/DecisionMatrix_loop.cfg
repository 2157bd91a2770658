CONSTANTS
  Sessions = {s1}
  t1 = t1
  v1 = v1
  Matrices <- Small
  NewRows <- OneRow
  Timers = {t1}
  Names = {v1}
  None = None
  Main = main
  Minute = 2
  MaxDelay = 2
  MaxRows = 2
  MaxCommands = 1
SPECIFICATION FairSpec
CHECK_DEADLOCK FALSE
INVARIANTS TypeOK TimerExact StopsOnlyKnown
PROPERTIES OnceASecond TimerFires CommandAnswered
