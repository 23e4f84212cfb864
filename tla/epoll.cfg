SPECIFICATION Spec
CHECK_DEADLOCK FALSE
CONSTANTS
  s1 = s1
  s2 = s2
  w1 = w1
  w2 = w2
  ctl = ctl
  r1 = r1
  Sockets <- TwoSockets
  Waiters <- TwoWaiters
  Hasty <- OneHasty
  Ctl = ctl
  Faulty <- OneFaulty
  Readers <- OneReader
  MaxEvents = 1
  Bound = 4
  Watches <- Masks
INVARIANTS
  NoSleepOverReady
  LevelNeverLost
  ParkedReadWillRun
  RefsExact
  CloseReachesSleepers
