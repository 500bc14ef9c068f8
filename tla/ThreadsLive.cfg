CONSTANTS
  t1 = t1
  t2 = t2
  t3 = t3
  m1 = m1
  Thread = {t1, t2, t3}
  FirstThread = t1
  Mutex = {m1}
  None = None
  TimerInterval = 2
  Intervals = {}
  Delays = {1}
  Events = {}
  Ops <- Sleepers
  MaxPending = 1
  MaxTimers = 0
  MaxJoins = 0
SPECIFICATION FairSpec
PROPERTIES
  ReadyRuns
  SleepEnds
CHECK_DEADLOCK FALSE
