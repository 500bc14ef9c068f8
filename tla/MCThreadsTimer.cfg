CONSTANTS
  t1 = t1
  t2 = t2
  m1 = m1
  Thread = {t1, t2}
  FirstThread = t1
  Mutex = {m1}
  None = None
  TimerInterval = 2
  Intervals = {0, 1}
  Delays = {0, 2}
  Events = {"#f", "kill"}
  Ops <- Timers
  MaxPending = 1
  MaxTimers = 2
  MaxJoins = 0
SPECIFICATION Spec
INVARIANTS
  TypeOK
  NoLostWakeup
  SleeperHasAlarm
  TimerArmed
PROPERTIES
  BlockedEventsWait
CHECK_DEADLOCK FALSE
