CONSTANTS
  t1 = t1
  t2 = t2
  m1 = m1
  Thread = {t1, t2}
  FirstThread = t1
  Mutex = {m1}
  None = None
  TimerInterval = 1
  Intervals = {}
  Delays = {1}
  Events = {"#f", "user"}
  Ops <- Signallers
  MaxPending = 2
  MaxTimers = 1
  MaxJoins = 0
SPECIFICATION Spec
INVARIANTS
  ThreeStates
CHECK_DEADLOCK FALSE
