CONSTANTS
  t1 = t1
  t2 = t2
  t3 = t3
  m1 = m1
  Thread = {t1, t2, t3}
  FirstThread = t1
  Mutex = {m1}
  None = None
  TimerInterval = 1
  Intervals = {}
  Delays = {}
  Events = {"kill"}
  Ops <- Workers
  MaxPending = 1
  MaxTimers = 0
  MaxJoins = 2
SPECIFICATION Spec
SYMMETRY Symmetry
INVARIANTS
  RunQueueInv
  NoLostWakeup
  MutexInv
  ExitInv
PROPERTIES
  FifoSpec
  DeadStaysDead
CHECK_DEADLOCK FALSE
