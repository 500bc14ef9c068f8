CONSTANTS
  t1 = t1
  t2 = t2
  t3 = t3
  a = a
  b = b
  c = c
  d = d
  e = e
  Thread = {t1, t2, t3}
  Mutex = {"mutex", "condvar", "queue"}
  NoThread = NoThread
  Waiting = {t1, t2}
  Timeouts = {TRUE, FALSE}
  Count = 3
  Rounds = 2
  Workloads <- MCWorkloads
SPECIFICATION SyncSpec
INVARIANTS
  WaitersInv
  BarrierInv
  QueueInv
  ItemsDelivered
PROPERTIES
  LockIsHandedOver
  CallsReturn
CHECK_DEADLOCK FALSE
