SPECIFICATION FairSpec
CONSTANTS
  t1 = t1
  t2 = t2
  t3 = t3
  l1 = l1
  l2 = l2
  c1 = c1
  c2 = c2
  s1 = s1
  NULL = NULL
  Thread = {t1, t2, t3}
  Lock = {l1, l2}
  Condition = {c1}
  Semaphore = {s1}
  Device = {s1}
  LockOf <- LockOfCondition
  InitialValue <- Zero
  ValueBound = 2
INVARIANTS LockInv NoLostWakeup SignalKept
PROPERTIES ImplementsMonitor LockProgress
CHECK_DEADLOCK FALSE
