SPECIFICATION Spec
CONSTANTS
  t1 = t1
  t2 = t2
  Threads <- OneThread
  MaxRows = 1
  MaxOps = 2
  MaxRestarts = 1
INVARIANT RemovedRunsNowhere
CHECK_DEADLOCK FALSE
