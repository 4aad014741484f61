SPECIFICATION Spec
CONSTANTS
  t1 = t1
  t2 = t2
  Threads <- OneThread
  MaxRows = 1
  MaxOps = 3
  MaxRestarts = 0
INVARIANT CompletedRunsOnBothNodes
CHECK_DEADLOCK FALSE
