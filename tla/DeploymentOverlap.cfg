SPECIFICATION Spec
CONSTANTS
  t1 = t1
  t2 = t2
  Threads <- TwoThreads
  MaxRows = 1
  MaxOps = 2
  MaxRestarts = 0
PROPERTY OnlyRunningJobsSettle
CHECK_DEADLOCK FALSE
