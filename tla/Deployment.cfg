SPECIFICATION FairSpec
CONSTANTS
  t1 = t1
  t2 = t2
  Threads <- OneThread
  MaxRows = 1
  MaxOps = 3
  MaxRestarts = 1
INVARIANT TypeOK
INVARIANT RollbackIsWarranted
INVARIANT RollbackVerdict
INVARIANT HalfFailedIsRolledBack
INVARIANT DeployedSideRuns
INVARIANT RemovedIsGone
PROPERTY RollbackEnds
CHECK_DEADLOCK FALSE
