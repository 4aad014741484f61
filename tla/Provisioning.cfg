SPECIFICATION FairSpec
CONSTANTS
  Rows <- TwoRows
  Servers <- TwoServers
  Files = 1
  MaxAttempts = 2
  MaxFaults = 2
INVARIANT TypeOK
INVARIANT NothingIsLost
INVARIANT EnrolledStaysEnrolled
PROPERTY RollbackRestores
PROPERTY CompletedIsLive
PROPERTY AttemptEnds
CHECK_DEADLOCK FALSE
