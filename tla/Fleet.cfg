SPECIFICATION FairSpec
CONSTANTS
  Total = 3
  BatchSize = 2
  MaxRestarts = 1
  MaxDeletions = 1
INVARIANT TypeOK
INVARIANT CanaryFirst
INVARIANT BatchIsBounded
INVARIANT VerdictMatchesItems
INVARIANT EndedIsQuiet
INVARIANT CompletedIsUpgraded
PROPERTY StopsOnFailure
PROPERTY OperationEnds
CHECK_DEADLOCK FALSE
