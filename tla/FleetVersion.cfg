SPECIFICATION Spec
CONSTANTS
  Total = 1
  BatchSize = 1
  MaxRestarts = 0
  MaxDeletions = 0
PROPERTY VerificationIsExact
CHECK_DEADLOCK FALSE
