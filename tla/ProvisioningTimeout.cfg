SPECIFICATION Spec
CONSTANTS
  Rows <- OneRow
  Servers <- OneServer
  Files = 1
  MaxAttempts = 2
  MaxFaults = 1
CHECK_DEADLOCK FALSE
PROPERTY TimeoutRestores
