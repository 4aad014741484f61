SPECIFICATION FairSpec
CONSTANTS
  Requests <- TwoRequests
  Paths <- TwoPaths
  Kinds <- AllKinds
  MaxSlots = 2
  MaxFaults = 2
  MaxTimeouts = 2
INVARIANT TypeOK
INVARIANT SlotsAreConserved
PROPERTY NoSilentReplacement
PROPERTY NothingIsLost
PROPERTY NoGap
PROPERTY DestinationSurvives
PROPERTY EveryRequestEnds
CHECK_DEADLOCK FALSE
