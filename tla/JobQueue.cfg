SPECIFICATION FairSpec
CONSTANTS
  n1 = n1
  n2 = n2
  Nodes <- TwoNodes
  Jobs <- TwoJobs
  LeaseTicks = 4
  RenewTicks = 1
  PostTicks = 1
  RequestTicks = 1
  PostAttempts = 2
  MaxFaults = 2
INVARIANT IInv
INVARIANT WorkersHoldTheirClaims
PROPERTY ResultsAreFinal
PROPERTY ImplementsService
PROPERTY EveryJobEnds
