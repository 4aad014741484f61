SPECIFICATION FairSpec
CONSTANTS
  a = a
  b = b
  NoName = NoName
  Nodes <- OneNode
  Home = 1
  Unsteady <- OneNode
  Subjects <- OneCertificate
  Names <- TwoNames
  Jobs <- TwoJobs
  MaxIncidents = 1
  MaxRequests = 1
  MaxFaults = 1
PROPERTY RenewalRecovers
CHECK_DEADLOCK FALSE
