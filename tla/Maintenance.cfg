SPECIFICATION FairSpec
CONSTANTS
  a = a
  b = b
  NoName = NoName
  Nodes <- TwoNodes
  Home = 1
  Unsteady <- OneNode
  Subjects <- AllSubjects
  Names <- TwoNames
  Jobs <- ThreeJobs
  MaxIncidents = 3
  MaxRequests = 2
  MaxFaults = 1
INVARIANT TypeOK
INVARIANT UnresolvedIsWrong
INVARIANT OneIncidentPerCause
INVARIANT CertificatesStayValid
PROPERTY Debounced
PROPERTY SilenceIsReported
PROPERTY SavedMonitorIsJudged
CHECK_DEADLOCK FALSE
