--------------------------- MODULE MaintenanceProofs ---------------------------
(***************************************************************************)
(* What TLAPS proves about Maintenance, for any nodes, names, jobs,        *)
(* remembered incidents, requests and faults: an incident that is not      *)
(* resolved is about something that is still wrong, one cause has one of   *)
(* them, tunnels and monitors are debounced, and a certificate of a        *)
(* reachable node only expires after a failed renewal.                     *)
(***************************************************************************)
EXTENDS Maintenance, TLAPS

IncidentType ==
  [status : {"none", "open", "acknowledged", "resolved"},
   cause : {"none", "offline", "resource", "tunnel", "monitor"},
   title : Titles, stray : BOOLEAN]

MonitorType ==
  [id : 0 .. MaxRequests + 1, node : Nodes, name : Names \cup {NoName}, enabled : BOOLEAN, readable : BOOLEAN,
   status : {"pending", "up", "down"}, streak : 0 .. 3, due : BOOLEAN, job : Jobs \cup {NoJob}]

CheckType == [id : 0 .. MaxRequests + 1, node : Nodes]

CertificateType ==
  [status : CertificateStates, left : Unknown .. Fresh, job : Jobs \cup {NoJob}, failed : BOOLEAN]

Types ==
  /\ subject \in Subjects /\ name \in Names /\ online \subseteq Nodes
  /\ heartbeat \in Names \cup {NoName}
  /\ reported \in [name : Names \cup {NoName}, level : Levels]
  /\ incidents \in [Slots -> IncidentType]
  /\ tunnel \in [status : TunnelStates \cup {"none"}, streak : 0 .. 3]
  /\ monitor \in MonitorType
  /\ checks \in [Jobs -> CheckType]
  /\ certificate \in CertificateType
  /\ orders \subseteq Jobs
  /\ cycle \in [phase : {"idle", "write"}, stale : BOOLEAN, title : Names \cup {NoName}]
  /\ desk \in [action : {"none", "acknowledge", "resolve", "reopen", "update", "delete", "run", "issue", "renew"},
               ids : SUBSET Slots]
  /\ bad \in 0 .. 3 /\ requests \in 0 .. MaxRequests /\ faults \in 0 .. MaxFaults

Editing == desk.action \in {"update", "delete"}

\* What a behaviour is about is all that happens in it.
OneSubject ==
  /\ subject # "tunnel" => tunnel.status = "none"
  /\ subject # "monitor" => monitor.id = 0 /\ \A j \in Jobs : checks[j].id = 0
  /\ subject # "certificate" => certificate.status = "none" /\ orders = {}
  /\ Editing => subject = "monitor"
  /\ desk.action \in {"issue", "renew"} => subject = "certificate"

\* The bad verdicts in a row are those that the code counts.
Streaks ==
  /\ subject = "tunnel" => bad = tunnel.streak
  /\ subject = "monitor" => bad = monitor.streak

\* Nothing is heard of the node between the cycle's first read and its first write.
CycleKnows ==
  /\ cycle.phase = "write" /\ cycle.stale => ~fresh
  /\ cycle.title # NoName => cycle.stale
  /\ cycle.stale => cycle.phase = "write"
  /\ cycle.phase = "write" => subject = "node"

\* The right incidents: of the subject, about what is still wrong, and within the reach of the
\* recovery and of the edit that is to resolve them.
Right(i) ==
  IsUp(incidents[i]) /\ ~incidents[i].stray =>
    /\ incidents[i].cause = "offline" => subject = "node" /\ ~fresh /\ incidents[i].title \in Names
    /\ incidents[i].cause = "resource" =>
         subject = "resource" /\ (incidents[i].title = reported.name => reported.level # "low")
    /\ incidents[i].cause = "tunnel" =>
         subject = "tunnel" /\ incidents[i].title = NoName /\ tunnel.status \notin {"none", "healthy"}
    /\ incidents[i].cause = "monitor" =>
         /\ subject = "monitor" /\ monitor.id # 0 /\ Title(monitor) = incidents[i].title /\ monitor.status = "down"
         /\ Editing => i \in desk.ids
    /\ incidents[i].cause # "none"

\* A recovery that looks for one incident finds the right one; silence looks for all of them.
Paired(i, k) ==
  i # k /\ IsUp(incidents[i]) /\ IsUp(incidents[k]) /\ SameCause(incidents[i], incidents[k]) =>
    incidents[i].stray \/ (incidents[i].cause = "offline" /\ incidents[k].stray)

\* What the cycle is about to report has not been reported meanwhile.
ToBeReported ==
  cycle.title # NoName =>
    \A i \in Slots : IsUp(incidents[i]) /\ incidents[i].cause = "offline" /\ incidents[i].title = cycle.title
      => incidents[i].stray

\* What becomes of a certificate.
Kept ==
  /\ certificate.status \in {"pending", "renewing"} => orders # {}
  /\ certificate.status = "failed" => certificate.failed
  /\ certificate.status = "expired" => certificate.left = 0
  /\ CertificatesStayValid

IInv ==
  /\ Types /\ OneSubject /\ Streaks /\ CycleKnows /\ ToBeReported /\ Kept
  /\ \A i \in Slots : Right(i)
  /\ \A i, k \in Slots : Paired(i, k)

-------------------------------------------------------------------------------
(* The operators on incidents *)

LEMMA ActiveIsUp ==
  ASSUME NEW x \in IncidentType
  PROVE  Active(x) <=> IsUp(x)
BY DEF IncidentType, Active, IsUp

\* A resolution ends what it names and touches nothing else.
LEMMA ResolvedIs ==
  ASSUME NEW inc \in [Slots -> IncidentType], NEW S
  PROVE  /\ Resolved(inc, S) \in [Slots -> IncidentType]
         /\ \A i \in Slots : /\ Resolved(inc, S)[i] = inc[i] \/ ~IsUp(Resolved(inc, S)[i])
                             /\ i \in S => ~IsUp(Resolved(inc, S)[i])
<1> DEFINE R(i) == [inc[i] EXCEPT !.status = "resolved", !.stray = FALSE]
<1>1. \A i \in Slots : R(i) \in IncidentType /\ ~IsUp(R(i))
  BY DEF IncidentType, IsUp
<1>2. Resolved(inc, S) = [i \in Slots |-> IF i \in S /\ Active(inc[i]) THEN R(i) ELSE inc[i]]
  BY DEF Resolved
<1> HIDE DEF R
<1> QED
  BY <1>1, <1>2, ActiveIsUp

LEMMA ResolvedOneIs ==
  ASSUME NEW inc \in [Slots -> IncidentType], NEW S \in SUBSET Slots, NEW new \in ResolvedOne(inc, S)
  PROVE  /\ new \in [Slots -> IncidentType]
         /\ \A i \in Slots : new[i] = inc[i] \/ ~IsUp(new[i])
         /\ S = {} \/ \E i \in S : ~IsUp(new[i])
<1>1. CASE S = {}
  BY <1>1 DEF ResolvedOne
<1>2. CASE S # {}
  <2>1. PICK i \in S : new = Resolved(inc, {i})
    BY <1>2 DEF ResolvedOne
  <2> QED
    BY <2>1, ResolvedIs
<1> QED
  BY <1>1, <1>2

\* A new incident takes row x, and an edit under way does not know of it.
Takes(new, inc, x, cause, title) ==
  \A i \in Slots : /\ i # x => new[i] = inc[i]
                   /\ i = x => new[i].cause = cause /\ new[i].title = title /\ (new[i].stray <=> Editing)

\* CHOOSE may pick any row.
LEMMA OpenedIs ==
  ASSUME NEW inc \in [Slots -> IncidentType], NEW cause \in {"offline", "resource", "tunnel", "monitor"},
         NEW title \in Titles
  PROVE  /\ Opened(inc, cause, title) \in [Slots -> IncidentType]
         /\ \E x : Takes(Opened(inc, cause, title), inc, x, cause, title)
<1> DEFINE c == desk.action \in {"update", "delete"}
           r == [status |-> "open", cause |-> cause, title |-> title, stray |-> c]
           x == FreeSlot(inc)
<1>1. Opened(inc, cause, title) = [inc EXCEPT ![x] = r]
  BY DEF Opened
<1>2. c \in BOOLEAN /\ c = Editing
  BY DEF Editing
<1> HIDE DEF c
<1>3. r \in IncidentType /\ r.cause = cause /\ r.title = title /\ (r.stray <=> Editing)
  <2>1. r \in IncidentType /\ r.cause = cause /\ r.title = title /\ r.stray = c
    BY <1>2 DEF IncidentType
  <2> QED
    BY <1>2, <2>1
<1> HIDE DEF r, x
<1>4. \A i \in Slots : Opened(inc, cause, title)[i] = IF i = x THEN r ELSE inc[i]
  BY <1>1
<1>5. Opened(inc, cause, title) \in [Slots -> IncidentType]
  BY <1>1, <1>3
<1>6. Takes(Opened(inc, cause, title), inc, x, cause, title)
  BY <1>3, <1>4 DEF Takes
<1> QED
  BY <1>5, <1>6

LEMMA FoundIs ==
  ASSUME Types, NEW cause, NEW titles
  PROVE  /\ Found(incidents, cause, titles) \subseteq Slots
         /\ \A i \in Slots : i \in Found(incidents, cause, titles) <=>
              IsUp(incidents[i]) /\ incidents[i].cause = cause /\ incidents[i].title \in titles
BY ActiveIsUp DEF Types, Found

\* What an incident is looked up by.
LEMMA TitlesAre ==
  /\ Names \cup {NoName} \subseteq Titles
  /\ \A m \in MonitorType : Title(m) \in Titles
BY DEF Titles, Title, MonitorType

LEMMA ChecksAre ==
  /\ NoCheck \in CheckType /\ NoCheck.id = 0
  /\ \A m \in MonitorType : Check(m) \in CheckType /\ Check(m).id = m.id
BY NodeAssumption, BoundAssumption DEF NoCheck, Check, CheckType, MonitorType

LEMMA NewJobIs == JobIsFree => NewJob \in Jobs
BY DEF JobIsFree, NewJob

LEMMA CappedIs ==
  ASSUME NEW n \in 0 .. 3
  PROVE  Capped(n + 1) \in 0 .. 3
BY DEF Capped, Highest

LEMMA InitIInv == Init => IInv
<1> SUFFICES ASSUME Init PROVE IInv
  OBVIOUS
<1>1. name \in Names
  BY NameAssumption DEF Init
<1>2. 0 \in 0 .. MaxRequests /\ 0 \in 0 .. MaxFaults /\ 0 \in 0 .. MaxRequests + 1
  BY BoundAssumption
<1>3. NoIncident \in IncidentType /\ ~IsUp(NoIncident)
  BY TitlesAre DEF NoIncident, IncidentType, IsUp
<1>4. NoMonitor \in MonitorType /\ NoMonitor.id = 0 /\ NoMonitor.streak = 0
  BY <1>2, NodeAssumption DEF NoMonitor, MonitorType
<1>5. NoCertificate \in CertificateType /\ NoCertificate.status = "none" /\ NoCertificate.left # 0
  BY DEF NoCertificate, CertificateType, CertificateStates, Unknown, Fresh
<1>6. Types
  BY <1>1, <1>2, <1>3, <1>4, <1>5, ChecksAre DEF Init, Types, Levels, NoCycle, Idle
<1> QED
  <2>1. OneSubject /\ Streaks /\ CycleKnows /\ ToBeReported
    BY <1>4, <1>5, ChecksAre DEF Init, OneSubject, Editing, Idle, Streaks, CycleKnows, ToBeReported, NoCycle
  <2>2. Kept
    BY <1>5 DEF Init, Kept, CertificatesStayValid
  <2>3. \A i \in Slots : ~IsUp(incidents[i])
    BY <1>3 DEF Init
  <2> QED
    BY <1>6, <2>1, <2>2, <2>3 DEF IInv, Right, Paired

-------------------------------------------------------------------------------
(* Steps that leave the incidents and what they are about alone *)

Background ==
  /\ UNCHANGED <<subject, incidents, reported, tunnel, bad, cycle>>
  /\ fresh' => fresh
  /\ monitor'.id = monitor.id /\ monitor'.node = monitor.node /\ monitor'.name = monitor.name
  /\ monitor'.status = monitor.status /\ monitor'.streak = monitor.streak
  /\ Editing' => desk' = desk

LEMMA BackgroundIInv ==
  ASSUME IInv, Background, Types', Kept', OneSubject'
  PROVE  IInv'
<1>1. Streaks' /\ CycleKnows' /\ ToBeReported'
  BY DEF IInv, Background, Streaks, CycleKnows, ToBeReported
<1>2. \A i \in Slots : Right(i)'
  BY DEF IInv, Background, Right, Editing, Title
<1>3. \A i, k \in Slots : Paired(i, k)'
  BY DEF IInv, Background, Paired
<1> QED
  BY <1>1, <1>2, <1>3 DEF IInv

LEMMA RequestTypes ==
  ASSUME Types, NEW action \in {"acknowledge", "resolve", "reopen", "update", "delete", "run", "issue", "renew"},
         NEW ids \in SUBSET Slots, Request(action, ids)
  PROVE  /\ requests' \in 0 .. MaxRequests /\ requests < MaxRequests /\ requests' = requests + 1
         /\ desk' \in [action : {"none", "acknowledge", "resolve", "reopen", "update", "delete",
                                 "run", "issue", "renew"},
                       ids : SUBSET Slots]
         /\ desk'.action = action /\ desk'.ids = ids /\ desk.action = "none"
BY BoundAssumption DEF Types, Request

LEMMA ReportSteps ==
  ASSUME IInv, HeartbeatArrives \/ (\E n \in Nodes : GoSilent(n)) \/ \E n \in Names : RenameNode(n)
  PROVE  IInv'
<1>1. UNCHANGED <<subject, reported, incidents, tunnel, monitor, checks, certificate, orders, cycle, desk, bad, faults>>
  BY DEF HeartbeatArrives, GoSilent, RenameNode, care
<1>2. /\ online' \subseteq Nodes
      /\ fresh' => fresh
      /\ heartbeat' \in Names \cup {NoName} /\ name' \in Names /\ requests' \in 0 .. MaxRequests
  BY BoundAssumption DEF HeartbeatArrives, GoSilent, RenameNode, IInv, Types, fresh
<1>3. Types'
  BY <1>1, <1>2 DEF IInv, Types
<1>4. Background
  BY <1>1, <1>2 DEF Background
<1>5. Kept' /\ OneSubject'
  BY <1>1 DEF IInv, Kept, CertificatesStayValid, OneSubject, Editing
<1> QED
  BY <1>3, <1>4, <1>5, BackgroundIInv

LEMMA MonitorSteps ==
  ASSUME IInv, ComesDue \/ SecretIsLost \/ WriteRun
  PROVE  IInv'
<1>1. UNCHANGED <<subject, node, incidents, tunnel, certificate, orders, cycle, bad, requests>>
  BY DEF ComesDue, SecretIsLost, WriteRun
<1>2. /\ monitor' \in MonitorType
      /\ monitor'.id = monitor.id /\ monitor'.node = monitor.node /\ monitor'.name = monitor.name
      /\ monitor'.status = monitor.status /\ monitor'.streak = monitor.streak
  <2>1. CASE WriteRun
    BY <2>1, NewJobIs DEF WriteRun, Queued, IInv, Types, MonitorType
  <2>2. CASE ComesDue \/ SecretIsLost
    BY <2>2 DEF ComesDue, SecretIsLost, IInv, Types, MonitorType
  <2> QED
    BY <2>1, <2>2
<1>3. /\ checks' \in [Jobs -> CheckType]
      /\ \A j \in Jobs : checks'[j] = checks[j] \/ checks'[j].id = monitor.id
  BY NewJobIs, ChecksAre DEF ComesDue, SecretIsLost, WriteRun, IInv, Types, MonitorType
<1>4. faults' \in 0 .. MaxFaults
  BY BoundAssumption DEF ComesDue, SecretIsLost, WriteRun, IInv, Types
<1>5. desk' = desk \/ desk' = Idle
  BY DEF ComesDue, SecretIsLost, WriteRun
<1>6. Types'
  BY <1>1, <1>2, <1>3, <1>4, <1>5 DEF IInv, Types, node, Idle
<1>7. Background
  BY <1>1, <1>2, <1>5 DEF Background, node, fresh, Editing, Idle
<1>8. Kept' /\ OneSubject'
  BY <1>1, <1>2, <1>3, <1>5 DEF IInv, Kept, CertificatesStayValid, OneSubject, Editing, Idle
<1> QED
  BY <1>6, <1>7, <1>8, BackgroundIInv

LEMMA ReadSteps ==
  ASSUME IInv,
         \/ \E i \in Slots, action \in {"acknowledge", "resolve", "reopen"} : ReadAction(i, action)
         \/ ReadRun
         \/ \E action \in {"issue", "renew"} : ReadOrder(action)
  PROVE  IInv'
<1>1. UNCHANGED <<subject, node, incidents, care, cycle, bad, faults>>
  BY DEF ReadAction, ReadRun, ReadOrder
<1>2. \E action \in {"acknowledge", "resolve", "reopen", "run", "issue", "renew"}, ids \in SUBSET Slots : Request(action, ids)
  BY DEF ReadAction, ReadRun, ReadOrder
<1>3. /\ requests' \in 0 .. MaxRequests /\ ~Editing'
      /\ desk' \in [action : {"none", "acknowledge", "resolve", "reopen", "update", "delete",
                              "run", "issue", "renew"},
                    ids : SUBSET Slots]
  BY <1>2, RequestTypes DEF IInv, Editing
<1>4. Types'
  BY <1>1, <1>3 DEF IInv, Types, node, care
<1>5. Background
  BY <1>1, <1>3 DEF Background, node, fresh, care
<1>6. OneSubject'
  <2>1. desk'.action \in {"issue", "renew"} => subject = "certificate"
    <3>1. CASE \E action \in {"issue", "renew"} : ReadOrder(action)
      BY <3>1 DEF ReadOrder
    <3>2. CASE ReadRun \/ \E i \in Slots, action \in {"acknowledge", "resolve", "reopen"} : ReadAction(i, action)
      BY <3>2 DEF ReadRun, ReadAction, Request, IInv, Types
    <3> QED
      BY <3>1, <3>2
  <2> QED
    BY <1>1, <1>3, <2>1 DEF IInv, OneSubject, care
<1>7. Kept'
  BY <1>1 DEF IInv, Kept, CertificatesStayValid, care
<1> QED
  BY <1>4, <1>5, <1>6, <1>7, BackgroundIInv

LEMMA CertificateSteps ==
  ASSUME IInv, WriteOrder \/ WeeksPass \/ \E j \in Jobs : OrderEnds(j)
  PROVE  IInv'
<1>1. UNCHANGED <<subject, node, incidents, tunnel, monitor, checks, cycle, bad, requests>>
  BY DEF WriteOrder, WeeksPass, OrderEnds
<1>2. certificate \in CertificateType /\ orders \subseteq Jobs /\ faults \in 0 .. MaxFaults
  BY DEF IInv, Types
<1>3. subject = "certificate"
  BY DEF WriteOrder, WeeksPass, OrderEnds, IInv, OneSubject
<1>4. ASSUME certificate' \in CertificateType, orders' \subseteq Jobs, faults' \in 0 .. MaxFaults,
             desk' = desk \/ desk' = Idle, Kept'
      PROVE  IInv'
  <2>1. Types'
    BY <1>1, <1>4 DEF IInv, Types, node, Idle
  <2>2. Background
    BY <1>1, <1>4 DEF Background, node, fresh, Editing, Idle
  <2>3. OneSubject'
    BY <1>1, <1>3, <1>4 DEF IInv, OneSubject, Editing, Idle
  <2> QED
    BY <1>4, <2>1, <2>2, <2>3, BackgroundIInv
<1>5. CASE WriteOrder
  <2>1. NewJob \in Jobs /\ orders' = orders \cup {NewJob} /\ desk' = Idle /\ faults' = faults
    BY <1>5, NewJobIs DEF WriteOrder
  <2>2. PICK s \in {"pending", "renewing"} : certificate' = Ordered(certificate, NewJob, s)
    BY <1>5 DEF WriteOrder
  <2>3. /\ certificate' \in CertificateType /\ certificate'.status = s
        /\ certificate'.left = certificate.left /\ certificate'.failed = certificate.failed
    BY <1>2, <2>1, <2>2 DEF Ordered, CertificateType, CertificateStates
  <2>4. Kept'
    BY <2>1, <2>3 DEF IInv, Kept, CertificatesStayValid
  <2> QED
    BY <1>2, <1>4, <2>1, <2>3, <2>4
<1>6. CASE WeeksPass
  <2>1. /\ certificate' = [certificate EXCEPT !.left = certificate.left - 1] /\ certificate.left > 0
        /\ certificate.left \in Unknown .. Fresh /\ Unknown = -1 /\ Fresh = 3
        /\ desk' = desk /\ faults' = faults /\ orders' = orders /\ orders = {} /\ certificate.status # "none"
    BY <1>2, <1>6 DEF WeeksPass, CertificateType, Unknown, Fresh
  <2>2. certificate.left - 1 \in Unknown .. Fresh
    BY <2>1
  <2>3. /\ certificate' \in CertificateType /\ certificate'.left = certificate.left - 1
        /\ certificate'.status = certificate.status /\ certificate'.failed = certificate.failed
    BY <1>2, <2>1, <2>2 DEF CertificateType
  <2>4. MayBeQueued(certificate.job)
    BY <1>2, <1>3, <2>1 DEF IInv, OneSubject, MayBeQueued, Pending, CertificateType
  <2>5. ~Renewable(Aged(certificate))
    BY <1>6, <2>4 DEF WeeksPass
  <2>6. certificate.left = 1 => certificate.status \notin {"valid", "expiring"}
    <3>1. CASE certificate.left = 1 /\ certificate.status = "valid"
      <4>1. Aged(certificate) = [certificate EXCEPT !.status = "expiring"]
        BY <3>1 DEF Aged
      <4> QED
        BY <1>2, <2>5, <3>1, <4>1 DEF Renewable, CertificateType
    <3>2. CASE certificate.left = 1 /\ certificate.status = "expiring"
      <4>1. Aged(certificate) = certificate
        BY <3>2 DEF Aged
      <4> QED
        BY <2>5, <3>2, <4>1 DEF Renewable
    <3> QED
      BY <3>1, <3>2
  <2>7. certificate.status \notin {"pending", "renewing", "expired"}
    BY <2>1 DEF IInv, Kept
  <2>8. certificate.left = 1 => certificate.failed
    BY <1>2, <2>1, <2>6, <2>7 DEF IInv, Kept, CertificateType, CertificateStates
  <2>9. Kept'
    BY <2>1, <2>3, <2>7, <2>8 DEF IInv, Kept, CertificatesStayValid
  <2> QED
    BY <1>2, <1>4, <2>1, <2>3, <2>9
<1>7. ASSUME NEW j \in Jobs, OrderEnds(j)
      PROVE  IInv'
  <2>1. orders' \subseteq Jobs /\ faults' \in 0 .. MaxFaults /\ desk' = desk
    BY <1>2, <1>7, BoundAssumption DEF OrderEnds
  <2>2. /\ certificate' \in CertificateType
        /\ \/ certificate'.status = "valid" /\ certificate'.left = Fresh
           \/ certificate'.status = "failed" /\ certificate'.failed
    <3>1. \/ certificate' = [[certificate EXCEPT !.left = Fresh] EXCEPT !.status = "valid", !.failed = FALSE]
          \/ certificate' = [certificate EXCEPT !.status = "failed", !.failed = TRUE]
      BY <1>7 DEF OrderEnds, Issued
    <3>2. Fresh \in Unknown .. Fresh /\ {"valid", "failed"} \subseteq CertificateStates
      BY DEF Unknown, Fresh, CertificateStates
    <3> QED
      BY <1>2, <3>1, <3>2 DEF CertificateType
  <2>3. Kept'
    BY <2>2 DEF Kept, CertificatesStayValid, Fresh
  <2> QED
    BY <1>4, <2>1, <2>2, <2>3
<1> QED
  BY <1>5, <1>6, <1>7

-------------------------------------------------------------------------------
(* What a step may do to the incidents *)

\* Some of the incidents are resolved, and nothing else.
Fades == \A i \in Slots : incidents'[i] = incidents[i] \/ ~IsUp(incidents'[i])

\* One row becomes a new incident.
Opens(cause, title) == \E x : Takes(incidents', incidents, x, cause, title)

Causes == {"resource", "tunnel", "monitor"}

LEMMA FadingPairs ==
  ASSUME IInv, Fades
  PROVE  \A i, k \in Slots : Paired(i, k)'
BY DEF IInv, Fades, Paired, SameCause

LEMMA OpeningPairs ==
  ASSUME IInv, NEW cause, NEW title, Opens(cause, title),
         \A i \in Slots : IsUp(incidents[i]) /\ incidents[i].cause = cause /\ incidents[i].title = title
           => cause = "offline" /\ incidents[i].stray
  PROVE  \A i, k \in Slots : Paired(i, k)'
<1>1. PICK x : \A i \in Slots :
        /\ i # x => incidents'[i] = incidents[i]
        /\ i = x => incidents'[i].cause = cause /\ incidents'[i].title = title
  <2>1. PICK x : Takes(incidents', incidents, x, cause, title)
    BY DEF Opens
  <2> QED
    BY <2>1 DEF Takes
<1>2. SUFFICES ASSUME NEW i \in Slots, NEW k \in Slots, i # k, IsUp(incidents'[i]), IsUp(incidents'[k]),
                      incidents'[i].cause = incidents'[k].cause, incidents'[i].title = incidents'[k].title
               PROVE  incidents'[i].stray \/ (incidents'[i].cause = "offline" /\ incidents'[k].stray)
  BY DEF Paired, SameCause
<1>3. CASE i = x
  <2>1. incidents'[k] = incidents[k] /\ incidents'[k].cause = cause /\ incidents'[k].title = title
    BY <1>1, <1>2, <1>3
  <2>2. incidents[k].stray /\ incidents'[i].cause = "offline"
    BY <1>2, <2>1
  <2> QED
    BY <2>1, <2>2
<1>4. CASE k = x
  <2>1. incidents'[i] = incidents[i] /\ incidents'[i].cause = cause /\ incidents'[i].title = title
    BY <1>1, <1>2, <1>4
  <2> QED
    BY <1>2, <2>1
<1>5. CASE i # x /\ k # x
  BY <1>1, <1>2, <1>5 DEF IInv, Paired, SameCause
<1> QED
  BY <1>3, <1>4, <1>5

\* What is looked up with LIMIT 1 is all that there is to resolve.
LEMMA Cleared ==
  ASSUME IInv, NEW cause \in Causes, NEW title,
         incidents' \in ResolvedOne(incidents, Found(incidents, cause, {title}))
  PROVE  /\ incidents' \in [Slots -> IncidentType] /\ Fades
         /\ \A i \in Slots : IsUp(incidents'[i]) /\ incidents'[i].cause = cause /\ incidents'[i].title = title
              => incidents'[i].stray
<1> DEFINE S == Found(incidents, cause, {title})
<1>1. S \in SUBSET Slots /\ incidents \in [Slots -> IncidentType]
  BY FoundIs DEF IInv, Types
<1>2. \A i \in Slots : i \in S <=> IsUp(incidents[i]) /\ incidents[i].cause = cause /\ incidents[i].title = title
  BY FoundIs DEF IInv
<1> HIDE DEF S
<1>3. /\ incidents' \in [Slots -> IncidentType] /\ Fades
      /\ S = {} \/ \E i \in S : ~IsUp(incidents'[i])
  <2>1. incidents' \in ResolvedOne(incidents, S)
    BY DEF S
  <2> QED
    BY <1>1, <2>1, ResolvedOneIs DEF Fades
<1>4. ASSUME NEW i \in Slots, IsUp(incidents'[i]), incidents'[i].cause = cause, incidents'[i].title = title
      PROVE  incidents'[i].stray
  <2>1. incidents'[i] = incidents[i] /\ i \in S
    BY <1>2, <1>3, <1>4 DEF Fades
  <2>2. PICK k \in S : ~IsUp(incidents'[k])
    BY <1>3, <2>1
  <2>3. k \in Slots /\ k # i /\ IsUp(incidents[k]) /\ SameCause(incidents[i], incidents[k])
    BY <1>1, <1>2, <1>4, <2>1, <2>2 DEF SameCause
  <2> QED
    BY <1>4, <2>1, <2>3 DEF IInv, Paired, Causes
<1> QED
  BY <1>3, <1>4

\* What the Hub does with a verdict on a cause: it opens an incident if there is none, resolves
\* one, or does nothing.
LEMMA CauseSteps ==
  ASSUME IInv, NEW cause \in Causes, NEW title \in Titles,
         \/ incidents' = Opened(incidents, cause, title) /\ Found(incidents, cause, {title}) = {}
         \/ incidents' \in ResolvedOne(incidents, Found(incidents, cause, {title}))
         \/ incidents' = incidents
  PROVE  /\ incidents' \in [Slots -> IncidentType]
         /\ Fades \/ Opens(cause, title)
         /\ \A i, k \in Slots : Paired(i, k)'
         /\ \A i \in Slots : IsUp(incidents'[i]) /\ incidents'[i].cause = "offline" => incidents'[i] = incidents[i]
<1>1. CASE incidents' = Opened(incidents, cause, title) /\ Found(incidents, cause, {title}) = {}
  <2>1. incidents' \in [Slots -> IncidentType] /\ Opens(cause, title)
    <3>1. incidents \in [Slots -> IncidentType] /\ cause \in {"offline", "resource", "tunnel", "monitor"}
      BY DEF IInv, Types, Causes
    <3> QED
      BY <1>1, <3>1, OpenedIs DEF Opens
  <2>2. \A i \in Slots : ~(IsUp(incidents[i]) /\ incidents[i].cause = cause /\ incidents[i].title = title)
    BY <1>1, FoundIs DEF IInv
  <2>3. \A i, k \in Slots : Paired(i, k)'
    BY <2>1, <2>2, OpeningPairs
  <2>4. \A i \in Slots : incidents'[i] = incidents[i] \/ incidents'[i].cause = cause
    BY <2>1 DEF Opens, Takes
  <2> QED
    BY <2>1, <2>3, <2>4 DEF Causes
<1>2. CASE incidents' \in ResolvedOne(incidents, Found(incidents, cause, {title}))
  BY <1>2, Cleared, FadingPairs DEF Fades
<1>3. CASE incidents' = incidents
  BY <1>3, FadingPairs DEF Fades, IInv, Types
<1> QED
  BY <1>1, <1>2, <1>3

-------------------------------------------------------------------------------
(* Monitors *)

LEMMA JudgedIs ==
  ASSUME NEW m \in MonitorType, NEW verdict \in {"up", "down"}
  PROVE  /\ Judged(m, verdict) \in MonitorType
         /\ Judged(m, verdict).id = m.id /\ Judged(m, verdict).node = m.node /\ Judged(m, verdict).name = m.name
         /\ Judged(m, verdict).status = verdict
         /\ Judged(m, verdict).streak = IF verdict = "up" THEN 0 ELSE Capped(m.streak + 1)
<1> DEFINE n == IF verdict = "up" THEN 0 ELSE Capped(m.streak + 1)
<1>1. n \in 0 .. 3
  BY CappedIs DEF MonitorType
<1>2. Judged(m, verdict) = [m EXCEPT !.status = verdict, !.streak = n]
  BY DEF Judged
<1> HIDE DEF n
<1>3. Judged(m, verdict) \in MonitorType /\ Judged(m, verdict).streak = n
  BY <1>1, <1>2 DEF MonitorType
<1>4. /\ Judged(m, verdict).id = m.id /\ Judged(m, verdict).node = m.node /\ Judged(m, verdict).name = m.name
      /\ Judged(m, verdict).status = verdict
  BY <1>2 DEF MonitorType
<1> QED
  BY <1>3, <1>4 DEF n

\* A verdict on the monitor, whoever has it.
JudgesMonitor ==
  /\ UNCHANGED <<subject, desk>> /\ monitor.id # 0
  /\ monitor' \in MonitorType /\ monitor'.id = monitor.id
  /\ monitor'.node = monitor.node /\ monitor'.name = monitor.name
  /\ monitor'.status \in {"up", "down"}
  /\ incidents' \in WithVerdict(incidents, monitor')

LEMMA VerdictStep ==
  ASSUME IInv, JudgesMonitor
  PROVE  /\ incidents' \in [Slots -> IncidentType]
         /\ \A i \in Slots : Right(i)'
         /\ \A i, k \in Slots : Paired(i, k)'
         /\ \A i \in Slots : IsUp(incidents'[i]) /\ incidents'[i].cause = "offline" => incidents'[i] = incidents[i]
<1> DEFINE title == Title(monitor)
<1>1. /\ subject = "monitor" /\ title \in Titles /\ "monitor" \in Causes
      /\ UNCHANGED <<subject, desk>> /\ monitor'.id # 0 /\ Title(monitor') = title
  BY TitlesAre DEF JudgesMonitor, IInv, OneSubject, Types, Title, Causes
<1> HIDE DEF title
<1> DEFINE open == Found(incidents, "monitor", {title})
<1>2. \/ monitor'.status = "down" /\ incidents' = Opened(incidents, "monitor", title) /\ open = {}
      \/ monitor'.status = "up" /\ incidents' \in ResolvedOne(incidents, open)
      \/ monitor'.status = "down" /\ incidents' = incidents
  BY <1>1 DEF JudgesMonitor, WithVerdict
<1>3. /\ incidents' \in [Slots -> IncidentType]
      /\ Fades \/ (monitor'.status = "down" /\ Opens("monitor", title))
      /\ \A i, k \in Slots : Paired(i, k)'
      /\ \A i \in Slots : IsUp(incidents'[i]) /\ incidents'[i].cause = "offline" => incidents'[i] = incidents[i]
  <2>1. CASE monitor'.status = "down"
    BY <1>1, <1>2, <2>1, CauseSteps
  <2>2. CASE monitor'.status = "up"
    <3>1. incidents' \in ResolvedOne(incidents, open)
      BY <1>2, <2>2
    <3>2. Fades
      BY <1>1, <3>1, Cleared
    <3> QED
      BY <1>1, <3>1, <3>2, CauseSteps
  <2> QED
    BY <2>1, <2>2 DEF JudgesMonitor
<1>4. monitor'.status = "up" =>
        \A i \in Slots : IsUp(incidents'[i]) /\ incidents'[i].cause = "monitor" /\ incidents'[i].title = title
          => incidents'[i].stray
  BY <1>1, <1>2, Cleared
<1>5. ASSUME NEW i \in Slots
      PROVE  Right(i)'
  <2>1. CASE incidents'[i] = incidents[i]
    <3>1. subject # "node" /\ subject # "resource" /\ subject # "tunnel"
      BY <1>1
    <3>2. /\ Right(i)
          /\ IsUp(incidents[i]) /\ ~incidents[i].stray => monitor'.status = "down" \/ incidents[i].cause # "monitor"
      BY <1>1, <1>4, <2>1 DEF IInv, Right, JudgesMonitor, title
    <3> QED
      BY <1>1, <2>1, <3>1, <3>2 DEF Right, Editing, title, Title
  <2>2. CASE ~IsUp(incidents'[i])
    BY <2>2 DEF Right
  <2>3. CASE incidents'[i] # incidents[i] /\ IsUp(incidents'[i])
    <3>1. /\ monitor'.status = "down" /\ incidents'[i].cause = "monitor" /\ incidents'[i].title = title
          /\ incidents'[i].stray <=> Editing
      BY <1>3, <2>3 DEF Fades, Opens, Takes
    <3> QED
      BY <1>1, <3>1 DEF Right, Editing, Title
  <2> QED
    BY <2>1, <2>2, <2>3
<1> QED
  BY <1>3, <1>5

LEMMA CheckEndStep ==
  ASSUME IInv, NEW j \in Jobs, CheckEnds(j)
  PROVE  IInv'
<1>1. /\ checks[j].id # 0 /\ checks' = [checks EXCEPT ![j] = NoCheck]
      /\ UNCHANGED <<subject, node, tunnel, certificate, orders, cycle, desk, requests, faults>>
  BY DEF CheckEnds
<1>2. subject = "monitor"
  BY <1>1 DEF IInv, OneSubject
<1>3. checks' \in [Jobs -> CheckType]
  BY <1>1, ChecksAre DEF IInv, Types
<1>4. OneSubject' /\ CycleKnows' /\ Kept'
  BY <1>1, <1>2 DEF IInv, OneSubject, CycleKnows, Kept, CertificatesStayValid, Editing, node, fresh
<1>5. CASE checks[j] = Check(monitor)
  <2>1. PICK v \in {"up", "down"} :
          /\ monitor' = Judged(monitor, v) /\ incidents' \in WithVerdict(incidents, monitor')
          /\ bad' = IF v = "up" THEN 0 ELSE Capped(bad + 1)
    BY <1>5 DEF CheckEnds, Probes, Verdict
  <2>2. /\ monitor' \in MonitorType /\ monitor'.id = monitor.id
        /\ monitor'.node = monitor.node /\ monitor'.name = monitor.name
        /\ monitor'.status = v /\ monitor'.streak = bad'
    BY <1>2, <2>1, JudgedIs DEF IInv, Types, Streaks
  <2>3. JudgesMonitor
    BY <1>1, <1>5, <2>1, <2>2, ChecksAre DEF JudgesMonitor, IInv, Types
  <2>4. bad' \in 0 .. 3
    BY <2>2 DEF MonitorType
  <2>5. Types'
    BY <1>1, <1>3, <2>2, <2>3, <2>4, VerdictStep DEF IInv, Types, node
  <2>6. Streaks' /\ ToBeReported'
    BY <1>1, <1>2, <2>2, <2>3, VerdictStep DEF IInv, Streaks, ToBeReported
  <2> QED
    BY <1>4, <2>3, <2>5, <2>6, VerdictStep DEF IInv
<1>6. CASE checks[j] # Check(monitor)
  <2>1. UNCHANGED <<monitor, incidents, bad>>
    BY <1>6 DEF CheckEnds
  <2>2. Types' /\ Background
    BY <1>1, <1>3, <2>1 DEF IInv, Types, node, fresh, Background
  <2> QED
    BY <1>4, <2>2, BackgroundIInv
<1> QED
  BY <1>5, <1>6

\* Editing, creating and deleting monitors.
LEMMA ReadEditStep ==
  ASSUME IInv, NEW action \in {"update", "delete"}, ReadEdit(action)
  PROVE  IInv'
<1> DEFINE S == Found(incidents, "monitor", {Title(monitor)})
<1>1. /\ S \subseteq Slots
      /\ \A i \in Slots : IsUp(incidents[i]) /\ incidents[i].cause = "monitor" /\ incidents[i].title = Title(monitor)
           => i \in S
  BY FoundIs DEF IInv
<1>2. /\ Request(action, S) /\ UNCHANGED <<subject, node, incidents, care, cycle, bad, faults>>
      /\ monitor.id # 0
  BY DEF ReadEdit
<1> HIDE DEF S
<1>3. /\ requests' \in 0 .. MaxRequests /\ desk'.action = action /\ desk'.ids = S
      /\ desk' \in [action : {"none", "acknowledge", "resolve", "reopen", "update", "delete",
                              "run", "issue", "renew"},
                    ids : SUBSET Slots]
  BY <1>1, <1>2, RequestTypes DEF IInv
<1>4. subject = "monitor"
  BY <1>2 DEF IInv, OneSubject
<1>5. Types'
  BY <1>2, <1>3 DEF IInv, Types, node, care
<1>6. OneSubject' /\ Streaks' /\ CycleKnows' /\ ToBeReported' /\ Kept'
  BY <1>2, <1>3, <1>4 DEF IInv, OneSubject, Streaks, CycleKnows, ToBeReported, Kept, CertificatesStayValid,
     Editing, node, fresh, care
<1>7. \A i \in Slots : Right(i)'
  BY <1>1, <1>2, <1>3 DEF IInv, Right, Title, node, fresh, care
<1>8. \A i, k \in Slots : Paired(i, k)'
  BY <1>2 DEF IInv, Paired
<1> QED
  BY <1>5, <1>6, <1>7, <1>8 DEF IInv

\* Every incident of the monitor is resolved, or there was none.
LEMMA SavingStep ==
  ASSUME IInv, WriteUpdate \/ WriteDelete \/ \E m \in Nodes, enabled \in BOOLEAN : CreateMonitor(m, enabled)
  PROVE  IInv'
<1>1. /\ UNCHANGED <<subject, node, tunnel, checks, certificate, orders, cycle, requests, faults>>
      /\ bad' = 0 /\ subject = "monitor"
  BY DEF WriteUpdate, WriteDelete, CreateMonitor, IInv, OneSubject, Editing
<1>2. monitor' \in MonitorType /\ monitor'.streak = 0
  <2>1. monitor \in MonitorType /\ requests + 1 \in 0 .. MaxRequests + 1 /\ 0 \in 0 .. MaxRequests + 1 /\ name \in Names
    BY BoundAssumption DEF IInv, Types
  <2>2. NoMonitor \in MonitorType /\ NoMonitor.streak = 0
    BY <2>1, NodeAssumption DEF NoMonitor, MonitorType
  <2>3. ASSUME NEW m \in Nodes, NEW enabled \in BOOLEAN, CreateMonitor(m, enabled)
        PROVE  monitor' \in MonitorType /\ monitor'.streak = 0
    <3> DEFINE id == requests + 1
    <3>1. monitor' = [NoMonitor EXCEPT !.id = id, !.node = m, !.name = name, !.enabled = enabled, !.due = TRUE]
      BY <2>3 DEF CreateMonitor
    <3>2. id \in 0 .. MaxRequests + 1
      BY <2>1
    <3> HIDE DEF id
    <3> QED
      BY <2>1, <2>2, <3>1, <3>2 DEF MonitorType
  <2>4. CASE WriteUpdate
    <3>1. PICK place \in Nodes, n \in Names, enabled \in BOOLEAN, readable \in BOOLEAN :
            monitor' = Edited(monitor, place, n, enabled, readable)
      BY <2>1, <2>4 DEF WriteUpdate, Readable, MonitorType
    <3>2. monitor' = [[monitor EXCEPT !.node = place, !.name = n, !.enabled = enabled, !.readable = readable]
                        EXCEPT !.status = "pending", !.streak = 0, !.due = TRUE]
      BY <2>1, <3>1 DEF Edited
    <3> DEFINE m == [monitor EXCEPT !.node = place, !.name = n, !.enabled = enabled, !.readable = readable]
    <3>3. m \in MonitorType
      BY <2>1 DEF MonitorType
    <3> DEFINE z == 0
    <3>4. monitor' = [m EXCEPT !.status = "pending", !.streak = z, !.due = TRUE]
      BY <3>2
    <3>5. z \in 0 .. 3
      OBVIOUS
    <3> HIDE DEF m, z
    <3>6. monitor' \in MonitorType /\ monitor'.streak = z
      BY <3>3, <3>4, <3>5 DEF MonitorType
    <3> QED
      BY <3>6 DEF z
  <2> QED
    BY <2>2, <2>3, <2>4 DEF WriteDelete
<1>3. /\ incidents' \in [Slots -> IncidentType] /\ Fades
      /\ \A i \in Slots : IsUp(incidents'[i]) /\ incidents'[i].cause = "monitor" => incidents'[i].stray
      /\ desk' = Idle \/ (desk' = desk /\ desk.action = "none")
  <2>1. incidents \in [Slots -> IncidentType]
    BY DEF IInv, Types
  <2>2. CASE WriteUpdate \/ WriteDelete
    <3>1. incidents' = Resolved(incidents, desk.ids) /\ Editing /\ desk' = Idle
      BY <2>2 DEF WriteUpdate, WriteDelete, Editing
    <3>2. /\ incidents' \in [Slots -> IncidentType] /\ Fades
          /\ \A i \in desk.ids \cap Slots : ~IsUp(incidents'[i])
      BY <2>1, <3>1, ResolvedIs DEF Fades
    <3> QED
      BY <3>1, <3>2 DEF IInv, Right, Fades
  <2>3. ASSUME NEW m \in Nodes, NEW enabled \in BOOLEAN, CreateMonitor(m, enabled)
        PROVE  /\ incidents' = incidents /\ desk' = desk /\ desk.action = "none"
               /\ monitor.id = 0
    BY <2>3 DEF CreateMonitor
  <2>4. CASE \E m \in Nodes, enabled \in BOOLEAN : CreateMonitor(m, enabled)
    <3>1. incidents' = incidents /\ desk' = desk /\ desk.action = "none" /\ monitor.id = 0
      BY <2>3, <2>4
    <3> QED
      BY <2>1, <3>1 DEF IInv, Right, Fades
  <2> QED
    BY <2>2, <2>4
<1>4. ~Editing' /\ desk'.action \notin {"issue", "renew"}
  BY <1>3 DEF Editing, Idle
<1>5. Types'
  BY <1>1, <1>2, <1>3 DEF IInv, Types, node, Idle
<1>6. OneSubject' /\ Streaks' /\ CycleKnows' /\ Kept'
  BY <1>1, <1>2, <1>4 DEF IInv, OneSubject, Streaks, CycleKnows, Kept, CertificatesStayValid, node, fresh
<1>7. ToBeReported'
  BY <1>1, <1>3 DEF IInv, ToBeReported, Fades
<1>8. \A i \in Slots : Right(i)'
  BY <1>1, <1>3 DEF IInv, Right, Fades, node, fresh
<1> QED
  BY <1>3, <1>5, <1>6, <1>7, <1>8, FadingPairs DEF IInv

-------------------------------------------------------------------------------
(* Operators and incidents *)

\* What an operator does to the incidents: one is resolved, acknowledged or revived.
LEMMA Operated ==
  ASSUME NEW inc \in [Slots -> IncidentType], incidents = inc, NEW i \in Slots, NEW new,
         \/ new = Resolved(inc, {i})
         \/ Active(inc[i]) /\ new = [inc EXCEPT ![i].status = "acknowledged"]
         \/ \E s \in {"open", "acknowledged"} : new = Revived(i, s)
  PROVE  /\ new \in [Slots -> IncidentType]
         /\ \A k \in Slots : /\ new[k].cause = inc[k].cause /\ new[k].title = inc[k].title
                             /\ IsUp(new[k]) => (inc[k].stray => new[k].stray) /\ (IsUp(inc[k]) \/ new[k].stray)
         /\ \A k \in Slots : IsUp(new[k]) /\ ~IsUp(inc[k]) =>
              \A m \in Slots : IsUp(new[m]) /\ SameCause(new[k], new[m]) => new[m].stray
<1>1. CASE new = Resolved(inc, {i})
  <2> DEFINE r == [inc[i] EXCEPT !.status = "resolved", !.stray = FALSE]
  <2>1. r \in IncidentType /\ ~IsUp(r) /\ r.cause = inc[i].cause /\ r.title = inc[i].title
    BY DEF IncidentType, IsUp
  <2>2. \A k \in Slots : new[k] = IF k = i /\ Active(inc[k]) THEN r ELSE inc[k]
    BY <1>1 DEF Resolved
  <2>3. new \in [Slots -> IncidentType]
    BY <1>1, ResolvedIs
  <2> HIDE DEF r
  <2> QED
    BY <2>1, <2>2, <2>3
<1>2. CASE Active(inc[i]) /\ new = [inc EXCEPT ![i].status = "acknowledged"]
  <2> DEFINE r == [inc[i] EXCEPT !.status = "acknowledged"]
  <2>1. /\ r \in IncidentType /\ IsUp(r) /\ r.cause = inc[i].cause /\ r.title = inc[i].title
        /\ r.stray = inc[i].stray /\ IsUp(inc[i])
    BY <1>2, ActiveIsUp DEF IncidentType, IsUp
  <2>2. new = [inc EXCEPT ![i] = r]
    BY <1>2
  <2> HIDE DEF r
  <2> QED
    BY <2>1, <2>2
<1>3. ASSUME NEW s \in {"open", "acknowledged"}, new = Revived(i, s)
      PROVE  /\ new \in [Slots -> IncidentType]
             /\ \A k \in Slots : /\ new[k].cause = inc[k].cause /\ new[k].title = inc[k].title
                                 /\ inc[k].stray => new[k].stray
                                 /\ k = i => new[k].stray
                                 /\ k # i => (IsUp(new[k]) <=> IsUp(inc[k]))
                                 /\ IsUp(new[k]) /\ SameCause(inc[i], inc[k]) => new[k].stray
  <2> DEFINE r == [inc[i] EXCEPT !.status = s, !.stray = TRUE]
             q(k) == [inc[k] EXCEPT !.stray = TRUE]
  <2>1. r \in IncidentType /\ r.cause = inc[i].cause /\ r.title = inc[i].title /\ r.stray
    BY DEF IncidentType
  <2>2. \A k \in Slots : /\ q(k) \in IncidentType /\ q(k).cause = inc[k].cause /\ q(k).title = inc[k].title
                         /\ q(k).stray /\ (IsUp(q(k)) <=> IsUp(inc[k]))
    BY DEF IncidentType, IsUp
  <2>3. new = [k \in Slots |-> IF k = i THEN r
                              ELSE IF Active(inc[k]) /\ SameCause(inc[i], inc[k]) THEN q(k) ELSE inc[k]]
    BY <1>3 DEF Revived
  <2>4. \A k \in Slots : Active(inc[k]) <=> IsUp(inc[k])
    BY ActiveIsUp
  <2> HIDE DEF r, q
  <2> QED
    BY <2>1, <2>2, <2>3, <2>4
<1>4. CASE \E s \in {"open", "acknowledged"} : new = Revived(i, s)
  BY <1>3, <1>4 DEF SameCause
<1> QED
  BY <1>1, <1>2, <1>4

LEMMA WriteActionStep ==
  ASSUME IInv, WriteAction
  PROVE  IInv'
<1>1. /\ desk.action \in {"acknowledge", "resolve", "reopen"} /\ desk' = Idle
      /\ UNCHANGED <<subject, node, care, cycle, bad, requests, faults>>
      /\ incidents \in [Slots -> IncidentType]
  BY DEF WriteAction, IInv, Types
<1>2. PICK i \in Slots :
        \/ incidents' = Resolved(incidents, {i})
        \/ Active(incidents[i]) /\ incidents' = [incidents EXCEPT ![i].status = "acknowledged"]
        \/ \E s \in {"open", "acknowledged"} : incidents' = Revived(i, s)
  BY DEF WriteAction, StatusAfter, IInv, Types
<1>3. /\ incidents' \in [Slots -> IncidentType]
      /\ \A k \in Slots :
           /\ incidents'[k].cause = incidents[k].cause /\ incidents'[k].title = incidents[k].title
           /\ IsUp(incidents'[k]) => /\ incidents[k].stray => incidents'[k].stray
                                     /\ IsUp(incidents[k]) \/ incidents'[k].stray
      /\ \A k \in Slots : IsUp(incidents'[k]) /\ ~IsUp(incidents[k]) =>
           \A m \in Slots : IsUp(incidents'[m]) /\ SameCause(incidents'[k], incidents'[m]) => incidents'[m].stray
  BY <1>1, <1>2, Operated
<1>4. Types'
  BY <1>1, <1>3 DEF IInv, Types, node, care, Idle
<1>5. OneSubject' /\ Streaks' /\ CycleKnows' /\ Kept'
  BY <1>1 DEF IInv, OneSubject, Streaks, CycleKnows, Kept, CertificatesStayValid, Editing, Idle, node, fresh, care
<1>6. ToBeReported'
  BY <1>1, <1>3 DEF IInv, ToBeReported
<1>7. \A k \in Slots : Right(k)'
  BY <1>1, <1>3 DEF IInv, Right, Title, Editing, Idle, node, fresh, care
<1>8. ASSUME NEW k \in Slots, NEW m \in Slots
      PROVE  Paired(k, m)'
  BY <1>3 DEF IInv, Paired, SameCause
<1> QED
  BY <1>4, <1>5, <1>6, <1>7, <1>8 DEF IInv

-------------------------------------------------------------------------------
(* Reports of the Agent *)

LEMMA RecoveredIs ==
  ASSUME IInv, incidents' = Recovered(incidents)
  PROVE  /\ incidents' \in [Slots -> IncidentType] /\ Fades
         /\ \A i \in Slots : IsUp(incidents'[i]) /\ incidents'[i].cause = "offline" => incidents'[i].stray
<1> DEFINE S == Found(incidents, "offline", Names)
<1>1. incidents \in [Slots -> IncidentType] /\ incidents' = Resolved(incidents, S)
  BY DEF IInv, Types, Recovered
<1>2. \A i \in Slots : i \in S <=> IsUp(incidents[i]) /\ incidents[i].cause = "offline" /\ incidents[i].title \in Names
  BY FoundIs DEF IInv
<1> HIDE DEF S
<1>3. /\ incidents' \in [Slots -> IncidentType] /\ Fades
      /\ \A i \in S \cap Slots : ~IsUp(incidents'[i])
  BY <1>1, ResolvedIs DEF Fades
<1> QED
  BY <1>2, <1>3 DEF IInv, Right, Fades

\* The node is heard of again.
LEMMA HeardOf ==
  ASSUME IInv, incidents' = Recovered(incidents), cycle.phase = "idle", online' = online \cup {Home},
         heartbeat' \in Names \cup {NoName},
         UNCHANGED <<subject, name, reported, care, cycle, desk, bad, requests, faults>>
  PROVE  IInv'
<1>1. Types'
  BY RecoveredIs, NodeAssumption DEF IInv, Types, care
<1>2. OneSubject' /\ Streaks' /\ Kept'
  BY DEF IInv, OneSubject, Streaks, Kept, CertificatesStayValid, Editing, care
<1>3. CycleKnows' /\ ToBeReported'
  BY DEF IInv, CycleKnows, ToBeReported
<1>4. \A i \in Slots : Right(i)'
  BY RecoveredIs DEF IInv, Right, Title, Fades, Editing, care
<1> QED
  BY <1>1, <1>2, <1>3, <1>4, RecoveredIs, FadingPairs DEF IInv

LEMMA PulseStep ==
  ASSUME IInv, NEW n \in Nodes, Pulse(n)
  PROVE  IInv'
<1>1. /\ cycle.phase = "idle" /\ online' = online \cup {n}
      /\ incidents' = IF n = Home THEN Recovered(incidents) ELSE incidents
      /\ UNCHANGED <<subject, name, heartbeat, reported, care, cycle, desk, bad, requests, faults>>
  BY DEF Pulse
<1>2. CASE n = Home
  BY <1>1, <1>2, HeardOf DEF IInv, Types
<1>3. CASE n # Home
  <2>1. Types'
    BY <1>1, <1>3 DEF IInv, Types, care
  <2>2. Background
    BY <1>1, <1>3 DEF Background, fresh, care
  <2>3. Kept' /\ OneSubject'
    BY <1>1 DEF IInv, Kept, CertificatesStayValid, OneSubject, Editing, care
  <2> QED
    BY <2>1, <2>2, <2>3, BackgroundIInv
<1> QED
  BY <1>2, <1>3

LEMMA ResourceStep ==
  ASSUME IInv, NEW level \in Levels, subject = "resource", heartbeat # NoName,
         incidents' \in WithResource(incidents, level), reported' = [name |-> heartbeat, level |-> level],
         UNCHANGED <<subject, desk, tunnel, monitor>>
  PROVE  /\ incidents' \in [Slots -> IncidentType] /\ reported' \in [name : Names \cup {NoName}, level : Levels]
         /\ \A i \in Slots : Right(i)'
         /\ \A i, k \in Slots : Paired(i, k)'
<1> DEFINE open == Found(incidents, "resource", {heartbeat})
<1>1. heartbeat \in Names \cup {NoName} /\ heartbeat \in Titles /\ "resource" \in Causes
  BY TitlesAre DEF IInv, Types, Causes
<1>2. \/ level = "high" /\ incidents' = Opened(incidents, "resource", heartbeat) /\ open = {}
      \/ level = "low" /\ incidents' \in ResolvedOne(incidents, open)
      \/ level # "low" /\ incidents' = incidents
  BY DEF WithResource
<1>3. level = "low" => /\ Fades
                       /\ \A i \in Slots : /\ IsUp(incidents'[i]) /\ incidents'[i].cause = "resource"
                                           /\ incidents'[i].title = heartbeat
                            => incidents'[i].stray
  BY <1>1, <1>2, Cleared
<1>4. /\ incidents' \in [Slots -> IncidentType]
      /\ Fades \/ Opens("resource", heartbeat)
      /\ \A i, k \in Slots : Paired(i, k)'
  <2>1. \/ incidents' = Opened(incidents, "resource", heartbeat) /\ open = {}
        \/ incidents' \in ResolvedOne(incidents, open)
        \/ incidents' = incidents
    BY <1>2
  <2> QED
    BY <1>1, <2>1, CauseSteps
<1>5. ASSUME NEW i \in Slots
      PROVE  Right(i)'
  <2>1. CASE incidents'[i] = incidents[i]
    BY <1>3, <2>1 DEF IInv, Right, Editing
  <2>2. CASE ~IsUp(incidents'[i])
    BY <2>2 DEF Right
  <2>3. CASE incidents'[i] # incidents[i] /\ IsUp(incidents'[i])
    <3>1. level # "low" /\ incidents'[i].cause = "resource"
      BY <1>3, <1>4, <2>3 DEF Fades, Opens, Takes
    <3> QED
      BY <3>1 DEF Right
  <2> QED
    BY <2>1, <2>2, <2>3
<1> QED
  BY <1>1, <1>4, <1>5

\* What has become of the tunnel, when it is named ...
LEMMA TunnelStep ==
  ASSUME IInv, NEW state \in TunnelStates, subject = "tunnel",
         incidents' \in WithTunnel(incidents, state), tunnel' = TunnelAfter(state),
         UNCHANGED <<subject, desk, monitor>>
  PROVE  /\ incidents' \in [Slots -> IncidentType]
         /\ \A i \in Slots : Right(i)'
         /\ \A i, k \in Slots : Paired(i, k)'
<1> DEFINE open == Found(incidents, "tunnel", {NoName})
<1>1. NoName \in Titles /\ "tunnel" \in Causes /\ tunnel'.status = state /\ state # "none"
  BY TitlesAre DEF Causes, TunnelAfter, TunnelStates
<1>2. \/ Bad(state) /\ incidents' = Opened(incidents, "tunnel", NoName) /\ open = {}
      \/ state = "healthy" /\ incidents' \in ResolvedOne(incidents, open)
      \/ state # "healthy" /\ incidents' = incidents
  BY DEF WithTunnel, Bad
<1>3. state = "healthy" => /\ Fades
                           /\ \A i \in Slots : /\ IsUp(incidents'[i]) /\ incidents'[i].cause = "tunnel"
                                               /\ incidents'[i].title = NoName
                                => incidents'[i].stray
  BY <1>1, <1>2, Cleared DEF Bad
<1>4. /\ incidents' \in [Slots -> IncidentType]
      /\ Fades \/ Opens("tunnel", NoName)
      /\ \A i, k \in Slots : Paired(i, k)'
  <2>1. \/ incidents' = Opened(incidents, "tunnel", NoName) /\ open = {}
        \/ incidents' \in ResolvedOne(incidents, open)
        \/ incidents' = incidents
    BY <1>2
  <2> QED
    BY <1>1, <2>1, CauseSteps
<1>5. ASSUME NEW i \in Slots
      PROVE  Right(i)'
  <2>1. CASE incidents'[i] = incidents[i]
    BY <1>1, <1>3, <2>1 DEF IInv, Right, Editing
  <2>2. CASE ~IsUp(incidents'[i])
    BY <2>2 DEF Right
  <2>3. CASE incidents'[i] # incidents[i] /\ IsUp(incidents'[i])
    <3>1. state # "healthy" /\ incidents'[i].cause = "tunnel" /\ incidents'[i].title = NoName
      BY <1>3, <1>4, <2>3 DEF Fades, Opens, Takes
    <3> QED
      BY <1>1, <3>1 DEF Right
  <2> QED
    BY <2>1, <2>2, <2>3
<1> QED
  BY <1>4, <1>5

\* ... and when it is gone.
LEMMA TunnelIsGone ==
  ASSUME IInv, subject = "tunnel", incidents' = WithoutTunnel(incidents), UNCHANGED <<subject, desk, monitor>>
  PROVE  /\ incidents' \in [Slots -> IncidentType] /\ Fades
         /\ \A i \in Slots : Right(i)'
         /\ \A i, k \in Slots : Paired(i, k)'
<1> DEFINE gone(i) == [Resolved(incidents, {i})[i] EXCEPT !.title = name]
<1>1. incidents \in [Slots -> IncidentType] /\ name \in Titles
  BY TitlesAre DEF IInv, Types
<1>2. ASSUME NEW i \in Slots
      PROVE  gone(i) \in IncidentType /\ ~IsUp(gone(i))
  <2> DEFINE r == Resolved(incidents, {i})[i]
  <2>1. r \in IncidentType /\ ~IsUp(r)
    BY <1>1, ResolvedIs
  <2>2. gone(i) = [r EXCEPT !.title = name]
    OBVIOUS
  <2> HIDE DEF r
  <2> QED
    BY <1>1, <2>1, <2>2 DEF IncidentType, IsUp
<1>3. incidents' = [i \in Slots |-> IF incidents[i].cause = "tunnel" /\ incidents[i].title = NoName
                                   THEN gone(i) ELSE incidents[i]]
  BY DEF WithoutTunnel, SameCause
<1> HIDE DEF gone
<1>4. /\ incidents' \in [Slots -> IncidentType] /\ Fades
      /\ \A i \in Slots : IsUp(incidents'[i]) => ~(incidents'[i].cause = "tunnel" /\ incidents'[i].title = NoName)
  BY <1>1, <1>2, <1>3 DEF Fades
<1>5. \A i \in Slots : Right(i)'
  BY <1>4 DEF IInv, Right, Fades, Editing
<1> QED
  BY <1>4, <1>5, FadingPairs

LEMMA HeartbeatStep ==
  ASSUME IInv, HeartbeatHandled
  PROVE  IInv'
<1>1. /\ heartbeat # NoName /\ cycle.phase = "idle" /\ online' = online \cup {Home} /\ heartbeat' = NoName
      /\ UNCHANGED <<subject, name, monitor, checks, certificate, orders, cycle, desk, requests, faults>>
  BY DEF HeartbeatHandled
<1>2. CycleKnows' /\ ToBeReported' /\ Kept'
  BY <1>1 DEF IInv, CycleKnows, ToBeReported, Kept, CertificatesStayValid
\* What a handler still has to do, as none of the rest is touched.
<1>3. ASSUME incidents' \in [Slots -> IncidentType], \A i \in Slots : Right(i)', \A i, k \in Slots : Paired(i, k)',
             reported' \in [name : Names \cup {NoName}, level : Levels],
             tunnel' \in [status : TunnelStates \cup {"none"}, streak : 0 .. 3], bad' \in 0 .. 3,
             subject \in {"resource", "tunnel"}, subject = "tunnel" \/ tunnel' = tunnel,
             subject = "tunnel" => bad' = tunnel'.streak
      PROVE  IInv'
  <2>1. Types'
    BY <1>1, <1>3, NodeAssumption DEF IInv, Types
  <2>2. OneSubject' /\ Streaks'
    BY <1>1, <1>3 DEF IInv, OneSubject, Streaks, Editing
  <2> QED
    BY <1>2, <1>3, <2>1, <2>2 DEF IInv
<1>4. CASE HandleLiveness
  <2>1. incidents' = Recovered(incidents) /\ UNCHANGED <<tunnel, bad, reported>>
    BY <1>4 DEF HandleLiveness
  <2> QED
    BY <1>1, <2>1, HeardOf DEF care
<1>5. CASE HandleResource
  <2>1. PICK level \in Levels : /\ incidents' \in WithResource(incidents, level)
                                /\ reported' = [name |-> heartbeat, level |-> level]
    BY <1>5 DEF HandleResource
  <2>2. subject = "resource" /\ UNCHANGED <<tunnel, bad>>
    BY <1>5 DEF HandleResource
  <2>3. /\ incidents' \in [Slots -> IncidentType] /\ reported' \in [name : Names \cup {NoName}, level : Levels]
        /\ \A i \in Slots : Right(i)'
        /\ \A i, k \in Slots : Paired(i, k)'
    BY <1>1, <2>1, <2>2, ResourceStep
  <2> QED
    BY <1>3, <2>2, <2>3 DEF IInv, Types
<1>6. CASE HandleTunnel
  <2>1. PICK state \in TunnelStates :
          /\ incidents' \in WithTunnel(incidents, state) /\ tunnel' = TunnelAfter(state)
          /\ bad' = IF Bad(state) THEN Capped(bad + 1) ELSE 0
    BY <1>6 DEF HandleTunnel
  <2>2. subject = "tunnel" /\ reported' = reported /\ bad = tunnel.streak /\ bad \in 0 .. 3
    BY <1>6 DEF HandleTunnel, IInv, Streaks, Types
  <2>3. bad' \in 0 .. 3 /\ tunnel' = [status |-> state, streak |-> bad']
    BY <2>1, <2>2, CappedIs DEF TunnelAfter
  <2>4. /\ incidents' \in [Slots -> IncidentType]
        /\ \A i \in Slots : Right(i)'
        /\ \A i, k \in Slots : Paired(i, k)'
    BY <1>1, <2>1, <2>2, TunnelStep
  <2>5. /\ tunnel' \in [status : TunnelStates \cup {"none"}, streak : 0 .. 3] /\ bad' = tunnel'.streak
        /\ reported' \in [name : Names \cup {NoName}, level : Levels]
    BY <2>2, <2>3 DEF IInv, Types
  <2> QED
    BY <1>3, <2>2, <2>3, <2>4, <2>5
<1>7. CASE HandleAbsence
  <2>1. /\ subject = "tunnel" /\ reported' = reported
        /\ \/ incidents' = WithoutTunnel(incidents) /\ tunnel' = [status |-> "none", streak |-> 0] /\ bad' = 0
           \/ UNCHANGED <<incidents, tunnel, bad>>
    BY <1>7 DEF HandleAbsence
  <2>2. /\ incidents' \in [Slots -> IncidentType]
        /\ \A i \in Slots : Right(i)'
        /\ \A i, k \in Slots : Paired(i, k)'
    <3>1. CASE incidents' = WithoutTunnel(incidents)
      BY <1>1, <2>1, <3>1, TunnelIsGone
    <3>2. CASE UNCHANGED <<incidents, tunnel, bad>>
      BY <1>1, <2>1, <3>2 DEF IInv, Types, Right, Paired, Editing
    <3> QED
      BY <2>1, <3>1, <3>2
  <2>3. /\ tunnel' \in [status : TunnelStates \cup {"none"}, streak : 0 .. 3] /\ bad' \in 0 .. 3
        /\ bad' = tunnel'.streak /\ reported' \in [name : Names \cup {NoName}, level : Levels]
    BY <2>1 DEF IInv, Types, Streaks
  <2> QED
    BY <1>3, <2>1, <2>2, <2>3
<1> QED
  BY <1>4, <1>5, <1>6, <1>7 DEF HeartbeatHandled

-------------------------------------------------------------------------------
(* The maintenance cycle *)

LEMMA CycleReadStep ==
  ASSUME IInv, CycleReads
  PROVE  IInv'
<1> DEFINE c == Home \notin online
           t == IF ~fresh /\ ~IsReported(incidents) THEN name ELSE NoName
<1>1. /\ UNCHANGED <<subject, node, incidents, care, desk, bad, requests, faults>> /\ subject = "node"
      /\ cycle' = [phase |-> "write", stale |-> c, title |-> t]
  BY DEF CycleReads, fresh
<1>2. c \in BOOLEAN /\ (c <=> ~fresh) /\ t \in Names \cup {NoName}
  BY DEF IInv, Types, fresh
<1>3. t # NoName =>
        /\ ~fresh
        /\ \A i \in Slots : ~(IsUp(incidents[i]) /\ incidents[i].cause = "offline" /\ incidents[i].title = t)
  BY FoundIs DEF IInv, IsReported
<1> HIDE DEF c, t
<1>4. Types'
  BY <1>1, <1>2 DEF IInv, Types, node, care
<1>5. OneSubject' /\ Streaks' /\ Kept'
  BY <1>1 DEF IInv, OneSubject, Streaks, Kept, CertificatesStayValid, Editing, node, care
<1>6. CycleKnows' /\ ToBeReported'
  BY <1>1, <1>2, <1>3 DEF IInv, CycleKnows, ToBeReported, node, fresh
<1>7. \A i \in Slots : Right(i)'
  BY <1>1 DEF IInv, Right, Title, Editing, node, fresh, care
<1>8. \A i, k \in Slots : Paired(i, k)'
  BY <1>1 DEF IInv, Paired
<1> QED
  BY <1>4, <1>5, <1>6, <1>7, <1>8 DEF IInv

LEMMA CycleWriteStep ==
  ASSUME IInv, CycleWrites
  PROVE  IInv'
<1>1. /\ cycle.phase = "write" /\ cycle' = NoCycle /\ UNCHANGED <<subject, node, care, desk, bad, requests, faults>>
      /\ incidents' = IF cycle.stale THEN Reported(incidents) ELSE Recovered(incidents)
  BY DEF CycleWrites
<1>2. CycleKnows' /\ ToBeReported'
  BY <1>1 DEF CycleKnows, ToBeReported, NoCycle
<1>3. cycle' \in [phase : {"idle", "write"}, stale : BOOLEAN, title : Names \cup {NoName}]
  BY <1>1 DEF NoCycle
<1>4. subject = "node"
  BY <1>1 DEF IInv, CycleKnows
<1>5. /\ incidents' \in [Slots -> IncidentType]
      /\ \A i \in Slots : Right(i)'
      /\ \A i, k \in Slots : Paired(i, k)'
  <2>1. CASE cycle.title # NoName
    <3>1. /\ incidents' = Opened(incidents, "offline", cycle.title) /\ ~fresh
          /\ cycle.title \in Names /\ cycle.title \in Titles /\ incidents \in [Slots -> IncidentType]
      BY <1>1, <2>1, TitlesAre DEF Reported, IInv, CycleKnows, Types
    <3>2. incidents' \in [Slots -> IncidentType] /\ Opens("offline", cycle.title)
      BY <3>1, OpenedIs DEF Opens
    <3>3. \A i, k \in Slots : Paired(i, k)'
      BY <2>1, <3>2, OpeningPairs DEF IInv, ToBeReported
    <3>4. \A i \in Slots : \/ incidents'[i] = incidents[i]
                           \/ incidents'[i].cause = "offline" /\ incidents'[i].title = cycle.title
      BY <3>2 DEF Opens, Takes
    <3>5. ASSUME NEW i \in Slots
          PROVE  Right(i)'
      BY <1>1, <1>4, <3>1, <3>4 DEF IInv, Right, Title, Editing, node, fresh, care
    <3> QED
      BY <3>2, <3>3, <3>5
  <2>2. CASE cycle.title = NoName
    <3>1. incidents' = incidents \/ incidents' = Recovered(incidents)
      BY <1>1, <2>2 DEF Reported
    <3>2. incidents' \in [Slots -> IncidentType] /\ Fades
      BY <3>1, RecoveredIs DEF IInv, Types, Fades
    <3>3. \A i \in Slots : Right(i)'
      BY <1>1, <1>4, <3>2 DEF IInv, Right, Title, Fades, Editing, node, fresh, care
    <3> QED
      BY <3>2, <3>3, FadingPairs
  <2> QED
    BY <2>1, <2>2
<1>6. Types'
  BY <1>1, <1>3, <1>5 DEF IInv, Types, node, care
<1>7. OneSubject' /\ Streaks' /\ Kept'
  BY <1>1 DEF IInv, OneSubject, Streaks, Kept, CertificatesStayValid, Editing, care
<1> QED
  BY <1>2, <1>5, <1>6, <1>7 DEF IInv

LEMMA CycleQueueStep ==
  ASSUME IInv, CycleQueues
  PROVE  IInv'
<1>1. UNCHANGED <<subject, node, cycle, desk, requests, faults>>
  BY DEF CycleQueues
<1>2. CycleKnows'
  BY <1>1 DEF IInv, CycleKnows, node, fresh
<1>3. (\A i \in Slots : IsUp(incidents'[i]) /\ incidents'[i].cause = "offline" => incidents'[i] = incidents[i])
        => ToBeReported'
  BY <1>1 DEF IInv, ToBeReported
<1>4. CASE CycleMonitor
  <2>1. subject = "monitor" /\ QueueMonitor /\ UNCHANGED <<tunnel, certificate, orders>>
    BY <1>4 DEF CycleMonitor
  <2>2. Kept'
    BY <2>1 DEF IInv, Kept, CertificatesStayValid
  <2>3. checks' \in [Jobs -> CheckType]
    BY <2>1, NewJobIs, ChecksAre DEF QueueMonitor, IInv, Types
  <2>4. CASE UNCHANGED <<incidents, bad>> /\ (monitor' = monitor \/ (JobIsFree /\ monitor' = Queued(monitor, NewJob)))
    <3>1. /\ monitor' \in MonitorType /\ monitor'.id = monitor.id
          /\ monitor'.node = monitor.node /\ monitor'.name = monitor.name
          /\ monitor'.status = monitor.status /\ monitor'.streak = monitor.streak
      BY <2>4, NewJobIs DEF Queued, IInv, Types, MonitorType
    <3>2. Types'
      BY <1>1, <2>1, <2>3, <2>4, <3>1 DEF IInv, Types, node
    <3>3. OneSubject' /\ Streaks'
      BY <1>1, <2>1, <2>4, <3>1 DEF IInv, OneSubject, Streaks, Editing
    <3>4. \A i \in Slots : Right(i)'
      BY <1>1, <2>1, <2>4, <3>1 DEF IInv, Right, Title, Editing, node, fresh
    <3>5. \A i, k \in Slots : Paired(i, k)'
      BY <2>4 DEF IInv, Paired
    <3> QED
      BY <1>2, <1>3, <2>2, <2>4, <3>2, <3>3, <3>4, <3>5 DEF IInv
  <2>5. CASE /\ monitor.id # 0 /\ monitor' = [Judged(monitor, "down") EXCEPT !.due = FALSE]
             /\ incidents' \in WithVerdict(incidents, monitor') /\ bad' = Capped(bad + 1)
    <3>1. /\ monitor' \in MonitorType /\ monitor'.id = monitor.id
          /\ monitor'.node = monitor.node /\ monitor'.name = monitor.name
          /\ monitor'.status = "down" /\ monitor'.streak = bad'
      <4> DEFINE m == Judged(monitor, "down")
      <4>1. /\ m \in MonitorType /\ m.id = monitor.id
            /\ m.node = monitor.node /\ m.name = monitor.name /\ m.status = "down"
            /\ m.streak = bad'
        BY <2>1, <2>5, JudgedIs DEF IInv, Types, Streaks
      <4>2. monitor' = [m EXCEPT !.due = FALSE]
        BY <2>5
      <4> HIDE DEF m
      <4> QED
        BY <4>1, <4>2 DEF MonitorType
    <3>2. JudgesMonitor
      BY <1>1, <2>5, <3>1 DEF JudgesMonitor
    <3>3. bad' \in 0 .. 3
      BY <3>1 DEF MonitorType
    <3>4. Types'
      BY <1>1, <2>1, <2>3, <3>1, <3>2, <3>3, VerdictStep DEF IInv, Types, node
    <3>5. OneSubject' /\ Streaks'
      BY <1>1, <2>1, <3>1 DEF IInv, OneSubject, Streaks, Editing
    <3> QED
      BY <1>2, <1>3, <2>2, <3>2, <3>4, <3>5, VerdictStep DEF IInv
  <2> QED
    BY <2>1, <2>4, <2>5 DEF QueueMonitor
<1>5. CASE CycleCertificate
  <2>1. subject = "certificate" /\ RenewCertificate /\ UNCHANGED <<incidents, tunnel, monitor, checks, bad>>
    BY <1>5 DEF CycleCertificate
  <2> DEFINE c == Aged(certificate)
  <2>2. /\ c \in CertificateType /\ c.left = certificate.left /\ c.failed = certificate.failed
        /\ \/ c.status = certificate.status
           \/ c.status = "expired" /\ c.left = 0
           \/ c.status = "expiring"
    BY DEF IInv, Types, Aged, CertificateType, CertificateStates
  <2>3. \/ /\ JobIsFree /\ certificate' = Ordered(c, NewJob, "renewing") /\ orders' = orders \cup {NewJob}
        \/ certificate' \in {certificate, c} /\ orders' = orders
    BY <2>1 DEF RenewCertificate
  <2> HIDE DEF c
  <2>4. certificate' \in CertificateType /\ orders' \subseteq Jobs /\ Kept'
    <3>1. CASE JobIsFree /\ certificate' = Ordered(c, NewJob, "renewing") /\ orders' = orders \cup {NewJob}
      <4>1. NewJob \in Jobs
        BY <3>1, NewJobIs
      <4>2. /\ certificate' \in CertificateType /\ certificate'.status = "renewing"
            /\ certificate'.left = certificate.left /\ certificate'.failed = certificate.failed
        BY <2>2, <3>1, <4>1 DEF Ordered, CertificateType, CertificateStates
      <4> QED
        BY <3>1, <4>1, <4>2 DEF IInv, Types, Kept, CertificatesStayValid
    <3>2. CASE certificate' \in {certificate, c} /\ orders' = orders
      BY <2>2, <3>2 DEF IInv, Types, Kept, CertificatesStayValid
    <3> QED
      BY <2>3, <3>1, <3>2
  <2>5. Types'
    BY <1>1, <2>1, <2>4 DEF IInv, Types, node
  <2>6. OneSubject' /\ Streaks'
    BY <1>1, <2>1 DEF IInv, OneSubject, Streaks, Editing
  <2>7. \A i \in Slots : Right(i)'
    BY <1>1, <2>1 DEF IInv, Right, Title, Editing, node, fresh
  <2>8. \A i, k \in Slots : Paired(i, k)'
    BY <2>1 DEF IInv, Paired
  <2> QED
    BY <1>2, <1>3, <2>1, <2>4, <2>5, <2>6, <2>7, <2>8 DEF IInv
<1> QED
  BY <1>4, <1>5 DEF CycleQueues

LEMMA NextIInv == IInv /\ [Next]_vars => IInv'
<1> SUFFICES ASSUME IInv, [Next]_vars PROVE IInv'
  OBVIOUS
<1>1. CASE UNCHANGED vars
  <2>1. Types' /\ OneSubject' /\ Streaks' /\ CycleKnows' /\ ToBeReported' /\ Kept'
    BY <1>1 DEF vars, node, fresh, care, IInv, Types, OneSubject, Streaks, CycleKnows, ToBeReported, Kept,
       CertificatesStayValid, Editing
  <2>2. (\A i \in Slots : Right(i)') /\ \A i, k \in Slots : Paired(i, k)'
    BY <1>1 DEF vars, node, fresh, care, IInv, Right, Title, Paired, Editing
  <2> QED
    BY <2>1, <2>2 DEF IInv
<1>2. CASE Reports
  BY <1>2, PulseStep, ReportSteps, HeartbeatStep DEF Reports
<1>3. CASE Requests
  BY <1>3, ReportSteps, ReadSteps, WriteActionStep, SavingStep, ReadEditStep, MonitorSteps, CertificateSteps
     DEF Requests
<1>4. CASE \E j \in Jobs : CheckEnds(j) \/ OrderEnds(j)
  BY <1>4, CheckEndStep, CertificateSteps
<1> QED
  BY <1>1, <1>2, <1>3, <1>4, CycleReadStep, CycleWriteStep, CycleQueueStep, MonitorSteps, CertificateSteps DEF Next

LEMMA Inductive == Spec => []IInv
BY InitIInv, NextIInv, PTL DEF Spec

-------------------------------------------------------------------------------
(* The theorems *)

\* The tables and what the handlers remember only hold what their types allow.
THEOREM TypeCorrect == Spec => []TypeOK
<1>1. IInv => TypeOK
  BY DEF IInv, Types, TypeOK, IncidentType, MonitorType, CheckType, CertificateType
<1> QED
  BY <1>1, Inductive, PTL

\* An incident that is not resolved is about what is still wrong: the handlers of pulses and
\* heartbeats, of monitor results and of the operators' edits resolve what they end.
THEOREM UnresolvedAreWrong == Spec => []UnresolvedIsWrong
<1>1. ASSUME IInv PROVE UnresolvedIsWrong
  <2>1. \A i \in Slots : incidents[i].cause \in {"none", "offline", "resource", "tunnel", "monitor"} /\ Right(i)
    BY <1>1 DEF IInv, Types, IncidentType
  <2> QED
    BY <2>1 DEF Right, UnresolvedIsWrong
<1> QED
  BY <1>1, Inductive, PTL

\* No cause has two unresolved incidents, unless an operator has revived one of them.
THEOREM IncidentsAreUnique == Spec => []OneIncidentPerCause
<1>1. IInv => OneIncidentPerCause
  BY DEF IInv, Paired, OneIncidentPerCause
<1> QED
  BY <1>1, Inductive, PTL

\* The certificate of a node that stays reachable expires only after a failed renewal
\* (run_maintenance_cycle queues renewals, agent_job_result stores what becomes of them).
THEOREM CertificatesAreKept == Spec => []CertificatesStayValid
<1>1. IInv => CertificatesStayValid
  BY DEF IInv, Kept
<1> QED
  BY <1>1, Inductive, PTL

-------------------------------------------------------------------------------
(* Incidents are debounced *)

\* An incident of row i is opened or revived by the step.
Rises(i) == ~IsUp(incidents[i]) /\ IsUp(incidents'[i])

LEMMA VerdictRises ==
  ASSUME IInv, JudgesMonitor, NEW i \in Slots, Rises(i)
  PROVE  monitor'.streak >= 2
<1> DEFINE open == Found(incidents, "monitor", {Title(monitor)})
<1>1. \/ monitor'.streak >= 2
      \/ incidents' \in ResolvedOne(incidents, open)
      \/ incidents' = incidents
  BY DEF JudgesMonitor, WithVerdict, Title
<1>2. incidents' \in ResolvedOne(incidents, open) => Fades
  BY Cleared DEF Causes
<1> QED
  BY <1>1, <1>2 DEF Rises, Fades

LEMMA TunnelRises ==
  ASSUME IInv, NEW state \in TunnelStates, incidents' \in WithTunnel(incidents, state),
         NEW i \in Slots, Rises(i)
  PROVE  Bad(state) /\ TunnelAfter(state).streak >= Threshold(state)
<1> DEFINE open == Found(incidents, "tunnel", {NoName})
<1>1. \/ Bad(state) /\ TunnelAfter(state).streak >= Threshold(state)
      \/ incidents' \in ResolvedOne(incidents, open)
      \/ incidents' = incidents
  BY DEF WithTunnel, Bad
<1>2. incidents' \in ResolvedOne(incidents, open) => Fades
  BY Cleared DEF Causes
<1> QED
  BY <1>1, <1>2 DEF Rises, Fades

LEMMA ResourceRises ==
  ASSUME IInv, NEW level \in Levels, incidents' \in WithResource(incidents, level),
         NEW i \in Slots, Rises(i)
  PROVE  incidents'[i].cause = "resource"
<1> DEFINE open == Found(incidents, "resource", {heartbeat})
<1>1. heartbeat \in Names \cup {NoName} /\ heartbeat \in Titles /\ "resource" \in Causes
  BY TitlesAre DEF IInv, Types, Causes
<1>2. \/ incidents' = Opened(incidents, "resource", heartbeat) /\ open = {}
      \/ incidents' \in ResolvedOne(incidents, open)
      \/ incidents' = incidents
  BY DEF WithResource
<1>3. Fades \/ Opens("resource", heartbeat)
  BY <1>1, <1>2, CauseSteps
<1> QED
  BY <1>3 DEF Rises, Fades, Opens, Takes

\* Who changes the incidents of a monitor, other than by an edit, judges it.
LEMMA Judging ==
  ASSUME IInv, incidents' # incidents, (\E j \in Jobs : CheckEnds(j)) \/ (CycleQueues /\ CycleMonitor)
  PROVE  JudgesMonitor /\ subject = "monitor"
<1>1. CASE \E j \in Jobs : CheckEnds(j)
  <2>1. PICK v \in {"up", "down"} : monitor' = Judged(monitor, v) /\ incidents' \in WithVerdict(incidents, monitor')
    BY <1>1 DEF CheckEnds, Probes, Verdict
  <2>2. monitor.id # 0 /\ subject = "monitor" /\ UNCHANGED <<subject, desk>>
    BY <1>1, ChecksAre DEF CheckEnds, IInv, Types, OneSubject
  <2>3. /\ monitor' \in MonitorType /\ monitor'.id = monitor.id
        /\ monitor'.node = monitor.node /\ monitor'.name = monitor.name
        /\ monitor'.status = v
    BY <2>1, JudgedIs DEF IInv, Types
  <2> QED
    BY <2>1, <2>2, <2>3 DEF JudgesMonitor
<1>2. CASE CycleQueues /\ CycleMonitor
  <2> DEFINE m == Judged(monitor, "down")
  <2>1. /\ monitor' = [m EXCEPT !.due = FALSE] /\ incidents' \in WithVerdict(incidents, monitor')
        /\ monitor.id # 0 /\ subject = "monitor" /\ UNCHANGED <<subject, desk>>
    BY <1>2 DEF CycleQueues, CycleMonitor, QueueMonitor
  <2>2. /\ m \in MonitorType /\ m.id = monitor.id
        /\ m.node = monitor.node /\ m.name = monitor.name /\ m.status = "down"
    BY JudgedIs DEF IInv, Types
  <2> HIDE DEF m
  <2>3. /\ monitor' \in MonitorType /\ monitor'.id = monitor.id
        /\ monitor'.node = monitor.node /\ monitor'.name = monitor.name
        /\ monitor'.status = "down"
    BY <2>1, <2>2 DEF MonitorType
  <2> QED
    BY <2>1, <2>3 DEF JudgesMonitor
<1> QED
  BY <1>1, <1>2

LEMMA StepIsDebounced ==
  ASSUME IInv, Next, NEW i \in Slots, Rises(i), desk' = desk, incidents'[i].cause \in {"tunnel", "monitor"}
  PROVE  bad' >= IF tunnel'.status = "degraded" THEN 3 ELSE 2
<1>1. incidents' # incidents /\ ~Fades
  BY DEF Rises, Fades
<1>2. Streaks' /\ OneSubject' /\ subject' = subject
  <2>1. IInv'
    BY NextIInv
  <2>2. subject' = subject
    BY DEF Next, Reports, Requests, Pulse, HeartbeatArrives, HeartbeatHandled, GoSilent, RenameNode, ReadAction,
       WriteAction, CreateMonitor, ReadEdit, WriteUpdate, WriteDelete, ReadRun, WriteRun, ReadOrder, WriteOrder,
       CycleReads, CycleWrites, CycleQueues, CheckEnds, OrderEnds, ComesDue, SecretIsLost, WeeksPass
  <2> QED
    BY <2>1, <2>2 DEF IInv
<1>3. CASE (\E j \in Jobs : CheckEnds(j)) \/ (CycleQueues /\ CycleMonitor)
  <2>1. monitor'.streak >= 2 /\ subject = "monitor"
    BY <1>1, <1>3, Judging, VerdictRises
  <2> QED
    BY <1>2, <2>1 DEF Streaks, OneSubject
<1>4. CASE HeartbeatHandled
  <2>1. CASE HandleLiveness
    BY <1>1, <2>1, RecoveredIs DEF HandleLiveness
  <2>2. CASE HandleResource
    BY <2>2, ResourceRises DEF HandleResource
  <2>3. CASE HandleTunnel
    <3>1. PICK state \in TunnelStates : incidents' \in WithTunnel(incidents, state) /\ tunnel' = TunnelAfter(state)
      BY <2>3 DEF HandleTunnel
    <3>2. subject = "tunnel" /\ tunnel'.status = state /\ tunnel'.streak >= Threshold(state) /\ Bad(state)
      BY <2>3, <3>1, TunnelRises DEF HandleTunnel, TunnelAfter
    <3> QED
      BY <1>2, <3>2 DEF Streaks, Threshold, Bad
  <2>4. CASE HandleAbsence
    <3>1. incidents' = WithoutTunnel(incidents) /\ subject = "tunnel" /\ UNCHANGED <<subject, desk, monitor>>
      BY <1>1, <1>4, <2>4 DEF HandleAbsence, HeartbeatHandled
    <3> QED
      BY <1>1, <3>1, TunnelIsGone
  <2> QED
    BY <1>4, <2>1, <2>2, <2>3, <2>4 DEF HeartbeatHandled
<1>5. CASE CycleWrites
  <2>1. \/ incidents' = Recovered(incidents)
        \/ incidents' = Opened(incidents, "offline", cycle.title)
    BY <1>1, <1>5 DEF CycleWrites, Reported
  <2>2. CASE incidents' = Opened(incidents, "offline", cycle.title)
    <3>1. incidents \in [Slots -> IncidentType] /\ cycle.title \in Titles
      BY TitlesAre DEF IInv, Types
    <3>2. Opens("offline", cycle.title)
      BY <2>2, <3>1, OpenedIs DEF Opens
    <3> QED
      BY <3>2 DEF Rises, Opens, Takes
  <2> QED
    BY <1>1, <2>1, <2>2, RecoveredIs
<1>6. CASE \E n \in Nodes : Pulse(n)
  BY <1>1, <1>6, RecoveredIs DEF Pulse
<1>7. CASE WriteAction \/ WriteUpdate \/ WriteDelete
  BY <1>7 DEF WriteAction, WriteUpdate, WriteDelete, Idle
<1>8. CASE CycleQueues /\ CycleCertificate
  BY <1>1, <1>8 DEF CycleCertificate
<1> QED
  BY <1>1, <1>3, <1>4, <1>5, <1>6, <1>7, <1>8 DEF Next, Reports, Requests, HeartbeatArrives, GoSilent, RenameNode,
     ReadAction, CreateMonitor, ReadEdit, ReadRun, WriteRun, ReadOrder, WriteOrder, CycleReads, CycleQueues, OrderEnds,
     ComesDue, SecretIsLost, WeeksPass, care

\* An incident of a tunnel or monitor is opened after two bad verdicts in a row, after three of a
\* tunnel that is merely degraded (the streaks of the heartbeat and of the monitor results).
THEOREM IncidentsAreDebounced == Spec => Debounced
<1> DEFINE A == \A i \in Slots :
                  /\ incidents'[i].cause \in {"tunnel", "monitor"} /\ desk' = desk
                  /\ ~IsUp(incidents[i]) /\ IsUp(incidents'[i])
                  => bad' >= IF tunnel'.status = "degraded" THEN 3 ELSE 2
<1>1. IInv /\ [Next]_vars => [A]_vars
  BY StepIsDebounced DEF Rises
<1> QED
  BY <1>1, Inductive, PTL DEF Spec, Debounced
===============================================================================
