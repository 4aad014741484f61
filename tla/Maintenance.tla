------------------------------ MODULE Maintenance ------------------------------
(***************************************************************************)
(* What the Hub keeps up for one node: its liveness, the incidents that    *)
(* the Agent's reports, the results of its jobs and the maintenance cycle  *)
(* open and resolve, the monitors that the cycle queues and the            *)
(* certificates that it renews, with the operator's requests beside them.  *)
(* A monitor may be moved to another node.                                 *)
(*                                                                         *)
(* Pulses, heartbeats and the maintenance cycle run in the event loop of   *)
(* the one Hub process and never overlap; operator requests and results    *)
(* of jobs run in threads beside them.  A handler reads in autocommit mode *)
(* until its first write opens a transaction, so that it is two steps      *)
(* where what it reads first decides what it writes.                       *)
(*                                                                         *)
(* No statement of the code relates the incidents of a node's silence, of  *)
(* a resource, a tunnel and a monitor to each other, or to a certificate:  *)
(* every behaviour follows one subject of them.  Job leases are JobQueue's *)
(* matter; a job here is pending until its result has been handled.        *)
(***************************************************************************)
EXTENDS Integers, FiniteSets

CONSTANTS
  Subjects,          \* what the behaviours are about
  Nodes, Home,       \* where a monitor may be; the node of every other subject
  Unsteady,          \* bound: the nodes that may fall silent
  Names, NoName,     \* of the node and of its monitor
  Jobs,              \* ids of pending jobs, to be used again
  MaxIncidents,      \* incidents that are remembered
  MaxRequests,       \* bound on operator requests other than new monitors
  MaxFaults          \* bound on failed certificate jobs and lost secrets

ASSUME SubjectAssumption == Subjects \subseteq {"node", "resource", "tunnel", "monitor", "certificate"}
ASSUME NodeAssumption == Home \in Nodes /\ Unsteady \subseteq Nodes
ASSUME NameAssumption == Names # {} /\ NoName \notin Names
ASSUME JobAssumption == Jobs # {} /\ Jobs \subseteq Nat \ {0}
ASSUME BoundAssumption == MaxIncidents \in Nat \ {0} /\ MaxRequests \in Nat /\ MaxFaults \in Nat

NoJob == 0
Slots == 1 .. MaxIncidents

VARIABLES
  subject,
  name, online,      \* the name of Home; the nodes that were seen within NODE_STALE_AFTER
  heartbeat,         \* the name agent_node has read for a heartbeat under way
  reported,          \* the last heartbeat handled: that name, and the resource's level
  incidents,
  tunnel,            \* the tunnels row: status "none" if there is none
  monitor,           \* the monitors row: id 0 if there is none
  checks,            \* pending monitor_run jobs: the id of their monitor, or 0, and their node
  certificate,       \* the certificates row
  orders,            \* pending certificate_issue jobs
  cycle,             \* the maintenance cycle between its first read and its first write
  desk,              \* an operator request between its reads and its writes
  bad,               \* bad verdicts in a row on the subject
  requests, faults

node == <<name, online, heartbeat, reported>>
care == <<tunnel, monitor, checks, certificate, orders>>
vars == <<subject, node, incidents, care, cycle, desk, bad, requests, faults>>

Levels == {"low", "middle", "high"}
TunnelStates == {"healthy", "degraded", "down", "unknown"}
Fresh == 3           \* days left, in steps: 3 more than 30, 2 more than 14, 1 some, 0 expired
Unknown == -1        \* expires_at is NULL
CertificateStates == {"none", "pending", "valid", "expiring", "renewing", "failed", "expired"}

NoIncident == [status |-> "none", cause |-> "none", title |-> NoName, stray |-> FALSE]
NoMonitor == [id |-> 0, node |-> Home, name |-> NoName, enabled |-> FALSE, readable |-> TRUE,
              status |-> "pending", streak |-> 0, due |-> FALSE, job |-> NoJob]
NoCheck == [id |-> 0, node |-> Home]
NoCertificate == [status |-> "none", left |-> Unknown, job |-> NoJob, failed |-> FALSE]
Idle == [action |-> "none", ids |-> {}]
NoCycle == [phase |-> "idle", stale |-> FALSE, title |-> NoName]

\* Incidents are looked up by node and title; those of a monitor may be on any node.
Titles == Names \cup {NoName} \cup (Nodes \X (Names \cup {NoName}))
Title(m) == <<m.node, m.name>>

fresh == Home \in online

TypeOK ==
  /\ subject \in Subjects /\ name \in Names /\ online \subseteq Nodes
  /\ heartbeat \in Names \cup {NoName}
  /\ reported.name \in Names \cup {NoName} /\ reported.level \in Levels
  /\ \A i \in Slots :
       /\ incidents[i].status \in {"none", "open", "acknowledged", "resolved"}
       /\ incidents[i].cause \in {"none", "offline", "resource", "tunnel", "monitor"}
       /\ incidents[i].title \in Titles
  /\ tunnel.status \in TunnelStates \cup {"none"} /\ tunnel.streak \in 0 .. 3
  /\ monitor.status \in {"pending", "up", "down"} /\ monitor.streak \in 0 .. 3
  /\ monitor.node \in Nodes /\ monitor.job \in Jobs \cup {NoJob}
  /\ \A j \in Jobs : checks[j].id \in 0 .. MaxRequests + 1 /\ checks[j].node \in Nodes
  /\ certificate.status \in CertificateStates /\ certificate.left \in Unknown .. Fresh
  /\ orders \subseteq Jobs
  /\ bad \in 0 .. 3 /\ requests \in 0 .. MaxRequests /\ faults \in 0 .. MaxFaults

Init ==
  /\ subject \in Subjects
  /\ name = CHOOSE n \in Names : TRUE    \* the names are interchangeable
  /\ online = Nodes /\ heartbeat = NoName
  /\ reported = [name |-> NoName, level |-> "low"]
  /\ incidents = [i \in Slots |-> NoIncident]
  /\ tunnel = [status |-> "none", streak |-> 0]
  /\ monitor = NoMonitor /\ checks = [j \in Jobs |-> NoCheck]
  /\ certificate = NoCertificate /\ orders = {}
  /\ cycle = NoCycle /\ desk = Idle
  /\ bad = 0 /\ requests = 0 /\ faults = 0

-----------------------------------------------------------------------------
(* Incidents.                                                              *)

\* Mutant: an acknowledged incident is no longer looked for.
ActiveIfOpen(x) == x.status = "open"

\* What every query looks for: status IN ('open','acknowledged').
Active(x) == x.status \in {"open", "acknowledged"}

SameCause(x, y) == x.cause = y.cause /\ x.title = y.title

Found(inc, cause, titles) ==
  {i \in Slots : Active(inc[i]) /\ inc[i].cause = cause /\ inc[i].title \in titles}

\* The row of a new incident; when all are in use, a resolved one is forgotten.
FreeSlot(inc) ==
  LET unused == {i \in Slots : inc[i].status = "none"}
      resolved == {i \in Slots : inc[i].status = "resolved"} \ desk.ids
      S == IF unused # {} THEN unused ELSE resolved
  IN  CHOOSE i \in S : \A k \in S : i <= k

\* create_incident; an edit that is under way has already looked for incidents to resolve.
Opened(inc, cause, title) ==
  [inc EXCEPT ![FreeSlot(inc)] =
    [status |-> "open", cause |-> cause, title |-> title,
     stray |-> desk.action \in {"update", "delete"}]]

\* resolve_incident changes active rows only.
Resolved(inc, S) ==
  [i \in Slots |-> IF i \in S /\ Active(inc[i])
                   THEN [inc[i] EXCEPT !.status = "resolved", !.stray = FALSE] ELSE inc[i]]

\* Looked up with LIMIT 1.
ResolvedOne(inc, S) == IF S = {} THEN {inc} ELSE {Resolved(inc, {i}) : i \in S}

\* No threshold of the subject is higher.
Highest == IF subject = "tunnel" THEN 3 ELSE 2
Capped(n) == IF n > Highest THEN Highest ELSE n

-----------------------------------------------------------------------------
(* Reports of the Agent.                                                   *)

\* A node that is not seen for a while delays a resource or a tunnel at most; a node other
\* than Home is there for the monitors.
SilenceMatters(n) == subject = "monitor" \/ (subject \in {"node", "certificate"} /\ n = Home)

Recovered(inc) == Resolved(inc, Found(inc, "offline", Names))

\* agent_pulse
Pulse(n) ==
  /\ cycle.phase = "idle" /\ SilenceMatters(n)
  /\ online' = online \cup {n}
  /\ incidents' = IF n = Home THEN Recovered(incidents) ELSE incidents
  /\ UNCHANGED <<subject, name, heartbeat, reported, care, cycle, desk, bad, requests, faults>>

\* agent_node reads the row in a thread before the handler gets the event loop.
HeartbeatArrives ==
  /\ heartbeat = NoName /\ subject \in {"node", "resource", "tunnel"}
  /\ heartbeat' = name
  /\ UNCHANGED <<subject, name, online, reported, incidents, care, cycle, desk, bad, requests, faults>>

\* The incidents after a heartbeat with this level of a resource.
WithResource(inc, level) ==
  LET open == Found(inc, "resource", {heartbeat})
  IN  CASE level = "high" /\ open = {} -> {Opened(inc, "resource", heartbeat)}
        [] level = "low" -> ResolvedOne(inc, open)
        [] OTHER -> {inc}

Bad(state) == state \in {"down", "degraded"}

\* Mutant: a degraded tunnel is reported as early as one that is down.
SameThreshold(state) == 2

Threshold(state) == IF state = "down" THEN 2 ELSE 3

TunnelAfter(state) ==
  [status |-> state, streak |-> IF Bad(state) THEN Capped(tunnel.streak + 1) ELSE 0]

WithTunnel(inc, state) ==
  LET open == Found(inc, "tunnel", {NoName})
  IN  CASE Bad(state) /\ TunnelAfter(state).streak >= Threshold(state) /\ open = {} ->
             {Opened(inc, "tunnel", NoName)}
        [] state = "healthy" -> ResolvedOne(inc, open)
        [] OTHER -> {inc}

\* A tunnel that a fresh inventory no longer names: its row is deleted, and its incidents
\* belong to no tunnel afterwards.
WithoutTunnel(inc) ==
  [i \in Slots |-> IF SameCause(inc[i], [cause |-> "tunnel", title |-> NoName])
                   THEN [Resolved(inc, {i})[i] EXCEPT !.title = name] ELSE inc[i]]

HandleLiveness ==
  /\ subject = "node"
  /\ incidents' = Recovered(incidents)
  /\ UNCHANGED <<tunnel, bad, reported>>

HandleResource ==
  /\ subject = "resource"
  /\ \E level \in Levels :
       /\ incidents' \in WithResource(incidents, level)
       /\ reported' = [name |-> heartbeat, level |-> level]
  /\ UNCHANGED <<tunnel, bad>>

HandleTunnel ==
  /\ subject = "tunnel"
  /\ \E state \in TunnelStates :
       /\ incidents' \in WithTunnel(incidents, state)
       /\ tunnel' = TunnelAfter(state)
       /\ bad' = IF Bad(state) THEN Capped(bad + 1) ELSE 0
  /\ UNCHANGED reported

\* What the Agent's loop says of the inventory it sends; its first heartbeats have none.
Telemetry == {"fresh", "collecting", "stale"}

\* agent_inventory_flags: may rows that are not named be deleted?
InventoryFresh(telemetry) == telemetry = "fresh"

\* managed_tunnel_report: a tunnel that is not a plugin's service counts as not named.
Unnamed == {"missing", "unmanaged"}

\* The heartbeat does not name the tunnel.
HandleAbsence ==
  /\ subject = "tunnel"
  /\ \E telemetry \in Telemetry, report \in Unnamed :
       IF InventoryFresh(telemetry) /\ tunnel.status # "none"
       THEN /\ incidents' = WithoutTunnel(incidents)
            /\ tunnel' = [status |-> "none", streak |-> 0] /\ bad' = 0
       ELSE UNCHANGED <<incidents, tunnel, bad>>
  /\ UNCHANGED reported

\* agent_heartbeat
HeartbeatHandled ==
  /\ heartbeat # NoName /\ cycle.phase = "idle"
  /\ HandleLiveness \/ HandleResource \/ HandleTunnel \/ HandleAbsence
  /\ online' = online \cup {Home} /\ heartbeat' = NoName
  /\ UNCHANGED <<subject, name, monitor, checks, certificate, orders, cycle, desk, requests, faults>>

\* NODE_STALE_AFTER passes without a report.
GoSilent(n) ==
  /\ SilenceMatters(n) /\ n \in Unsteady
  /\ n \in online /\ online' = online \ {n}
  /\ UNCHANGED <<subject, name, heartbeat, reported, incidents, care, cycle, desk, bad, requests, faults>>

-----------------------------------------------------------------------------
(* Monitors.                                                               *)

Pending(j) == j \in Jobs /\ (checks[j].id # 0 \/ j \in orders)
NewJob == CHOOSE j \in Jobs : ~Pending(j)
JobIsFree == \E j \in Jobs : ~Pending(j)

\* The incidents after a verdict with this streak.
WithVerdict(inc, m) ==
  LET open == Found(inc, "monitor", {Title(m)})
  IN  CASE m.status = "down" /\ m.streak >= 2 /\ open = {} -> {Opened(inc, "monitor", Title(m))}
        [] m.status = "up" -> ResolvedOne(inc, open)
        [] OTHER -> {inc}

Judged(m, verdict) ==
  [m EXCEPT !.status = verdict, !.streak = IF verdict = "up" THEN 0 ELSE Capped(m.streak + 1)]

\* execute_monitor answers for each kind of probe, or raises an error.
Probes == {"up", "down", "error"}

Verdict(probe) == IF probe = "up" THEN "up" ELSE "down"

\* A monitor_run job is the monitor's and its node's.
Check(m) == [id |-> m.id, node |-> m.node]

\* agent_job_result of a monitor_run job; its monitor may be gone, or moved to another node.
CheckEnds(j) ==
  /\ checks[j].id # 0
  /\ checks' = [checks EXCEPT ![j] = NoCheck]
  /\ IF checks[j] = Check(monitor)
     THEN \E probe \in Probes :
            /\ monitor' = Judged(monitor, Verdict(probe))
            /\ incidents' \in WithVerdict(incidents, monitor')
            /\ bad' = IF Verdict(probe) = "up" THEN 0 ELSE Capped(bad + 1)
     ELSE UNCHANGED <<monitor, incidents, bad>>
  /\ UNCHANGED <<subject, node, tunnel, certificate, orders, cycle, desk, requests, faults>>

ComesDue ==
  /\ monitor.id # 0 /\ ~monitor.due
  /\ monitor' = [monitor EXCEPT !.due = TRUE]
  /\ UNCHANGED <<subject, node, incidents, tunnel, checks, certificate, orders, cycle, desk, bad, requests, faults>>

\* The Hub gets another key: what was encrypted with the old one cannot be read.
SecretIsLost ==
  /\ monitor.id # 0 /\ monitor.readable
  /\ faults < MaxFaults /\ faults' = faults + 1
  /\ monitor' = [monitor EXCEPT !.readable = FALSE]
  /\ UNCHANGED <<subject, node, incidents, tunnel, checks, certificate, orders, cycle, desk, bad, requests>>

Queued(m, j) == [m EXCEPT !.job = j, !.due = FALSE]

\* Mutant: a row that has had a job never gets another one.
MayBeQueuedOnce(job) == job = NoJob

\* The row's last job is neither queued nor running.
MayBeQueued(job) == ~Pending(job)

\* queue_due_monitors
QueueMonitor ==
  IF monitor.id # 0 /\ monitor.enabled /\ monitor.due /\ monitor.node \in online
     /\ MayBeQueued(monitor.job)
  THEN IF monitor.readable
       THEN /\ JobIsFree
            /\ checks' = [checks EXCEPT ![NewJob] = Check(monitor)]
            /\ monitor' = Queued(monitor, NewJob)
            /\ UNCHANGED <<incidents, bad>>
       ELSE /\ monitor' = [Judged(monitor, "down") EXCEPT !.due = FALSE]
            /\ incidents' \in WithVerdict(incidents, monitor')
            /\ bad' = Capped(bad + 1)
            /\ UNCHANGED checks
  ELSE UNCHANGED <<monitor, checks, incidents, bad>>

-----------------------------------------------------------------------------
(* Certificates.                                                           *)

Aged(c) ==
  CASE c.left = 0 -> [c EXCEPT !.status = "expired"]
    [] c.left = 1 /\ c.status = "valid" -> [c EXCEPT !.status = "expiring"]
    [] OTHER -> c

Renewable(c) == c.status \in {"valid", "expiring"} /\ c.left \in 1 .. 2

Ordered(c, j, status) == [c EXCEPT !.status = status, !.job = j]

\* The certificates part of run_maintenance_cycle.
RenewCertificate ==
  LET c == Aged(certificate)
  IN  IF certificate.status # "none" /\ Renewable(c) /\ fresh /\ MayBeQueued(c.job)
      THEN /\ JobIsFree
           /\ certificate' = Ordered(c, NewJob, "renewing")
           /\ orders' = orders \cup {NewJob}
      ELSE /\ certificate' = IF certificate.status = "none" THEN certificate ELSE c
           /\ UNCHANGED orders

\* _issue_certificate: certbot renews what has at most 30 days left and keeps the rest.
Issued(c) == [c EXCEPT !.left = Fresh]

\* agent_job_result of a certificate_issue job, whichever the row names.
OrderEnds(j) ==
  /\ j \in orders
  /\ orders' = orders \ {j}
  /\ \/ /\ certificate' = [Issued(certificate) EXCEPT !.status = "valid", !.failed = FALSE]
        /\ UNCHANGED faults
     \/ /\ certificate' = [certificate EXCEPT !.status = "failed", !.failed = TRUE]
        /\ faults < MaxFaults /\ faults' = faults + 1
  /\ UNCHANGED <<subject, node, incidents, tunnel, monitor, checks, cycle, desk, bad, requests>>

\* Some weeks: what the Hub and a reachable Agent have to do is done within them.
WeeksPass ==
  /\ certificate.status # "none" /\ certificate.left > 0
  /\ fresh /\ orders = {} /\ desk.action = "none"
  /\ ~(Renewable(Aged(certificate)) /\ MayBeQueued(certificate.job))
  /\ certificate' = [certificate EXCEPT !.left = @ - 1]
  /\ UNCHANGED <<subject, node, incidents, tunnel, monitor, checks, orders, cycle, desk, bad, requests, faults>>

-----------------------------------------------------------------------------
(* run_maintenance_cycle.                                                  *)

\* Mutant: an incident that is resolved counts as well.
HasBeenReported(inc) == \E i \in Slots : inc[i].cause = "offline" /\ inc[i].title = name

IsReported(inc) == Found(inc, "offline", {name}) # {}

\* Before its first write: is the node silent, and is that yet to be reported?
CycleReads ==
  /\ cycle.phase = "idle" /\ subject = "node"
  /\ cycle' = [phase |-> "write", stale |-> ~fresh,
                title |-> IF ~fresh /\ ~IsReported(incidents) THEN name ELSE NoName]
  /\ UNCHANGED <<subject, node, incidents, care, desk, bad, requests, faults>>

Reported(inc) == IF cycle.title = NoName THEN inc ELSE Opened(inc, "offline", cycle.title)

CycleWrites ==
  /\ cycle.phase = "write"
  /\ cycle' = NoCycle
  /\ incidents' = IF cycle.stale THEN Reported(incidents) ELSE Recovered(incidents)
  /\ UNCHANGED <<subject, node, care, desk, bad, requests, faults>>

CycleMonitor ==
  /\ subject = "monitor"
  /\ QueueMonitor
  /\ UNCHANGED <<tunnel, certificate, orders>>

CycleCertificate ==
  /\ subject = "certificate"
  /\ RenewCertificate
  /\ UNCHANGED <<incidents, tunnel, monitor, checks, bad>>

\* What is due is selected in the transaction; nothing is heard of a node meanwhile.
CycleQueues ==
  /\ CycleMonitor \/ CycleCertificate
  /\ UNCHANGED <<subject, node, cycle, desk, requests, faults>>

-----------------------------------------------------------------------------
(* Operator requests.                                                      *)

Request(action, ids) ==
  /\ desk.action = "none"
  /\ requests < MaxRequests /\ requests' = requests + 1
  /\ desk' = [action |-> action, ids |-> ids]

\* update_node_mutation is one transaction from its first read.
RenameNode(n) ==
  /\ subject \in {"node", "resource"} /\ n # name
  /\ requests < MaxRequests /\ requests' = requests + 1
  /\ name' = n
  /\ UNCHANGED <<subject, online, heartbeat, reported, incidents, care, cycle, desk, bad, faults>>

\* incident_action_mutation checks the status it has read ...
ReadAction(i, action) ==
  /\ \/ action = "acknowledge" /\ incidents[i].status = "open"
     \/ action = "resolve" /\ Active(incidents[i])
     \/ action = "reopen" /\ incidents[i].status = "resolved"
  /\ Request(action, {i})
  /\ UNCHANGED <<subject, node, incidents, care, cycle, bad, faults>>

\* The incident is active again, whatever has become of its cause, and perhaps beside
\* another one: a recovery that looks for one of them leaves the other.
Revived(i, status) ==
  [k \in Slots |->
     IF k = i THEN [incidents[k] EXCEPT !.status = status, !.stray = TRUE]
     ELSE IF Active(incidents[k]) /\ SameCause(incidents[i], incidents[k])
       THEN [incidents[k] EXCEPT !.stray = TRUE] ELSE incidents[k]]

\* Mutant: the name of the action is written as the status.
StatusIsAction(action) == action

StatusAfter(action) == IF action = "reopen" THEN "open" ELSE "acknowledged"

\* ... and writes by id, whatever the status is by then; only a resolution looks again.
WriteAction ==
  /\ desk.action \in {"acknowledge", "resolve", "reopen"}
  /\ desk' = Idle
  /\ \E i \in desk.ids :
       incidents' = CASE desk.action = "resolve" -> Resolved(incidents, {i})
                      [] desk.action = "acknowledge" /\ Active(incidents[i]) ->
                           [incidents EXCEPT ![i].status = StatusAfter(desk.action)]
                      [] OTHER -> Revived(i, StatusAfter(desk.action))
  /\ UNCHANGED <<subject, node, care, cycle, bad, requests, faults>>

\* create_monitor_mutation; ids are never used again (a deletion is a request).  Bound: every
\* monitor is born with the same name, and edits rename it.
CreateMonitor(m, enabled) ==
  /\ subject = "monitor" /\ monitor.id = 0
  /\ desk.action = "none"
  /\ monitor' = [NoMonitor EXCEPT !.id = requests + 1, !.node = m, !.name = name, !.enabled = enabled,
                                     !.due = TRUE]
  /\ bad' = 0
  /\ UNCHANGED <<subject, node, incidents, tunnel, checks, certificate, orders, cycle, desk, requests, faults>>

\* update_ and delete_monitor_mutation look for the incidents of the node and name they read ...
ReadEdit(action) ==
  /\ monitor.id # 0
  /\ Request(action, Found(incidents, "monitor", {Title(monitor)}))
  /\ UNCHANGED <<subject, node, incidents, care, cycle, bad, faults>>

\* The row still names its last job, also one that is queued for the node it leaves.
Edited(m, place, n, enabled, readable) ==
  [m EXCEPT !.node = place, !.name = n, !.enabled = enabled, !.readable = readable, !.status = "pending",
            !.streak = 0, !.due = TRUE]

\* monitor_values: no secret, a new one, or the one there was.
Readable(m) == {TRUE, m.readable}

\* ... and resolve those.
WriteUpdate ==
  /\ desk.action = "update"
  /\ \E m \in Nodes, n \in Names, enabled \in BOOLEAN, readable \in Readable(monitor) :
       monitor' = Edited(monitor, m, n, enabled, readable)
  /\ incidents' = Resolved(incidents, desk.ids)
  /\ desk' = Idle /\ bad' = 0
  /\ UNCHANGED <<subject, node, tunnel, checks, certificate, orders, cycle, requests, faults>>

WriteDelete ==
  /\ desk.action = "delete"
  /\ monitor' = NoMonitor
  /\ incidents' = Resolved(incidents, desk.ids)
  /\ desk' = Idle /\ bad' = 0
  /\ UNCHANGED <<subject, node, tunnel, checks, certificate, orders, cycle, requests, faults>>

\* queue_monitor_run_mutation: the pending job is looked for before the transaction.
ReadRun ==
  /\ monitor.id # 0 /\ monitor.node \in online /\ MayBeQueued(monitor.job) /\ monitor.readable
  /\ Request("run", {})
  /\ UNCHANGED <<subject, node, incidents, care, cycle, bad, faults>>

WriteRun ==
  /\ desk.action = "run" /\ JobIsFree
  /\ checks' = [checks EXCEPT ![NewJob] = Check(monitor)]
  /\ monitor' = Queued(monitor, NewJob)
  /\ desk' = Idle
  /\ UNCHANGED <<subject, node, incidents, tunnel, certificate, orders, cycle, bad, requests, faults>>

\* issue_ and renew_certificate_mutation look for the node, and for no pending job; an
\* issue may take long to look up the domain.
ReadOrder(action) ==
  /\ subject = "certificate" /\ fresh
  /\ action = "renew" => certificate.status # "none"
  /\ Request(action, {})
  /\ UNCHANGED <<subject, node, incidents, care, cycle, bad, faults>>

WriteOrder ==
  /\ desk.action \in {"issue", "renew"} /\ JobIsFree
  /\ certificate' = Ordered(certificate, NewJob, IF desk.action = "issue" THEN "pending" ELSE "renewing")
  /\ orders' = orders \cup {NewJob}
  /\ desk' = Idle
  /\ UNCHANGED <<subject, node, incidents, tunnel, monitor, checks, cycle, bad, requests, faults>>

-----------------------------------------------------------------------------
(* The system.                                                             *)

Reports ==
  \/ HeartbeatArrives \/ HeartbeatHandled
  \/ \E n \in Nodes : Pulse(n) \/ GoSilent(n)

Requests ==
  \/ \E n \in Names : RenameNode(n)
  \/ \E i \in Slots, action \in {"acknowledge", "resolve", "reopen"} : ReadAction(i, action)
  \/ WriteAction
  \/ \E m \in Nodes, enabled \in BOOLEAN : CreateMonitor(m, enabled)
  \/ \E action \in {"update", "delete"} : ReadEdit(action)
  \/ WriteUpdate \/ WriteDelete
  \/ ReadRun \/ WriteRun
  \/ \E action \in {"issue", "renew"} : ReadOrder(action)
  \/ WriteOrder

Next ==
  \/ Reports \/ Requests
  \/ CycleReads \/ CycleWrites \/ CycleQueues
  \/ \E j \in Jobs : CheckEnds(j) \/ OrderEnds(j)
  \/ ComesDue \/ SecretIsLost \/ WeeksPass

Spec == Init /\ [][Next]_vars

\* The maintenance loop goes on, requests that have begun end, and the jobs of a node that is
\* heard of get their results (JobQueue).  An Agent may be silent for ever.
FairSpec ==
  /\ Spec
  /\ WF_vars(CycleReads) /\ WF_vars(CycleWrites) /\ WF_vars(CycleQueues)
  /\ WF_vars(WriteAction) /\ WF_vars(WriteUpdate) /\ WF_vars(WriteDelete)
  /\ WF_vars(WriteRun) /\ WF_vars(WriteOrder)
  /\ \A j \in Jobs : /\ WF_vars(checks[j].node \in online /\ CheckEnds(j))
                     /\ WF_vars(fresh /\ OrderEnds(j))

-----------------------------------------------------------------------------
(* Properties.                                                             *)

IsUp(x) == x.status \notin {"none", "resolved"}

\* What an incident that is not resolved is about is still wrong, as far as the Hub has been
\* told: every recovery, edit, deletion and removal resolves what it ends, also what an
\* operator has acknowledged.  Left out are incidents that an operator has revived or that
\* were opened behind the back of an edit, and resources under a former name of the node.
UnresolvedIsWrong ==
  \A i \in Slots : IsUp(incidents[i]) /\ ~incidents[i].stray =>
    CASE incidents[i].cause = "offline" -> ~fresh
      [] incidents[i].cause = "resource" -> incidents[i].title = reported.name => reported.level # "low"
      [] incidents[i].cause = "tunnel" -> tunnel.status \notin {"none", "healthy"}
      [] incidents[i].cause = "monitor" ->
           monitor.id # 0 /\ Title(monitor) = incidents[i].title /\ monitor.status = "down"

\* One cause has one unresolved incident, acknowledged or not, however often the Agent and
\* the cycle see it, unless an operator has revived another one.
OneIncidentPerCause ==
  \A i, k \in Slots :
    /\ i # k /\ IsUp(incidents[i]) /\ IsUp(incidents[k])
    /\ ~incidents[i].stray /\ ~incidents[k].stray
    => ~SameCause(incidents[i], incidents[k])

\* An incident of a tunnel or monitor is opened after two bad verdicts in a row, after three
\* of a tunnel that is merely degraded; a monitor that is saved starts anew (README.md:69,
\* "Debounced incidents to prevent flapping alerts").
Debounced ==
  [][\A i \in Slots :
       /\ incidents'[i].cause \in {"tunnel", "monitor"} /\ desk' = desk
       /\ ~IsUp(incidents[i]) /\ IsUp(incidents'[i])
       => bad' >= IF tunnel'.status = "degraded" THEN 3 ELSE 2]_vars

\* A node that falls silent is reported unless it comes back.
SilenceIsReported ==
  subject = "node" /\ ~fresh ~>
    fresh \/ \E i \in Slots : incidents[i].cause = "offline" /\ IsUp(incidents[i])

\* The node whose report the monitor waits for: its own, and the one that has the job it names.
WaitsFor(n) == n = monitor.node \/ (Pending(monitor.job) /\ n = checks[monitor.job].node)

\* A monitor that has been saved gets a verdict, whichever job was pending and wherever the
\* monitor was moved from, unless it waits for a silent node.  That may be the one it was
\* moved away from: as long as the job it has there is pending, the cycle skips the monitor.
SavedMonitorIsJudged ==
  monitor.id # 0 /\ monitor.status = "pending" ~>
    \/ monitor.id = 0 \/ monitor.status # "pending" \/ ~monitor.enabled
    \/ \E n \in Nodes \ online : WaitsFor(n)

\* As long as the node is reachable, a certificate expires only after a failed renewal.
CertificatesStayValid == certificate.left = 0 => certificate.failed

\* A certificate close to its end is renewed by a reachable Agent once renewals no longer
\* fail (README.md:56, "automatic renewal").
RenewalRecovers == certificate.left \in 1 .. 2 ~> certificate.left = Fresh \/ ~fresh
=============================================================================
