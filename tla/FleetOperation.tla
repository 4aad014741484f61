---------------------------- MODULE FleetOperation ----------------------------
(***************************************************************************)
(* One fleet operation from its creation to its verdict.  A playbook waits *)
(* until it is due and then gives every node a job; sync_agent provisions  *)
(* the nodes one after the other; upgrade_agents rolls the Hub's Agent out *)
(* to the canary and then in batches, stops at a failure if asked to, and  *)
(* checks the version that each Agent reports.  Operators may cancel the   *)
(* operation or delete a node, and the Hub may restart.                    *)
(*                                                                         *)
(* Coroutines of the Hub's event loop interleave at their awaits, and with *)
(* handlers of the thread pool also between a SELECT and the transaction   *)
(* that the next write opens.                                              *)
(***************************************************************************)
EXTENDS Integers, FiniteSets

CONSTANTS
  Total,             \* nodes of the operation, numbered in rollout order: 1 is the canary
  BatchSize,         \* payload.batch_size
  MaxRestarts,       \* bound on Hub restarts
  MaxDeletions       \* bound on nodes deleted by operators

ASSUME SizeAssumption == Total \in Nat \ {0} /\ BatchSize \in Nat \ {0}
ASSUME BoundAssumption == MaxRestarts \in Nat /\ MaxDeletions \in Nat

Nodes == 1 .. Total
Terminal == {"completed", "failed", "cancelled"}

VARIABLES
  op,                \* fleet_operations: kind, status, payload.stop_on_failure
  item,              \* fleet_operation_items.status per node, "none" without a row
  job,               \* the node's job of a playbook
  provision,         \* nodes.provision_status
  task,              \* the phase of the node's provision_node_for_fleet
  agent,             \* version that runs, version in its cached report, nodes.agent_version
  orchestrator,      \* phase and current batch of orchestrate_agent_upgrade
  cancel,            \* a cancel request that has passed its checks
  deleting,          \* nodes whose deletion has passed its checks
  deleted,           \* nodes that operators deleted
  restarts           \* Hub restarts so far

vars == <<op, item, job, provision, task, agent, orchestrator, cancel, deleting, deleted, restarts>>
rollout == <<provision, task, agent, orchestrator>>
operators == <<cancel, deleting, deleted, restarts>>

Versions == {"old", "hub"}
Batches == 1 + (Total - 1 + BatchSize - 1) \div BatchSize

TypeOK ==
  /\ op \in [kind : {"none", "playbook", "sync_agent", "upgrade_agents"}, stop : BOOLEAN,
             status : {"none", "scheduled", "running"} \cup Terminal]
  /\ item \in [Nodes -> {"none", "scheduled", "queued", "running"} \cup Terminal]
  /\ job \in [Nodes -> {"none", "pending", "ended"}]
  /\ provision \in [Nodes -> {"none", "provisioning", "completed", "failed"}]
  /\ task \in [Nodes -> {"none", "waiting", "activated", "seen", "ended"}]
  /\ agent \in [Nodes -> [running : Versions, cached : Versions, reported : Versions]]
  /\ orchestrator \in [phase : {"off", "check", "start", "wait"}, batch : 1 .. Batches]
  /\ cancel \in BOOLEAN
  /\ deleting \subseteq Nodes
  /\ deleted \subseteq Nodes
  /\ restarts \in 0 .. MaxRestarts

Init ==
  /\ op = [kind |-> "none", status |-> "none", stop |-> FALSE]
  /\ item = [i \in Nodes |-> "none"]
  /\ job = [i \in Nodes |-> "none"]
  /\ provision = [i \in Nodes |-> "none"]
  /\ task = [i \in Nodes |-> "none"]
  /\ agent = [i \in Nodes |-> [running |-> "old", cached |-> "old", reported |-> "old"]]
  /\ orchestrator = [phase |-> "off", batch |-> 1]
  /\ cancel = FALSE
  /\ deleting = {}
  /\ deleted = {}
  /\ restarts = 0

\* Mutant: the canary only comes first in the first batch.
BatchWithCanary(k) == {i \in Nodes : (k - 1) * BatchSize + 1 <= i /\ i <= k * BatchSize}

\* The canary alone, then the other nodes in chunks of the batch size.
Batch(k) ==
  IF k = 1 THEN {1} ELSE {i \in Nodes : (k - 2) * BatchSize + 2 <= i /\ i <= (k - 1) * BatchSize + 1}

Rows(items) == {i \in Nodes : items[i] # "none"}

\* Mutant: an operation without a failure has completed.
VerdictIgnoresCancelled(items) ==
  IF \E i \in Rows(items) : items[i] = "failed" THEN "failed" ELSE "completed"

Verdict(items) ==
  IF \E i \in Rows(items) : items[i] = "failed" THEN "failed"
  ELSE IF \E i \in Rows(items) : items[i] = "cancelled" THEN "cancelled" ELSE "completed"

\* Mutant: the operation ends with its first failure.
FinalizedAtFailure(items) ==
  IF \/ \E i \in Rows(items) : items[i] = "failed"
     \/ Rows(items) # {} /\ \A i \in Rows(items) : items[i] \in Terminal
    THEN [op EXCEPT !.status = Verdict(items)] ELSE op

\* finalize_fleet_operation: the operation ends with its last item.
Finalized(items) ==
  IF Rows(items) # {} /\ \A i \in Rows(items) : items[i] \in Terminal
    THEN [op EXCEPT !.status = Verdict(items)] ELSE op

-------------------------------------------------------------------------------
(* Creating and cancelling *)

Existing == Nodes \ deleted
Rowed(status) == [i \in Nodes |-> IF i \in Existing THEN status ELSE "none"]

CreatePlaybook ==
  /\ op.status = "none" /\ deleted = {}
  /\ op' = [op EXCEPT !.kind = "playbook", !.status = "scheduled"]
  /\ item' = Rowed("scheduled")
  /\ UNCHANGED <<job, rollout, operators>>

\* A playbook that is due, in the request that creates it or in a maintenance cycle.
QueueDue ==
  /\ op.status = "scheduled"
  /\ op' = [op EXCEPT !.status = "running"]
  /\ item' = [i \in Nodes |-> IF i \in Rows(item) THEN "queued" ELSE "none"]
  /\ job' = [i \in Nodes |-> IF i \in Rows(item) THEN "pending" ELSE "none"]
  /\ UNCHANGED <<rollout, operators>>

\* The background tasks of one request run one after the other.
CreateSync ==
  /\ op.status = "none" /\ deleted = {}
  /\ op' = [op EXCEPT !.kind = "sync_agent", !.status = "running"]
  /\ item' = Rowed("running")
  /\ provision' = [i \in Nodes |-> "provisioning"]
  /\ task' = [task EXCEPT ![1] = "waiting"]
  /\ UNCHANGED <<job, agent, orchestrator, operators>>

CreateUpgrade ==
  \E stop \in BOOLEAN :
    /\ op.status = "none" /\ deleted = {}
    /\ op' = [kind |-> "upgrade_agents", status |-> "running", stop |-> stop]
    /\ item' = Rowed("scheduled")
    /\ orchestrator' = [phase |-> "check", batch |-> 1]
    /\ UNCHANGED <<job, provision, task, agent, operators>>

Cancellable == op.status = "scheduled" \/ (op.kind = "upgrade_agents" /\ op.status = "running")

ReadCancel ==
  /\ ~cancel /\ Cancellable
  /\ cancel' = TRUE
  /\ UNCHANGED <<op, item, job, rollout, deleting, deleted, restarts>>

CancelScheduled == [i \in Nodes |-> IF item[i] = "scheduled" THEN "cancelled" ELSE item[i]]

WriteCancel ==
  /\ cancel
  /\ op' = [op EXCEPT !.status = "cancelled"]
  /\ item' = CancelScheduled
  /\ cancel' = FALSE
  /\ UNCHANGED <<job, rollout, deleting, deleted, restarts>>

-------------------------------------------------------------------------------
(* Playbooks *)

\* The fleet part of agent_job_result.
JobEnds(i) ==
  \E o \in {"completed", "failed"} :
    /\ job[i] = "pending"
    /\ job' = [job EXCEPT ![i] = "ended"]
    /\ item' = [item EXCEPT ![i] = o]
    /\ op' = Finalized(item')
    /\ UNCHANGED <<rollout, operators>>

-------------------------------------------------------------------------------
(* Rollouts: the orchestrator *)

OrchestratorChecks ==
  /\ orchestrator.phase = "check"
  /\ orchestrator' = [orchestrator EXCEPT !.phase = IF op.status = "running" THEN "start" ELSE "off"]
  /\ UNCHANGED <<op, item, job, provision, task, agent, operators>>

OrchestratorStarts ==
  LET now == Batch(orchestrator.batch) IN
  /\ orchestrator.phase = "start"
  /\ item' = [i \in Nodes |-> IF i \in now \cap Rows(item) THEN "running" ELSE item[i]]
  /\ provision' = [i \in Nodes |-> IF i \in now \ deleted THEN "provisioning" ELSE provision[i]]
  /\ task' = [i \in Nodes |-> IF i \in now THEN "waiting" ELSE task[i]]
  /\ orchestrator' = [orchestrator EXCEPT !.phase = "wait"]
  /\ UNCHANGED <<op, job, agent, operators>>

\* Mutant: the orchestrator starts the tasks of a batch without waiting for them.
BatchIsStarted == orchestrator.phase = "wait"

BatchIsDone == orchestrator.phase = "wait" /\ \A i \in Nodes : task[i] = "none"
\* Mutant: only a rollout that failed altogether stops.
MustStopIfAllFailed == op.stop /\ \A i \in Rows(item) : item[i] = "failed"

MustStop == op.stop /\ \E i \in Nodes : item[i] = "failed"

\* Mutant: the stop cancels what is scheduled and leaves the verdict to the tasks.
OrchestratorStopsOnly ==
  /\ BatchIsDone /\ MustStop
  /\ item' = CancelScheduled
  /\ orchestrator' = [orchestrator EXCEPT !.phase = "off"]
  /\ UNCHANGED <<op, job, provision, task, agent, operators>>

OrchestratorStops ==
  /\ BatchIsDone /\ MustStop
  /\ item' = CancelScheduled
  /\ op' = Finalized(item')
  /\ orchestrator' = [orchestrator EXCEPT !.phase = "off"]
  /\ UNCHANGED <<job, provision, task, agent, operators>>

\* Mutant: off by one at the last batch.
OrchestratorGoesBeyond ==
  /\ BatchIsDone /\ ~MustStop
  /\ orchestrator' = IF orchestrator.batch <= Batches
                       THEN [phase |-> "check", batch |-> orchestrator.batch + 1]
                       ELSE [orchestrator EXCEPT !.phase = "off"]
  /\ UNCHANGED <<op, item, job, provision, task, agent, operators>>

OrchestratorGoesOn ==
  /\ BatchIsDone /\ ~MustStop
  /\ orchestrator' = IF orchestrator.batch < Batches
                       THEN [phase |-> "check", batch |-> orchestrator.batch + 1]
                       ELSE [orchestrator EXCEPT !.phase = "off"]
  /\ UNCHANGED <<op, item, job, provision, task, agent, operators>>

-------------------------------------------------------------------------------
(* Rollouts: one node *)

\* The node is gone, or is not being provisioned any more.
TaskSkips(i) ==
  /\ task[i] = "waiting" /\ provision[i] # "provisioning"
  /\ task' = [task EXCEPT ![i] = "ended"]
  /\ UNCHANGED <<op, item, job, provision, agent, orchestrator, operators>>

\* The new Agent is in place and started; it finds the report that the old one cached.
Activate(i) ==
  /\ task[i] = "waiting" /\ provision[i] = "provisioning"
  /\ task' = [task EXCEPT ![i] = "activated"]
  /\ agent' = [agent EXCEPT ![i].running = "hub"]
  /\ UNCHANGED <<op, item, job, provision, orchestrator, operators>>

Seen(i) == IF task[i] = "activated" THEN [task EXCEPT ![i] = "seen"] ELSE task

\* The Agent's loop sends pulses and heartbeats, and the Hub stores the version each names: a
\* pulse's the one that runs, a heartbeat's the one that collected the cached report.  Either
\* may fail, so that they come in any order.
Pulse(i) ==
  /\ i \notin deleted
  /\ agent' = [agent EXCEPT ![i].reported = agent[i].running]
  /\ task' = Seen(i)
  /\ UNCHANGED <<op, item, job, provision, orchestrator, operators>>

Heartbeat(i) ==
  /\ i \notin deleted
  /\ agent' = [agent EXCEPT ![i].reported = agent[i].cached]
  /\ task' = Seen(i)
  /\ UNCHANGED <<op, item, job, provision, orchestrator, operators>>

Collect(i) ==
  /\ agent' = [agent EXCEPT ![i].cached = agent[i].running]
  /\ UNCHANGED <<op, item, job, provision, task, orchestrator, operators>>

InstallSucceeds(i) ==
  /\ task[i] = "seen" /\ provision[i] = "provisioning"
  /\ task' = [task EXCEPT ![i] = "ended"]
  /\ provision' = [provision EXCEPT ![i] = "completed"]
  /\ UNCHANGED <<op, item, job, agent, orchestrator, operators>>

\* An error, a missing heartbeat or the timeout.  The old Agent is restored, if that works.
InstallFails(i) ==
  /\ task[i] \in {"activated", "seen"} \/ (task[i] = "waiting" /\ provision[i] = "provisioning")
  /\ task' = [task EXCEPT ![i] = "ended"]
  /\ provision' = IF provision[i] = "provisioning" THEN [provision EXCEPT ![i] = "failed"] ELSE provision
  /\ \E v \in {"old", agent[i].running} : agent' = [agent EXCEPT ![i].running = v]
  /\ UNCHANGED <<op, item, job, orchestrator, operators>>

\* The tasks left by the end of node i's: a sync goes on with the next node.
TasksAfter(i) ==
  [k \in Nodes |-> CASE k = i -> "none"
                     [] k = i + 1 /\ op.kind = "sync_agent" -> "waiting"
                     [] OTHER -> task[k]]

\* Mutant: the reported version alone decides.
TaskEndsByVersion(i) ==
  LET verified == agent[i].reported = "hub" IN
  /\ task[i] = "ended"
  /\ task' = TasksAfter(i)
  /\ IF i \in Rows(item)
       THEN /\ item' = [item EXCEPT ![i] = IF verified THEN "completed" ELSE "failed"]
            /\ op' = Finalized(item')
       ELSE UNCHANGED <<op, item>>
  /\ UNCHANGED <<job, provision, agent, orchestrator, operators>>

\* The version check, and the item's verdict.
TaskEnds(i) ==
  LET installed == provision[i] = "completed"
      verified == agent[i].reported = "hub"
  IN
  /\ task[i] = "ended"
  /\ task' = TasksAfter(i)
  /\ provision' = IF installed /\ ~verified THEN [provision EXCEPT ![i] = "failed"] ELSE provision
  /\ IF i \in Rows(item)
       THEN /\ item' = [item EXCEPT ![i] = IF installed /\ verified THEN "completed" ELSE "failed"]
            /\ op' = Finalized(item')
       ELSE UNCHANGED <<op, item>>
  /\ UNCHANGED <<job, agent, orchestrator, operators>>

-------------------------------------------------------------------------------
(* Operators and the Hub *)

ReadDelete(i) ==
  /\ i \notin deleting \cup deleted /\ provision[i] # "provisioning"
  /\ Cardinality(deleting \cup deleted) < MaxDeletions
  /\ deleting' = deleting \cup {i}
  /\ UNCHANGED <<op, item, job, rollout, cancel, deleted, restarts>>

\* Deleting a node deletes its items and jobs.
WriteDelete(i) ==
  /\ i \in deleting
  /\ deleting' = deleting \ {i}
  /\ deleted' = deleted \cup {i}
  /\ item' = [item EXCEPT ![i] = "none"]
  /\ job' = [job EXCEPT ![i] = "none"]
  /\ provision' = [provision EXCEPT ![i] = "none"]
  /\ UNCHANGED <<op, task, agent, orchestrator, cancel, restarts>>

\* The Hub stops with its coroutines and handlers; bootstrap fails what they left running.
HubRestart ==
  /\ restarts < MaxRestarts
  /\ restarts' = restarts + 1
  /\ provision' = [i \in Nodes |-> IF provision[i] = "provisioning" THEN "failed" ELSE provision[i]]
  /\ item' = [i \in Nodes |-> IF item[i] = "running" THEN "failed" ELSE item[i]]
  /\ op' = IF op.status = "running" THEN Finalized(item') ELSE op
  /\ task' = [i \in Nodes |-> "none"]
  /\ orchestrator' = [orchestrator EXCEPT !.phase = "off"]
  /\ cancel' = FALSE
  /\ deleting' = {}
  /\ UNCHANGED <<job, agent, deleted>>

Next ==
  \/ CreatePlaybook \/ CreateSync \/ CreateUpgrade \/ QueueDue \/ ReadCancel \/ WriteCancel
  \/ OrchestratorChecks \/ OrchestratorStarts \/ OrchestratorStops \/ OrchestratorGoesOn
  \/ \E i \in Nodes :
       \/ JobEnds(i) \/ TaskSkips(i) \/ Activate(i) \/ Pulse(i) \/ Heartbeat(i) \/ Collect(i)
       \/ InstallSucceeds(i) \/ InstallFails(i) \/ TaskEnds(i) \/ ReadDelete(i) \/ WriteDelete(i)
  \/ HubRestart

Spec == Init /\ [][Next]_vars

\* The maintenance cycle, the Agents (JobQueue, EveryJobEnds) and the event loop go on; a
\* provisioning task ends, one way or the other, by its timeout.
Fairness ==
  /\ WF_vars(QueueDue)
  /\ WF_vars(OrchestratorChecks) /\ WF_vars(OrchestratorStarts)
  /\ WF_vars(OrchestratorStops) /\ WF_vars(OrchestratorGoesOn)
  /\ \A i \in Nodes :
       /\ WF_vars(JobEnds(i)) /\ WF_vars(TaskSkips(i)) /\ WF_vars(TaskEnds(i))
       /\ WF_vars(InstallSucceeds(i) \/ InstallFails(i))

FairSpec == Spec /\ Fairness

-------------------------------------------------------------------------------
(* Properties *)

Upgrade == op.kind = "upgrade_agents"
Touched == {"running", "completed", "failed"}

\* RELEASE_NOTES.md:730 "The canary runs alone": no other Agent is touched before the canary's item
\* has ended, whatever is cancelled, deleted or restarted meanwhile.
CanaryFirst ==
  (Upgrade /\ \E i \in Nodes \ {1} : item[i] \in Touched) => item[1] \notin {"scheduled", "running"}

\* "Subsequent batches are bounded": never more Agents are being replaced than the batch size.
BatchIsBounded ==
  Upgrade => Cardinality({i \in Nodes : item[i] = "running"}) <= BatchSize

\* With stop_on_failure no further Agent is touched once an item of the rollout has failed.
StopsOnFailure ==
  [][(Upgrade /\ op.stop /\ \E i \in Nodes : item[i] = "failed")
       => \A i \in Nodes : item'[i] = "running" => item[i] = "running"]_vars

\* The verdict of an operation is that of its items, although items and verdict are written by
\* different coroutines, handlers and the bootstrap.
VerdictMatchesItems ==
  /\ op.status = "completed" => \A i \in Rows(item) : item[i] = "completed"
  /\ op.status = "failed" => deleted # {} \/ \E i \in Nodes : item[i] = "failed"

\* An operation that has a verdict leaves no Agent half installed by a task that is still at work.
EndedIsQuiet ==
  op.status \in {"completed", "failed"} => \A i \in Nodes \ deleted : task[i] = "none"

\* An item completes only with an Agent of the Hub's version in place.
CompletedIsUpgraded ==
  op.kind \in {"sync_agent", "upgrade_agents"} =>
    \A i \in Nodes : item[i] = "completed" => agent[i].running = "hub"

\* An operation that runs gets a verdict, unless the Hub restarts or a node is deleted meanwhile.
OperationEnds ==
  op.status = "running" ~> (op.status \in Terminal \/ restarts > 0 \/ deleted # {})

\* CHANGELOG.md:377 "exact post-upgrade version verification": after an installation that succeeded,
\* the item completes exactly if the Agent runs the Hub's version.
VerificationIsExact ==
  [][\A i \in Nodes :
       (task[i] = "ended" /\ task'[i] = "none" /\ provision[i] = "completed" /\ item'[i] # "none"
          /\ restarts' = restarts)
         => (item'[i] = "completed") = (agent[i].running = "hub")]_vars
===============================================================================
