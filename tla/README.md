# DARK NOC in TLA+

DARK NOC is a network operations centre: a Hub (FastAPI, SQLite, one process) and an Agent on each
managed node. Agents report telemetry and execute jobs that the Hub queues for them; the Hub installs
and upgrades Agents over SSH, deploys tunnel plugins on pairs of nodes, runs fleet operations, watches
certificates and monitors and keeps incidents. This directory holds TLA+ models of the parts in which
several actors act on one state, the TLC runs that check them on small instances, and proofs, checked
by TLAPS, for every value of the constants.

Paths below are relative to the repository root (`hub/app.py` is `src/hub/app.py` in PROJECT.json).

## 1. The system

### Execution model

Everything that follows rests on a few facts about how the code runs.

- **The Hub is one process with two kinds of handlers.** `async def` routes and background tasks are
  coroutines of one event loop and interleave only at an `await`; plain `def` routes run in a thread
  pool, next to the loop and to each other. `agent_pulse` and `agent_heartbeat` are of the first kind;
  `agent_jobs`, `agent_job_result`, the lease renewal and all operator mutations are of the second.
- **A transaction starts with the first write.** `db()` (`hub/database.py:10-21`) opens a connection in
  the default mode of Python's `sqlite3`: a SELECT before the first INSERT, UPDATE or DELETE of a
  `with db()` block reads in autocommit mode, and the transaction is opened by the write. Another handler
  may commit between the two. Handlers that check and then write are therefore *two* steps in the models
  (`CheckResult`/`CommitResult`, `ReadRetry`/`WriteRetry`, `ReadCancel`/`WriteCancel`,
  `OrchestratorChecks`/`OrchestratorStarts`, `ReadDelete`/`WriteDelete`). Writes are serialized by SQLite; a
  handler waits up to 20 s for its turn (`timeout=20`).
- **The maintenance cycle is one transaction from its first write on** (`hub/maintenance_runtime.py:140-195`).
  What it reads before, the silent nodes and their incidents (`:149-157`), it reads in autocommit mode while
  operator requests commit in threads; the requeue, the due monitors, certificates and fleet operations are
  selected after it has written. Hence `CycleReads`/`CycleWrites` in Maintenance for the silence of nodes, and
  single steps for what it selects later (`CycleQueues` there, and the cycles of the other modules).
- **Coroutines are cancelled at an await.** A timeout or a client that leaves ends a coroutine where it waits;
  a request that SSH or SFTP has sent goes on at the other end and may take effect without the coroutine
  noting it. `asyncio.shield` keeps a rollback running, but not the connection it works on (`app.py:1173`,
  `:1427`): `Timeout` in NodeProvisioning and SshTransfers.
- **An Agent is one asyncio loop** (`agent/agent.py:1786-2010`) that sends pulses and heartbeats, polls
  for a job when it has none, and executes a job in a thread it cannot stop. systemd restarts it.

### Components

| component | state | operations | hard behaviour | correct when | module |
|---|---|---|---|---|---|
| Remote jobs | `jobs` rows; the Agent's `job_task` | insert, claim, renew, execute, post with retries, requeue | lost, late and repeated messages, restarts, lease against execution | a job stays with the Agent that works on it; a result is final; every job ends | JobQueue |
| Managed plugin deployments | `plugin_deployments`, their jobs, services on two nodes | deploy, retry, remove, reconfigure, settle and roll back | two results in any order, requests on stale reads, jobs executed again | half-failed is rolled back exactly then; what is shown is what runs | ManagedDeployment |
| Fleet operations and Agent upgrades | `fleet_operations`, `fleet_operation_items`, `nodes.provision_status` | create, queue when due, orchestrate, cancel, finalize, recover | cancel and deletion against the rollout, Hub restart, version reports | canary first, bounded batches, stop at a failure, verdict of the items | FleetOperation |
| Node provisioning | files, virtualenv, service and token on the server; `nodes` row | create, retry, move, delete; stage, activate, restart, wait for a heartbeat, roll back, time out | a failure, timeout or crash at each of some fifteen steps; a token known to both sides | a failed installation leaves the previous Agent with a token the Hub accepts | NodeProvisioning |
| SSH file transfer, request slots | files on a server; a semaphore and locks per destination | upload, relay, save, rename, delete, download | two requests on one path, a failure between two renames, leaving while a slot is granted | nothing is lost or replaced unasked; each slot is given back once | SshTransfers |
| Incidents, monitors, liveness | `incidents`, streaks of monitors and tunnels, freshness of a node | open, acknowledge, resolve, reopen; edit, run; offline detection | debouncing, lookups by title, stale reads, operators beside reports | one open incident per cause, and every end of a cause resolves it | Maintenance |
| Certificates | `certificates` and their jobs | issue, renew, apply a result, expire | overlapping jobs of one certificate, silence of the Agent | no certificate of a reachable node expires unnoticed | Maintenance |
| Maintenance loop, Hub lease | `hub_lease` | acquire, run a cycle | a cycle that outlasts the lease | one leader at a time | the cycle in JobQueue, FleetOperation, Maintenance; the lease is not modelled |
| Agent telemetry | cached report | collect, pulse, heartbeat | cached reports, partial inventories | – | parts in ManagedDeployment, FleetOperation, Maintenance |
| Tunnel list and actions | `tunnels` rows | remove, reconfigure, start, stop | busy deployments | – | ManagedDeployment, JobService |
| Database bootstrap | schema | migrate, recover | what a restart interrupted | – | recovery in FleetOperation, NodeProvisioning |
| Plugin installers, realm_plugin | services and files of a tunnel | install, remove | file transaction | all or nothing | its outcome in ManagedDeployment |
| Pair Code (hybrid) deployments | a deployment with one side | deploy, remove | as managed, without a rollback | as managed | not modelled |
| Agent auto-heal | restart history | restart a service | limits across restarts of the Agent | never more than the limit per hour | not modelled |
| Install and upgrade scripts | snapshot of the installation | upgrade, roll back | failure at any command | the previous version runs again | not modelled |
| Auth, dashboard queries, registry, terminal and live sockets, front end | – | – | – | – | not modelled |

`components` in PROJECT.json gives the source files and the reason for every part left out, and `hazards`
lists, line by line, what is hard to test, with the properties that cover it.

### Interactions

Operators' requests and the maintenance cycle insert **jobs**; everything an Agent does for the Hub goes
through that table. `agent_job_result` is where the parts meet: in one transaction it settles the job and
updates the certificate, the monitor and its incident, the fleet item and its operation, and the
deployment with its rollback. `JobQueue` models that path once, in full; the other modules
use what it guarantees (`NoLostClaim`: no requeue while the holder or its requests are at work;
`EveryJobEnds`) instead of modelling clocks and messages again, and name it where they do
(`Requeue` of ManagedDeployment, the fairness of `JobEnds` in FleetOperation and of `CheckEnds` and `OrderEnds`
in Maintenance). Fleet operations share `nodes.provision_status` with node deletion and with bootstrap's
recovery, and the Agents' pulses and heartbeats with the version check. An Agent upgrade *is* a provisioning: `Activate`,
`InstallSucceeds` and `InstallFails` of FleetOperation stand for an attempt of NodeProvisioning, whose
`CompletedIsLive` says what a success means there. Reports of the Agent feed provisioning (`last_seen`), fleet
operations (`agent_version`) and the incidents.

## 2. Modules

### JobService, JobQueue, MCJobQueue, JobQueueProofs

`JobService` is the abstract promise: a job is granted, a grant may be revoked and given again, its execution
returns at most once and only while the grant holds, and the job ends once with what its last grant produced. There are
neither clocks nor messages.

`JobQueue` is the code. `status`, `node` and `age` are the columns `status`, `node_id` and (as ticks since)
`started_at` of `jobs`; `claims` and `produced` are history variables; `worker[n]` is the Agent's `job_task`
with its phase (executing, posting, awaiting an answer), `orphans` the threads that outlived theirs,
`requests` the result POSTs that have not been answered, in two stages because of the SELECT in autocommit
mode.

| action | code |
|---|---|
| `Submit` | the INSERTs into `jobs` |
| `Poll`, `LostPoll` (`Claim`) | `agent_jobs`, `agent_control_router.py:293-299`, answered or not |
| `Renew` | `process_jobs` and `renew_agent_job_lease`; failing ends the task and orphans the thread |
| `Finish`, `Raise`, `OrphanEnds` | the end of `execute_job`'s thread |
| `PostResult`, `PostTimeout`, `Answer` | the five attempts of `process_jobs` |
| `CheckResult`, `CommitResult` | `agent_job_result` before and after its first write |
| `DropRequest`, `Restart` | lost requests, failed handlers, the service unit's restart |
| `Requeue` | the recovery UPDATE of `run_maintenance_cycle` |
| `Tick` | time; a phase may not outlast its period |

Periods. `LeaseTicks` is the 300 s of the requeue, `RenewTicks` the 60 s between renewals with their
timeouts, `PostTicks` the five attempts with their back-off, `RequestTicks` the time a handler may wait for
the database. In units of 20 s the code has 15, 4, 6 and 2. The one assumption about them, `PeriodAssumption`,
is that the three together are below the lease: 12 < 15. This is why the lease works, and the proof uses nothing
else. TLC uses 4, 1, 1 and 1.

### ManagedDeployment, MCManagedDeployment, ManagedDeploymentProofs

`rows` are the `plugin_deployments` of one name over one pair of nodes, `jobs` their jobs with the statuses
of JobQueue, `installed` whether the tunnel's service runs on a node, `reported` whether the `tunnels`
table has it, `threads` what each Hub handler has read and is about to write. Operator requests are pairs of
actions: `ReadDeploy`/`WriteDeploy`, `ReadRetry`/`WriteRetry`, `ReadRemove`/`WriteRemove` from
`plugin_deployment_service.py`, `ReadRemoveTunnel` (with `WriteRemove` or `WriteRemoveOne`) and
`ReadReconfigure`/`WriteReconfigure` from `node_tunnel_service.py`. `Claim`, `Execute`, `CutShort`,
`OrphanActs` and `Requeue` are the jobs' life as far as deployments can tell; `Heartbeat` brings the tunnels
table in step with the node. `ReadResult`/`WriteResult` are `agent_job_result`; `Settle` is its deployment
part (`agent_control_router.py:373-389`) and `Shown` the status that `list_plugin_deployments` derives.

### FleetOperation, MCFleetOperation, FleetOperationProofs

`op` and `item` are the operation and its items, `job` the jobs of a playbook, `provision` the nodes'
`provision_status`, `task` the phase of each `provision_node_for_fleet` coroutine, `orchestrator` the
position of `orchestrate_agent_upgrade`, `agent` the three versions of each Agent that matter: the one that
runs, the one whose report it has cached, the one in `nodes.agent_version`. Nodes are numbers in rollout
order, 1 is the canary.

`CreatePlaybook`, `CreateSync` and `CreateUpgrade` are the three ways `create_fleet_operation_mutation` and
its route go; `QueueDue` is `queue_due_fleet_operations`; `JobEnds` the fleet part of `agent_job_result`;
`Orchestrator…` the four things the orchestrator does around a batch; `TaskSkips`, `Activate`,
`InstallSucceeds`, `InstallFails` and `TaskEnds` one node's installation and version check; `Pulse`,
`Heartbeat` and `Collect` the reports that the check reads. `Finalized` is `finalize_fleet_operation`,
`HubRestart` the end of all coroutines followed by the recovery of `database_bootstrap.py:69-90`.

### NodeProvisioning, MCNodeProvisioning, NodeProvisioningProofs

`row` is the `nodes` row with its `provision_status`, host and token (`agent_token_hash`), `disk` what each
target of the installation holds on a server (program files, the configuration, which holds the token, and the
virtual environment), `agent` what the service runs with. Attempts are numbered; the number also names the
files an attempt installs and the token generated for it. `task[r]` is the coroutine `provision_node` of a
row: its phase, the item it is at, and what it remembers (`backup`, `backed`, `installed`, `changed`, `restarted`,
`wasActive`) as the local variables of `_provision_node_impl` do. `before`, `reached`, `faulty`, `unsure`
and `closing` are history for the properties, except that `closing` also says that a rollback's connection is
being closed.

| action | code |
|---|---|
| `CreateNode`, `RetryNode`, `MoveNode`, `ReadDelete`/`WriteDelete` | the node mutations; `Conflict` is the check of the endpoint |
| `TaskStarts` | the lock of the endpoint and the second look at the row |
| `ReadConfig`, `Stage` | the token found on the server is kept, replaced or refused (`TokenFor`, `Refused`); staging beside the targets |
| `BackUp`, `Install` | one item at a time, in the order of the code |
| `StoreToken`, `RestartService`, `Heartbeat`, `Complete`, `CleanUp` | the rest of an activation |
| `StepFails`, `NoHeartbeat`, `UndoStop`, `UndoItem`, `UndoToken`, `UndoService`, `Fails` | `rollback_activation`, item by item and in reverse |
| `UndoFails`, `ConnectionLost` | a rollback goes on after a failing step; nothing on the server can be undone without a connection |
| `Timeout`, `ConnectionCloses` | `provision_node`'s timeout at any step, also with an SSH request under way |
| `AgentRestarts`, `HubRestart` | systemd's `Restart=always`; a crash and the recovery in `database_bootstrap.py` |

### SshTransfers, SshTransfersProofs, MCSshTransfers

One server of the file manager. `free` is the value of `SSH_TRANSFER_SEMAPHORE` and `lock` the holder of each
`ssh_destination_lock`; `file` maps paths to contents, and a content is named after the request that wrote it.
`posix` says whether the server supports `posix-rename@openssh.com`. A request in `req` is a coroutine with its
staged file (`part`), the old file it moved away (`backup`) and what its rollback put aside (`aside`).

`Grant`/`Enter`, `GrantLock`/`EnterLocked` and `Leave` are `disconnect_aware_semaphore`: the acquisition
and the poll that notices it are two steps, and a client may leave between them. `Check` and `Copy` stage;
`Act` is rename and delete; `Stat`, `Place`, `Swap`, `Backup`, `Move` and `Remove` are
`finalize_sftp_file`, `UndoStat` to `UndoClean` its `rollback()`, `End` the `finally` blocks. `SftpFails`,
`ConnectionLost` and `Timeout` may strike at every step. A request is cancelled by its timeout once (`timedOut`); a timeout
during a rollback detaches it (`TimesOutInUndo`), and it then runs without the lock until `Disconnects` closes its connection.

### Maintenance, MCMaintenance, MaintenanceProofs

What the Hub keeps up for one node, `Home`: `online`, the nodes seen within `NODE_STALE_AFTER` (`fresh` says that
`Home` is one of them), `incidents`, the `tunnel`, `monitor` and `certificate` rows with their pending jobs (`checks`,
`orders`), `cycle` what the maintenance cycle has read before its first write, `desk` what an operator's request has
read before its own. A monitor is created on any node and may be moved to another one (`update_monitor_mutation`
writes `node_id`); its row then still names the job that the old node has. Hence a check is a record of the monitor and
the node it was queued for, an incident of a monitor is looked up by node and name (`Title`), and `Unsteady` bounds
which nodes fall silent.
No statement of the code relates the incidents of the node's silence, a resource, a tunnel and
a monitor to each other or to a certificate, so every behaviour follows one `subject` among the five.

| action | code |
|---|---|
| `Pulse`, `HeartbeatArrives`/`HeartbeatHandled` | `agent_pulse`; `agent_heartbeat`, whose dependency `agent_node` has read the node's name before |
| `HandleLiveness`, `HandleResource`, `HandleTunnel`, `HandleAbsence` | what a heartbeat does to incidents and tunnels; a tunnel is removed only by a fresh inventory |
| `CheckEnds`, `OrderEnds` | the monitor and certificate parts of `agent_job_result`; a check is dropped if its monitor has gone or is on another node by then (`AND node_id=?`) |
| `CycleReads`, `CycleWrites` | the part of `run_maintenance_cycle` about silent nodes |
| `CycleQueues` | its other part: `queue_due_monitors`, which skips a monitor whose node is silent or whose last job is pending, and the renewals |
| `ReadAction`/`WriteAction` | `incident_action_mutation`, which writes by id what it decided on an earlier read |
| `CreateMonitor`, `ReadEdit` with `WriteUpdate` or `WriteDelete`, `ReadRun`/`WriteRun` | the monitor mutations; an update may change name, node, secret and whether it is enabled |
| `ReadOrder`/`WriteOrder` | issue and renew, neither of which looks for a pending job |
| `RenameNode` | `update_node_mutation`: incidents are looked up by titles with the old or the new name |
| `GoSilent`, `ComesDue`, `WeeksPass`, `SecretIsLost` | time, and a secret that can no longer be decrypted |

An incident row carries `stray`, a history variable: an operator has revived it although its cause may be over, or it
was opened while an edit had already looked for what to resolve.

## 3. Runs

| run | instance | question | result |
|---|---|---|---|
| JobQueue | 2 nodes, 2 jobs, 2 attempts, 2 faults | `IInv`, `WorkersHoldTheirClaims`, `ResultsAreFinal`, `ImplementsService`, `EveryJobEnds` | holds, 509,000 states |
| Deployment | 1 handler at a time, 3 operator requests, 1 job cut short | `RollbackIsWarranted`, `RollbackVerdict`, `HalfFailedIsRolledBack`, `DeployedSideRuns`, `RemovedIsGone`, `RollbackEnds` | holds, 1.6 million |
| DeploymentRetry | 3 requests | `CompletedRunsOnBothNodes` | **violated** |
| DeploymentRemoval | 2 requests, 1 job cut short | `RemovedRunsNowhere` | **violated** |
| DeploymentOverlap | 2 handlers | `OnlyRunningJobsSettle` | **violated** |
| Fleet | 3 nodes, batches of 2, 1 Hub restart, 1 deletion | `CanaryFirst`, `BatchIsBounded`, `StopsOnFailure`, `VerdictMatchesItems`, `EndedIsQuiet`, `CompletedIsUpgraded`, `OperationEnds` | holds, 0.8 million |
| FleetVersion | 1 node | `VerificationIsExact` | **violated** |
| Provisioning | 2 rows, 2 servers, 1 program file, 2 attempts, 2 faults | `NothingIsLost`, `EnrolledStaysEnrolled`, `RollbackRestores`, `CompletedIsLive`, `AttemptEnds` | holds, 645,000 |
| ProvisioningTimeout | 1 row, 1 server, 1 fault | `TimeoutRestores` | **violated** |
| Transfers | 2 requests of every kind, 2 paths, up to 2 slots, 2 faults, 2 timeouts | `SlotsAreConserved`, `NoSilentReplacement`, `NothingIsLost`, `NoGap`, `DestinationSurvives`, `EveryRequestEnds` | holds, 577,000 |
| Maintenance | 5 subjects, 2 nodes of which one may fall silent, 2 names, 3 jobs, 3 incidents, 2 requests, 1 fault | `UnresolvedIsWrong`, `OneIncidentPerCause`, `CertificatesStayValid`, `Debounced`, `SilenceIsReported`, `SavedMonitorIsJudged` | holds, 922,000 |
| CertificateRenewal | 1 certificate, 1 failing renewal | `RenewalRecovers` | **violated** |

Every run of a whole module also checks its type invariant (`IInv` in the case of JobQueue). Each property of a
passing run comes with a mutant in the same module (the definitions whose comment
starts with "Mutant" or "(mutant of …)"): the definition changed as a plausible bug would change it, under
which TLC finds the property violated. Mutants are not part of any specification.

### What the passing runs show

- *Jobs.* Whatever is lost, repeated or late, a job that an Agent executes or
  reports is not handed out again, terminal rows do not change although `CommitResult` does not look at the
  status again, and everything ends once the faults stop. Overlapping handlers of one result write the
  same outcome twice, which is why finality survives the missing check; the deployment part is less lucky
  (DeploymentOverlap).
- *Deployments.* In every order of results, retries, reconfigurations and removals, a rollback
  is started exactly for half-failed active deployments, removes the side that completed, ends, and
  takes the verdict of its removal.
- *Fleet.* Neither cancelling, deleting nor restarting makes a rollout touch a
  second Agent before the canary's verdict, exceed the batch size, or go on after a failure; verdicts agree with
  the items although four different parties write them.
- *Provisioning.* At every instant of an activation what the server had is in its place or in its backup, so that a crash or a
  broken connection loses nothing; the server keeps an enrolled Agent's token, and the Hub keeps accepting it; a
  failed attempt restores files, environment and service, and the token unless another row has it by then;
  `completed` means that the Agent which runs is the one this attempt installed; and every attempt ends.
- *Transfers.* A slot is given back once whichever way a request ends. Between the first look at a destination and
  the rename that fills it another request may do anything to the path: no file is replaced unasked, and
  nothing vanishes except what was deleted, replaced by request or an upload that is being undone, and a failed
  overwrite leaves a file at its destination unless its connection or its rollback fails; paths on which a rollback works in
  the background are excepted.
- *Maintenance.* An unresolved incident has a cause that still holds as far as the Hub knows, and one cause has one,
  across acknowledgements, edits, renames and stale reads; flapping opens nothing; silence is reported; a monitor that
  was saved is judged whatever job was pending and wherever it was moved from, unless a node it waits for is silent; a certificate of a reachable node only expires after a renewal failed.

### What the violations show

`findings` has each with the line of the repository it contradicts:
a retry after a partly failed removal reports a deployment as completed that runs on one node; a removal from
the tunnel list does not wait for the jobs it replaces, one of which may run again afterwards; two overlapping attempts
to report one failure end a rollback before it ran; a heartbeat with a cached report of the old Agent fails the version
check of an upgraded one; a provisioning timeout that strikes a rename which the server still carries out, or the rollback itself,
leaves neither the previous nor the new Agent in place; and a certificate whose renewal failed once is never renewed
automatically again.

Some behaviour that surprises contradicts no line of the repository. The models have it, and the properties
leave it out in so many words:

- Nobody writes the lifecycle `removed` that readers of `plugin_deployments` expect, so that a removed deployment keeps its name.
- Renaming a node leaves its resource incidents under the old name, which no recovery resolves, and a silent
  node gets a second incident under its new one, which recovery does resolve (`UnresolvedIsWrong`).
- An acknowledgement written after the recovery revives an incident, and reopening does not look for another open one (`stray`).
- The result of a monitor job that was queued for an earlier configuration counts for the new one
  (`SavedMonitorIsJudged` asks for a verdict, not for a fresh one).
- A monitor that is moved away from a node with its job pending there waits for that node. If it is silent, and that may be
  why the monitor was moved, the job stays pending, the cycle skips the monitor (`maintenance_runtime.py:51-56`), a manual run is
  refused (`monitor_incident_service.py:122-127`), and the monitor is not judged until the old node is heard of again. If it is heard of,
  its result is dropped and the next cycle queues the monitor on the new node. `SavedMonitorIsJudged` excepts monitors that
  wait for a silent node, the old one included (`WaitsFor`).
- A Hub restart leaves the scheduled items of a rollout, and deleting a node may take the last open item of an operation: it stays
  `running` (`OperationEnds`).
- A rollback whose request has timed out goes on without its lock. If it restores the earlier file while the next holder is
  between its two renames, that one's own rollback may take the restored file for its own upload, put it aside and delete
  it (`Alone` in `NothingIsLost` and `DestinationSurvives`).
- A node that is offline for months comes back with an expired certificate, which is not renewed automatically
  (`WeeksPass` needs a reachable Agent).

### Bounds

- *Two nodes, two jobs* (JobQueue): the job queues of nodes do not interact except through the requeue, and
  two jobs are needed for the claim order, for an orphan beside a job and for a request of an old job
  beside a new one. *Two attempts* allow a repeated POST whose first copy is still on its way, *two faults* a
  lost answer and a restart in one behaviour. The safety properties are proved for all values.
- *Three operator requests, one row, one job cut short* (Deployment): deploy, remove and retry (or two
  reconfigurations) is the longest chain that reaches every lifecycle, and each further request starts from a
  lifecycle already reached. With one handler at a time (`OneThread`) the reads are not stale, which the run does not claim
  to cover; DeploymentOverlap uses two. The verdicts are proved for all values, as long as handlers do not overlap.
- *Three nodes in batches of two* (Fleet): a canary and a batch in which two tasks interleave. One restart
  and one deletion meet every phase. The safety properties are proved for all values.
- *Two rows, two servers, two attempts* (Provisioning): two attempts of one row or of two, on one server or two, with
  an Agent of the same row, of the other row, of another Hub or none at the start. One program file beside the configuration
  and the environment suffices: files are treated alike, in an order. *Two faults* are a failing step and one
  more during its rollback, or a timeout and a crash. The safety properties are proved for all values; that a rollback finds its
  earlier token with another row (`RollbackRestores`) takes three attempts, one more than the run has.
- *Two requests, two paths* (Transfers): overwriting, renaming and deleting on one path or across two; a slot that is
  free or taken. With two faults and two timeouts a rollback fails, is cut off or works in the background, each beside another
  request. The safety properties are proved for all values; that a rollback in the background harms another request's file
  (`Alone`) takes three requests, one more than the run has.
- *Maintenance*: one monitor, one certificate and one tunnel, one operator request at a time. *Two nodes* are where a monitor
  is and where it was moved from; one of them may fall silent (`Unsteady`), so that a silent node's pending job is met before and after
  a move in either direction. A monitor is born with one name and renamed by edits. *Three incidents*
  suffice for two of one cause and one of a former name; a fourth takes the place of a resolved one (`FreeSlot`). *Two requests*
  are a read-then-write request with another one before it. *Three jobs* let a certificate have two orders
  under way and a third one queued. Streaks stop counting at their highest threshold (`Capped`), and days left have
  four values (`Fresh`, within 30, within 14, 0), the ones the code tells apart. The safety properties are proved for all values.

Counters (`faults`, `timedOut`, `attempts`, `requests`, `ops`, `restarts`, `MaxRows`, `MaxDeletions`) are bounded in the guards of the
actions that count; nothing else is cut off. Deadlock is checked in JobQueue only: the other systems
rightly stop when the operators' requests are used up and everything has ended.

### Fairness

All of it is weak.

- *JobQueue, ManagedDeployment, FleetOperation:* the Agents' polling, renewing, posting and the end of their threads (a loop with
  `interval_seconds`, time-limited subprocesses, and systemd's `Restart=always`), the Hub's handlers, the maintenance cycle (a loop
  that logs errors and goes on) and the event loop's coroutines, whose installations end by `NODE_PROVISION_TIMEOUT` at
  the latest.
- *NodeProvisioning, SshTransfers:* a step of an attempt or of a request, since every SSH and SFTP request has a timeout,
  every wait for a heartbeat a limit, and a slot or lock in use belongs to such a request.
- *Maintenance:* the cycle, handlers that have begun, and results of pending jobs of a node while it is heard of (`EveryJobEnds`).
  Reports are not fair: an Agent may be silent for ever, and then its jobs have no result.

Operators are never fair: nobody has to submit, retry, cancel or delete. Faults are
bounded, not fair: `EveryJobEnds` is about what follows the last fault. That a job always raises is therefore out
of its scope (see `hazards`).

## 4. Proofs

TLAPS has checked the proofs for all values of the constants that satisfy the modules' assumptions.

| module | theorem | statement |
|---|---|---|
| JobQueueProofs | `Invariant` | `Spec => []IInv` |
| | `NoLostClaim` | `Spec => []WorkersHoldTheirClaims` |
| | `FinalResults` | `Spec => ResultsAreFinal` |
| | `Refinement` | `Spec => ImplementsService` (JobQueue implements JobService) |
| ManagedDeploymentProofs | `TypeCorrect` | `Spec => []TypeOK` |
| | `RollbacksAreWarranted` | `Spec /\ []Serial => []RollbackIsWarranted` |
| | `RollbackVerdictsAreRight` | `Spec /\ []Serial => []RollbackVerdict` |
| | `HalfFailedRollsBack` | `Spec /\ []Serial => []HalfFailedIsRolledBack` |
| | `RunningJobsSettle` | `Spec /\ []Serial => OnlyRunningJobsSettle` |
| | `DeployedRuns` | `Spec /\ []Serial /\ []OneRow => []DeployedSideRuns` |
| | `RemovedRunsNot` | `Spec /\ []Serial /\ []OneRow => []RemovedIsGone` |
| FleetOperationProofs | `CanaryGoesFirst` | `Spec => []CanaryFirst` |
| | `BatchesAreBounded` | `Spec => []BatchIsBounded` |
| | `RolloutStops` | `Spec => StopsOnFailure` |
| | `TypeCorrect` | `Spec => []TypeOK` |
| | `VerdictIsRight` | `Spec => []VerdictMatchesItems` |
| | `VerdictIsFinal` | `Spec => []EndedIsQuiet` |
| | `CompletedHasAgent` | `Spec => []CompletedIsUpgraded` |
| NodeProvisioningProofs | `TypeCorrect` | `Spec => []TypeOK` |
| | `NothingLost` | `Spec => []NothingIsLost` |
| | `StaysEnrolled` | `Spec => []EnrolledStaysEnrolled` |
| | `RollbackIsComplete` | `Spec => RollbackRestores` |
| | `CompletedRuns` | `Spec => CompletedIsLive` |
| SshTransfersProofs | `TypeCorrect` | `Spec => []TypeOK` |
| | `SlotConservation` | `Spec => []SlotsAreConserved` |
| | `ReplacementIsAsked` | `Spec => NoSilentReplacement` |
| | `NoGapOnReplace` | `Spec => NoGap` |
| | `NothingLost` | `Spec => NothingIsLost` |
| | `DestinationIsKept` | `Spec => DestinationSurvives` |
| MaintenanceProofs | `TypeCorrect` | `Spec => []TypeOK` |
| | `UnresolvedAreWrong` | `Spec => []UnresolvedIsWrong` |
| | `IncidentsAreUnique` | `Spec => []OneIncidentPerCause` |
| | `CertificatesAreKept` | `Spec => []CertificatesStayValid` |
| | `IncidentsAreDebounced` | `Spec => Debounced` |

The assumptions are the named ones of the modules, and they only say what sort of thing a constant is (bounds are numbers, a
name is not the absence of one), except `PeriodAssumption` of JobQueue. No theorem bounds how often anything happens: `MaxFaults`,
`MaxAttempts`, `MaxRestarts` and so on are any natural numbers. The two hypotheses on behaviours, `[]Serial`
and `[]OneRow`, are explained below.

**JobQueueProofs**: any set of nodes, any set of job ids in `Nat`, any number of attempts and faults, any periods with
`RenewTicks + PostTicks + RequestTicks < LeaseTicks`. `WorkersHoldTheirClaims` is not inductive: `Requeue` takes a row
as soon as its lease has run out, and nothing in the claim itself says that the holder is done by then. `IInv` adds the reason,
`LeaseCoversWork`: the age of a running row's lease is at most the holder's clock while it executes, at most
`RenewTicks` plus the clock while it posts, and at most `RenewTicks + PostTicks` plus its delay for a
request. With the period assumption this gives `ExpiredIsAbandoned`: a row whose lease has run out has neither
holder nor request. `RequestsAreCurrent` (a POST, however old, reports what the row's last claim produced) and
`ResultIsProduced` then carry `CommitResult`, which overwrites without checking: it can only write again what is there
(`FinalResults`). The refinement maps `claims` to `grants`; every step is a step of JobService or
a stutter, `CommitResult` being `Finish` or a stutter.
There is one lemma per action (`PollIInv`, `RenewIInv`, …), resting on frame lemmas for what an action leaves alone
(`TaskFrame`, `RequestFrame`, `HubFrame`).

**FleetOperationProofs**: any number of nodes, batch size, restarts and deletions. That only the canary
is touched at first does not follow from the items alone: it depends on where the orchestrator is. `IInv` says of an upgrade
that tasks, and items that run, belong to the batch at work (`BatchAtWork`), that during the first batch no other
Agent is touched and that a later batch means that the canary's item has ended (`CanaryAtWork`), and that between batches
nothing has failed if the rollout is to stop at a failure (`NoFailureYet`); `Roles` keeps playbooks and syncs, which use the
same items, apart. `LaterBatch` and `BatchSizes` are the arithmetic of the batches. A cancellation, a deletion and a restart
only move items to ends, which is why the three theorems survive them.

The verdict has an invariant of its own, `VInv`. `VerdictMatchesItems` fails to be inductive because four parties write items and
status independently; what connects them is that whatever is at work on a node shows in its item (`ItemsKnown`), what a task has done
to the Agent by each of its phases (`TaskKnown`), that a sync goes through the nodes in order and has touched none after the
one it is at (`SyncInOrder`), and that every item has ended when there is a verdict (`AllEnded`).

**SshTransfersProofs**: any finite set of requests, any non-empty set of paths, any number of slots, faults and timeouts. Every
action but `Arrive` is one request's step together with its settlement of the slot: `Makes(r, t)` says that the
request becomes `t`, that `t` is `Sound`, and that the semaphore changes by exactly the difference of the two states'
`Charge`. One lemma, `Conservation`, derives from this that slots are conserved; then it remains to show per action that
it is such a step. `Sound` has what the action properties need: a request about to place or swap has its staged file, one about
to swap was allowed to overwrite, and the swap over a backup happens only where the extension is missing. A rollback in the
background works without the lock, but its renames replace nothing either.

That nothing is lost rests on what a request knows of its destination, `LInv`: what it has of its own by each phase (the
lock, the staged file, the backup, what it put aside: `Known`), what may be at the destination while it has the lock
(`Found`) and when there must be a file (`There`). Others change a destination only with its lock, as a rename away from it, or from
the background (`Spares`); so `Found` holds where no rollback works in the background (`Alone`), and `There` where nobody
renames the destination as well. An earlier form of the two properties excepted only the background rollback itself. `Found` would
not go through for it: the file that a background rollback restores is met by the next holder of the lock. TLC then found
the behaviour, with three requests.

**NodeProvisioningProofs**: any rows, servers, number of program files, attempts and faults. The inductive invariant speaks of
one attempt at a time, which `Exclusive` permits: only one attempt holds the lock of a server's endpoint. `Position` says which
items an attempt has reached and installed in each phase, `ItemKept` where the earlier content of an item is and what is in its place,
depending on whether the rollback has come by already (`ToUndo`), `Tokens` and `Brings` which of the two tokens the row has and
which one the attempt brings, `ServiceKept` whether the service is as it was found. The
lemmas on steps come in three kinds: those of the attempt on its own server, those that another row's attempt takes on a
different server, and those of the rest of the world, which leave disks alone. The proof found an exception TLC's two
attempts cannot reach: the token that a rollback wants to give back to its row may by then be another row's (the column is UNIQUE, so the
UPDATE in `app.py` would fail); `RollbackRestores` says so.

**MaintenanceProofs**: any nodes, names, jobs, slots of incidents, requests and faults. What makes `UnresolvedIsWrong` and
`OneIncidentPerCause` hold together is that recovery looks incidents up by title and an opening looks for an open one by title.
`Right` says what an unresolved incident's cause and title are and that an edit that is under way has it on its list, `Paired` that there is no second
one unless revived, `ToBeReported` and `CycleKnows` that what the cycle has read before its first write is still so when it writes
(operators' requests commit in between; the reports of Agents do not, since their handlers and the cycle share the event loop), `Streaks` that the verdicts in a row are what the streak columns count, `Kept` that a certificate
being renewed has an order under way.

**ManagedDeploymentProofs**: any number of handlers, rows, requests and restarts of Agents. `TypeCorrect` holds
whatever the handlers do; with the job ids as indices it says that no row, job_task, orphan or handler refers to a job
that does not exist, and needs that a job_task with an outcome has a job (`WorkerKnows`).

The verdicts do not hold for overlapping handlers: every handler decides on what it has read before its transaction began, and
DeploymentOverlap is one of several counterexamples that TLC finds with two threads. They are proved under the
hypothesis `[]Serial`, that no two handlers are between their read and their write at the same moment. This is weaker than one
thread, it is true of the instance of run Deployment, and it is what `BEGIN IMMEDIATE` before the reads would establish in the code; so
`RunningJobsSettle`, about the very property that DeploymentOverlap violates, shows that the overlap
alone is to blame. The inductive `IInv` says that a job belongs to one side of one row (`RowRefers`, `RowsApart`), what each lifecycle says about the
row's jobs (`RowRight`), and that what a handler has read still holds when it writes (`StillHolds`), which is what `Serial` is for.

What runs on the nodes (`DeployedSideRuns`, `RemovedIsGone`, both about behaviours in which no job_task is cut short) needs
`[]OneRow` as well: a second deployment of the name can be made once the first is rolled back, and
removing or retrying the first one then acts on the same service. `NodesInv` adds to `IInv` that a node's jobs are executed in
the order of their ids (`InOrder`), that the running ones are those of the job_tasks (`JobTasks`), what a job_task that ended has left
installed (`Executed`), and that no later job of a node undoes what the row's last job has done (`SideRight`).

**Only model-checked:** all liveness (`EveryJobEnds`, `RollbackEnds`, `OperationEnds`, `AttemptEnds`, `EveryRequestEnds`,
`SilenceIsReported`, `SavedMonitorIsJudged`): TLAPS reasons neither about fairness nor about ENABLED. Every safety property of a
passing run is a theorem, those of ManagedDeployment under the hypotheses above. Induction over data and RECURSIVE operators
are out of reach of the installed provers; the modules use no recursion.

## 5. Not modelled

- Authentication, sessions and rate limits, rendering and the front end, queries, manifests and settings,
  byte relays (terminal, live sockets): no protocol state, or outside these questions.
- What an installer does on a node, beyond whether the tunnel's service runs afterwards; plugin downloads; hybrid deployments.
- The Hub lease between two processes (one Hub process is assumed), rollups and retention, the Agent's auto-heal.
- The transactions of the shell scripts that install and upgrade the Hub.
- JobQueue: deletion of rows after 90 days or with their node. ManagedDeployment: the checks that both nodes are
  online (taken as passed), node deletion, two rows of one name in the runs. FleetOperation: several operations at
  once, an operator's own INSTALL/SYNC AGENT beside a rollout. NodeProvisioning: unique names, the pinning of SSH host keys, what the
  staging commands do. SshTransfers: listing, reading, checksums, mkdir and chmod; several servers. Maintenance: notes, severities,
  notifications, DNS checks, certbot's lock; several operator requests at once.

## 6. Plan

Done: 1 JobService and JobQueue with their proofs; 2 ManagedDeployment; 3 FleetOperation;
4 NodeProvisioning; 5 Maintenance (incidents, monitors, liveness, certificates); 6 SshTransfers; the proofs of the safety
properties of all six.

Next, in this order:

7. FleetOperation as a client of NodeProvisioning: one attempt as a refinement of `Activate`, `InstallSucceeds` and `InstallFails`.
8. Small modules: HubLease, AutoHeal, the snapshot transactions of `upgrade.sh` and the file transaction of `realm_plugin`; hybrid
   deployments as a further instance of ManagedDeployment.
