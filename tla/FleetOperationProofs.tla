-------------------------- MODULE FleetOperationProofs --------------------------
(***************************************************************************)
(* What TLAPS proves about FleetOperation, for any number of nodes, batch  *)
(* size, restarts and deletions: the canary is upgraded alone and first,   *)
(* no batch exceeds its size, no Agent is touched after a failure if the   *)
(* rollout is to stop at one, and the verdict is that of the items: it     *)
(* comes when no task is at work any more, and a completed item has the    *)
(* Hub's Agent.                                                            *)
(***************************************************************************)
EXTENDS FleetOperation, FiniteSetTheorems, TLAPS

Statuses == {"none", "scheduled", "queued", "running"} \cup Terminal

Types ==
  /\ op \in [kind : {"none", "playbook", "sync_agent", "upgrade_agents"}, stop : BOOLEAN,
             status : {"none", "scheduled", "running"} \cup Terminal]
  /\ item \in [Nodes -> Statuses]
  /\ job \in [Nodes -> {"none", "pending", "ended"}]
  /\ task \in [Nodes -> {"none", "waiting", "activated", "seen", "ended"}]
  /\ orchestrator \in [phase : {"off", "check", "start", "wait"}, batch : Nat \ {0}]
  /\ cancel \in BOOLEAN

\* Who is at work for which kind of operation.
Roles ==
  /\ ~Upgrade => orchestrator.phase = "off"
  /\ \A i \in Nodes : job[i] = "pending" => op.kind = "playbook"
  /\ op.status = "scheduled" => op.kind = "playbook"
  /\ op.status = "none" => op.kind = "none" /\ ~cancel
  /\ op.kind = "none" => \A i \in Nodes : task[i] = "none"

\* Tasks belong to the current batch, and so do the items that run.
BatchAtWork ==
  /\ \A i \in Nodes : task[i] # "none" => orchestrator.phase = "wait" /\ i \in Batch(orchestrator.batch)
  /\ \A i \in Nodes : item[i] = "running" => task[i] # "none"

\* The first batch leaves the other nodes alone, and ends with the canary's item.
CanaryAtWork ==
  /\ orchestrator.batch = 1 => \A i \in Nodes \ {1} : item[i] \notin Touched
  /\ orchestrator.batch > 1 => item[1] \notin {"scheduled", "running"}
  /\ orchestrator.phase = "wait" => item[1] # "scheduled"

\* A batch is only begun when nothing has failed.
NoFailureYet ==
  op.stop /\ orchestrator.phase \in {"check", "start"} => \A i \in Nodes : item[i] # "failed"

IInv == Types /\ Roles /\ (Upgrade => BatchAtWork /\ CanaryAtWork /\ NoFailureYet)

-------------------------------------------------------------------------------
(* Batches *)

LEMMA LaterBatch ==
  ASSUME NEW k \in Nat, k > 1
  PROVE  1 \notin Batch(k)
<1>1. (k - 2) * BatchSize \in Nat
  <2>1. k - 2 \in Nat /\ BatchSize \in Nat
    BY SizeAssumption
  <2> QED
    BY <2>1
<1> DEFINE b == (k - 2) * BatchSize
<1>2. 1 < b + 2
  <2> HIDE DEF b
  <2>1. b \in Nat
    BY <1>1 DEF b
  <2> QED
    BY <2>1
<1> QED
  BY <1>2, SizeAssumption DEF Batch

LEMMA BatchSizes ==
  ASSUME NEW k \in Nat \ {0}
  PROVE  IsFiniteSet(Batch(k)) /\ Cardinality(Batch(k)) <= BatchSize
<1>1. CASE k = 1
  <2>1. IsFiniteSet({1}) /\ Cardinality({1}) = 1
    BY FS_Singleton
  <2> QED
    BY <1>1, <2>1, SizeAssumption DEF Batch
<1>2. CASE k # 1
  <2> DEFINE b == (k - 2) * BatchSize
             S == (b + 2) .. (b + 1 + BatchSize)
  <2>1. b \in Int
    BY SizeAssumption
  <2>2. (k - 1) * BatchSize = b + BatchSize
    BY SizeAssumption
  <2>3. Batch(k) \subseteq S
    <3>1. Batch(k) = {i \in Nodes : b + 2 <= i /\ i <= (k - 1) * BatchSize + 1}
      BY <1>2 DEF Batch
    <3> HIDE DEF b
    <3> QED
      BY <2>1, <2>2, <3>1, SizeAssumption DEF Nodes
  <2>4. IsFiniteSet(S) /\ Cardinality(S) = BatchSize
    <3> HIDE DEF b
    <3>1. b + 2 \in Int /\ b + 1 + BatchSize \in Int
      BY <2>1, SizeAssumption
    <3>2. Cardinality(S) = IF b + 2 > b + 1 + BatchSize THEN 0 ELSE (b + 1 + BatchSize) - (b + 2) + 1
      BY <3>1, FS_Interval
    <3> QED
      BY <2>1, <3>1, <3>2, FS_Interval, SizeAssumption
  <2> HIDE DEF S
  <2> QED
    BY <2>3, <2>4, FS_Subset
<1> QED
  BY <1>1, <1>2

LEMMA Finalizing ==
  ASSUME Types, NEW items
  PROVE  /\ Finalized(items).kind = op.kind /\ Finalized(items).stop = op.stop
         /\ Finalized(items).status \in {op.status} \cup Terminal
         /\ Finalized(items) \in [kind : {"none", "playbook", "sync_agent", "upgrade_agents"}, stop : BOOLEAN,
                                  status : {"none", "scheduled", "running"} \cup Terminal]
<1>1. Verdict(items) \in Terminal
  BY DEF Verdict, Terminal
<1> QED
  BY <1>1 DEF Types, Finalized

LEMMA InitIInv == Init => IInv
<1> SUFFICES ASSUME Init PROVE IInv
  OBVIOUS
<1>1. Types
  <2>1. op \in [kind : {"none", "playbook", "sync_agent", "upgrade_agents"}, stop : BOOLEAN,
               status : {"none", "scheduled", "running"} \cup Terminal]
    BY DEF Init
  <2>2. orchestrator \in [phase : {"off", "check", "start", "wait"}, batch : Nat \ {0}]
    BY DEF Init
  <2>3. item \in [Nodes -> Statuses] /\ job \in [Nodes -> {"none", "pending", "ended"}]
    BY DEF Init, Statuses
  <2>4. task \in [Nodes -> {"none", "waiting", "activated", "seen", "ended"}] /\ cancel \in BOOLEAN
    BY DEF Init
  <2> QED
    BY <2>1, <2>2, <2>3, <2>4 DEF Types
<1> QED
  BY <1>1 DEF Init, IInv, Roles, Upgrade

-------------------------------------------------------------------------------
(* Creating and cancelling *)

LEMMA PlaybookSteps ==
  ASSUME IInv, CreatePlaybook \/ QueueDue \/ \E i \in Nodes : JobEnds(i)
  PROVE  IInv'
<1>1. Types'
  <2>1. CASE CreatePlaybook
    BY <2>1 DEF CreatePlaybook, Rowed, IInv, Types, Statuses, rollout, operators
  <2>2. CASE QueueDue
    BY <2>2 DEF QueueDue, IInv, Types, Statuses, rollout, operators
  <2>3. ASSUME NEW i \in Nodes, JobEnds(i) PROVE Types'
    <3>1. PICK o \in {"completed", "failed"} :
            job' = [job EXCEPT ![i] = "ended"] /\ item' = [item EXCEPT ![i] = o] /\ op' = Finalized(item')
      BY <2>3 DEF JobEnds
    <3>2. item' \in [Nodes -> Statuses] /\ job' \in [Nodes -> {"none", "pending", "ended"}]
      BY <3>1 DEF IInv, Types, Statuses, Terminal
    <3> QED
      BY <2>3, <3>1, <3>2, Finalizing DEF JobEnds, IInv, Types, rollout, operators
  <2> QED
    BY <2>1, <2>2, <2>3
<1>2. op'.kind = "playbook" /\ op'.status # "none" /\ UNCHANGED <<task, orchestrator, cancel>>
  <2>1. CASE CreatePlaybook
    BY <2>1 DEF CreatePlaybook, IInv, Types, rollout, operators
  <2>2. CASE QueueDue
    BY <2>2 DEF QueueDue, IInv, Types, Roles, rollout, operators
  <2>3. ASSUME NEW i \in Nodes, JobEnds(i)
        PROVE  op'.kind = "playbook" /\ op'.status # "none" /\ UNCHANGED <<task, orchestrator, cancel>>
    <3>1. op.kind = "playbook" /\ op.status # "none" /\ op' = Finalized(item')
      BY <2>3 DEF JobEnds, IInv, Roles
    <3> QED
      BY <2>3, <3>1, Finalizing DEF JobEnds, IInv, Terminal, rollout, operators
  <2> QED
    BY <2>1, <2>2, <2>3
<1>3. orchestrator.phase = "off"
  BY DEF CreatePlaybook, QueueDue, JobEnds, IInv, Roles, Upgrade
<1> QED
  BY <1>1, <1>2, <1>3 DEF IInv, Roles, Upgrade

LEMMA CreateSteps ==
  ASSUME IInv, CreateSync \/ CreateUpgrade
  PROVE  IInv'
<1>1. op.kind = "none" /\ ~cancel /\ orchestrator.phase = "off" /\ \A i \in Nodes : job[i] # "pending" /\ task[i] = "none"
  BY DEF CreateSync, CreateUpgrade, IInv, Roles, Upgrade
<1>2. CASE CreateSync
  <2>1. Types'
    BY <1>2 DEF CreateSync, Rowed, IInv, Types, Statuses, operators
  <2>2. op'.kind = "sync_agent" /\ op'.status = "running"
    BY <1>2 DEF CreateSync, IInv, Types
  <2> QED
    BY <1>1, <1>2, <2>1, <2>2 DEF CreateSync, IInv, Roles, Upgrade, operators
<1>3. CASE CreateUpgrade
  <2>1. Types'
    BY <1>3 DEF CreateUpgrade, Rowed, IInv, Types, Statuses, operators
  <2>2. Roles'
    BY <1>1, <1>3 DEF CreateUpgrade, Roles, Upgrade, operators
  <2>3. /\ orchestrator' = [phase |-> "check", batch |-> 1] /\ task' = task
        /\ \A i \in Nodes : item'[i] \in {"none", "scheduled"}
    BY <1>3 DEF CreateUpgrade, Rowed
  <2>4. BatchAtWork' /\ CanaryAtWork' /\ NoFailureYet'
    BY <1>1, <2>3 DEF BatchAtWork, CanaryAtWork, NoFailureYet, Touched
  <2> QED
    BY <2>1, <2>2, <2>4 DEF IInv
<1> QED
  BY <1>2, <1>3

\* The cancelled items were only scheduled.
LEMMA CancelledItems ==
  ASSUME Types, Upgrade => BatchAtWork /\ CanaryAtWork, UNCHANGED <<task, orchestrator>>,
         item' = CancelScheduled, op'.kind = op.kind
  PROVE  item' \in [Nodes -> Statuses] /\ (Upgrade' => BatchAtWork' /\ CanaryAtWork')
<1>1. item' \in [Nodes -> Statuses]
  BY DEF Types, CancelScheduled, Statuses, Terminal
<1>2. \A i \in Nodes : item'[i] = item[i] \/ (item[i] = "scheduled" /\ item'[i] = "cancelled")
  BY DEF Types, CancelScheduled
<1>3. 1 \in Nodes
  BY SizeAssumption DEF Nodes
<1> QED
  BY <1>1, <1>2, <1>3 DEF BatchAtWork, CanaryAtWork, Touched, Upgrade

LEMMA CancelSteps ==
  ASSUME IInv, ReadCancel \/ WriteCancel
  PROVE  IInv'
<1>1. CASE ReadCancel
  BY <1>1 DEF ReadCancel, Cancellable, IInv, Types, Roles, BatchAtWork, CanaryAtWork, NoFailureYet, Upgrade, rollout
<1>2. CASE WriteCancel
  <2>1. op' = [op EXCEPT !.status = "cancelled"] /\ op'.kind = op.kind /\ op'.stop = op.stop /\ op'.status = "cancelled"
    BY <1>2 DEF WriteCancel, IInv, Types
  <2>2. item' \in [Nodes -> Statuses] /\ (Upgrade' => BatchAtWork' /\ CanaryAtWork')
    BY <1>2, <2>1, CancelledItems DEF WriteCancel, IInv, rollout
  <2>3. Types'
    BY <1>2, <2>1, <2>2 DEF WriteCancel, IInv, Types, Terminal, rollout
  <2>4. Roles'
    BY <1>2, <2>1 DEF WriteCancel, IInv, Roles, Upgrade, rollout
  <2>5. Upgrade' => NoFailureYet'
    BY <1>2, <2>1 DEF WriteCancel, IInv, Types, NoFailureYet, CancelScheduled, Upgrade, rollout
  <2> QED
    BY <2>2, <2>3, <2>4, <2>5 DEF IInv
<1> QED
  BY <1>1, <1>2

-------------------------------------------------------------------------------
(* The orchestrator *)

LEMMA BatchEnds ==
  ASSUME IInv, BatchIsDone
  PROVE  /\ Upgrade /\ orchestrator.phase = "wait"
         /\ \A i \in Nodes : item[i] # "running" /\ task[i] = "none"
         /\ item[1] \notin {"scheduled", "running"}
<1>1. 1 \in Nodes
  BY SizeAssumption DEF Nodes
<1> QED
  BY <1>1 DEF BatchIsDone, IInv, Roles, BatchAtWork, CanaryAtWork

LEMMA StartStep ==
  ASSUME IInv, OrchestratorStarts
  PROVE  IInv'
<1> DEFINE k == orchestrator.batch
<1>1. Upgrade /\ orchestrator.phase = "start" /\ k \in Nat \ {0} /\ 1 \in Nodes
  BY SizeAssumption DEF IInv, Roles, Types, Nodes, OrchestratorStarts
<1>2. /\ item' = [i \in Nodes |-> IF i \in Batch(k) \cap Rows(item) THEN "running" ELSE item[i]]
      /\ task' = [i \in Nodes |-> IF i \in Batch(k) THEN "waiting" ELSE task[i]]
      /\ orchestrator' = [orchestrator EXCEPT !.phase = "wait"]
      /\ UNCHANGED <<op, job, cancel>>
  BY DEF OrchestratorStarts, operators
<1>3. orchestrator'.phase = "wait" /\ orchestrator'.batch = k
  BY <1>2 DEF IInv, Types
<1>4. Types'
  BY <1>2 DEF IInv, Types, Statuses
<1>5. Roles'
  BY <1>1, <1>2 DEF IInv, Roles, Upgrade
<1>6. \A i \in Nodes : task[i] = "none" /\ item[i] # "running"
  BY <1>1 DEF IInv, BatchAtWork
<1>7. BatchAtWork'
  BY <1>2, <1>3, <1>6 DEF BatchAtWork
<1>8. CanaryAtWork'
  <2>1. k = 1 => 1 \in Batch(k) /\ \A i \in Nodes \ {1} : i \notin Batch(k)
    BY DEF Batch
  <2>2. k > 1 => 1 \notin Batch(k)
    BY <1>1, LaterBatch
  <2>3. k = 1 => item'[1] # "scheduled"
    BY <1>1, <1>2, <2>1 DEF Rows
  <2>4. k = 1 => \A i \in Nodes \ {1} : item'[i] \notin Touched
    BY <1>1, <1>2, <2>1 DEF IInv, CanaryAtWork
  <2>5. k > 1 => item'[1] \notin {"scheduled", "running"}
    BY <1>1, <1>2, <2>2 DEF IInv, CanaryAtWork
  <2>6. k = 1 \/ k > 1
    BY <1>1
  <2> HIDE DEF k
  <2> QED
    BY <1>3, <2>3, <2>4, <2>5, <2>6 DEF CanaryAtWork
<1> QED
  BY <1>3, <1>4, <1>5, <1>7, <1>8 DEF IInv, NoFailureYet

LEMMA OrchestratorSteps ==
  ASSUME IInv, OrchestratorChecks \/ OrchestratorStops \/ OrchestratorGoesOn
  PROVE  IInv'
<1>1. Upgrade
  BY DEF IInv, Roles, OrchestratorChecks, OrchestratorStops, OrchestratorGoesOn, BatchIsDone
<1>2. CASE OrchestratorChecks
  <2>1. PICK p \in {"start", "off"} : orchestrator' = [orchestrator EXCEPT !.phase = p]
    BY <1>2 DEF OrchestratorChecks
  <2>2. orchestrator'.batch = orchestrator.batch /\ orchestrator'.phase \in {"start", "off"}
    BY <2>1 DEF IInv, Types
  <2>3. orchestrator.phase = "check" /\ UNCHANGED <<op, item, job, task, cancel>>
    BY <1>2 DEF OrchestratorChecks, operators
  <2>4. Types' /\ Roles'
    BY <1>1, <2>1, <2>3 DEF IInv, Types, Roles, Upgrade
  <2>5. BatchAtWork' /\ CanaryAtWork' /\ NoFailureYet'
    BY <1>1, <2>2, <2>3 DEF IInv, BatchAtWork, CanaryAtWork, NoFailureYet
  <2> QED
    BY <2>4, <2>5 DEF IInv
<1>3. CASE OrchestratorStops
  <2>1. /\ item' = CancelScheduled /\ op' = Finalized(item')
        /\ orchestrator' = [orchestrator EXCEPT !.phase = "off"] /\ UNCHANGED <<job, task, cancel>>
    BY <1>3 DEF OrchestratorStops, operators
  <2>2. orchestrator'.batch = orchestrator.batch /\ orchestrator'.phase = "off"
    BY <2>1 DEF IInv, Types
  <2>3. /\ op'.kind = op.kind /\ op'.stop = op.stop /\ op'.status \in {op.status} \cup Terminal
        /\ op' \in [kind : {"none", "playbook", "sync_agent", "upgrade_agents"}, stop : BOOLEAN,
                    status : {"none", "scheduled", "running"} \cup Terminal]
    BY <2>1, Finalizing DEF IInv
  <2>4. Types'
    BY <2>1, <2>3 DEF IInv, Types, CancelScheduled, Statuses, Terminal
  <2>5. Roles'
    BY <1>1, <2>1, <2>3 DEF IInv, Roles, Upgrade, Terminal
  <2>6. /\ \A i \in Nodes : item'[i] # "running" /\ task'[i] = "none"
        /\ \A i \in Nodes : item'[i] \in Touched => item[i] = item'[i]
        /\ item'[1] \notin {"scheduled", "running"}
    BY <1>3, <2>1, BatchEnds, SizeAssumption DEF OrchestratorStops, CancelScheduled, Touched, Nodes
  <2>7. BatchAtWork' /\ CanaryAtWork' /\ NoFailureYet'
    BY <1>1, <2>2, <2>6 DEF IInv, BatchAtWork, CanaryAtWork, NoFailureYet
  <2> QED
    BY <2>4, <2>5, <2>7 DEF IInv
<1>4. CASE OrchestratorGoesOn
  <2>1. UNCHANGED <<op, item, job, task, cancel>> /\ BatchIsDone
    BY <1>4 DEF OrchestratorGoesOn, operators
  <2>2. op.stop => \A i \in Nodes : item[i] # "failed"
    BY <1>4 DEF OrchestratorGoesOn, MustStop
  <2>3. CASE orchestrator' = [phase |-> "check", batch |-> orchestrator.batch + 1]
    <3>1. Types' /\ Roles'
      BY <1>1, <2>1, <2>3 DEF IInv, Types, Roles, Upgrade
    <3>2. orchestrator'.batch > 1 /\ orchestrator'.phase = "check" /\ orchestrator'.batch # 1
      BY <2>3 DEF IInv, Types
    <3>3. BatchAtWork' /\ CanaryAtWork' /\ NoFailureYet'
      BY <2>1, <2>2, <3>2, BatchEnds DEF BatchAtWork, CanaryAtWork, NoFailureYet
    <3> QED
      BY <3>1, <3>3 DEF IInv
  <2>4. CASE orchestrator' = [orchestrator EXCEPT !.phase = "off"]
    <3>1. Types' /\ Roles'
      BY <1>1, <2>1, <2>4 DEF IInv, Types, Roles, Upgrade
    <3>2. orchestrator'.batch = orchestrator.batch /\ orchestrator'.phase = "off"
      BY <2>4 DEF IInv, Types
    <3>3. BatchAtWork' /\ CanaryAtWork' /\ NoFailureYet'
      BY <1>1, <2>1, <3>2, BatchEnds DEF IInv, BatchAtWork, CanaryAtWork, NoFailureYet
    <3> QED
      BY <3>1, <3>3 DEF IInv
  <2> QED
    BY <1>4, <2>3, <2>4 DEF OrchestratorGoesOn
<1> QED
  BY <1>2, <1>3, <1>4

-------------------------------------------------------------------------------
(* Nodes, operators and the Hub *)

Quiet(i) ==
  \/ TaskSkips(i) \/ Activate(i) \/ Pulse(i) \/ Heartbeat(i) \/ Collect(i)
  \/ InstallSucceeds(i) \/ InstallFails(i) \/ ReadDelete(i)

LEMMA QuietFrame ==
  ASSUME IInv, NEW i \in Nodes, Quiet(i)
  PROVE  /\ UNCHANGED <<op, item, job, orchestrator, cancel>>
         /\ task' \in [Nodes -> {"none", "waiting", "activated", "seen", "ended"}]
         /\ \A k \in Nodes : task'[k] = "none" <=> task[k] = "none"
<1>1. UNCHANGED <<op, item, job, orchestrator, cancel>>
  BY DEF Quiet, TaskSkips, Activate, Pulse, Heartbeat, Collect, InstallSucceeds, InstallFails, ReadDelete,
     rollout, operators
<1>2. \/ task' = task
      \/ task[i] # "none" /\ \E p \in {"activated", "seen", "ended"} : task' = [task EXCEPT ![i] = p]
  BY DEF Quiet, TaskSkips, Activate, Pulse, Heartbeat, Seen, Collect, InstallSucceeds, InstallFails, ReadDelete,
     rollout
<1>3. task \in [Nodes -> {"none", "waiting", "activated", "seen", "ended"}]
  BY DEF IInv, Types
<1> QED
  BY <1>1, <1>2, <1>3

LEMMA QuietSteps ==
  ASSUME IInv, NEW i \in Nodes, Quiet(i)
  PROVE  IInv'
<1>1. Types' /\ Roles'
  BY QuietFrame DEF IInv, Types, Roles, Upgrade
<1>2. Upgrade' => BatchAtWork' /\ CanaryAtWork' /\ NoFailureYet'
  BY QuietFrame DEF IInv, BatchAtWork, CanaryAtWork, NoFailureYet, Upgrade
<1> QED
  BY <1>1, <1>2 DEF IInv

LEMMA TaskEndStep ==
  ASSUME IInv, NEW i \in Nodes, TaskEnds(i)
  PROVE  IInv'
<1>1. /\ task[i] = "ended" /\ task' = TasksAfter(i) /\ UNCHANGED <<job, orchestrator, cancel>>
      /\ \/ op' = Finalized(item') /\ \E o \in {"completed", "failed"} : item' = [item EXCEPT ![i] = o]
         \/ op' = op /\ item' = item /\ item[i] = "none"
  BY DEF TaskEnds, Rows, operators
<1>2. item' \in [Nodes -> Statuses] /\ task' \in [Nodes -> {"none", "waiting", "activated", "seen", "ended"}]
  BY <1>1 DEF IInv, Types, Statuses, Terminal, TasksAfter
<1>3. /\ op'.kind = op.kind /\ op'.stop = op.stop /\ op'.status \in {op.status} \cup Terminal
      /\ op' \in [kind : {"none", "playbook", "sync_agent", "upgrade_agents"}, stop : BOOLEAN,
                  status : {"none", "scheduled", "running"} \cup Terminal]
  BY <1>1, Finalizing DEF IInv, Types
<1>4. Types'
  BY <1>1, <1>2, <1>3 DEF IInv, Types
<1>5. Roles'
  BY <1>1, <1>3 DEF IInv, Roles, Upgrade, Terminal
<1>6. ASSUME Upgrade PROVE BatchAtWork' /\ CanaryAtWork' /\ NoFailureYet'
  <2>1. /\ orchestrator.phase = "wait" /\ i \in Batch(orchestrator.batch)
        /\ orchestrator.batch \in Nat \ {0} /\ 1 \in Nodes
    BY <1>1, <1>6, SizeAssumption DEF IInv, BatchAtWork, Types, Nodes
  <2>2. \A k \in Nodes : task'[k] = IF k = i THEN "none" ELSE task[k]
    BY <1>1, <1>6 DEF TasksAfter, Upgrade
  <2>3. /\ \A k \in Nodes \ {i} : item'[k] = item[k]
        /\ item'[i] \in {"none", "completed", "failed"}
    BY <1>1 DEF IInv, Types
  <2>4. BatchAtWork'
    BY <1>1, <1>6, <2>2, <2>3 DEF IInv, BatchAtWork
  <2>5. orchestrator.batch = 1 => i = 1
    BY <2>1 DEF Batch
  <2>6. CanaryAtWork'
    BY <1>1, <1>6, <2>1, <2>3, <2>5 DEF IInv, CanaryAtWork, Touched
  <2> QED
    BY <1>1, <2>1, <2>4, <2>6 DEF NoFailureYet
<1> QED
  BY <1>3, <1>4, <1>5, <1>6 DEF IInv, Upgrade

LEMMA DeleteStep ==
  ASSUME IInv, NEW i \in Nodes, WriteDelete(i)
  PROVE  IInv'
<1>1. /\ item' = [item EXCEPT ![i] = "none"] /\ job' = [job EXCEPT ![i] = "none"]
      /\ UNCHANGED <<op, task, orchestrator, cancel>>
  BY DEF WriteDelete
<1>2. Types'
  BY <1>1 DEF IInv, Types, Statuses
<1>3. Roles'
  BY <1>1 DEF IInv, Types, Roles, Upgrade
<1>4. \A k \in Nodes : item'[k] \in {item[k], "none"}
  BY <1>1 DEF IInv, Types
<1>5. Upgrade' => BatchAtWork' /\ CanaryAtWork' /\ NoFailureYet'
  BY <1>1, <1>4, SizeAssumption DEF IInv, BatchAtWork, CanaryAtWork, NoFailureYet, Upgrade, Touched, Nodes
<1> QED
  BY <1>2, <1>3, <1>5 DEF IInv

LEMMA RestartStep ==
  ASSUME IInv, HubRestart
  PROVE  IInv'
<1>1. /\ item' = [i \in Nodes |-> IF item[i] = "running" THEN "failed" ELSE item[i]]
      /\ op' = (IF op.status = "running" THEN Finalized(item') ELSE op)
      /\ task' = [i \in Nodes |-> "none"] /\ job' = job /\ cancel' = FALSE
      /\ orchestrator' = [orchestrator EXCEPT !.phase = "off"]
  BY DEF HubRestart
<1>2. orchestrator'.phase = "off" /\ orchestrator'.batch = orchestrator.batch
  BY <1>1 DEF IInv, Types
<1>3. /\ op'.kind = op.kind /\ op'.stop = op.stop /\ op'.status \in {op.status} \cup Terminal
      /\ op' \in [kind : {"none", "playbook", "sync_agent", "upgrade_agents"}, stop : BOOLEAN,
                  status : {"none", "scheduled", "running"} \cup Terminal]
  BY <1>1, Finalizing DEF IInv, Types
<1>4. Types'
  <2>1. item' \in [Nodes -> Statuses]
    BY <1>1 DEF IInv, Types, Statuses, Terminal
  <2> QED
    BY <1>1, <1>3, <2>1 DEF IInv, Types
<1>5. Roles'
  BY <1>1, <1>2, <1>3 DEF IInv, Roles, Terminal
<1>6. ASSUME Upgrade PROVE BatchAtWork' /\ CanaryAtWork' /\ NoFailureYet'
  <2>1. /\ \A i \in Nodes : item'[i] # "running" /\ task'[i] = "none"
        /\ \A i \in Nodes : item'[i] = item[i] \/ (item[i] = "running" /\ item'[i] = "failed")
    BY <1>1 DEF IInv, Types
  <2> QED
    BY <1>2, <1>6, <2>1, SizeAssumption DEF IInv, BatchAtWork, CanaryAtWork, NoFailureYet, Touched, Nodes
<1> QED
  BY <1>3, <1>4, <1>5, <1>6 DEF IInv, Upgrade

LEMMA NextIInv == IInv /\ [Next]_vars => IInv'
<1> SUFFICES ASSUME IInv, [Next]_vars PROVE IInv'
  OBVIOUS
<1>1. CASE UNCHANGED vars
  BY <1>1 DEF vars, IInv, Types, Roles, BatchAtWork, CanaryAtWork, NoFailureYet, Upgrade
<1>2. ASSUME NEW i \in Nodes, \/ TaskSkips(i) \/ Activate(i) \/ Pulse(i) \/ Heartbeat(i) \/ Collect(i)
                              \/ InstallSucceeds(i) \/ InstallFails(i) \/ ReadDelete(i)
                              \/ TaskEnds(i) \/ WriteDelete(i)
      PROVE  IInv'
  BY <1>2, QuietSteps, TaskEndStep, DeleteStep DEF Quiet
<1> QED
  BY <1>1, <1>2, PlaybookSteps, CreateSteps, CancelSteps, StartStep, OrchestratorSteps, RestartStep DEF Next

-------------------------------------------------------------------------------
(* The theorems *)

LEMMA Inductive == Spec => []IInv
BY InitIInv, NextIInv, PTL DEF Spec

\* No other Agent is touched before the canary's item has ended, whatever is cancelled, deleted
\* or restarted meanwhile (orchestrate_agent_upgrade).
THEOREM CanaryGoesFirst == Spec => []CanaryFirst
<1>1. IInv => CanaryFirst
  BY DEF IInv, Types, CanaryAtWork, CanaryFirst
<1> QED
  BY <1>1, Inductive, PTL

\* Never more items run than the batch size of a rollout allows (orchestrate_agent_upgrade).
THEOREM BatchesAreBounded == Spec => []BatchIsBounded
<1>1. ASSUME IInv, Upgrade
      PROVE  Cardinality({i \in Nodes : item[i] = "running"}) <= BatchSize
  <2> DEFINE R == {i \in Nodes : item[i] = "running"}
             B == Batch(orchestrator.batch)
  <2>1. R \subseteq B
    BY <1>1 DEF IInv, BatchAtWork
  <2>2. IsFiniteSet(B) /\ Cardinality(B) <= BatchSize
    BY <1>1, BatchSizes DEF IInv, Types
  <2>3. IsFiniteSet(R) /\ Cardinality(R) <= Cardinality(B)
    <3> HIDE DEF R, B
    <3> QED
      BY <2>1, <2>2, FS_Subset
  <2>4. Cardinality(R) \in Nat /\ Cardinality(B) \in Nat /\ BatchSize \in Nat
    BY <2>2, <2>3, FS_CardinalityType, SizeAssumption
  <2> HIDE DEF R, B
  <2> QED
    BY <2>2, <2>3, <2>4 DEF R
<1>2. IInv => BatchIsBounded
  BY <1>1 DEF BatchIsBounded
<1> QED
  BY <1>2, Inductive, PTL

LEMMA StepStops ==
  ASSUME IInv, Next, Upgrade, op.stop, NEW f \in Nodes, item[f] = "failed",
         NEW i \in Nodes, item'[i] = "running"
  PROVE  item[i] = "running"
<1>1. CASE CreatePlaybook \/ CreateSync \/ CreateUpgrade \/ QueueDue \/ OrchestratorStarts
  BY <1>1 DEF CreatePlaybook, CreateSync, CreateUpgrade, QueueDue, OrchestratorStarts, IInv, Roles,
     NoFailureYet, Upgrade
<1>2. CASE WriteCancel \/ OrchestratorStops
  BY <1>2 DEF WriteCancel, OrchestratorStops, CancelScheduled
<1>3. CASE ReadCancel \/ OrchestratorChecks \/ OrchestratorGoesOn
  BY <1>3 DEF ReadCancel, OrchestratorChecks, OrchestratorGoesOn
<1>4. CASE HubRestart
  BY <1>4 DEF HubRestart
<1>5. ASSUME NEW k \in Nodes, JobEnds(k) \/ TaskEnds(k) \/ WriteDelete(k) PROVE item[i] = "running"
  <2>1. item' = item \/ \E o \in {"completed", "failed", "none"} : item' = [item EXCEPT ![k] = o]
    BY <1>5 DEF JobEnds, TaskEnds, WriteDelete
  <2> QED
    BY <2>1 DEF IInv, Types
<1>6. ASSUME NEW k \in Nodes, Quiet(k) PROVE item[i] = "running"
  BY <1>6, QuietFrame
<1> QED
  BY <1>1, <1>2, <1>3, <1>4, <1>5, <1>6 DEF Next, Quiet

\* A rollout that is to stop at a failure touches no further Agent after one.
THEOREM RolloutStops == Spec => StopsOnFailure
<1> DEFINE A == (Upgrade /\ op.stop /\ \E i \in Nodes : item[i] = "failed")
                  => \A i \in Nodes : item'[i] = "running" => item[i] = "running"
<1>1. IInv /\ [Next]_vars => [A]_vars
  BY StepStops DEF vars
<1> QED
  BY <1>1, Inductive, PTL DEF Spec, StopsOnFailure

-------------------------------------------------------------------------------
(* Items, tasks and the verdict *)

AllTypes ==
  /\ orchestrator.batch \in 1 .. Batches
  /\ provision \in [Nodes -> {"none", "provisioning", "completed", "failed"}]
  /\ agent \in [Nodes -> [running : Versions, cached : Versions, reported : Versions]]
  /\ deleting \subseteq Nodes
  /\ deleted \subseteq Nodes
  /\ restarts \in 0 .. MaxRestarts

\* Nodes have a row in the operation until they are deleted, and what is at work on a node
\* shows in its item.
ItemsKnown ==
  /\ \A i \in deleted : item[i] = "none" /\ provision[i] = "none"
  /\ op.kind # "none" => \A i \in Nodes : item[i] = "none" => i \in deleted
  /\ op.kind = "playbook" => \A i \in Nodes : task[i] = "none"
  /\ \A i \in Nodes : job[i] = "pending" => item[i] = "queued"
  /\ \A i \in Nodes : task[i] # "none" /\ i \notin deleted => item[i] = "running"
  /\ orchestrator.phase = "start" => op.status \in {"running", "cancelled"}

\* A task at work has not been completed yet, and a completed one has installed the Hub's Agent.
TaskKnown(i) ==
  /\ task[i] \in {"waiting", "activated", "seen"} => provision[i] # "completed"
  /\ task[i] \in {"activated", "seen"} => agent[i].running = "hub"
  /\ task[i] = "ended" /\ provision[i] = "completed" => agent[i].running = "hub"

\* A sync has not come to the nodes after the one that it is at.
SyncInOrder ==
  op.kind = "sync_agent" =>
    \A i, k \in Nodes : task[i] # "none" /\ i < k =>
      task[k] = "none" /\ provision[k] # "completed" /\ (k \in deleted \/ item[k] = "running")

\* With a verdict every item has ended.
AllEnded == op.status \in {"completed", "failed"} => \A i \in Rows(item) : item[i] \in Terminal

VInv ==
  /\ AllTypes
  /\ ItemsKnown
  /\ \A i \in Nodes : TaskKnown(i)
  /\ SyncInOrder
  /\ AllEnded
  /\ VerdictMatchesItems
  /\ EndedIsQuiet
  /\ CompletedIsUpgraded

LEMMA BatchCount == Batches \in Nat \ {0}
<1> DEFINE n == Total - 1 + BatchSize - 1
<1>1. n \in Nat /\ BatchSize \in Nat \ {0}
  BY SizeAssumption
<1> HIDE DEF n
<1>2. n \div BatchSize \in Nat
  BY <1>1
<1> QED
  BY <1>2 DEF Batches, n

LEMMA InitVInv == Init => VInv
<1> SUFFICES ASSUME Init PROVE VInv
  OBVIOUS
<1>1. AllTypes
  <2>1. orchestrator.batch \in 1 .. Batches
    BY BatchCount DEF Init
  <2>2. agent \in [Nodes -> [running : Versions, cached : Versions, reported : Versions]]
    BY DEF Init, Versions
  <2>3. 0 \in 0 .. MaxRestarts
    BY BoundAssumption
  <2> QED
    BY <2>1, <2>2, <2>3 DEF Init, AllTypes
<1>2. /\ op.kind = "none" /\ op.status = "none" /\ orchestrator.phase = "off" /\ deleted = {}
      /\ \A i \in Nodes : item[i] = "none" /\ job[i] = "none" /\ task[i] = "none"
  BY DEF Init
<1> QED
  BY <1>1, <1>2 DEF VInv, ItemsKnown, TaskKnown, SyncInOrder, AllEnded, VerdictMatchesItems, EndedIsQuiet,
     CompletedIsUpgraded

\* What finalize_fleet_operation makes of the operation.
LEMMA VerdictIs ==
  ASSUME Types, NEW items
  PROVE  \/ Finalized(items) = op
         \/ /\ \A i \in Rows(items) : items[i] \in Terminal
            /\ Finalized(items).status = "completed" => \A i \in Rows(items) : items[i] = "completed"
            /\ Finalized(items).status = "failed" => \E i \in Rows(items) : items[i] = "failed"
<1>1. CASE Rows(items) # {} /\ \A i \in Rows(items) : items[i] \in Terminal
  <2>1. Finalized(items).status = Verdict(items)
    BY <1>1 DEF Finalized, Types
  <2>2. Verdict(items) = "completed" => \A i \in Rows(items) : items[i] = "completed"
    BY <1>1 DEF Verdict, Terminal
  <2>3. Verdict(items) = "failed" => \E i \in Rows(items) : items[i] = "failed"
    BY DEF Verdict
  <2> QED
    BY <1>1, <2>1, <2>2, <2>3
<1>2. CASE ~(Rows(items) # {} /\ \A i \in Rows(items) : items[i] \in Terminal)
  BY <1>2 DEF Finalized
<1> QED
  BY <1>1, <1>2

\* A step that changes no item that has ended keeps the verdict true.
LEMMA VerdictStays ==
  ASSUME Types, VInv, op' = op \/ op' = Finalized(item'), UNCHANGED deleted,
         \A i \in Nodes : item'[i] = item[i] \/ item[i] \notin Terminal \cup {"none"}
  PROVE  AllEnded' /\ VerdictMatchesItems'
<1>1. CASE op' = op
  <2>1. op.status \in {"completed", "failed"} => \A i \in Nodes : item'[i] = item[i]
    BY DEF VInv, AllEnded, Rows
  <2> QED
    BY <1>1, <2>1 DEF VInv, AllEnded, VerdictMatchesItems, Rows
<1>2. CASE op' # op
  <2>1. /\ \A i \in Rows(item)' : item'[i] \in Terminal
        /\ op'.status = "completed" => \A i \in Rows(item)' : item'[i] = "completed"
        /\ op'.status = "failed" => \E i \in Rows(item)' : item'[i] = "failed"
    BY <1>2, VerdictIs DEF Rows
  <2> QED
    BY <2>1 DEF AllEnded, VerdictMatchesItems, Rows
<1> QED
  BY <1>1, <1>2

LEMMA CreatingVInv ==
  ASSUME IInv, VInv, CreatePlaybook \/ CreateSync \/ CreateUpgrade
  PROVE  VInv'
<1>1. /\ op.kind = "none" /\ deleted = {} /\ orchestrator.phase = "off"
      /\ \A i \in Nodes : task[i] = "none" /\ job[i] # "pending"
      /\ UNCHANGED <<job, agent, cancel, deleting, deleted, restarts>>
  BY DEF CreatePlaybook, CreateSync, CreateUpgrade, IInv, Roles, Upgrade, rollout, operators
<1>2. 1 \in Nodes /\ task \in [Nodes -> {"none", "waiting", "activated", "seen", "ended"}]
  BY SizeAssumption DEF Nodes, IInv, Types
<1>3. CASE CreatePlaybook
  <2>1. /\ op'.kind = "playbook" /\ op'.status = "scheduled" /\ UNCHANGED <<provision, task, orchestrator>>
        /\ \A i \in Nodes : item'[i] = "scheduled"
    BY <1>1, <1>3 DEF CreatePlaybook, Rowed, Existing, IInv, Types, rollout
  <2> QED
    BY <1>1, <2>1 DEF VInv, AllTypes, ItemsKnown, TaskKnown, SyncInOrder, AllEnded, VerdictMatchesItems,
       EndedIsQuiet, CompletedIsUpgraded
<1>4. CASE CreateSync
  <2>1. /\ op'.kind = "sync_agent" /\ op'.status = "running" /\ UNCHANGED orchestrator
        /\ provision' = [i \in Nodes |-> "provisioning"]
        /\ \A i \in Nodes : item'[i] = "running"
        /\ \A i \in Nodes : task'[i] = IF i = 1 THEN "waiting" ELSE "none"
    BY <1>1, <1>2, <1>4 DEF CreateSync, Rowed, Existing, IInv, Types
  <2> QED
    BY <1>1, <2>1 DEF VInv, AllTypes, ItemsKnown, TaskKnown, SyncInOrder, AllEnded, VerdictMatchesItems,
       EndedIsQuiet, CompletedIsUpgraded, Nodes
<1>5. CASE CreateUpgrade
  <2>1. /\ op'.kind = "upgrade_agents" /\ op'.status = "running" /\ UNCHANGED <<provision, task>>
        /\ orchestrator' = [phase |-> "check", batch |-> 1]
        /\ \A i \in Nodes : item'[i] = "scheduled"
    BY <1>1, <1>5 DEF CreateUpgrade, Rowed, Existing
  <2> QED
    BY <1>1, <2>1, BatchCount DEF VInv, AllTypes, ItemsKnown, TaskKnown, SyncInOrder, AllEnded,
       VerdictMatchesItems, EndedIsQuiet, CompletedIsUpgraded
<1> QED
  BY <1>3, <1>4, <1>5

LEMMA PlaybookVInv ==
  ASSUME IInv, VInv, QueueDue \/ \E i \in Nodes : JobEnds(i)
  PROVE  VInv'
<1>1. op.kind = "playbook" /\ \A i \in Nodes : task[i] = "none"
  BY DEF QueueDue, JobEnds, IInv, Roles, VInv, ItemsKnown
<1>2. UNCHANGED <<provision, task, agent, orchestrator, cancel, deleting, deleted, restarts>>
  BY DEF QueueDue, JobEnds, rollout, operators
<1>3. CASE QueueDue
  <2>1. /\ op'.kind = "playbook" /\ op'.status = "running"
        /\ \A i \in Nodes : item'[i] = IF item[i] # "none" THEN "queued" ELSE "none"
        /\ \A i \in Nodes : job'[i] = IF item[i] # "none" THEN "pending" ELSE "none"
    BY <1>1, <1>3 DEF QueueDue, Rows, IInv, Types
  <2>2. orchestrator.phase = "off"
    BY <1>1 DEF IInv, Roles, Upgrade
  <2> QED
    BY <1>1, <1>2, <2>1, <2>2 DEF VInv, AllTypes, ItemsKnown, TaskKnown, SyncInOrder, AllEnded, VerdictMatchesItems,
       EndedIsQuiet, CompletedIsUpgraded
<1>4. ASSUME NEW i \in Nodes, JobEnds(i)
      PROVE  VInv'
  <2>1. PICK o \in {"completed", "failed"} :
          /\ job' = [job EXCEPT ![i] = "ended"] /\ item' = [item EXCEPT ![i] = o] /\ op' = Finalized(item')
          /\ job[i] = "pending"
    BY <1>4 DEF JobEnds
  <2>2. item[i] = "queued" /\ i \notin deleted
    BY <2>1 DEF VInv, ItemsKnown
  <2>3. /\ op'.kind = "playbook" /\ orchestrator.phase = "off"
        /\ \A k \in Nodes : item'[k] = (IF k = i THEN o ELSE item[k])
        /\ \A k \in Nodes : job'[k] = "pending" => job[k] = "pending" /\ k # i
    BY <1>1, <2>1, Finalizing DEF IInv, Types, Roles, Upgrade
  <2>4. AllEnded' /\ VerdictMatchesItems'
    BY <1>2, <2>1, <2>2, <2>3, VerdictStays DEF IInv, Terminal
  <2> QED
    BY <1>1, <1>2, <2>2, <2>3, <2>4 DEF VInv, AllTypes, ItemsKnown, TaskKnown, SyncInOrder,
       EndedIsQuiet, CompletedIsUpgraded
<1> QED
  BY <1>3, <1>4

LEMMA CancelVInv ==
  ASSUME IInv, VInv, ReadCancel \/ WriteCancel
  PROVE  VInv'
<1>1. UNCHANGED <<job, provision, task, agent, orchestrator, deleting, deleted, restarts>>
  BY DEF ReadCancel, WriteCancel, rollout
<1>2. CASE ReadCancel
  <2>1. UNCHANGED <<op, item>>
    BY <1>2 DEF ReadCancel
  <2> QED
    BY <1>1, <2>1 DEF VInv, AllTypes, ItemsKnown, TaskKnown, SyncInOrder, AllEnded, VerdictMatchesItems,
       EndedIsQuiet, CompletedIsUpgraded, Rows
<1>3. CASE WriteCancel
  <2>1. /\ op'.kind = op.kind /\ op'.status = "cancelled"
        /\ \A i \in Nodes : item'[i] = IF item[i] = "scheduled" THEN "cancelled" ELSE item[i]
    BY <1>3 DEF WriteCancel, CancelScheduled, IInv, Types
  <2> QED
    BY <1>1, <2>1 DEF VInv, AllTypes, ItemsKnown, TaskKnown, SyncInOrder, AllEnded, VerdictMatchesItems,
       EndedIsQuiet, CompletedIsUpgraded
<1> QED
  BY <1>2, <1>3

LEMMA StartVInv ==
  ASSUME IInv, VInv, OrchestratorStarts
  PROVE  VInv'
<1> DEFINE now == Batch(orchestrator.batch)
<1>1. /\ op.kind = "upgrade_agents" /\ op.status \in {"running", "cancelled"}
      /\ \A i \in Nodes : task[i] = "none" /\ job[i] # "pending"
  BY DEF OrchestratorStarts, IInv, Roles, BatchAtWork, Upgrade, VInv, ItemsKnown
<1>2. /\ UNCHANGED <<op, job, agent, cancel, deleting, deleted, restarts>>
      /\ orchestrator'.phase = "wait" /\ orchestrator'.batch = orchestrator.batch
      /\ provision' = [i \in Nodes |-> IF i \in now \ deleted THEN "provisioning" ELSE provision[i]]
      /\ \A i \in Nodes : item'[i] = IF i \in now /\ item[i] # "none" THEN "running" ELSE item[i]
      /\ \A i \in Nodes : task'[i] = IF i \in now THEN "waiting" ELSE "none"
  BY <1>1 DEF OrchestratorStarts, Rows, IInv, Types, operators
<1> HIDE DEF now
<1>3. AllTypes' /\ ItemsKnown'
  BY <1>1, <1>2 DEF VInv, AllTypes, ItemsKnown
<1>4. \A i \in Nodes : TaskKnown(i)'
  BY <1>1, <1>2 DEF VInv, AllTypes, ItemsKnown, TaskKnown
<1>5. SyncInOrder' /\ AllEnded' /\ VerdictMatchesItems' /\ EndedIsQuiet' /\ CompletedIsUpgraded'
  BY <1>1, <1>2 DEF VInv, SyncInOrder, AllEnded, VerdictMatchesItems, EndedIsQuiet, CompletedIsUpgraded
<1> QED
  BY <1>3, <1>4, <1>5 DEF VInv

LEMMA OrchestratorVInv ==
  ASSUME IInv, VInv, OrchestratorChecks \/ OrchestratorStops \/ OrchestratorGoesOn
  PROVE  VInv'
<1>1. /\ op.kind = "upgrade_agents"
      /\ UNCHANGED <<job, provision, task, agent, cancel, deleting, deleted, restarts>>
  BY DEF OrchestratorChecks, OrchestratorStops, OrchestratorGoesOn, BatchIsDone, IInv, Roles, Upgrade, operators
<1>2. CASE OrchestratorChecks \/ OrchestratorGoesOn
  <2>1. UNCHANGED <<op, item>>
    BY <1>2 DEF OrchestratorChecks, OrchestratorGoesOn
  <2>2. orchestrator'.batch \in 1 .. Batches
    BY <1>2, BatchCount DEF OrchestratorChecks, OrchestratorGoesOn, VInv, AllTypes, IInv, Types
  <2>3. orchestrator'.phase = "start" => op.status = "running"
    BY <1>2 DEF OrchestratorChecks, OrchestratorGoesOn, BatchIsDone, IInv, Types
  <2> QED
    BY <1>1, <2>1, <2>2, <2>3 DEF VInv, AllTypes, ItemsKnown, TaskKnown, SyncInOrder, AllEnded, VerdictMatchesItems,
       EndedIsQuiet, CompletedIsUpgraded, Rows
<1>3. CASE OrchestratorStops
  <2>1. /\ orchestrator'.phase = "off" /\ orchestrator'.batch = orchestrator.batch /\ op' = Finalized(item')
        /\ \A i \in Nodes : task[i] = "none"
        /\ \A i \in Nodes : item'[i] = IF item[i] = "scheduled" THEN "cancelled" ELSE item[i]
    BY <1>3 DEF OrchestratorStops, BatchIsDone, CancelScheduled, IInv, Types
  <2>2. op'.kind = op.kind
    BY <2>1, Finalizing DEF IInv
  <2>3. AllEnded' /\ VerdictMatchesItems'
    BY <1>1, <2>1, VerdictStays DEF IInv, Terminal
  <2> QED
    BY <1>1, <2>1, <2>2, <2>3 DEF VInv, AllTypes, ItemsKnown, TaskKnown, SyncInOrder, EndedIsQuiet,
       CompletedIsUpgraded
<1> QED
  BY <1>2, <1>3

LEMMA DeleteVInv ==
  ASSUME IInv, VInv, NEW i \in Nodes, WriteDelete(i)
  PROVE  VInv'
<1>1. /\ UNCHANGED <<op, task, agent, orchestrator, cancel, restarts>>
      /\ deleting' = deleting \ {i} /\ deleted' = deleted \cup {i}
      /\ provision' = [provision EXCEPT ![i] = "none"]
  BY DEF WriteDelete
<1>2. /\ \A k \in Nodes : item'[k] = IF k = i THEN "none" ELSE item[k]
      /\ \A k \in Nodes : job'[k] = IF k = i THEN "none" ELSE job[k]
      /\ \A k \in Nodes : provision'[k] = IF k = i THEN "none" ELSE provision[k]
  BY <1>1 DEF WriteDelete, IInv, Types, VInv, AllTypes
<1>3. AllTypes' /\ ItemsKnown'
  BY <1>1, <1>2 DEF VInv, AllTypes, ItemsKnown
<1>4. \A k \in Nodes : TaskKnown(k)'
  BY <1>1, <1>2 DEF VInv, TaskKnown
<1>5. SyncInOrder' /\ AllEnded' /\ VerdictMatchesItems' /\ EndedIsQuiet' /\ CompletedIsUpgraded'
  BY <1>1, <1>2 DEF VInv, SyncInOrder, AllEnded, VerdictMatchesItems, EndedIsQuiet, CompletedIsUpgraded, Rows
<1> QED
  BY <1>3, <1>4, <1>5 DEF VInv

\* What a step of the installer, of an Agent or of an operator does to the rest.
LEMMA QuietWrites ==
  ASSUME IInv, VInv, NEW i \in Nodes, Quiet(i)
  PROVE  /\ UNCHANGED <<deleted, restarts>> /\ deleting' \subseteq Nodes
         /\ provision' \in [Nodes -> {"none", "provisioning", "completed", "failed"}]
         /\ agent' \in [Nodes -> [running : Versions, cached : Versions, reported : Versions]]
         /\ \A k \in Nodes : \/ provision'[k] = provision[k]
                             \/ provision[k] = "provisioning" /\ task[k] # "none"
         /\ \A k \in Nodes : agent'[k].running = "old" => agent[k].running = "old" \/ task[k] # "none"
         /\ \A k \in Nodes : TaskKnown(k)'
<1>1. /\ provision \in [Nodes -> {"none", "provisioning", "completed", "failed"}]
      /\ task \in [Nodes -> {"none", "waiting", "activated", "seen", "ended"}]
      /\ agent \in [Nodes -> [running : Versions, cached : Versions, reported : Versions]]
      /\ deleting \subseteq Nodes /\ "hub" \in Versions /\ "old" \in Versions
      /\ \A k \in Nodes : TaskKnown(k)
  BY DEF IInv, Types, VInv, AllTypes, Versions
<1>2. CASE TaskSkips(i)
  BY <1>1, <1>2 DEF TaskSkips, TaskKnown, operators
<1>3. CASE Activate(i)
  BY <1>1, <1>3 DEF Activate, TaskKnown, operators
<1>4. CASE Pulse(i)
  BY <1>1, <1>4 DEF Pulse, Seen, TaskKnown, operators
<1>5. CASE Heartbeat(i)
  BY <1>1, <1>5 DEF Heartbeat, Seen, TaskKnown, operators
<1>6. CASE Collect(i)
  BY <1>1, <1>6 DEF Collect, TaskKnown, operators
<1>7. CASE InstallSucceeds(i)
  BY <1>1, <1>7 DEF InstallSucceeds, TaskKnown, operators
<1>8. CASE InstallFails(i)
  <2>1. PICK v \in Versions : agent' = [agent EXCEPT ![i].running = v]
    BY <1>1, <1>8 DEF InstallFails
  <2>2. task[i] # "none" /\ provision[i] # "completed"
    BY <1>1, <1>8 DEF InstallFails, TaskKnown
  <2> QED
    BY <1>1, <1>8, <2>1, <2>2 DEF InstallFails, TaskKnown, operators
<1>9. CASE ReadDelete(i)
  BY <1>1, <1>9 DEF ReadDelete, TaskKnown, rollout
<1> QED
  BY <1>2, <1>3, <1>4, <1>5, <1>6, <1>7, <1>8, <1>9 DEF Quiet

LEMMA QuietVInv ==
  ASSUME IInv, VInv, NEW i \in Nodes, Quiet(i)
  PROVE  VInv'
<1>1. /\ UNCHANGED <<op, item, job, orchestrator, cancel, deleted, restarts>>
      /\ \A k \in Nodes : task'[k] = "none" <=> task[k] = "none"
      /\ \A k \in Nodes : \/ provision'[k] = provision[k]
                          \/ provision[k] = "provisioning" /\ task[k] # "none"
      /\ \A k \in Nodes : agent'[k].running = "old" => agent[k].running = "old" \/ task[k] # "none"
  BY QuietFrame, QuietWrites
<1>2. AllTypes'
  BY <1>1, QuietWrites DEF VInv, AllTypes
<1>3. ItemsKnown'
  BY <1>1 DEF VInv, AllTypes, ItemsKnown
<1>4. \A k \in Nodes : TaskKnown(k)'
  BY QuietWrites
<1>5. SyncInOrder' /\ AllEnded' /\ VerdictMatchesItems' /\ EndedIsQuiet'
  BY <1>1 DEF VInv, SyncInOrder, AllEnded, VerdictMatchesItems, EndedIsQuiet, Rows
<1>6. CompletedIsUpgraded'
  <2>1. ASSUME NEW k \in Nodes, item[k] = "completed"
        PROVE  task[k] = "none"
    BY <2>1 DEF VInv, ItemsKnown
  <2>2. \A k \in Nodes : agent'[k].running \in {"old", "hub"}
    BY <1>2 DEF AllTypes, Versions
  <2> QED
    BY <1>1, <2>1, <2>2 DEF VInv, CompletedIsUpgraded
<1> QED
  BY <1>2, <1>3, <1>4, <1>5, <1>6 DEF VInv

LEMMA TaskEndVInv ==
  ASSUME IInv, VInv, NEW i \in Nodes, TaskEnds(i)
  PROVE  VInv'
<1>1. /\ task[i] = "ended" /\ UNCHANGED <<job, agent, orchestrator, cancel, deleting, deleted, restarts>>
      /\ \A k \in Nodes : task'[k] = IF k = i THEN "none"
                                     ELSE IF k = i + 1 /\ op.kind = "sync_agent" THEN "waiting" ELSE task[k]
      /\ op.kind # "playbook"
  <2>1. task[i] = "ended" /\ task' = TasksAfter(i)
        /\ UNCHANGED <<job, agent, orchestrator, cancel, deleting, deleted, restarts>>
    BY DEF TaskEnds, operators
  <2>2. \A k \in Nodes : task'[k] = IF k = i THEN "none"
                                    ELSE IF k = i + 1 /\ op.kind = "sync_agent" THEN "waiting" ELSE task[k]
    BY <2>1 DEF TasksAfter, Nodes
  <2>3. op.kind # "playbook"
    BY <2>1 DEF VInv, ItemsKnown
  <2> QED
    BY <2>1, <2>2, <2>3
<1>2. /\ provision' \in [Nodes -> {"none", "provisioning", "completed", "failed"}]
      /\ \A k \in Nodes : \/ provision'[k] = provision[k]
                          \/ provision[k] = "completed" /\ provision'[k] = "failed"
  BY DEF TaskEnds, VInv, AllTypes
<1>3. /\ op' = op \/ op' = Finalized(item')
      /\ \A k \in Nodes \ {i} : item'[k] = item[k]
      /\ item'[i] = item[i] \/ (item[i] # "none" /\ item'[i] \in {"completed", "failed"})
      /\ item'[i] = "none" => item[i] = "none"
      /\ item'[i] = "completed" /\ item[i] # "completed" => provision[i] = "completed"
  BY DEF TaskEnds, Rows, IInv, Types
<1>4. op'.kind = op.kind /\ (op' = op \/ \A k \in Rows(item)' : item'[k] \in Terminal)
  <2>1. Finalized(item').kind = op.kind
    BY Finalizing DEF IInv
  <2>2. Finalized(item') = op \/ \A k \in Rows(item)' : item'[k] \in Terminal
    BY VerdictIs DEF IInv, Rows
  <2> QED
    BY <1>3, <2>1, <2>2
<1>5. item[i] = "running" \/ (item[i] = "none" /\ i \in deleted)
  BY <1>1 DEF VInv, ItemsKnown
<1>6. AllEnded' /\ VerdictMatchesItems'
  <2>1. \A k \in Nodes : item'[k] = item[k] \/ item[k] \notin Terminal \cup {"none"}
    BY <1>3, <1>5 DEF Terminal
  <2> QED
    BY <1>1, <1>3, <2>1, VerdictStays DEF IInv
<1>7. \A k \in Nodes : task'[k] # "none" => k # i /\ (k \in deleted \/ item'[k] = "running")
  BY <1>1, <1>3 DEF VInv, SyncInOrder, ItemsKnown, Nodes
<1>8. AllTypes'
  BY <1>1, <1>2 DEF VInv, AllTypes
<1>9. ItemsKnown'
  <2>1. orchestrator.phase # "start" /\ \A k \in Nodes : job[k] # "pending"
    BY <1>1 DEF IInv, Roles, BatchAtWork
  <2>2. \A k \in deleted : k \in Nodes /\ item'[k] = "none" /\ provision'[k] = "none"
    BY <1>2, <1>3, <1>5 DEF VInv, AllTypes, ItemsKnown
  <2>3. \A k \in Nodes : item'[k] = "none" => item[k] = "none"
    BY <1>3
  <2> QED
    BY <1>1, <1>4, <1>7, <2>1, <2>2, <2>3 DEF VInv, ItemsKnown
<1>10. ASSUME NEW k \in Nodes
       PROVE  TaskKnown(k)'
  <2>1. CASE k = i
    BY <1>1, <2>1 DEF TaskKnown
  <2>2. CASE k # i /\ k = i + 1 /\ op.kind = "sync_agent"
    <3>1. provision[k] # "completed" /\ task'[k] = "waiting"
      BY <1>1, <2>2 DEF VInv, SyncInOrder, Nodes
    <3> QED
      BY <1>2, <3>1 DEF TaskKnown
  <2>3. CASE k # i /\ ~(k = i + 1 /\ op.kind = "sync_agent")
    BY <1>1, <1>2, <2>3 DEF VInv, TaskKnown
  <2> QED
    BY <2>1, <2>2, <2>3
<1>11. SyncInOrder'
  <2> SUFFICES ASSUME op.kind = "sync_agent", NEW j \in Nodes, NEW k \in Nodes, task'[j] # "none", j < k
               PROVE  task'[k] = "none" /\ provision'[k] # "completed" /\ (k \in deleted \/ item'[k] = "running")
    BY <1>1, <1>4 DEF SyncInOrder
  <2>1. j = i + 1
    BY <1>1 DEF VInv, SyncInOrder, Nodes
  <2>2. i < k /\ k # i + 1 /\ k # i
    BY <2>1 DEF Nodes
  <2> QED
    BY <1>1, <1>2, <1>3, <2>2 DEF VInv, SyncInOrder
<1>12. EndedIsQuiet'
  <2>1. CASE op' = op
    <3>1. op.status \in {"completed", "failed"} => \A k \in Nodes : item'[k] # "running"
      BY <1>1, <1>6, <2>1 DEF AllEnded, Rows, Terminal
    <3> QED
      BY <1>1, <1>7, <2>1, <3>1 DEF EndedIsQuiet
  <2>2. CASE op' # op
    <3>1. \A k \in Nodes : item'[k] # "running"
      BY <1>4, <2>2 DEF Rows, Terminal
    <3> QED
      BY <1>1, <1>7, <3>1 DEF EndedIsQuiet
  <2> QED
    BY <2>1, <2>2
<1>13. CompletedIsUpgraded'
  <2>1. item'[i] = "completed" => agent[i].running = "hub"
    BY <1>1, <1>3, <1>5 DEF VInv, TaskKnown
  <2> QED
    BY <1>1, <1>3, <1>4, <2>1 DEF VInv, CompletedIsUpgraded
<1> QED
  BY <1>6, <1>8, <1>9, <1>10, <1>11, <1>12, <1>13 DEF VInv

LEMMA RestartVInv ==
  ASSUME IInv, VInv, HubRestart
  PROVE  VInv'
<1>1. /\ UNCHANGED <<job, agent, deleted>> /\ deleting' = {} /\ restarts' \in 0 .. MaxRestarts
      /\ orchestrator'.phase = "off" /\ orchestrator'.batch = orchestrator.batch
      /\ \A i \in Nodes : task'[i] = "none"
      /\ \A i \in Nodes : item'[i] = IF item[i] = "running" THEN "failed" ELSE item[i]
      /\ op' = op \/ op' = Finalized(item')
  BY BoundAssumption DEF HubRestart, IInv, Types, VInv, AllTypes
<1>2. /\ provision' \in [Nodes -> {"none", "provisioning", "completed", "failed"}]
      /\ \A i \in Nodes : provision'[i] = "none" <=> provision[i] = "none"
  BY DEF HubRestart, VInv, AllTypes
<1>3. op'.kind = op.kind
  BY <1>1, Finalizing DEF IInv
<1>4. AllEnded' /\ VerdictMatchesItems'
  BY <1>1, VerdictStays DEF IInv, Terminal
<1>5. AllTypes' /\ ItemsKnown'
  BY <1>1, <1>2, <1>3 DEF VInv, AllTypes, ItemsKnown
<1>6. \A i \in Nodes : TaskKnown(i)'
  BY <1>1 DEF TaskKnown
<1>7. SyncInOrder' /\ EndedIsQuiet' /\ CompletedIsUpgraded'
  BY <1>1, <1>3 DEF VInv, SyncInOrder, EndedIsQuiet, CompletedIsUpgraded
<1> QED
  BY <1>4, <1>5, <1>6, <1>7 DEF VInv

LEMMA NextVInv == IInv /\ VInv /\ [Next]_vars => VInv'
<1> SUFFICES ASSUME IInv, VInv, [Next]_vars PROVE VInv'
  OBVIOUS
<1>1. CASE UNCHANGED vars
  BY <1>1 DEF vars, VInv, AllTypes, ItemsKnown, TaskKnown, SyncInOrder, AllEnded, VerdictMatchesItems, EndedIsQuiet,
     CompletedIsUpgraded, Rows
<1>2. ASSUME NEW i \in Nodes, \/ TaskSkips(i) \/ Activate(i) \/ Pulse(i) \/ Heartbeat(i) \/ Collect(i)
                              \/ InstallSucceeds(i) \/ InstallFails(i) \/ ReadDelete(i)
                              \/ TaskEnds(i) \/ WriteDelete(i)
      PROVE  VInv'
  BY <1>2, QuietVInv, TaskEndVInv, DeleteVInv DEF Quiet
<1> QED
  BY <1>1, <1>2, CreatingVInv, PlaybookVInv, CancelVInv, StartVInv, OrchestratorVInv, RestartVInv DEF Next

LEMMA VInductive == Spec => [](IInv /\ VInv)
BY InitIInv, InitVInv, NextIInv, NextVInv, PTL DEF Spec

\* The tables, the tasks and the orchestrator only hold what their types allow; the rollout
\* never goes beyond its last batch.
THEOREM TypeCorrect == Spec => []TypeOK
<1>1. IInv /\ VInv => TypeOK
  BY DEF IInv, Types, Statuses, VInv, AllTypes, TypeOK
<1> QED
  BY <1>1, VInductive, PTL

\* The verdict is that of the items (finalize_fleet_operation), whoever writes the last item and
\* whatever is cancelled, deleted or restarted meanwhile.
THEOREM VerdictIsRight == Spec => []VerdictMatchesItems
<1>1. VInv => VerdictMatchesItems
  BY DEF VInv
<1> QED
  BY <1>1, VInductive, PTL

\* No task is at work on a node of an operation that has completed or failed.
THEOREM VerdictIsFinal == Spec => []EndedIsQuiet
<1>1. VInv => EndedIsQuiet
  BY DEF VInv
<1> QED
  BY <1>1, VInductive, PTL

\* A completed item has the Hub's Agent in place (the version check of provision_node_for_fleet).
THEOREM CompletedHasAgent == Spec => []CompletedIsUpgraded
<1>1. VInv => CompletedIsUpgraded
  BY DEF VInv
<1> QED
  BY <1>1, VInductive, PTL
===============================================================================
