--------------------------- MODULE ManagedDeployment ---------------------------
(***************************************************************************)
(* A two-node tunnel deployment: plugin_deployments rows of one name over *)
(* one pair of nodes, the jobs they refer to, and the tunnel service that *)
(* the jobs install on or remove from each node.  Operators deploy, retry, *)
(* reconfigure and remove; the result handler rolls a half-failed         *)
(* deployment back.                                                       *)
(*                                                                         *)
(* Every handler that reads before its first INSERT or UPDATE is two      *)
(* steps: SQLite starts the transaction with the write, so that another   *)
(* handler may commit in between.  Jobs are claimed, requeued and finished as in  *)
(* JobQueue, whose lease arithmetic justifies the guard of Requeue.       *)
(***************************************************************************)
EXTENDS Integers, Sequences, FiniteSets

CONSTANTS
  Threads,           \* handlers the Hub may have under way at the same time
  MaxRows,           \* bound on the deployments created
  MaxOps,            \* bound on the requests of operators
  MaxRestarts        \* bound on job_tasks cut short

ASSUME BoundAssumption == MaxRows \in Nat /\ MaxOps \in Nat /\ MaxRestarts \in Nat

Sides == {"iran", "kharej"}
Other(s) == IF s = "iran" THEN "kharej" ELSE "iran"
Outcomes == {"completed", "failed"}

VARIABLES
  jobs,              \* the jobs table: <<side, kind, status>> records by id
  rows,              \* plugin_deployments: lifecycle and the job id of either side
  installed,         \* whether the tunnel's service runs on a node
  reported,          \* whether the tunnels table has the tunnel of that node
  worker,            \* the Agent's job_task: job id (0: none) and outcome to report
  orphans,           \* jobs of threads that outlived their job_task
  threads,           \* what each Hub thread has read and is about to write
  ops,               \* operator requests so far
  restarts           \* job_tasks cut short so far

vars == <<jobs, rows, installed, reported, worker, orphans, threads, ops, restarts>>

Job == [side : Sides, kind : {"plugin_deploy", "plugin_remove"},
        status : {"queued", "running"} \cup Outcomes]
Lifecycle == {"active", "removing", "rolling_back", "rolled_back", "rollback_failed"}
Idle == [job |-> 0, outcome |-> "none"]
Free == [op |-> "none"]

Handler ==
  {Free} \cup [op : {"deploy"}] \cup [op : {"result"}, job : 1 .. Len(jobs), outcome : Outcomes]
  \cup [op : {"retry"}, row : 1 .. Len(rows), sides : SUBSET Sides]
  \cup [op : {"remove", "reconfigure"}, row : 1 .. Len(rows)]
  \cup [op : {"remove_one"}, side : Sides]

TypeOK ==
  /\ jobs \in Seq(Job)
  /\ rows \in Seq([lifecycle : Lifecycle, job : [Sides -> 1 .. Len(jobs)]])
  /\ installed \in [Sides -> BOOLEAN]
  /\ reported \in [Sides -> BOOLEAN]
  /\ worker \in [Sides -> [job : 0 .. Len(jobs), outcome : Outcomes \cup {"none"}]]
  /\ orphans \subseteq 1 .. Len(jobs)
  /\ threads \in [Threads -> Handler]
  /\ ops \in 0 .. MaxOps
  /\ restarts \in 0 .. MaxRestarts

Init ==
  /\ jobs = <<>>
  /\ rows = <<>>
  /\ installed = [s \in Sides |-> FALSE]
  /\ reported = [s \in Sides |-> FALSE]
  /\ worker = [s \in Sides |-> Idle]
  /\ orphans = {}
  /\ threads = [t \in Threads |-> Free]
  /\ ops = 0
  /\ restarts = 0

JobOf(r, s) == jobs[rows[r].job[s]]
Statuses(r) == {JobOf(r, s).status : s \in Sides}
Busy(r) == Statuses(r) \cap {"queued", "running"} # {}

\* New rows of the jobs table for the sides in S, iran first, and the id each side gets.
NewJobs(S, kind) ==
  LET new(s) == IF s \in S THEN <<[side |-> s, kind |-> kind, status |-> "queued"]>> ELSE <<>>
  IN  new("iran") \o new("kharej")
\* (mutant of NewId) As if both sides always got a job.
NewIdOfPair(S, s) == Len(jobs) + IF s = "kharej" THEN 2 ELSE 1
NewId(S, s) == Len(jobs) + IF s = "kharej" /\ "iran" \in S THEN 2 ELSE 1

\* Queue jobs for the sides in S and make row r refer to them.
Enqueue(r, S, kind, lifecycle) ==
  /\ jobs' = jobs \o NewJobs(S, kind)
  /\ rows' = [rows EXCEPT ![r] = [lifecycle |-> lifecycle,
       job |-> [s \in Sides |-> IF s \in S THEN NewId(S, s) ELSE rows[r].job[s]]]]

-------------------------------------------------------------------------------
(* Operator requests: what a handler reads and refuses, then what it writes *)

Read(t, handler) ==
  /\ threads[t] = Free
  /\ ops < MaxOps
  /\ ops' = ops + 1
  /\ threads' = [threads EXCEPT ![t] = handler]
  /\ UNCHANGED <<jobs, rows, installed, reported, worker, orphans, restarts>>

Written(t) ==
  /\ threads' = [threads EXCEPT ![t] = Free]
  /\ UNCHANGED <<installed, reported, worker, orphans, ops, restarts>>

NameTaken ==
  \E r \in DOMAIN rows :
    rows[r].lifecycle \in {"active", "removing", "rolling_back", "rollback_failed"}

ReadDeploy(t) ==
  /\ ~NameTaken
  /\ Len(rows) + Cardinality({u \in Threads : threads[u].op = "deploy"}) < MaxRows
  /\ Read(t, [op |-> "deploy"])

WriteDeploy(t) ==
  /\ threads[t].op = "deploy"
  /\ jobs' = jobs \o NewJobs(Sides, "plugin_deploy")
  /\ rows' = Append(rows, [lifecycle |-> "active", job |-> [s \in Sides |-> NewId(Sides, s)]])
  /\ Written(t)

\* Sides whose job completed are left out, unless the deployment was rolled back.
ReadRetry(t) ==
  \E r \in DOMAIN rows :
    /\ ~(rows[r].lifecycle = "removing" /\ Statuses(r) = {"completed"})
    /\ rows[r].lifecycle # "rolling_back"
    /\ ~Busy(r)
    /\ Read(t, [op |-> "retry", row |-> r,
                sides |-> {s \in Sides : \/ JobOf(r, s).status # "completed"
                                         \/ rows[r].lifecycle = "rolled_back"}])

WriteRetry(t) ==
  /\ threads[t].op = "retry"
  /\ Enqueue(threads[t].row, threads[t].sides, "plugin_deploy", "active")
  /\ Written(t)

ReadRemove(t) ==
  \E r \in DOMAIN rows :
    /\ rows[r].lifecycle # "removing"
    /\ ~Busy(r)
    /\ Read(t, [op |-> "remove", row |-> r])

\* Removal from the tunnel list, of a tunnel that some node reported: the active deployment of its
\* name, whether or not it is busy, or else the tunnel of that node alone.
ReadRemoveTunnel(t) ==
  LET active == {r \in DOMAIN rows : rows[r].lifecycle = "active"} IN
  \E s \in Sides :
    /\ reported[s]
    /\ \/ \E r \in active : Read(t, [op |-> "remove", row |-> r])
       \/ active = {} /\ Read(t, [op |-> "remove_one", side |-> s])

WriteRemove(t) ==
  /\ threads[t].op = "remove"
  /\ Enqueue(threads[t].row, Sides, "plugin_remove", "removing")
  /\ Written(t)

WriteRemoveOne(t) ==
  /\ threads[t].op = "remove_one"
  /\ jobs' = jobs \o NewJobs({threads[t].side}, "plugin_remove")
  /\ UNCHANGED rows
  /\ Written(t)

\* (mutant of ReadReconfigure) Any deployment that is not rolled back may be reconfigured.
ReadReconfigureAny(t) ==
  \E r \in DOMAIN rows :
    /\ rows[r].lifecycle # "rolled_back"
    /\ \E s \in Sides : reported[s]
    /\ Read(t, [op |-> "reconfigure", row |-> r])

\* New settings for a reported tunnel of an active deployment, busy or not.
ReadReconfigure(t) ==
  \E r \in DOMAIN rows :
    /\ rows[r].lifecycle = "active"
    /\ \E s \in Sides : reported[s]
    /\ Read(t, [op |-> "reconfigure", row |-> r])

WriteReconfigure(t) ==
  /\ threads[t].op = "reconfigure"
  /\ LET r == threads[t].row IN Enqueue(r, Sides, "plugin_deploy", rows[r].lifecycle)
  /\ Written(t)

-------------------------------------------------------------------------------
(* Agents: one job at a time, the oldest queued row of the node first *)

\* (mutant of Claim) The UPDATE takes any queued row of the node.
ClaimAny(s) ==
  /\ worker[s] = Idle
  /\ \E j \in DOMAIN jobs :
       /\ jobs[j].side = s /\ jobs[j].status = "queued"
       /\ jobs' = [jobs EXCEPT ![j].status = "running"]
       /\ worker' = [worker EXCEPT ![s].job = j]
  /\ UNCHANGED <<rows, installed, reported, orphans, threads, ops, restarts>>

Claim(s) ==
  /\ worker[s] = Idle
  /\ \E j \in DOMAIN jobs :
       /\ jobs[j].side = s /\ jobs[j].status = "queued"
       /\ \A k \in 1 .. j - 1 : ~(jobs[k].side = s /\ jobs[k].status = "queued")
       /\ jobs' = [jobs EXCEPT ![j].status = "running"]
       /\ worker' = [worker EXCEPT ![s].job = j]
  /\ UNCHANGED <<rows, installed, reported, orphans, threads, ops, restarts>>

\* What may run on side s after job j.  A failed deployment is cleaned up, or failed before it
\* touched a tunnel that was already there.
After(j, outcome) ==
  IF outcome = "failed" THEN {installed[jobs[j].side], FALSE}
  ELSE {jobs[j].kind = "plugin_deploy"}

Execute(s) ==
  /\ worker[s].job # 0 /\ worker[s].outcome = "none"
  /\ \E o \in Outcomes, here \in BOOLEAN :
       /\ here \in After(worker[s].job, o)
       /\ installed' = [installed EXCEPT ![s] = here]
       /\ worker' = [worker EXCEPT ![s].outcome = o]
  /\ UNCHANGED <<jobs, rows, reported, orphans, threads, ops, restarts>>

\* The job_task ends without a result that the Hub has read: its Agent restarts, or the lease could
\* not be renewed and the thread lives on, or no attempt to report came through.
CutShort(s) ==
  /\ worker[s] # Idle
  /\ restarts < MaxRestarts
  /\ restarts' = restarts + 1
  /\ worker' = [worker EXCEPT ![s] = Idle]
  /\ orphans' \in {orphans} \cup IF worker[s].outcome = "none" THEN {orphans \cup {worker[s].job}}
                                 ELSE {}
  /\ UNCHANGED <<jobs, rows, installed, reported, threads, ops>>

OrphanActs ==
  \E j \in orphans, o \in Outcomes, here \in BOOLEAN :
    /\ here \in After(j, o)
    /\ installed' = [installed EXCEPT ![jobs[j].side] = here]
    /\ orphans' = orphans \ {j}
    /\ UNCHANGED <<jobs, rows, reported, worker, threads, ops, restarts>>

\* A lease runs out only after the job_task and its requests are gone (JobQueue, NoLostClaim).
Requeue(j) ==
  /\ jobs[j].status = "running"
  /\ \A s \in Sides : worker[s].job # j
  /\ \A t \in Threads : threads[t].op = "result" => threads[t].job # j
  /\ jobs' = [jobs EXCEPT ![j].status = "queued"]
  /\ UNCHANGED <<rows, installed, reported, worker, orphans, threads, ops, restarts>>

\* A heartbeat with a complete inventory inserts the tunnels that the node found and deletes the others.
Heartbeat(s) ==
  /\ reported' = [reported EXCEPT ![s] = installed[s]]
  /\ UNCHANGED <<jobs, rows, installed, worker, orphans, threads, ops, restarts>>

-------------------------------------------------------------------------------
(* The result handler *)

\* The SELECT of agent_job_result.  An attempt whose client timed out may still be in a thread when
\* the next attempt is read.
ReadResult(t, s) ==
  /\ threads[t] = Free
  /\ worker[s].outcome # "none"
  /\ jobs[worker[s].job].status = "running"
  /\ threads' = [threads EXCEPT ![t] = [op |-> "result", job |-> worker[s].job,
                                        outcome |-> worker[s].outcome]]
  /\ UNCHANGED <<jobs, rows, installed, reported, worker, orphans, ops, restarts>>

Refers(r, j) == \E s \in Sides : rows[r].job[s] = j

\* (mutant of StartRollback) The failed side is cleaned up instead of the completed one.
StartRollbackOfFailed(r, done, side) ==
  /\ jobs' = done \o NewJobs({Other(side)}, "plugin_remove")
  /\ rows' = [rows EXCEPT ![r].lifecycle = "rolling_back", ![r].job[Other(side)] = Len(done) + 1]

\* (mutants of EndRollback) The outcome of the removal is ignored, or only a success ends a rollback.
EndRollbackAnyway(r, done, lifecycle) ==
  /\ jobs' = done
  /\ rows' = [rows EXCEPT ![r].lifecycle = "rolled_back"]
EndRollbackOnSuccess(r, done, lifecycle) ==
  /\ jobs' = done
  /\ rows' = IF lifecycle = "rolled_back" THEN [rows EXCEPT ![r].lifecycle = lifecycle] ELSE rows

StartRollback(r, done, side) ==
  /\ jobs' = done \o NewJobs({side}, "plugin_remove")
  /\ rows' = [rows EXCEPT ![r].lifecycle = "rolling_back", ![r].job[side] = Len(done) + 1]

EndRollback(r, done, lifecycle) ==
  /\ jobs' = done
  /\ rows' = [rows EXCEPT ![r].lifecycle = lifecycle]

\* (mutant of Settle) Only a failure that comes after the other side's success starts a rollback.
SettleOnFailure(r, done, outcome) ==
  LET StatusOf(s) == done[rows[r].job[s]].status IN
  \/ /\ rows[r].lifecycle = "active" /\ outcome = "failed"
     /\ \E s \in Sides :
          StatusOf(s) = "completed" /\ StatusOf(Other(s)) = "failed" /\ StartRollback(r, done, s)
  \/ /\ rows[r].lifecycle = "active"
     /\ outcome = "completed" \/ {StatusOf(s) : s \in Sides} # Outcomes
     /\ jobs' = done /\ UNCHANGED rows
  \/ /\ rows[r].lifecycle = "rolling_back"
     /\ EndRollback(r, done, IF outcome = "completed" THEN "rolled_back" ELSE "rollback_failed")
  \/ /\ rows[r].lifecycle \notin {"active", "rolling_back"}
     /\ jobs' = done /\ UNCHANGED rows

\* The part of the transaction about the deployment r whose job ended with the given outcome; done is
\* the jobs table with that status written.
Settle(r, done, outcome) ==
  LET StatusOf(s) == done[rows[r].job[s]].status IN
  \/ /\ rows[r].lifecycle = "active"
     /\ \E s \in Sides :
          StatusOf(s) = "completed" /\ StatusOf(Other(s)) = "failed" /\ StartRollback(r, done, s)
  \/ /\ rows[r].lifecycle = "rolling_back"
     /\ EndRollback(r, done, IF outcome = "completed" THEN "rolled_back" ELSE "rollback_failed")
  \/ /\ rows[r].lifecycle = "active" => {StatusOf(s) : s \in Sides} # Outcomes
     /\ rows[r].lifecycle # "rolling_back"
     /\ jobs' = done /\ UNCHANGED rows

WriteResult(t) ==
  /\ threads[t].op = "result"
  /\ LET j == threads[t].job
         o == threads[t].outcome
         done == [jobs EXCEPT ![j].status = o]
     IN  /\ \/ \E r \in DOMAIN rows : Refers(r, j) /\ Settle(r, done, o)
            \/ (~\E r \in DOMAIN rows : Refers(r, j)) /\ jobs' = done /\ UNCHANGED rows
         /\ worker' = [s \in Sides |-> IF worker[s].job = j THEN Idle ELSE worker[s]]
  /\ threads' = [threads EXCEPT ![t] = Free]
  /\ UNCHANGED <<installed, reported, orphans, ops, restarts>>

Next ==
  \/ \E t \in Threads :
       \/ ReadDeploy(t) \/ ReadRetry(t) \/ ReadRemove(t) \/ ReadRemoveTunnel(t)
       \/ ReadReconfigure(t) \/ WriteDeploy(t) \/ WriteRetry(t) \/ WriteRemove(t)
       \/ WriteRemoveOne(t) \/ WriteReconfigure(t) \/ WriteResult(t)
       \/ \E s \in Sides : ReadResult(t, s)
  \/ \E s \in Sides : Claim(s) \/ Execute(s) \/ CutShort(s) \/ Heartbeat(s)
  \/ OrphanActs
  \/ \E j \in DOMAIN jobs : Requeue(j)

Spec == Init /\ [][Next]_vars

\* Agents poll, execute and report, the Hub's threads and its maintenance cycle go on; operators may
\* stop at any time.
Fairness ==
  /\ \A s \in Sides :
       WF_vars(Claim(s)) /\ WF_vars(Execute(s)) /\ WF_vars(\E t \in Threads : ReadResult(t, s))
  /\ WF_vars(\E j \in DOMAIN jobs : Requeue(j))
  /\ \A t \in Threads :
       /\ WF_vars(WriteDeploy(t)) /\ WF_vars(WriteRetry(t)) /\ WF_vars(WriteRemove(t))
       /\ WF_vars(WriteRemoveOne(t)) /\ WF_vars(WriteReconfigure(t)) /\ WF_vars(WriteResult(t))

FairSpec == Spec /\ Fairness

-------------------------------------------------------------------------------
(* Properties *)

\* The status of a deployment in list_plugin_deployments.
Shown(r) ==
  CASE rows[r].lifecycle \in {"rolling_back", "rolled_back", "rollback_failed"} ->
         rows[r].lifecycle
    [] rows[r].lifecycle \in {"active", "removing"} /\ "failed" \in Statuses(r) -> "failed"
    [] rows[r].lifecycle \in {"active", "removing"} /\ Statuses(r) = {"completed"} ->
         IF rows[r].lifecycle = "removing" THEN "removed" ELSE "completed"
    [] OTHER -> IF Statuses(r) \cap {"running", "completed"} # {} THEN "running" ELSE "queued"

RollsBack(r, s) ==
  JobOf(r, s).kind = "plugin_remove" /\ JobOf(r, Other(s)).status = "failed"

\* A rollback is under way only for a deployment with one failed side, removes the other side, and
\* is never a dead end: the job that will end it has still to run.
RollbackIsWarranted ==
  \A r \in DOMAIN rows : rows[r].lifecycle = "rolling_back" =>
    \E s \in Sides : RollsBack(r, s) /\ JobOf(r, s).status \in {"queued", "running"}

\* The verdict on a rollback is that of the removal it queued.
RollbackVerdict ==
  \A r \in DOMAIN rows :
    /\ rows[r].lifecycle = "rolled_back" =>
         \E s \in Sides : RollsBack(r, s) /\ JobOf(r, s).status = "completed"
    /\ rows[r].lifecycle = "rollback_failed" =>
         \E s \in Sides : RollsBack(r, s) /\ JobOf(r, s).status = "failed"

\* No half-failed deployment is left without a rollback, in whatever order the two results, retries
\* and reconfigurations come.
HalfFailedIsRolledBack ==
  \A r \in DOMAIN rows : rows[r].lifecycle = "active" => Statuses(r) # {"completed", "failed"}

\* As long as no job_task is cut short, a side whose deployment job completed runs the tunnel until
\* the row refers to another job, although the tunnel list can remove a busy deployment.
DeployedSideRuns ==
  restarts = 0 =>
    \A r \in DOMAIN rows, s \in Sides :
      (/\ rows[r].lifecycle = "active"
       /\ JobOf(r, s).kind = "plugin_deploy"
       /\ JobOf(r, s).status = "completed") => installed[s]

Gone(r) == Shown(r) = "removed" => \A s \in Sides : ~installed[s]

\* As long as no job_task is cut short, a deployment shown as removed runs on neither node.
RemovedIsGone == restarts = 0 => \A r \in DOMAIN rows : Gone(r)

\* Rollback ends, in success or failure, whatever is cut short on the way.
RollbackEnds ==
  \A r \in 1 .. MaxRows :
    (r \in DOMAIN rows /\ rows[r].lifecycle = "rolling_back")
      ~> (r \in DOMAIN rows /\ rows[r].lifecycle # "rolling_back")

\* agent_control_router.py:314 "Only a running job can accept a result": the verdict on a rollback is
\* drawn from the result of a job that was running until then.
OnlyRunningJobsSettle ==
  [][\A r \in DOMAIN rows :
       (rows[r].lifecycle = "rolling_back" /\ rows'[r].lifecycle \in {"rolled_back", "rollback_failed"})
         => \E s \in Sides : /\ JobOf(r, s).status = "running"
                             /\ jobs'[rows[r].job[s]].status \in Outcomes]_vars

\* README.md:66 "Recoverable plugin retry and coordinated two-node removal": a deployment that is
\* shown as completed runs on both nodes, also after a retry.
CompletedRunsOnBothNodes ==
  \A r \in DOMAIN rows : Shown(r) = "completed" => \A s \in Sides : installed[s]

\* README.md:66 "coordinated two-node removal": a deployment shown as removed runs on neither node.
RemovedRunsNowhere == \A r \in DOMAIN rows : Gone(r)
===============================================================================
