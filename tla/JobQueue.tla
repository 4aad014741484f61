------------------------------- MODULE JobQueue -------------------------------
(***************************************************************************)
(* The remote-job path between the Hub and its Agents.  The Hub keeps the *)
(* jobs table (status, started_at) and serves poll, lease and result      *)
(* requests; each Agent runs at most one job_task, which executes the job *)
(* in a thread, renews the lease while the thread runs and posts the      *)
(* result with retries; the Hub's maintenance cycle puts jobs whose lease *)
(* ran out back in the queue.                                             *)
(*                                                                         *)
(* Time is counted in ticks.  started_at is represented by the age of the *)
(* lease; the periods below bound how many ticks each phase may span, as  *)
(* the timeouts of agent.py and database.py do.                           *)
(***************************************************************************)
EXTENDS Integers, FiniteSets

CONSTANTS
  Nodes,             \* nodes with an Agent
  Jobs,              \* ids of the rows that may be inserted, ascending
  LeaseTicks,        \* requeue when started_at is older (300 s)
  RenewTicks,        \* 60 s wait plus the renewal request's timeouts
  PostTicks,         \* the five attempts of process_jobs with their back-off
  RequestTicks,      \* client timeout plus the 20 s busy_timeout in the handler
  PostAttempts,      \* result attempts per execution (5)
  MaxFaults          \* bound on lost messages and crashes

ASSUME JobsAssumption == Jobs \subseteq Nat
ASSUME PeriodAssumption ==
  /\ LeaseTicks \in Nat
  /\ RenewTicks \in Nat \ {0}
  /\ PostTicks \in Nat \ {0}
  /\ RequestTicks \in Nat \ {0}
  /\ RenewTicks + PostTicks + RequestTicks < LeaseTicks
ASSUME BoundAssumption == PostAttempts \in Nat \ {0} /\ MaxFaults \in Nat

Outcomes == {"completed", "failed"}
NoNode == "unassigned"
NoJob == -1

VARIABLES
  status,            \* jobs.status per id, "none" before the INSERT
  node,              \* jobs.node_id
  age,               \* ticks since jobs.started_at, capped at LeaseTicks
  claims,            \* history: how often the row was claimed
  produced,          \* history: outcome of the last claim's execution
  worker,            \* the Agent's job_task per node
  orphans,           \* threads that outlived their job_task: <<node, job, claim>>
  requests,          \* result POSTs that have not been answered by the Hub
  faults             \* faults so far (bounded by MaxFaults)

hubVars == <<status, node, age, claims, produced>>
vars == <<status, node, age, claims, produced, worker, orphans, requests, faults>>

Terminal == {"completed", "failed"}

\* A job_task by its phase, and the job and claim it is about.
Task(phase, j, c) == [phase |-> phase, job |-> j, claim |-> c, outcome |-> "none",
                      attempt |-> 0, clock |-> 0]
Idle == Task("idle", NoJob, 0)

Request == [job : Jobs, claim : Nat, outcome : Outcomes, attempt : 1 .. PostAttempts,
            stage : {"sent", "checked"}, delay : 0 .. RequestTicks]
Worker == [phase : {"idle", "executing", "posting", "awaiting"}, job : Jobs \cup {NoJob},
           claim : Nat, outcome : Outcomes \cup {"none"}, attempt : 0 .. PostAttempts,
           clock : Nat]

TypeOK ==
  /\ status \in [Jobs -> {"none", "queued", "running"} \cup Terminal]
  /\ node \in [Jobs -> Nodes \cup {NoNode}]
  /\ age \in [Jobs -> 0 .. LeaseTicks]
  /\ claims \in [Jobs -> Nat]
  /\ produced \in [Jobs -> Outcomes \cup {"none"}]
  /\ worker \in [Nodes -> Worker]
  /\ orphans \subseteq Nodes \X Jobs \X Nat
  /\ requests \subseteq Request
  /\ faults \in 0 .. MaxFaults

Init ==
  /\ status = [j \in Jobs |-> "none"]
  /\ node = [j \in Jobs |-> NoNode]
  /\ age = [j \in Jobs |-> 0]
  /\ claims = [j \in Jobs |-> 0]
  /\ produced = [j \in Jobs |-> "none"]
  /\ worker = [n \in Nodes |-> Idle]
  /\ orphans = {}
  /\ requests = {}
  /\ faults = 0

Fault ==
  /\ faults < MaxFaults
  /\ faults' = faults + 1

-------------------------------------------------------------------------------
(* The Hub *)

\* INSERT INTO jobs: ids grow, the row names the node that has to do the work.
Submit(n) ==
  \E j \in Jobs :
    /\ status[j] = "none"
    /\ \A k \in Jobs : k < j => status[k] # "none"
    /\ status' = [status EXCEPT ![j] = "queued"]
    /\ node' = [node EXCEPT ![j] = n]
    /\ UNCHANGED <<age, claims, produced, worker, orphans, requests, faults>>

\* (mutant of Claim) The status test is wrong: failed rows are handed out again.
ClaimRetriesFailed(n, j) ==
  /\ status[j] \in {"queued", "failed"}
  /\ node[j] = n
  /\ status' = [status EXCEPT ![j] = "running"]
  /\ age' = [age EXCEPT ![j] = 0]
  /\ claims' = [claims EXCEPT ![j] = @ + 1]
  /\ produced' = [produced EXCEPT ![j] = "none"]
  /\ UNCHANGED <<node, orphans, requests>>

\* The claim of agent_jobs: one UPDATE moves the node's oldest queued row.
Claim(n, j) ==
  /\ status[j] = "queued"
  /\ node[j] = n
  /\ \A k \in Jobs : (k < j /\ node[k] = n) => status[k] # "queued"
  /\ status' = [status EXCEPT ![j] = "running"]
  /\ age' = [age EXCEPT ![j] = 0]
  /\ claims' = [claims EXCEPT ![j] = @ + 1]
  /\ produced' = [produced EXCEPT ![j] = "none"]
  /\ UNCHANGED <<node, orphans, requests>>

\* The Agent polls while it has no job_task and starts one with the answer.
Poll(n) ==
  \E j \in Jobs :
    /\ worker[n].phase = "idle"
    /\ Claim(n, j)
    /\ worker' = [worker EXCEPT ![n] = Task("executing", j, claims[j] + 1)]
    /\ UNCHANGED faults

\* A poll whose answer is lost; its handler may run after the Agent gave up on it.
LostPoll(n) ==
  \E j \in Jobs :
    /\ Fault
    /\ Claim(n, j)
    /\ UNCHANGED worker

\* (mutants of Expired) The lease covers only the time between two renewals, or forgets that a handler
\* may still be about to write.
ExpiredAtRenewal == {j \in Jobs : status[j] = "running" /\ age[j] >= RenewTicks}
ExpiredBeforeHandler == {j \in Jobs : status[j] = "running" /\ age[j] >= RenewTicks + PostTicks}

Expired == {j \in Jobs : status[j] = "running" /\ age[j] = LeaseTicks}

\* (mutant of Requeue) started_at is reset, status is not.
RequeueKeepsStatus ==
  /\ Expired # {}
  /\ age' = [j \in Jobs |-> IF j \in Expired THEN 0 ELSE age[j]]
  /\ UNCHANGED <<status, node, claims, produced, worker, orphans, requests, faults>>

\* The recovery UPDATE of run_maintenance_cycle.
Requeue ==
  /\ Expired # {}
  /\ status' = [j \in Jobs |-> IF j \in Expired THEN "queued" ELSE status[j]]
  /\ age' = [j \in Jobs |-> IF j \in Expired THEN 0 ELSE age[j]]
  /\ UNCHANGED <<node, claims, produced, worker, orphans, requests, faults>>

-------------------------------------------------------------------------------
(* The Agent's job_task *)

LeaseHeld(n) == status[worker[n].job] = "running" /\ node[worker[n].job] = n

\* (mutant of Renew) The lease handler finds the row and answers, but leaves started_at alone.
RenewWithoutUpdate(n) ==
  /\ worker[n].phase = "executing"
  /\ worker[n].clock > 0
  /\ LeaseHeld(n)
  /\ worker' = [worker EXCEPT ![n].clock = 0]
  /\ UNCHANGED <<hubVars, orphans, requests, faults>>

\* Every 60 s of execution the job_task renews the lease.  A refused renewal or one whose answer
\* does not arrive ends the job_task, but not the thread it started.
Renew(n) ==
  /\ worker[n].phase = "executing"
  /\ worker[n].clock > 0
  /\ \/ /\ LeaseHeld(n)
        /\ age' = [age EXCEPT ![worker[n].job] = 0]
        /\ worker' = [worker EXCEPT ![n].clock = 0]
        /\ UNCHANGED <<orphans, faults>>
     \/ /\ Fault
        /\ \/ LeaseHeld(n) /\ age' = [age EXCEPT ![worker[n].job] = 0]
           \/ UNCHANGED age
        /\ worker' = [worker EXCEPT ![n] = Idle]
        /\ orphans' = orphans \cup {<<n, worker[n].job, worker[n].claim>>}
  /\ UNCHANGED <<status, node, claims, produced, requests>>

\* The thread of the job_task returns (status, output).
Finish(n) ==
  \E o \in Outcomes :
    /\ worker[n].phase = "executing"
    /\ worker' = [worker EXCEPT ![n].phase = "posting", ![n].outcome = o, ![n].clock = 0]
    /\ produced' = [produced EXCEPT ![worker[n].job] = o]
    /\ UNCHANGED <<status, node, age, claims, orphans, requests, faults>>

\* The thread raises, so that the job_task ends without a result and the row waits for its lease
\* to run out.
Raise(n) ==
  /\ worker[n].phase = "executing"
  /\ Fault
  /\ worker' = [worker EXCEPT ![n] = Idle]
  /\ UNCHANGED <<hubVars, orphans, requests>>

\* An orphaned thread returns and nobody reads its result.
OrphanEnds ==
  \E t \in orphans :
    /\ orphans' = orphans \ {t}
    /\ UNCHANGED <<status, node, age, claims, produced, worker, requests, faults>>

PostResult(n) ==
  /\ worker[n].phase = "posting"
  /\ worker[n].attempt < PostAttempts
  /\ worker' = [worker EXCEPT ![n].phase = "awaiting", ![n].attempt = @ + 1]
  /\ requests' = requests \cup {[job |-> worker[n].job, claim |-> worker[n].claim,
                                 outcome |-> worker[n].outcome, stage |-> "sent",
                                 attempt |-> worker[n].attempt + 1, delay |-> 0]}
  /\ UNCHANGED <<hubVars, orphans, faults>>

\* The job_task of node n once an attempt has failed: another attempt, or it gives up and raises.
AfterFailedAttempt(n) ==
  IF worker[n].attempt < PostAttempts
    THEN [worker EXCEPT ![n].phase = "posting"]
    ELSE [worker EXCEPT ![n] = Idle]

Awaits(n, r) ==
  /\ worker[n].phase = "awaiting"
  /\ worker[n].job = r.job
  /\ worker[n].claim = r.claim
  /\ worker[n].attempt = r.attempt

\* The attempt runs into the client's timeout, because the request was lost or although it is still
\* on its way.
PostTimeout(n) ==
  /\ worker[n].phase = "awaiting"
  /\ Fault \/ (UNCHANGED faults /\ ~\E r \in requests : Awaits(n, r))
  /\ worker' = AfterFailedAttempt(n)
  /\ UNCHANGED <<hubVars, orphans, requests>>

\* The Agent process stops, with its threads, and systemd starts it again.
Restart(n) ==
  /\ Fault
  /\ worker[n].phase # "idle" \/ \E t \in orphans : t[1] = n
  /\ worker' = [worker EXCEPT ![n] = Idle]
  /\ orphans' = {t \in orphans : t[1] # n}
  /\ UNCHANGED <<hubVars, requests>>

-------------------------------------------------------------------------------
(* The result handler, agent_job_result *)

\* The Hub's answer to r reaches the job_task if it still waits for it.
Answer(r, ok) ==
  LET n == node[r.job] IN
  IF Awaits(n, r)
    THEN worker' = IF ok THEN [worker EXCEPT ![n] = Idle] ELSE AfterFailedAttempt(n)
    ELSE UNCHANGED worker

\* The SELECT, in autocommit mode: a terminal row is answered at once, a queued one refused, a
\* running one goes on to the transaction below.
CheckResult ==
  \E r \in requests :
    /\ r.stage = "sent"
    /\ IF status[r.job] = "running"
         THEN /\ requests' = (requests \ {r}) \cup {[r EXCEPT !.stage = "checked"]}
              /\ UNCHANGED worker
         ELSE /\ requests' = requests \ {r}
              /\ Answer(r, status[r.job] = r.outcome)
    /\ UNCHANGED <<hubVars, orphans, faults>>

\* The transaction: it writes the row again without another look at its status.
CommitResult ==
  \E r \in requests :
    /\ r.stage = "checked"
    /\ status' = [status EXCEPT ![r.job] = r.outcome]
    /\ requests' = requests \ {r}
    /\ Answer(r, TRUE)
    /\ UNCHANGED <<node, age, claims, produced, orphans, faults>>

\* A request is lost on its way, or the handler fails and rolls back.
DropRequest ==
  \E r \in requests :
    /\ Fault
    /\ requests' = requests \ {r}
    /\ UNCHANGED <<hubVars, worker, orphans>>

-------------------------------------------------------------------------------
(* Time *)

\* Time passes only while every running phase is within its period.
Tick ==
  /\ \A n \in Nodes :
       /\ worker[n].phase = "executing" => worker[n].clock < RenewTicks
       /\ worker[n].phase \in {"posting", "awaiting"} => worker[n].clock < PostTicks
  /\ \A r \in requests : r.delay < RequestTicks
  /\ age' = [j \in Jobs |-> IF status[j] = "running" /\ age[j] < LeaseTicks
                              THEN age[j] + 1 ELSE age[j]]
  /\ worker' = [n \in Nodes |-> IF worker[n].phase = "idle" THEN worker[n]
                                  ELSE [worker[n] EXCEPT !.clock = @ + 1]]
  /\ requests' = {[r EXCEPT !.delay = @ + 1] : r \in requests}
  /\ UNCHANGED <<status, node, claims, produced, orphans, faults>>

Next ==
  \/ \E n \in Nodes :
       \/ Submit(n) \/ Poll(n) \/ LostPoll(n) \/ Renew(n) \/ Finish(n)
       \/ Raise(n) \/ PostResult(n) \/ PostTimeout(n) \/ Restart(n)
  \/ Requeue \/ OrphanEnds \/ CheckResult \/ CommitResult \/ DropRequest \/ Tick

Spec == Init /\ [][Next]_vars

\* The main loop of an Agent polls, renews and posts, its threads end (execute_job bounds every
\* subprocess), the Hub serves requests and runs maintenance cycles.  Nobody has to submit jobs and
\* no fault has to happen.
Fairness ==
  /\ \A n \in Nodes : WF_vars(Poll(n)) /\ WF_vars(Renew(n)) /\ WF_vars(Finish(n))
  /\ \A n \in Nodes : WF_vars(PostResult(n)) /\ WF_vars(PostTimeout(n))
  /\ WF_vars(Requeue) /\ WF_vars(CheckResult) /\ WF_vars(CommitResult) /\ WF_vars(Tick)

FairSpec == Spec /\ Fairness

-------------------------------------------------------------------------------
(* Properties *)

HoldsItsClaim(n) ==
  worker[n].phase # "idle" =>
    LET j == worker[n].job IN
      /\ j \in Jobs /\ node[j] = n
      /\ claims[j] = worker[n].claim
      /\ status[j] \notin {"none", "queued"}
      /\ worker[n].phase = "executing" => status[j] = "running" /\ produced[j] = "none"
      /\ worker[n].phase # "executing" => produced[j] = worker[n].outcome

\* A job stays with the Agent that works on it: while a job_task executes a job or posts its result,
\* the row has not been requeued or claimed again.  Broken by a lease that is not renewed in time, by
\* a requeue that comes too early, or by a post that outlasts the lease.
WorkersHoldTheirClaims == \A n \in Nodes : HoldsItsClaim(n)

IsCurrent(r) ==
  /\ claims[r.job] = r.claim
  /\ produced[r.job] = r.outcome
  /\ status[r.job] \notin {"none", "queued"}

\* A result POST that the Hub has still to serve, retries and copies that outlived their client
\* included, reports what the row's last claim produced.
RequestsAreCurrent == \A r \in requests : IsCurrent(r)

\* A terminal row records what its last claim produced.
ResultIsProduced == \A j \in Jobs : status[j] \in Terminal => produced[j] = status[j]

TaskWithinLease(n) ==
  LET w == worker[n] IN
    /\ w.phase = "executing" => age[w.job] <= w.clock /\ w.clock <= RenewTicks
    /\ w.phase \in {"posting", "awaiting"} =>
         /\ w.clock <= PostTicks
         /\ status[w.job] = "running" => age[w.job] <= RenewTicks + w.clock
RequestWithinLease(r) ==
  status[r.job] = "running" => age[r.job] <= RenewTicks + PostTicks + r.delay

\* Why the lease is long enough: its age never exceeds the time its holder may have spent since the
\* last renewal, plus the posting, plus the handling of a POST.
LeaseCoversWork ==
  /\ \A n \in Nodes : TaskWithinLease(n)
  /\ \A r \in requests : RequestWithinLease(r)

\* The inductive invariant.
IInv ==
  /\ TypeOK
  /\ WorkersHoldTheirClaims
  /\ RequestsAreCurrent
  /\ ResultIsProduced
  /\ LeaseCoversWork
  /\ \A j \in Jobs : status[j] \in {"running"} \cup Terminal => node[j] \in Nodes

\* A result is final: no later POST, claim or maintenance cycle changes a terminal row.
ResultsAreFinal == [][\A j \in Jobs : status[j] \in Terminal => status'[j] = status[j]]_vars

\* The queue keeps the promise of JobService.
Service == INSTANCE JobService WITH grants <- claims
ImplementsService == Service!Spec

\* Every job that is queued or claimed ends, whatever is lost or restarted on the way, as long as the
\* faults stop.
EveryJobEnds ==
  \A j \in Jobs : status[j] \in {"queued", "running"} ~> status[j] \in Terminal
===============================================================================
