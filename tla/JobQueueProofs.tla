---------------------------- MODULE JobQueueProofs ----------------------------
(***************************************************************************)
(* What TLAPS proves about JobQueue, for all nodes, jobs, periods and     *)
(* bounds: the inductive invariant, that results are final, and that the  *)
(* queue implements JobService.                                           *)
(***************************************************************************)
EXTENDS JobQueue, TLAPS

LEMMA InitIInv == Init => IInv
<1> SUFFICES ASSUME Init PROVE IInv
  OBVIOUS
<1> USE JobsAssumption, PeriodAssumption, BoundAssumption
<1>1. TypeOK
  BY DEF Init, TypeOK, Worker, Idle, Task, NoJob, Request
<1>2. WorkersHoldTheirClaims
  BY DEF Init, WorkersHoldTheirClaims, HoldsItsClaim, Idle, Task
<1>3. RequestsAreCurrent /\ ResultIsProduced
  BY DEF Init, RequestsAreCurrent, ResultIsProduced, Terminal
<1>4. LeaseCoversWork
  BY DEF Init, LeaseCoversWork, TaskWithinLease, Idle, Task
<1> QED
  BY <1>1, <1>2, <1>3, <1>4 DEF IInv, Init, Terminal

-------------------------------------------------------------------------------
(* What a step leaves alone *)

RowUnchanged(j) ==
  /\ status'[j] = status[j] /\ node'[j] = node[j]
  /\ claims'[j] = claims[j] /\ produced'[j] = produced[j]
  /\ age'[j] \in {age[j], 0}

LEMMA TaskFrame ==
  ASSUME IInv, NEW n \in Nodes, worker'[n] = worker[n],
         worker[n].phase # "idle" => RowUnchanged(worker[n].job)
  PROVE  HoldsItsClaim(n)' /\ TaskWithinLease(n)'
<1> USE PeriodAssumption
<1>1. worker[n] \in Worker /\ HoldsItsClaim(n) /\ TaskWithinLease(n)
  BY DEF IInv, TypeOK, WorkersHoldTheirClaims, LeaseCoversWork
<1>2. HoldsItsClaim(n)'
  BY <1>1 DEF HoldsItsClaim, RowUnchanged
<1>3. worker[n].phase # "idle" => age[worker[n].job] \in Nat
  BY <1>1 DEF IInv, TypeOK, HoldsItsClaim
<1>4. TaskWithinLease(n)'
  BY <1>1, <1>3 DEF TaskWithinLease, RowUnchanged, Worker
<1> QED
  BY <1>2, <1>4

LEMMA RequestFrame ==
  ASSUME IInv, NEW r \in requests, RowUnchanged(r.job)
  PROVE  IsCurrent(r)' /\ RequestWithinLease(r)'
<1> USE PeriodAssumption
<1>1. r \in Request /\ IsCurrent(r) /\ RequestWithinLease(r)
  BY DEF IInv, TypeOK, RequestsAreCurrent, LeaseCoversWork
<1>2. age[r.job] \in Nat /\ r.delay \in Nat
  BY <1>1 DEF IInv, TypeOK, Request
<1> QED
  BY <1>1, <1>2 DEF IsCurrent, RequestWithinLease, RowUnchanged

LEMMA IdleTask ==
  ASSUME NEW n \in Nodes, worker'[n] = Idle
  PROVE  HoldsItsClaim(n)' /\ TaskWithinLease(n)' /\ worker'[n] \in Worker
BY BoundAssumption DEF HoldsItsClaim, TaskWithinLease, Idle, Task, Worker

-------------------------------------------------------------------------------
(* The Hub's own steps *)

LEMMA SubmitIInv == ASSUME IInv, NEW n \in Nodes, Submit(n) PROVE IInv'
<1>1. PICK j \in Jobs :
        /\ status[j] = "none"
        /\ status' = [status EXCEPT ![j] = "queued"]
        /\ node' = [node EXCEPT ![j] = n]
        /\ UNCHANGED <<age, claims, produced, worker, orphans, requests, faults>>
  BY DEF Submit
<1>2. \A k \in Jobs \ {j} : RowUnchanged(k)
  BY <1>1 DEF RowUnchanged, IInv, TypeOK
<1>3. \A m \in Nodes : worker[m].phase # "idle" => worker[m].job \in Jobs \ {j}
  BY <1>1 DEF IInv, WorkersHoldTheirClaims, HoldsItsClaim
<1>4. \A r \in requests : r.job \in Jobs \ {j}
  BY <1>1 DEF IInv, TypeOK, RequestsAreCurrent, IsCurrent, Request
<1>5. TypeOK'
  BY <1>1 DEF IInv, TypeOK
<1>6. WorkersHoldTheirClaims' /\ RequestsAreCurrent' /\ LeaseCoversWork'
  BY <1>1, <1>2, <1>3, <1>4, TaskFrame, RequestFrame
     DEF WorkersHoldTheirClaims, RequestsAreCurrent, LeaseCoversWork
<1>7. ResultIsProduced'
  BY <1>1 DEF IInv, TypeOK, ResultIsProduced, Terminal
<1> QED
  BY <1>1, <1>5, <1>6, <1>7 DEF IInv, TypeOK, Terminal

\* Handing out row j: no job_task and no request refers to a queued row.
LEMMA ClaimFacts ==
  ASSUME IInv, NEW n \in Nodes, NEW j \in Jobs, Claim(n, j)
  PROVE  /\ \A m \in Nodes : worker[m].phase # "idle" => worker[m].job \in Jobs \ {j}
         /\ \A r \in requests : r.job \in Jobs \ {j}
         /\ status' \in [Jobs -> {"none", "queued", "running"} \cup Terminal]
         /\ age' \in [Jobs -> 0 .. LeaseTicks]
         /\ claims' \in [Jobs -> Nat]
         /\ produced' \in [Jobs -> Outcomes \cup {"none"}]
         /\ status'[j] = "running" /\ age'[j] = 0 /\ node[j] = n
         /\ claims'[j] = claims[j] + 1 /\ produced'[j] = "none"
         /\ \A k \in Jobs \ {j} : RowUnchanged(k)
         /\ UNCHANGED <<node, orphans, requests>>
<1> USE PeriodAssumption
<1>1. status[j] = "queued" /\ node[j] = n
  BY DEF Claim
<1>2. \A m \in Nodes : worker[m].phase # "idle" => worker[m].job \in Jobs \ {j}
  BY <1>1 DEF IInv, WorkersHoldTheirClaims, HoldsItsClaim
<1>3. \A r \in requests : r.job \in Jobs \ {j}
  BY <1>1 DEF IInv, TypeOK, RequestsAreCurrent, IsCurrent, Request
<1> QED
  BY <1>1, <1>2, <1>3 DEF Claim, IInv, TypeOK, RowUnchanged

LEMMA PollIInv == ASSUME IInv, NEW n \in Nodes, Poll(n) PROVE IInv'
<1> USE BoundAssumption, PeriodAssumption
<1>1. PICK j \in Jobs :
        /\ worker[n].phase = "idle"
        /\ Claim(n, j)
        /\ worker' = [worker EXCEPT ![n] = Task("executing", j, claims[j] + 1)]
        /\ UNCHANGED faults
  BY DEF Poll
<1>2. claims[j] \in Nat
  BY DEF IInv, TypeOK
<1>3. /\ worker'[n] = Task("executing", j, claims[j] + 1)
      /\ \A m \in Nodes \ {n} : worker'[m] = worker[m]
      /\ worker' \in [Nodes -> Worker]
  BY <1>1, <1>2 DEF IInv, TypeOK, Worker, Task
<1>4. TypeOK'
  BY <1>1, <1>3, ClaimFacts DEF IInv, TypeOK
<1>5. HoldsItsClaim(n)' /\ TaskWithinLease(n)'
  BY <1>1, <1>3, ClaimFacts DEF HoldsItsClaim, TaskWithinLease, Task
<1>6. WorkersHoldTheirClaims' /\ RequestsAreCurrent' /\ LeaseCoversWork'
  BY <1>1, <1>3, <1>5, ClaimFacts, TaskFrame, RequestFrame
     DEF WorkersHoldTheirClaims, RequestsAreCurrent, LeaseCoversWork
<1>7. ResultIsProduced'
  BY <1>1, ClaimFacts DEF IInv, ResultIsProduced, Terminal, RowUnchanged
<1> QED
  BY <1>1, <1>4, <1>6, <1>7, ClaimFacts DEF IInv, TypeOK, Terminal, RowUnchanged

LEMMA LostPollIInv == ASSUME IInv, NEW n \in Nodes, LostPoll(n) PROVE IInv'
<1> USE BoundAssumption
<1>1. PICK j \in Jobs : Fault /\ Claim(n, j) /\ UNCHANGED worker
  BY DEF LostPoll
<1>2. TypeOK'
  BY <1>1, ClaimFacts DEF IInv, TypeOK, Fault
<1>3. WorkersHoldTheirClaims' /\ RequestsAreCurrent' /\ LeaseCoversWork'
  BY <1>1, ClaimFacts, TaskFrame, RequestFrame
     DEF WorkersHoldTheirClaims, RequestsAreCurrent, LeaseCoversWork
<1>4. ResultIsProduced'
  BY <1>1, ClaimFacts DEF IInv, ResultIsProduced, Terminal, RowUnchanged
<1> QED
  BY <1>1, <1>2, <1>3, <1>4, ClaimFacts DEF IInv, TypeOK, Terminal, RowUnchanged

\* The lease arithmetic: an expired row has no job_task and no request left.
LEMMA ExpiredIsAbandoned ==
  ASSUME IInv, NEW j \in Expired
  PROVE  /\ \A n \in Nodes : worker[n].phase # "idle" => worker[n].job # j
         /\ \A r \in requests : r.job # j
<1> USE PeriodAssumption
<1>1. j \in Jobs /\ status[j] = "running" /\ age[j] = LeaseTicks
  BY DEF Expired
<1>2. ASSUME NEW n \in Nodes, worker[n].phase # "idle", worker[n].job = j PROVE FALSE
  <2>1. worker[n] \in Worker /\ TaskWithinLease(n)
    BY DEF IInv, TypeOK, LeaseCoversWork
  <2> QED
    BY <1>1, <1>2, <2>1 DEF TaskWithinLease, Worker
<1>3. ASSUME NEW r \in requests, r.job = j PROVE FALSE
  <2>1. r.delay \in 0 .. RequestTicks
    BY DEF IInv, TypeOK, Request
  <2>2. age[j] <= RenewTicks + PostTicks + r.delay
    BY <1>1, <1>3 DEF IInv, LeaseCoversWork, RequestWithinLease
  <2> QED
    BY <1>1, <2>1, <2>2
<1> QED
  BY <1>2, <1>3

LEMMA RequeueIInv == ASSUME IInv, Requeue PROVE IInv'
<1> USE PeriodAssumption
<1>1. /\ \A j \in Jobs \ Expired : RowUnchanged(j)
      /\ \A j \in Expired : j \in Jobs /\ status'[j] = "queued" /\ age'[j] = 0
      /\ UNCHANGED <<node, claims, produced, worker, orphans, requests, faults>>
  BY DEF Requeue, Expired, RowUnchanged
<1>2. TypeOK'
  BY <1>1 DEF IInv, TypeOK, Requeue
<1>3. \A m \in Nodes : worker[m].phase # "idle" => worker[m].job \in Jobs \ Expired
  BY ExpiredIsAbandoned DEF IInv, WorkersHoldTheirClaims, HoldsItsClaim
<1>4. \A r \in requests : r.job \in Jobs \ Expired
  BY ExpiredIsAbandoned DEF IInv, TypeOK, Request
<1>5. WorkersHoldTheirClaims' /\ RequestsAreCurrent' /\ LeaseCoversWork'
  BY <1>1, <1>3, <1>4, TaskFrame, RequestFrame
     DEF WorkersHoldTheirClaims, RequestsAreCurrent, LeaseCoversWork
<1>6. ResultIsProduced'
  BY <1>1 DEF IInv, ResultIsProduced, Terminal, RowUnchanged
<1> QED
  BY <1>1, <1>2, <1>5, <1>6 DEF IInv, TypeOK, Terminal, RowUnchanged

-------------------------------------------------------------------------------
(* The job_task *)

LEMMA RenewIInv == ASSUME IInv, NEW n \in Nodes, Renew(n) PROVE IInv'
<1> USE PeriodAssumption, BoundAssumption
<1> DEFINE j == worker[n].job
<1>1. /\ worker[n].phase = "executing" /\ worker[n] \in Worker
      /\ UNCHANGED <<status, node, claims, produced, requests>>
  BY DEF Renew, IInv, TypeOK
<1>2. j \in Jobs /\ worker[n].claim \in Nat
  BY <1>1 DEF IInv, WorkersHoldTheirClaims, HoldsItsClaim, Worker
<1>3. age' \in [Jobs -> 0 .. LeaseTicks] /\ (age'[j] = 0 \/ age' = age)
      /\ \A k \in Jobs : RowUnchanged(k)
  BY <1>1, <1>2 DEF Renew, IInv, TypeOK, RowUnchanged
<1>4. /\ \A m \in Nodes \ {n} : worker'[m] = worker[m]
      /\ worker' \in [Nodes -> Worker]
      /\ \/ worker'[n] = Idle
         \/ worker'[n] = [worker[n] EXCEPT !.clock = 0] /\ age'[j] = 0
  BY <1>1, <1>2, <1>3 DEF Renew, IInv, TypeOK, Worker, Idle, Task, NoJob
<1>5. orphans' \subseteq Nodes \X Jobs \X Nat /\ faults' \in 0 .. MaxFaults
  BY <1>1, <1>2 DEF Renew, IInv, TypeOK, Fault
<1>6. TypeOK'
  BY <1>1, <1>3, <1>4, <1>5 DEF IInv, TypeOK
<1>7. HoldsItsClaim(n)' /\ TaskWithinLease(n)'
  <2>1. CASE worker'[n] = Idle
    BY <2>1, IdleTask
  <2>2. CASE worker'[n] = [worker[n] EXCEPT !.clock = 0] /\ age'[j] = 0
    <3>1. /\ worker'[n].phase = "executing" /\ worker'[n].job = j /\ worker'[n].clock = 0
          /\ worker'[n].claim = worker[n].claim
      BY <1>1, <2>2 DEF Worker
    <3>2. HoldsItsClaim(n)'
      BY <1>1, <3>1 DEF IInv, WorkersHoldTheirClaims, HoldsItsClaim
    <3> QED
      BY <2>2, <3>1, <3>2 DEF TaskWithinLease
  <2> QED
    BY <1>4, <2>1, <2>2
<1>8. \A m \in Nodes : worker[m].phase # "idle" => worker[m].job \in Jobs
  BY DEF IInv, WorkersHoldTheirClaims, HoldsItsClaim
<1>9. \A r \in requests : r.job \in Jobs
  BY DEF IInv, TypeOK, Request
<1>10. WorkersHoldTheirClaims' /\ RequestsAreCurrent' /\ LeaseCoversWork'
  BY <1>1, <1>3, <1>4, <1>7, <1>8, <1>9, TaskFrame, RequestFrame
     DEF WorkersHoldTheirClaims, RequestsAreCurrent, LeaseCoversWork
<1> QED
  BY <1>1, <1>6, <1>10 DEF IInv, ResultIsProduced

LEMMA FinishIInv == ASSUME IInv, NEW n \in Nodes, Finish(n) PROVE IInv'
<1> USE PeriodAssumption, BoundAssumption
<1> DEFINE j == worker[n].job
<1>1. PICK o \in Outcomes :
        /\ worker[n].phase = "executing"
        /\ worker' = [worker EXCEPT ![n].phase = "posting", ![n].outcome = o, ![n].clock = 0]
        /\ produced' = [produced EXCEPT ![j] = o]
        /\ UNCHANGED <<status, node, age, claims, orphans, requests, faults>>
  BY DEF Finish
<1>2. worker[n] \in Worker /\ j \in Jobs /\ status[j] = "running" /\ produced[j] = "none"
      /\ node[j] = n
  BY <1>1 DEF IInv, TypeOK, WorkersHoldTheirClaims, HoldsItsClaim
<1>3. /\ worker'[n].phase = "posting" /\ worker'[n].outcome = o /\ worker'[n].clock = 0
      /\ worker'[n].job = j /\ worker'[n].claim = worker[n].claim
      /\ worker' \in [Nodes -> Worker]
      /\ \A m \in Nodes \ {n} : worker'[m] = worker[m]
  BY <1>1, <1>2 DEF IInv, TypeOK, Worker
<1>4. TypeOK'
  BY <1>1, <1>2, <1>3 DEF IInv, TypeOK
<1>5. \A k \in Jobs \ {j} : RowUnchanged(k)
  BY <1>1, <1>2 DEF IInv, TypeOK, RowUnchanged
<1>6. \A m \in Nodes \ {n} : worker[m].phase # "idle" => worker[m].job \in Jobs \ {j}
  BY <1>2 DEF IInv, WorkersHoldTheirClaims, HoldsItsClaim
<1>7. \A r \in requests : r.job \in Jobs \ {j}
  BY <1>2 DEF IInv, TypeOK, RequestsAreCurrent, IsCurrent, Request, Outcomes
<1>8. produced'[j] = o /\ age[j] \in Nat
  BY <1>1, <1>2 DEF IInv, TypeOK
<1>9. HoldsItsClaim(n)'
  BY <1>1, <1>2, <1>3, <1>8 DEF IInv, WorkersHoldTheirClaims, HoldsItsClaim
<1>10. TaskWithinLease(n)'
  <2>1. age[j] <= worker[n].clock /\ worker[n].clock <= RenewTicks /\ worker[n].clock \in Nat
    BY <1>1, <1>2 DEF IInv, LeaseCoversWork, TaskWithinLease, Worker
  <2> QED
    BY <1>1, <1>3, <1>8, <2>1 DEF TaskWithinLease
<1>11. WorkersHoldTheirClaims' /\ RequestsAreCurrent' /\ LeaseCoversWork'
  BY <1>1, <1>3, <1>5, <1>6, <1>7, <1>9, <1>10, TaskFrame, RequestFrame
     DEF WorkersHoldTheirClaims, RequestsAreCurrent, LeaseCoversWork
<1>12. ResultIsProduced'
  BY <1>1, <1>2, <1>5 DEF IInv, ResultIsProduced, Terminal, RowUnchanged
<1> QED
  BY <1>1, <1>4, <1>11, <1>12 DEF IInv

LEMMA OrphanEndsIInv == ASSUME IInv, OrphanEnds PROVE IInv'
BY DEF IInv, TypeOK, OrphanEnds, WorkersHoldTheirClaims, HoldsItsClaim, RequestsAreCurrent,
       IsCurrent, ResultIsProduced, LeaseCoversWork, TaskWithinLease, RequestWithinLease

\* Steps that touch neither the table nor, beyond dropping some, the requests.
LEMMA HubFrame ==
  ASSUME IInv, UNCHANGED hubVars,
         requests' \subseteq Request, worker' \in [Nodes -> Worker],
         orphans' \subseteq Nodes \X Jobs \X Nat, faults' \in 0 .. MaxFaults,
         \A n \in Nodes : worker'[n] # worker[n] => HoldsItsClaim(n)' /\ TaskWithinLease(n)',
         \A r \in requests' : r \notin requests => IsCurrent(r)' /\ RequestWithinLease(r)'
  PROVE  IInv'
<1>1. \A j \in Jobs : RowUnchanged(j)
  BY DEF RowUnchanged, hubVars
<1>2. TypeOK'
  BY DEF IInv, TypeOK, hubVars
<1>3. ASSUME NEW n \in Nodes PROVE HoldsItsClaim(n)' /\ TaskWithinLease(n)'
  <2>1. worker[n].phase # "idle" => worker[n].job \in Jobs
    BY DEF IInv, WorkersHoldTheirClaims, HoldsItsClaim
  <2> QED
    BY <1>1, <2>1, TaskFrame
<1>4. ASSUME NEW r \in requests' PROVE IsCurrent(r)' /\ RequestWithinLease(r)'
  <2>1. r \in requests => r.job \in Jobs
    BY DEF IInv, TypeOK, Request
  <2> QED
    BY <1>1, <2>1, RequestFrame
<1>5. ResultIsProduced'
  BY DEF IInv, ResultIsProduced, hubVars
<1> QED
  BY <1>2, <1>3, <1>4, <1>5
     DEF IInv, WorkersHoldTheirClaims, RequestsAreCurrent, LeaseCoversWork, hubVars

LEMMA PostResultIInv == ASSUME IInv, NEW n \in Nodes, PostResult(n) PROVE IInv'
<1> USE PeriodAssumption, BoundAssumption
<1>1. /\ worker[n].phase = "posting" /\ worker[n] \in Worker
      /\ worker[n].attempt < PostAttempts
      /\ worker' = [worker EXCEPT ![n].phase = "awaiting", ![n].attempt = @ + 1]
      /\ UNCHANGED <<hubVars, orphans, faults>>
  BY DEF PostResult, IInv, TypeOK
<1>2. HoldsItsClaim(n) /\ TaskWithinLease(n)
  BY DEF IInv, WorkersHoldTheirClaims, LeaseCoversWork
<1>3. worker[n].job \in Jobs /\ worker[n].outcome \in Outcomes
  BY <1>1, <1>2 DEF HoldsItsClaim, Worker, IInv, TypeOK, RequestsAreCurrent, PostResult
<1>4. PICK q :
        /\ requests' = requests \cup {q}
        /\ q = [job |-> worker[n].job, claim |-> worker[n].claim,
                outcome |-> worker[n].outcome, stage |-> "sent",
                attempt |-> worker[n].attempt + 1, delay |-> 0]
  BY DEF PostResult
<1>5. /\ worker'[n].phase = "awaiting" /\ worker'[n].job = worker[n].job
      /\ worker'[n].claim = worker[n].claim /\ worker'[n].outcome = worker[n].outcome
      /\ worker'[n].clock = worker[n].clock
      /\ worker' \in [Nodes -> Worker]
      /\ \A m \in Nodes \ {n} : worker'[m] = worker[m]
  BY <1>1 DEF Worker, IInv, TypeOK
<1>6. HoldsItsClaim(n)' /\ TaskWithinLease(n)'
  BY <1>1, <1>2, <1>5 DEF HoldsItsClaim, TaskWithinLease, hubVars
<1>7. q \in Request /\ IsCurrent(q)'
  <2>1. q \in Request
    BY <1>1, <1>3, <1>4 DEF Request, Worker
  <2>2. /\ claims[q.job] = q.claim /\ produced[q.job] = q.outcome
        /\ status[q.job] \notin {"none", "queued"}
    BY <1>1, <1>2, <1>4 DEF HoldsItsClaim
  <2> QED
    BY <1>1, <2>1, <2>2 DEF IsCurrent, hubVars
<1>8. RequestWithinLease(q)'
  <2>1. worker[n].clock \in Nat /\ age[worker[n].job] \in Nat
    BY <1>1, <1>3 DEF Worker, IInv, TypeOK
  <2>2. q.job = worker[n].job /\ q.delay = 0
    BY <1>4
  <2>3. status[q.job] = "running" => age[q.job] <= RenewTicks + PostTicks
    BY <1>1, <1>2, <2>1, <2>2 DEF TaskWithinLease
  <2> QED
    BY <1>1, <2>2, <2>3 DEF RequestWithinLease, hubVars
<1>9. requests' \subseteq Request /\ orphans' \subseteq Nodes \X Jobs \X Nat
      /\ faults' \in 0 .. MaxFaults
  BY <1>1, <1>4, <1>7 DEF IInv, TypeOK
<1>10. \A m \in Nodes : worker'[m] # worker[m] => HoldsItsClaim(m)' /\ TaskWithinLease(m)'
  BY <1>5, <1>6
<1>11. \A r \in requests' : r \notin requests => IsCurrent(r)' /\ RequestWithinLease(r)'
  BY <1>4, <1>7, <1>8
<1> QED
  BY <1>1, <1>5, <1>9, <1>10, <1>11, HubFrame

LEMMA FailedAttempt ==
  ASSUME IInv, NEW n \in Nodes, worker[n].phase = "awaiting",
         worker' = AfterFailedAttempt(n), UNCHANGED hubVars
  PROVE  /\ worker' \in [Nodes -> Worker]
         /\ \A m \in Nodes : worker'[m] # worker[m] => HoldsItsClaim(m)' /\ TaskWithinLease(m)'
<1> USE BoundAssumption
<1>1. worker[n] \in Worker /\ HoldsItsClaim(n) /\ TaskWithinLease(n)
  BY DEF IInv, TypeOK, WorkersHoldTheirClaims, LeaseCoversWork
<1>2. CASE worker' = [worker EXCEPT ![n].phase = "posting"]
  <2>1. /\ worker'[n].phase = "posting" /\ worker'[n].job = worker[n].job
        /\ worker'[n].claim = worker[n].claim /\ worker'[n].outcome = worker[n].outcome
        /\ worker'[n].clock = worker[n].clock
        /\ worker' \in [Nodes -> Worker]
        /\ \A m \in Nodes \ {n} : worker'[m] = worker[m]
    BY <1>1, <1>2 DEF Worker, IInv, TypeOK
  <2>2. HoldsItsClaim(n)' /\ TaskWithinLease(n)'
    BY <1>1, <2>1 DEF HoldsItsClaim, TaskWithinLease, hubVars
  <2> QED
    BY <2>1, <2>2
<1>3. CASE worker' = [worker EXCEPT ![n] = Idle]
  <2>1. worker'[n] = Idle /\ \A m \in Nodes \ {n} : worker'[m] = worker[m]
    BY <1>3 DEF IInv, TypeOK
  <2>2. worker' \in [Nodes -> Worker]
    BY <1>3, <2>1, IdleTask DEF IInv, TypeOK
  <2> QED
    BY <2>1, <2>2, IdleTask
<1> QED
  BY <1>2, <1>3 DEF AfterFailedAttempt

LEMMA PostTimeoutIInv == ASSUME IInv, NEW n \in Nodes, PostTimeout(n) PROVE IInv'
<1>1. /\ worker[n].phase = "awaiting" /\ worker' = AfterFailedAttempt(n)
      /\ UNCHANGED <<hubVars, orphans, requests>> /\ UNCHANGED hubVars
      /\ requests' \subseteq Request /\ orphans' \subseteq Nodes \X Jobs \X Nat
  BY DEF PostTimeout, IInv, TypeOK
<1>2. faults' \in 0 .. MaxFaults
  BY BoundAssumption DEF PostTimeout, Fault, IInv, TypeOK
<1> QED
  BY <1>1, <1>2, FailedAttempt, HubFrame

LEMMA RestartIInv == ASSUME IInv, NEW n \in Nodes, Restart(n) \/ Raise(n) PROVE IInv'
<1>1. /\ worker' = [worker EXCEPT ![n] = Idle] /\ UNCHANGED hubVars /\ UNCHANGED requests
      /\ orphans' \subseteq orphans /\ worker \in [Nodes -> Worker]
  BY DEF Restart, Raise, IInv, TypeOK
<1>2. worker'[n] = Idle /\ \A m \in Nodes \ {n} : worker'[m] = worker[m]
  BY <1>1
<1>3. worker' \in [Nodes -> Worker]
  BY <1>1, <1>2, IdleTask
<1>4. faults' \in 0 .. MaxFaults /\ requests' \subseteq Request
      /\ orphans' \subseteq Nodes \X Jobs \X Nat
  BY <1>1, BoundAssumption DEF Restart, Raise, Fault, IInv, TypeOK
<1> QED
  BY <1>1, <1>2, <1>3, <1>4, IdleTask, HubFrame

-------------------------------------------------------------------------------
(* The result handler *)

LEMMA CheckResultIInv == ASSUME IInv, CheckResult PROVE IInv'
<1>1. PICK r \in requests :
        /\ r.stage = "sent"
        /\ IF status[r.job] = "running"
             THEN /\ requests' = (requests \ {r}) \cup {[r EXCEPT !.stage = "checked"]}
                  /\ UNCHANGED worker
             ELSE /\ requests' = requests \ {r}
                  /\ Answer(r, status[r.job] = r.outcome)
        /\ UNCHANGED <<hubVars, orphans, faults>>
  BY DEF CheckResult
<1>2. /\ r \in Request /\ UNCHANGED hubVars
      /\ faults' \in 0 .. MaxFaults /\ orphans' \subseteq Nodes \X Jobs \X Nat
      /\ worker \in [Nodes -> Worker] /\ requests \subseteq Request
  BY <1>1 DEF IInv, TypeOK
<1>3. CASE status[r.job] = "running"
  <2> DEFINE c == [r EXCEPT !.stage = "checked"]
  <2>1. c \in Request /\ c.job = r.job /\ c.claim = r.claim /\ c.outcome = r.outcome
        /\ c.delay = r.delay
    BY <1>2 DEF Request
  <2>2. IsCurrent(r) /\ RequestWithinLease(r)
    BY DEF IInv, RequestsAreCurrent, LeaseCoversWork
  <2>3. IsCurrent(c)' /\ RequestWithinLease(c)'
    BY <1>2, <2>1, <2>2 DEF IsCurrent, RequestWithinLease, hubVars
  <2> QED
    BY <1>1, <1>2, <1>3, <2>1, <2>3, HubFrame
<1>4. CASE status[r.job] # "running"
  <2> DEFINE n == node[r.job]
  <2>1. requests' = requests \ {r} /\ Answer(r, status[r.job] = r.outcome)
    BY <1>1, <1>4
  <2>2. n \in Nodes
    <3>1. status[r.job] \in Terminal /\ r.job \in Jobs
      BY <1>2, <1>4 DEF IInv, TypeOK, RequestsAreCurrent, IsCurrent, Request
    <3> QED
      BY <3>1 DEF IInv
  <2>3. /\ worker' \in [Nodes -> Worker]
        /\ \A m \in Nodes : worker'[m] # worker[m] => HoldsItsClaim(m)' /\ TaskWithinLease(m)'
    <3>1. CASE UNCHANGED worker
      BY <1>2, <3>1
    <3>2. CASE Awaits(n, r) /\ worker' = AfterFailedAttempt(n)
      BY <1>2, <2>2, <3>2, FailedAttempt DEF Awaits
    <3>3. CASE worker' = [worker EXCEPT ![n] = Idle]
      <4>1. worker'[n] = Idle /\ \A m \in Nodes \ {n} : worker'[m] = worker[m]
        BY <1>2, <2>2, <3>3
      <4>2. worker' \in [Nodes -> Worker]
        BY <1>2, <2>2, <3>3, <4>1, IdleTask
      <4> QED
        BY <2>2, <4>1, <4>2, IdleTask
    <3> QED
      BY <2>1, <3>1, <3>2, <3>3 DEF Answer
  <2> QED
    BY <1>2, <2>1, <2>3, HubFrame
<1> QED
  BY <1>3, <1>4

LEMMA CommitResultIInv == ASSUME IInv, CommitResult PROVE IInv'
<1> USE PeriodAssumption, BoundAssumption
<1>1. PICK r \in requests :
        /\ r.stage = "checked"
        /\ status' = [status EXCEPT ![r.job] = r.outcome]
        /\ requests' = requests \ {r}
        /\ Answer(r, TRUE)
        /\ UNCHANGED <<node, age, claims, produced, orphans, faults>>
  BY DEF CommitResult
<1> DEFINE j == r.job
<1>2. /\ r \in Request /\ j \in Jobs /\ r.outcome \in Outcomes
      /\ IsCurrent(r) /\ produced[j] = r.outcome /\ status'[j] = r.outcome
      /\ \A k \in Jobs \ {j} : RowUnchanged(k)
      /\ node[j] \in Nodes
  BY <1>1 DEF IInv, TypeOK, RequestsAreCurrent, IsCurrent, Request, RowUnchanged
<1>3. /\ worker' \in [Nodes -> Worker]
      /\ \A m \in Nodes : worker'[m] = worker[m] \/ worker'[m] = Idle
  BY <1>1, <1>2, IdleTask DEF Answer, IInv, TypeOK
<1>4. TypeOK'
  BY <1>1, <1>2, <1>3 DEF IInv, TypeOK, Terminal, Outcomes
<1>5. ASSUME NEW m \in Nodes PROVE HoldsItsClaim(m)' /\ TaskWithinLease(m)'
  <2>1. CASE worker'[m] = Idle
    BY <2>1, IdleTask
  <2>2. CASE worker'[m] = worker[m] /\ (worker[m].phase # "idle" => worker[m].job # j)
    <3>1. worker[m].phase # "idle" => worker[m].job \in Jobs
      BY DEF IInv, WorkersHoldTheirClaims, HoldsItsClaim
    <3> QED
      BY <1>2, <2>2, <3>1, TaskFrame
  <2>3. CASE worker'[m] = worker[m] /\ worker[m].phase # "idle" /\ worker[m].job = j
    <3>1. HoldsItsClaim(m) /\ TaskWithinLease(m) /\ worker[m].phase # "executing"
      BY <1>2, <2>3
         DEF IInv, WorkersHoldTheirClaims, LeaseCoversWork, HoldsItsClaim, Outcomes
    <3> QED
      BY <1>1, <1>2, <2>3, <3>1 DEF HoldsItsClaim, TaskWithinLease, Outcomes
  <2> QED
    BY <1>3, <2>1, <2>2, <2>3
<1>6. ASSUME NEW q \in requests' PROVE IsCurrent(q)' /\ RequestWithinLease(q)'
  <2>1. q \in requests /\ q.job \in Jobs /\ IsCurrent(q)
    BY <1>1 DEF IInv, TypeOK, Request, RequestsAreCurrent
  <2>2. CASE q.job # j
    BY <1>2, <2>1, <2>2, RequestFrame
  <2>3. CASE q.job = j
    BY <1>1, <1>2, <2>1, <2>3 DEF IsCurrent, RequestWithinLease, Outcomes
  <2> QED
    BY <2>2, <2>3
<1>7. ResultIsProduced'
  BY <1>1, <1>2 DEF IInv, ResultIsProduced, RowUnchanged
<1> QED
  BY <1>1, <1>2, <1>4, <1>5, <1>6, <1>7
     DEF IInv, WorkersHoldTheirClaims, RequestsAreCurrent, LeaseCoversWork, RowUnchanged

LEMMA DropRequestIInv == ASSUME IInv, DropRequest PROVE IInv'
<1>1. requests' \subseteq requests /\ UNCHANGED hubVars /\ UNCHANGED worker
      /\ UNCHANGED orphans /\ faults' \in 0 .. MaxFaults
  BY BoundAssumption DEF DropRequest, Fault, IInv, TypeOK
<1>2. requests' \subseteq Request /\ worker' \in [Nodes -> Worker]
      /\ orphans' \subseteq Nodes \X Jobs \X Nat
  BY <1>1 DEF IInv, TypeOK
<1> QED
  BY <1>1, <1>2, HubFrame
-------------------------------------------------------------------------------
(* Time *)

LEMMA TickIInv == ASSUME IInv, Tick PROVE IInv'
<1> USE PeriodAssumption, BoundAssumption
<1>1. /\ UNCHANGED <<status, node, claims, produced, orphans, faults>>
      /\ age' = [j \in Jobs |-> IF status[j] = "running" /\ age[j] < LeaseTicks
                                  THEN age[j] + 1 ELSE age[j]]
      /\ worker' = [n \in Nodes |-> IF worker[n].phase = "idle" THEN worker[n]
                                      ELSE [worker[n] EXCEPT !.clock = @ + 1]]
  BY DEF Tick
<1>2. \A j \in Jobs : /\ age[j] \in 0 .. LeaseTicks /\ age'[j] \in 0 .. LeaseTicks
                      /\ age'[j] <= age[j] + 1
  BY <1>1 DEF IInv, TypeOK
<1>3. ASSUME NEW n \in Nodes, worker[n].phase # "idle"
      PROVE  /\ worker'[n] = [worker[n] EXCEPT !.clock = @ + 1]
             /\ worker[n] \in Worker /\ worker'[n] \in Worker
             /\ worker'[n].clock = worker[n].clock + 1
             /\ worker'[n].phase = worker[n].phase /\ worker'[n].job = worker[n].job
             /\ worker'[n].claim = worker[n].claim /\ worker'[n].outcome = worker[n].outcome
  BY <1>1, <1>3 DEF IInv, TypeOK, Worker
<1>4. \A n \in Nodes : worker[n].phase = "idle" => worker'[n] = worker[n]
  BY <1>1
<1>5. worker' \in [Nodes -> Worker]
  BY <1>1, <1>3, <1>4 DEF IInv, TypeOK
<1>6. ASSUME NEW n \in Nodes PROVE HoldsItsClaim(n)' /\ TaskWithinLease(n)'
  <2>1. CASE worker[n].phase = "idle"
    BY <1>4, <2>1 DEF HoldsItsClaim, TaskWithinLease
  <2>2. CASE worker[n].phase # "idle"
    <3>1. HoldsItsClaim(n) /\ TaskWithinLease(n)
      BY DEF IInv, WorkersHoldTheirClaims, LeaseCoversWork
    <3>2. HoldsItsClaim(n)'
      BY <1>1, <1>3, <2>2, <3>1 DEF HoldsItsClaim
    <3>3. worker[n].job \in Jobs /\ worker[n].clock \in Nat
      BY <1>3, <2>2, <3>1 DEF HoldsItsClaim, Worker
    <3>4. /\ worker[n].phase = "executing" => worker[n].clock < RenewTicks
          /\ worker[n].phase \in {"posting", "awaiting"} => worker[n].clock < PostTicks
      BY DEF Tick
    <3>5. TaskWithinLease(n)'
      BY <1>1, <1>2, <1>3, <2>2, <3>1, <3>3, <3>4 DEF TaskWithinLease
    <3> QED
      BY <3>2, <3>5
  <2> QED
    BY <2>1, <2>2
<1>7. ASSUME NEW q \in requests'
      PROVE  q \in Request /\ IsCurrent(q)' /\ RequestWithinLease(q)'
  <2>1. PICK r \in requests : q = [r EXCEPT !.delay = @ + 1] /\ r.delay < RequestTicks
    BY DEF Tick
  <2>2. r \in Request /\ IsCurrent(r) /\ RequestWithinLease(r)
    BY DEF IInv, TypeOK, RequestsAreCurrent, LeaseCoversWork
  <2>3. /\ q \in Request /\ q.job = r.job /\ q.claim = r.claim /\ q.outcome = r.outcome
        /\ q.delay = r.delay + 1 /\ r.delay \in Nat /\ r.job \in Jobs
    BY <2>1, <2>2 DEF Request
  <2>4. IsCurrent(q)'
    BY <1>1, <2>2, <2>3 DEF IsCurrent
  <2>5. RequestWithinLease(q)'
    BY <1>1, <1>2, <2>2, <2>3 DEF RequestWithinLease
  <2> QED
    BY <2>3, <2>4, <2>5
<1>8. TypeOK'
  <2>1. age' \in [Jobs -> 0 .. LeaseTicks]
    BY <1>1, <1>2
  <2> QED
    BY <1>1, <1>5, <1>7, <2>1 DEF IInv, TypeOK
<1>9. ResultIsProduced'
  BY <1>1 DEF IInv, ResultIsProduced
<1> QED
  BY <1>1, <1>6, <1>7, <1>8, <1>9
     DEF IInv, WorkersHoldTheirClaims, RequestsAreCurrent, LeaseCoversWork

LEMMA StutterIInv == ASSUME IInv, UNCHANGED vars PROVE IInv'
BY DEF vars, IInv, TypeOK, WorkersHoldTheirClaims, HoldsItsClaim, RequestsAreCurrent,
       IsCurrent, ResultIsProduced, LeaseCoversWork, TaskWithinLease, RequestWithinLease

LEMMA NextIInv == IInv /\ [Next]_vars => IInv'
<1> SUFFICES ASSUME IInv, [Next]_vars PROVE IInv'
  OBVIOUS
<1>1. CASE \E n \in Nodes : Submit(n) \/ Poll(n) \/ LostPoll(n) \/ Renew(n) \/ Finish(n)
  BY <1>1, SubmitIInv, PollIInv, LostPollIInv, RenewIInv, FinishIInv
<1>2. CASE \E n \in Nodes : PostResult(n) \/ PostTimeout(n) \/ Restart(n) \/ Raise(n)
  BY <1>2, PostResultIInv, PostTimeoutIInv, RestartIInv
<1>3. CASE Requeue \/ OrphanEnds \/ CheckResult \/ CommitResult \/ DropRequest \/ Tick
  BY <1>3, RequeueIInv, OrphanEndsIInv, CheckResultIInv, CommitResultIInv, DropRequestIInv,
     TickIInv
<1>4. CASE UNCHANGED vars
  BY <1>4, StutterIInv
<1> QED
  BY <1>1, <1>2, <1>3, <1>4 DEF Next

-------------------------------------------------------------------------------
(* The theorems *)

\* IInv holds throughout: the state is well typed, every job_task and every POST still under way
\* belongs to the last claim of its row, and no lease runs out while one of them exists, whatever
\* the number of nodes and jobs and whatever periods satisfy PeriodAssumption.
THEOREM Invariant == Spec => []IInv
<1> QED
  BY InitIInv, NextIInv, PTL DEF Spec

\* A job that an Agent executes or reports is never requeued or claimed a second time by the Hub
\* meanwhile: renewals and time-outs of process_jobs fit into the lease of agent_jobs.
THEOREM NoLostClaim == Spec => []WorkersHoldTheirClaims
<1>1. IInv => WorkersHoldTheirClaims
  BY DEF IInv
<1> QED
  BY <1>1, Invariant, PTL

\* The unguarded UPDATE of agent_job_result never alters a row that is already terminal: a second
\* copy of a POST can only repeat what the first one wrote.
THEOREM FinalResults == Spec => ResultsAreFinal
<1> DEFINE Kept == \A j \in Jobs : status[j] \in Terminal => status'[j] = status[j]
<1>1. ASSUME IInv, [Next]_vars PROVE Kept
  <2>1. CASE \E n \in Nodes : Submit(n) \/ Poll(n) \/ LostPoll(n)
    BY <1>1, <2>1 DEF Submit, Poll, LostPoll, Claim, IInv, TypeOK, Terminal
  <2>2. CASE Requeue
    BY <1>1, <2>2 DEF Requeue, Expired, IInv, TypeOK, Terminal
  <2>3. CASE CommitResult
    <3>1. PICK r \in requests : status' = [status EXCEPT ![r.job] = r.outcome]
      BY <2>3 DEF CommitResult
    <3>2. r.job \in Jobs /\ (status[r.job] \in Terminal => status[r.job] = r.outcome)
      BY <1>1 DEF IInv, TypeOK, Request, RequestsAreCurrent, IsCurrent, ResultIsProduced
    <3> QED
      BY <1>1, <3>1, <3>2 DEF IInv, TypeOK
  <2>4. CASE Tick \/ OrphanEnds \/ CheckResult \/ DropRequest \/ UNCHANGED vars
    BY <2>4 DEF Tick, OrphanEnds, CheckResult, DropRequest, hubVars, vars
  <2>5. CASE \E n \in Nodes : Renew(n) \/ Finish(n) \/ PostResult(n) \/ PostTimeout(n)
                              \/ Restart(n) \/ Raise(n)
    BY <2>5 DEF Renew, Finish, Raise, PostResult, PostTimeout, Restart, hubVars
  <2> QED
    BY <1>1, <2>1, <2>2, <2>3, <2>4, <2>5 DEF Next
<1> QED
  BY <1>1, Invariant, PTL DEF Spec, ResultsAreFinal

-------------------------------------------------------------------------------
(* The refinement of JobService: a poll grants a job whether or not its answer arrives, the     *)
(* maintenance cycle revokes, the thread's return produces, and the first commit of a result    *)
(* finishes; renewals, POSTs, restarts and time are stuttering steps.                           *)

LEMMA InitService == Init => Service!Init
BY DEF Init, Service!Init

LEMMA ClaimService ==
  ASSUME NEW n \in Nodes, NEW j \in Jobs, Claim(n, j)
  PROVE  Service!Next
BY DEF Claim, Service!Next, Service!Grant

LEMMA CommitService == ASSUME IInv, CommitResult PROVE [Service!Next]_Service!vars
<1>1. PICK r \in requests : /\ status' = [status EXCEPT ![r.job] = r.outcome]
                            /\ UNCHANGED <<claims, produced>>
  BY DEF CommitResult
<1>2. /\ r.job \in Jobs /\ r.outcome \in Outcomes /\ produced[r.job] = r.outcome
      /\ status[r.job] \in {"running"} \cup Terminal
      /\ status[r.job] \in Terminal => status[r.job] = r.outcome
      /\ status \in [Jobs -> {"none", "queued", "running"} \cup Terminal]
  BY DEF IInv, TypeOK, Request, RequestsAreCurrent, IsCurrent, ResultIsProduced
<1>3. CASE status[r.job] = "running"
  <2>1. Service!Finish(r.job)
    BY <1>1, <1>2, <1>3 DEF Service!Finish, Service!Outcomes, Outcomes
  <2> QED
    BY <1>2, <2>1 DEF Service!Next
<1>4. CASE status[r.job] \in Terminal
  <2>1. status' = status
    BY <1>1, <1>2, <1>4
  <2> QED
    BY <1>1, <2>1 DEF Service!vars
<1> QED
  BY <1>2, <1>3, <1>4

LEMMA NextService == IInv /\ [Next]_vars => [Service!Next]_Service!vars
<1> SUFFICES ASSUME IInv, [Next]_vars PROVE [Service!Next]_Service!vars
  OBVIOUS
<1>1. CASE \E n \in Nodes : Submit(n)
  BY <1>1 DEF Submit, Service!Next, Service!Submit
<1>2. CASE \E n \in Nodes : Poll(n) \/ LostPoll(n)
  BY <1>2, ClaimService DEF Poll, LostPoll
<1>3. CASE Requeue
  <2>1. Service!Revoke(Expired) /\ Expired \in SUBSET Jobs
    BY <1>3 DEF Requeue, Expired, Service!Revoke
  <2> QED
    BY <2>1 DEF Service!Next
<1>4. ASSUME NEW n \in Nodes, Finish(n) PROVE Service!Next
  <2>1. PICK o \in Outcomes :
          /\ worker[n].phase = "executing"
          /\ produced' = [produced EXCEPT ![worker[n].job] = o]
          /\ UNCHANGED <<status, claims>>
    BY <1>4 DEF Finish
  <2>2. worker[n].job \in Jobs /\ status[worker[n].job] = "running"
        /\ produced[worker[n].job] = "none"
    BY <2>1 DEF IInv, WorkersHoldTheirClaims, HoldsItsClaim
  <2>3. Service!Produce(worker[n].job, o)
    BY <2>1, <2>2 DEF Service!Produce
  <2> QED
    BY <2>2, <2>3 DEF Service!Next, Service!Outcomes, Outcomes
<1>5. CASE CommitResult
  BY <1>5, CommitService
<1>6. CASE Tick \/ OrphanEnds \/ CheckResult \/ DropRequest \/ UNCHANGED vars
  BY <1>6 DEF Tick, OrphanEnds, CheckResult, DropRequest, hubVars, vars, Service!vars
<1>7. CASE \E n \in Nodes : Renew(n) \/ PostResult(n) \/ PostTimeout(n) \/ Restart(n)
                          \/ Raise(n)
  BY <1>7 DEF Renew, Raise, PostResult, PostTimeout, Restart, hubVars, Service!vars
<1> QED
  BY <1>1, <1>2, <1>3, <1>4, <1>5, <1>6, <1>7 DEF Next

\* The queue implements JobService: each job is granted to its node only while queued, its execution
\* produces at most one result per grant, and it ends once, with the result of its last grant,
\* although leases, lost answers, retried POSTs and restarts may come in any order.
THEOREM Refinement == Spec => ImplementsService
BY InitService, NextService, Invariant, PTL DEF Spec, ImplementsService, Service!Spec
===============================================================================
