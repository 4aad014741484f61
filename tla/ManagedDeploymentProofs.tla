----------------------- MODULE ManagedDeploymentProofs -----------------------
(***************************************************************************)
(* Theorems about ManagedDeployment, for every number of handlers, rows,   *)
(* requests and restarts.                                                  *)
(*                                                                         *)
(* Type correctness holds whatever the Hub's threads do.  The verdicts on  *)
(* a deployment hold in the behaviours in which no two handlers overlap    *)
(* (Serial): every handler decides on what it read before its transaction  *)
(* began, and run DeploymentOverlap shows what an overlap can do.  What    *)
(* runs on the nodes is right if, besides, there is one deployment at most *)
(* (OneRow): a second one of the same name undoes the first one's work.    *)
(***************************************************************************)
EXTENDS ManagedDeployment, SequenceTheorems, TLAPS

Kinds == {"plugin_deploy", "plugin_remove"}
Statuses4 == {"queued", "running", "completed", "failed"}
Row(n) == [lifecycle : Lifecycle, job : [Sides -> 1 .. n]]

\* A job_task that has an outcome to report has a job.
WorkerKnows == \A s \in Sides : worker[s].job = 0 => worker[s].outcome = "none"

Types == TypeOK /\ WorkerKnows

-----------------------------------------------------------------------------
(* Sequences *)

\* What a status written to the jobs table leaves alone.
LEMMA StatusWritten ==
  ASSUME NEW old \in Seq(Job), NEW j \in 1 .. Len(old), NEW x \in Statuses4
  PROVE  LET new == [old EXCEPT ![j].status = x] IN
         /\ new \in Seq(Job)
         /\ Len(new) = Len(old)
         /\ new[j].status = x
         /\ \A i \in 1 .. Len(old) :
              /\ new[i].side = old[i].side /\ new[i].kind = old[i].kind
              /\ i # j => new[i] = old[i]
<1> DEFINE e == [old[j] EXCEPT !.status = x]
<1>1. old[j] \in Job
  BY ElementOfSeq
<1>2. /\ e \in Job /\ e.status = x
      /\ e.side = old[j].side /\ e.kind = old[j].kind
  BY <1>1 DEF Job, Outcomes, Statuses4
<1>3. [old EXCEPT ![j].status = x] = [old EXCEPT ![j] = e]
  OBVIOUS
<1> HIDE DEF e
<1>4. QED
  BY <1>2, <1>3, ExceptSeq

\* The jobs that NewJobs makes, in the order of NewId.
LEMMA NewJobsAre ==
  ASSUME NEW S \in SUBSET Sides, NEW kind \in Kinds
  PROVE  LET new == NewJobs(S, kind) IN
         /\ new \in Seq(Job)
         /\ Len(new) \in 0 .. 2
         /\ \A s \in S : LET i == IF s = "kharej" /\ "iran" \in S THEN 2 ELSE 1 IN
              i <= Len(new) /\ new[i] = [side |-> s, kind |-> kind, status |-> "queued"]
<1> DEFINE one(s) == [side |-> s, kind |-> kind, status |-> "queued"]
           new(s) == IF s \in S THEN <<one(s)>> ELSE <<>>
<1>1. \A s \in Sides : one(s) \in Job
  BY DEF Job, Kinds
<1>2. NewJobs(S, kind) = new("iran") \o new("kharej")
  BY DEF NewJobs
<1> HIDE DEF one
<1>3. \A s \in Sides : /\ new(s) \in Seq(Job)
                       /\ s \in S => Len(new(s)) = 1 /\ new(s)[1] = one(s)
                       /\ s \notin S => Len(new(s)) = 0
  BY <1>1
<1> HIDE DEF new
<1> DEFINE both == new("iran") \o new("kharej")
<1>4. "iran" \in Sides /\ "kharej" \in Sides
  BY DEF Sides
<1>5. /\ both \in Seq(Job)
      /\ Len(both) = Len(new("iran")) + Len(new("kharej"))
      /\ \A i \in 1 .. Len(new("iran")) + Len(new("kharej")) :
           both[i] = IF i <= Len(new("iran")) THEN new("iran")[i]
                     ELSE new("kharej")[i - Len(new("iran"))]
  BY <1>3, <1>4, ConcatProperties
<1> HIDE DEF both
<1>6. Len(both) \in 0 .. 2
  BY <1>3, <1>4, <1>5
<1>7. \A s \in S : LET i == IF s = "kharej" /\ "iran" \in S THEN 2 ELSE 1 IN
        i <= Len(both) /\ both[i] = one(s)
  <2>1. CASE "iran" \in S /\ "kharej" \in S
    BY <2>1, <1>3, <1>4, <1>5 DEF Sides
  <2>2. CASE "iran" \in S /\ "kharej" \notin S
    BY <2>2, <1>3, <1>4, <1>5 DEF Sides
  <2>3. CASE "iran" \notin S
    BY <2>3, <1>3, <1>4, <1>5 DEF Sides
  <2>4. QED
    BY <2>1, <2>2, <2>3
<1>8. QED
  BY <1>2, <1>5, <1>6, <1>7 DEF both, one

\* What queueing jobs for the sides in S makes of a jobs table.
Queued(old, new, S, kind) ==
  /\ new \in Seq(Job)
  /\ Len(new) \in Nat /\ Len(new) >= Len(old)
  /\ \A i \in 1 .. Len(old) : new[i] = old[i]
  /\ \A s \in S : LET i == Len(old) + IF s = "kharej" /\ "iran" \in S THEN 2 ELSE 1 IN
       /\ i \in Len(old) + 1 .. Len(new)
       /\ new[i] = [side |-> s, kind |-> kind, status |-> "queued"]

LEMMA Queueing ==
  ASSUME NEW old \in Seq(Job), NEW S \in SUBSET Sides, NEW kind \in Kinds
  PROVE  Queued(old, old \o NewJobs(S, kind), S, kind)
<1> DEFINE more == NewJobs(S, kind)
           new == old \o more
<1>1. /\ more \in Seq(Job)
      /\ Len(more) \in 0 .. 2
      /\ \A s \in S : LET i == IF s = "kharej" /\ "iran" \in S THEN 2 ELSE 1 IN
           i <= Len(more) /\ more[i] = [side |-> s, kind |-> kind, status |-> "queued"]
  BY NewJobsAre
<1> HIDE DEF more
<1>2. /\ new \in Seq(Job)
      /\ Len(new) = Len(old) + Len(more)
      /\ \A i \in 1 .. Len(old) + Len(more) :
           new[i] = IF i <= Len(old) THEN old[i] ELSE more[i - Len(old)]
  BY <1>1, ConcatProperties
<1>3. Len(old) \in Nat
  BY LenProperties
<1> HIDE DEF new
<1>4. \A i \in 1 .. Len(old) : new[i] = old[i]
  BY <1>1, <1>2, <1>3
<1>5. ASSUME NEW s \in S
      PROVE  LET i == Len(old) + IF s = "kharej" /\ "iran" \in S THEN 2 ELSE 1 IN
              /\ i \in Len(old) + 1 .. Len(new)
              /\ new[i] = [side |-> s, kind |-> kind, status |-> "queued"]
  <2> DEFINE k == IF s = "kharej" /\ "iran" \in S THEN 2 ELSE 1
  <2>1. /\ k \in 1 .. 2 /\ k <= Len(more)
        /\ more[k] = [side |-> s, kind |-> kind, status |-> "queued"]
    BY <1>1
  <2> HIDE DEF k
  <2>2. /\ Len(old) + k \in Len(old) + 1 .. Len(new)
        /\ new[Len(old) + k] = more[k]
    BY <1>1, <1>2, <1>3, <2>1
  <2>3. QED
    BY <2>1, <2>2 DEF k
<1>6. QED
  BY <1>1, <1>2, <1>3, <1>4, <1>5 DEF new, more, Queued

-----------------------------------------------------------------------------
(* Types *)

\* TypeOK with the set of rows by name.
LEMMA RowsTyped ==
  TypeOK => /\ rows \in Seq(Row(Len(jobs)))
            /\ Len(jobs) \in Nat /\ Len(rows) \in Nat
            /\ DOMAIN jobs = 1 .. Len(jobs) /\ DOMAIN rows = 1 .. Len(rows)
            /\ \A j \in 1 .. Len(jobs) : jobs[j] \in Job
            /\ \A r \in 1 .. Len(rows) : rows[r] \in Row(Len(jobs))
<1> SUFFICES ASSUME TypeOK
             PROVE  /\ rows \in Seq(Row(Len(jobs)))
                    /\ Len(jobs) \in Nat /\ Len(rows) \in Nat
                    /\ DOMAIN jobs = 1 .. Len(jobs) /\ DOMAIN rows = 1 .. Len(rows)
                    /\ \A j \in 1 .. Len(jobs) : jobs[j] \in Job
                    /\ \A r \in 1 .. Len(rows) : rows[r] \in Row(Len(jobs))
  OBVIOUS
<1>1. jobs \in Seq(Job) /\ rows \in Seq(Row(Len(jobs)))
  BY DEF TypeOK, Row
<1>2. QED
  BY <1>1, LenProperties, ElementOfSeq

\* What has been read stays well-typed while the tables grow.
LEMMA TablesGrow ==
  ASSUME TypeOK,
         NEW m \in Nat, m >= Len(jobs)
  PROVE  /\ rows \in Seq(Row(m))
         /\ worker \in [Sides -> [job : 0 .. m, outcome : Outcomes \cup {"none"}]]
         /\ orphans \subseteq 1 .. m
<1>1. rows \in Seq(Row(Len(jobs))) /\ Len(jobs) \in Nat
  BY RowsTyped
<1>2. 1 .. Len(jobs) \subseteq 1 .. m /\ 0 .. Len(jobs) \subseteq 0 .. m
  BY <1>1
<1>3. Row(Len(jobs)) \subseteq Row(m)
  <2> SUFFICES ASSUME NEW x \in Row(Len(jobs)) PROVE x \in Row(m)
    OBVIOUS
  <2>1. /\ x = [lifecycle |-> x.lifecycle, job |-> x.job]
        /\ x.lifecycle \in Lifecycle /\ x.job \in [Sides -> 1 .. Len(jobs)]
    BY DEF Row
  <2>2. x.job \in [Sides -> 1 .. m]
    BY <2>1, <1>2
  <2>3. QED
    BY <2>1, <2>2 DEF Row
<1>4. rows \in Seq(Row(m))
  BY <1>1, <1>3, SeqMonotonic
<1>5. worker \in [Sides -> [job : 0 .. m, outcome : Outcomes \cup {"none"}]]
  <2>1. worker \in [Sides -> [job : 0 .. Len(jobs), outcome : Outcomes \cup {"none"}]]
    BY DEF TypeOK
  <2>2. [job : 0 .. Len(jobs), outcome : Outcomes \cup {"none"}]
          \subseteq [job : 0 .. m, outcome : Outcomes \cup {"none"}]
    BY <1>2
  <2>3. QED
    BY <2>1, <2>2
<1>6. QED
  BY <1>2, <1>4, <1>5 DEF TypeOK

LEMMA HandlersGrow ==
  ASSUME TypeOK,
         jobs' \in Seq(Job), Len(jobs') >= Len(jobs),
         Len(rows') \in Nat, Len(rows') >= Len(rows)
  PROVE  \A h \in Handler : h \in Handler'
<1>1. Len(jobs) \in Nat /\ Len(rows) \in Nat
  BY RowsTyped
<1>2. Len(jobs') \in Nat
  BY LenProperties
<1>3. 1 .. Len(jobs) \subseteq 1 .. Len(jobs') /\ 1 .. Len(rows) \subseteq 1 .. Len(rows')
  BY <1>1, <1>2
<1>4. QED
  BY <1>3 DEF Handler

\* The parts of Handler.
LEMMA HandlerKinds ==
  ASSUME NEW h \in Handler
  PROVE  /\ h.op = "result" => h.job \in 1 .. Len(jobs) /\ h.outcome \in Outcomes
         /\ h.op = "retry" => h.row \in 1 .. Len(rows) /\ h.sides \in SUBSET Sides
         /\ h.op \in {"remove", "reconfigure"} => h.row \in 1 .. Len(rows)
         /\ h.op = "remove_one" => h.side \in Sides
         /\ h.op = "none" => h = Free
<1>1. h.op = "result" => h.job \in 1 .. Len(jobs) /\ h.outcome \in Outcomes
  BY DEF Handler, Free
<1>2. h.op = "retry" => h.row \in 1 .. Len(rows) /\ h.sides \in SUBSET Sides
  BY DEF Handler, Free
<1>3. h.op \in {"remove", "reconfigure"} => h.row \in 1 .. Len(rows)
  BY DEF Handler, Free
<1>4. h.op = "remove_one" => h.side \in Sides
  BY DEF Handler, Free
<1>5. h.op = "none" => h = Free
  BY DEF Handler, Free
<1>6. QED
  BY <1>1, <1>2, <1>3, <1>4, <1>5

\* A handler that reads changes nothing but its own record.
LEMMA ReadTyped ==
  ASSUME TypeOK, BoundAssumption, NEW t \in Threads, NEW h \in Handler, Read(t, h)
  PROVE  TypeOK' /\ UNCHANGED <<jobs, rows, installed, reported, worker, orphans, restarts>>
<1>1. UNCHANGED <<jobs, rows, installed, reported, worker, orphans, restarts>>
  BY DEF Read
<1>2. Handler' = Handler
  BY <1>1 DEF Handler
<1>3. threads' \in [Threads -> Handler]
  BY DEF Read, TypeOK
<1>4. ops' \in 0 .. MaxOps
  BY DEF Read, TypeOK, BoundAssumption
<1>5. QED
  BY <1>1, <1>2, <1>3, <1>4 DEF TypeOK

\* A handler that writes leaves well-typed tables that have grown.
LEMMA WriteTyped ==
  ASSUME TypeOK, NEW t \in Threads,
         jobs' \in Seq(Job), Len(jobs') \in Nat, Len(jobs') >= Len(jobs),
         rows' \in Seq(Row(Len(jobs'))), Len(rows') >= Len(rows),
         Written(t)
  PROVE  TypeOK'
<1>1. Len(rows') \in Nat
  BY LenProperties
<1>2. \A h \in Handler : h \in Handler'
  BY <1>1, HandlersGrow
<1>3. threads' \in [Threads -> Handler']
  <2>1. threads \in [Threads -> Handler] /\ threads' = [threads EXCEPT ![t] = Free]
    BY DEF TypeOK, Written
  <2>2. Free \in Handler'
    BY DEF Handler
  <2>3. QED
    BY <2>1, <2>2, <1>2
<1>4. /\ worker \in [Sides -> [job : 0 .. Len(jobs'), outcome : Outcomes \cup {"none"}]]
      /\ orphans \subseteq 1 .. Len(jobs')
  BY TablesGrow
<1>5. UNCHANGED <<installed, reported, worker, orphans, ops, restarts>>
  BY DEF Written
<1>6. QED
  BY <1>3, <1>4, <1>5 DEF TypeOK, Row

\* Both tables stay well-typed and lose nothing.
TablesTyped ==
  /\ jobs' \in Seq(Job) /\ Len(jobs') \in Nat /\ Len(jobs') >= Len(jobs)
  /\ rows' \in Seq(Row(Len(jobs'))) /\ Len(rows') >= Len(rows)

\* What queueing jobs for row r makes of the tables.
Enqueued(r, S, kind, l) ==
  /\ Len(rows') = Len(rows)
  /\ \A j \in 1 .. Len(jobs) : jobs'[j] = jobs[j]
  /\ \A s \in S : /\ rows'[r].job[s] \in Len(jobs) + 1 .. Len(jobs')
                  /\ jobs'[rows'[r].job[s]] = [side |-> s, kind |-> kind, status |-> "queued"]
  /\ \A s \in Sides \ S : rows'[r].job[s] = rows[r].job[s]
  /\ rows'[r].lifecycle = l
  /\ \A q \in 1 .. Len(rows) : q # r => rows'[q] = rows[q]

LEMMA EnqueueTyped ==
  ASSUME TypeOK, NEW r \in 1 .. Len(rows), NEW S \in SUBSET Sides, NEW kind \in Kinds,
         NEW l \in Lifecycle, Enqueue(r, S, kind, l)
  PROVE  TablesTyped /\ Enqueued(r, S, kind, l)
<1>1. jobs \in Seq(Job) /\ jobs' = jobs \o NewJobs(S, kind) /\ Len(jobs) \in Nat
  BY RowsTyped DEF TypeOK, Enqueue
<1>2. /\ jobs' \in Seq(Job) /\ Len(jobs') \in Nat /\ Len(jobs') >= Len(jobs)
      /\ \A j \in 1 .. Len(jobs) : jobs'[j] = jobs[j]
      /\ \A s \in S : /\ NewId(S, s) \in Len(jobs) + 1 .. Len(jobs')
                      /\ jobs'[NewId(S, s)] = [side |-> s, kind |-> kind, status |-> "queued"]
  <2>1. Queued(jobs, jobs', S, kind)
    BY <1>1, Queueing
  <2>2. QED
    BY <2>1 DEF Queued, NewId
<1> DEFINE js == [s \in Sides |-> IF s \in S THEN NewId(S, s) ELSE rows[r].job[s]]
           x == [lifecycle |-> l, job |-> js]
<1>3. rows' = [rows EXCEPT ![r] = x]
  BY DEF Enqueue
<1>4. rows \in Seq(Row(Len(jobs'))) /\ rows[r] \in Row(Len(jobs'))
  BY <1>2, TablesGrow, ElementOfSeq
<1>5. js \in [Sides -> 1 .. Len(jobs')]
  <2>1. \A s \in S : NewId(S, s) \in 1 .. Len(jobs')
    <3> SUFFICES ASSUME NEW s \in S PROVE NewId(S, s) \in 1 .. Len(jobs')
      OBVIOUS
    <3>1. NewId(S, s) \in Len(jobs) + 1 .. Len(jobs')
      BY <1>2
    <3>2. QED
      BY <3>1, <1>1, <1>2
  <2>2. rows[r].job \in [Sides -> 1 .. Len(jobs')]
    BY <1>4 DEF Row
  <2>3. QED
    BY <2>1, <2>2
<1>6. x \in Row(Len(jobs')) /\ x.lifecycle = l /\ x.job = js
  BY <1>5 DEF Row
<1>7. /\ \A s \in S : js[s] = NewId(S, s)
      /\ \A s \in Sides \ S : js[s] = rows[r].job[s]
  OBVIOUS
<1> HIDE DEF js, x
<1>8. /\ rows' \in Seq(Row(Len(jobs'))) /\ Len(rows') = Len(rows)
      /\ \A q \in 1 .. Len(rows) : rows'[q] = IF q = r THEN x ELSE rows[q]
  BY <1>3, <1>4, <1>6, ExceptSeq
<1>9. rows'[r] = x
  BY <1>8
<1>10. Len(rows) \in Nat
  BY RowsTyped
<1>11. TablesTyped
  BY <1>2, <1>8, <1>10 DEF TablesTyped
<1>12. Enqueued(r, S, kind, l)
  BY <1>2, <1>6, <1>7, <1>8, <1>9 DEF Enqueued
<1>13. QED
  BY <1>11, <1>12

LEMMA Others ==
  \A s \in Sides : Other(s) \in Sides /\ Other(s) # s /\ Sides = {s, Other(s)} /\ Other(Other(s)) = s
BY DEF Sides, Other

LEMMA StartRollbackTyped ==
  ASSUME TypeOK, NEW r \in 1 .. Len(rows), NEW done \in Seq(Job), Len(done) = Len(jobs),
         NEW side \in Sides, StartRollback(r, done, side)
  PROVE  /\ jobs' \in Seq(Job) /\ Len(jobs') \in Nat /\ Len(jobs') >= Len(jobs)
         /\ rows' \in Seq(Row(Len(jobs'))) /\ Len(rows') = Len(rows)
         /\ \A j \in 1 .. Len(jobs) : jobs'[j] = done[j]
         /\ rows'[r].lifecycle = "rolling_back"
         /\ rows'[r].job[side] \in Len(jobs) + 1 .. Len(jobs')
         /\ jobs'[rows'[r].job[side]] = [side |-> side, kind |-> "plugin_remove", status |-> "queued"]
         /\ rows'[r].job[Other(side)] = rows[r].job[Other(side)]
         /\ \A q \in 1 .. Len(rows) : q # r => rows'[q] = rows[q]
<1>1. Len(jobs) \in Nat /\ rows[r] \in Row(Len(jobs))
  BY RowsTyped
<1>2. Queued(done, jobs', {side}, "plugin_remove")
  <2>1. jobs' = done \o NewJobs({side}, "plugin_remove")
    BY DEF StartRollback
  <2>2. {side} \in SUBSET Sides /\ "plugin_remove" \in Kinds
    BY DEF Kinds
  <2>3. QED
    BY <2>1, <2>2, Queueing
<1>3. /\ jobs' \in Seq(Job) /\ Len(jobs') \in Nat /\ Len(jobs') >= Len(jobs)
      /\ \A j \in 1 .. Len(jobs) : jobs'[j] = done[j]
      /\ Len(jobs) + 1 \in Len(jobs) + 1 .. Len(jobs')
      /\ jobs'[Len(jobs) + 1] = [side |-> side, kind |-> "plugin_remove", status |-> "queued"]
  BY <1>2 DEF Queued
<1> DEFINE js == [rows[r].job EXCEPT ![side] = Len(jobs) + 1]
           x == [lifecycle |-> "rolling_back", job |-> js]
<1>4. rows \in Seq(Row(Len(jobs'))) /\ rows[r] \in Row(Len(jobs'))
  BY <1>3, TablesGrow, ElementOfSeq
<1>5. /\ js \in [Sides -> 1 .. Len(jobs')]
      /\ js[side] = Len(jobs) + 1 /\ js[Other(side)] = rows[r].job[Other(side)]
  <2>1. rows[r].job \in [Sides -> 1 .. Len(jobs')]
    BY <1>4 DEF Row
  <2>2. Len(jobs) + 1 \in 1 .. Len(jobs')
    BY <1>1, <1>3
  <2>3. QED
    BY <2>1, <2>2, Others
<1>6. rows' = [rows EXCEPT ![r] = x]
  <2>1. rows[r] = [lifecycle |-> rows[r].lifecycle, job |-> rows[r].job]
    BY <1>1 DEF Row
  <2>2. [[rows[r] EXCEPT !.lifecycle = "rolling_back"] EXCEPT !.job = js] = x
    <3> DEFINE m == [rows[r] EXCEPT !.lifecycle = "rolling_back"]
    <3>1. m = [lifecycle |-> "rolling_back", job |-> rows[r].job]
      BY <2>1
    <3> HIDE DEF m
    <3>2. [m EXCEPT !.job = js] = x
      <4> HIDE DEF js
      <4>1. QED
        BY <3>1
    <3>3. QED
      BY <3>2 DEF m
  <2>3. rows \in Seq(Row(Len(jobs))) /\ DOMAIN rows = 1 .. Len(rows)
    BY RowsTyped
  <2>4. rows' = [rows EXCEPT ![r].lifecycle = "rolling_back", ![r].job[side] = Len(jobs) + 1]
    BY DEF StartRollback
  <2>5. QED
    BY <2>2, <2>3, <2>4, <2>1
<1>7. x \in Row(Len(jobs')) /\ x.lifecycle = "rolling_back" /\ x.job = js
  BY <1>5 DEF Row, Lifecycle
<1> HIDE DEF js, x
<1>8. /\ rows' \in Seq(Row(Len(jobs'))) /\ Len(rows') = Len(rows)
      /\ \A q \in 1 .. Len(rows) : rows'[q] = IF q = r THEN x ELSE rows[q]
  BY <1>4, <1>6, <1>7, ExceptSeq
<1>9. rows'[r] = x
  BY <1>8
<1>10. QED
  BY <1>3, <1>5, <1>7, <1>8, <1>9

LEMMA EndRollbackTyped ==
  ASSUME TypeOK, NEW r \in 1 .. Len(rows), NEW done \in Seq(Job), Len(done) = Len(jobs),
         NEW l \in Lifecycle, EndRollback(r, done, l)
  PROVE  /\ jobs' = done
         /\ rows' \in Seq(Row(Len(jobs'))) /\ Len(rows') = Len(rows)
         /\ rows'[r].lifecycle = l /\ rows'[r].job = rows[r].job
         /\ \A q \in 1 .. Len(rows) : q # r => rows'[q] = rows[q]
<1>1. rows \in Seq(Row(Len(jobs))) /\ rows[r] \in Row(Len(jobs)) /\ jobs' = done
  BY RowsTyped DEF EndRollback
<1> DEFINE x == [rows[r] EXCEPT !.lifecycle = l]
<1>2. x \in Row(Len(jobs)) /\ x.lifecycle = l /\ x.job = rows[r].job
  BY <1>1 DEF Row
<1>3. rows' = [rows EXCEPT ![r] = x]
  BY DEF EndRollback
<1> HIDE DEF x
<1>4. /\ rows' \in Seq(Row(Len(jobs))) /\ Len(rows') = Len(rows)
      /\ \A q \in 1 .. Len(rows) : rows'[q] = IF q = r THEN x ELSE rows[q]
  BY <1>1, <1>2, <1>3, ExceptSeq
<1>5. rows'[r] = x
  BY <1>4
<1>6. QED
  BY <1>1, <1>2, <1>4, <1>5

\* The jobs table with the status that a result writes.
Done(t) == [jobs EXCEPT ![threads[t].job].status = threads[t].outcome]

\* A result writes its status, and then starts a rollback, ends one, or leaves the rows alone.
LEMMA ResultCases ==
  ASSUME TypeOK, NEW t \in Threads, WriteResult(t)
  PROVE  /\ threads[t].job \in 1 .. Len(jobs) /\ threads[t].outcome \in Outcomes
         /\ Done(t) \in Seq(Job) /\ Len(Done(t)) = Len(jobs)
         /\ Done(t)[threads[t].job].status = threads[t].outcome
         /\ \A i \in 1 .. Len(jobs) :
              /\ Done(t)[i].side = jobs[i].side /\ Done(t)[i].kind = jobs[i].kind
              /\ i # threads[t].job => Done(t)[i] = jobs[i]
         /\ \/ /\ jobs' = Done(t) /\ rows' = rows
               /\ \A r \in 1 .. Len(rows) : Refers(r, threads[t].job) => \E q \in 1 .. Len(rows) :
                     /\ Refers(q, threads[t].job)
                     /\ rows[q].lifecycle # "rolling_back"
                     /\ rows[q].lifecycle = "active" =>
                          {Done(t)[rows[q].job[u]].status : u \in Sides} # Outcomes
            \/ \E r \in 1 .. Len(rows) :
                 /\ Refers(r, threads[t].job) /\ rows[r].lifecycle = "rolling_back"
                 /\ EndRollback(r, Done(t), IF threads[t].outcome = "completed" THEN "rolled_back"
                                            ELSE "rollback_failed")
            \/ \E r \in 1 .. Len(rows), s \in Sides :
                 /\ Refers(r, threads[t].job) /\ rows[r].lifecycle = "active"
                 /\ Done(t)[rows[r].job[Other(s)]].status = "failed"
                 /\ StartRollback(r, Done(t), s)
<1>1. threads[t] \in Handler /\ threads[t].op = "result"
  BY DEF TypeOK, WriteResult
<1>2. threads[t].job \in 1 .. Len(jobs) /\ threads[t].outcome \in Outcomes
  BY <1>1, HandlerKinds
<1>3. jobs \in Seq(Job) /\ threads[t].outcome \in Statuses4
  BY <1>2 DEF TypeOK, Outcomes, Statuses4
<1>4. /\ Done(t) \in Seq(Job) /\ Len(Done(t)) = Len(jobs)
      /\ Done(t)[threads[t].job].status = threads[t].outcome
      /\ \A i \in 1 .. Len(jobs) :
           /\ Done(t)[i].side = jobs[i].side /\ Done(t)[i].kind = jobs[i].kind
           /\ i # threads[t].job => Done(t)[i] = jobs[i]
  BY <1>2, <1>3, StatusWritten DEF Done
<1>5. DOMAIN rows = 1 .. Len(rows)
  BY RowsTyped
<1>6. \/ \E r \in 1 .. Len(rows) : Refers(r, threads[t].job) /\ Settle(r, Done(t), threads[t].outcome)
      \/ (~\E r \in 1 .. Len(rows) : Refers(r, threads[t].job)) /\ jobs' = Done(t) /\ rows' = rows
  BY <1>5 DEF WriteResult, Done
<1>7. CASE (~\E r \in 1 .. Len(rows) : Refers(r, threads[t].job)) /\ jobs' = Done(t) /\ rows' = rows
  BY <1>2, <1>4, <1>7
<1>8. ASSUME NEW r \in 1 .. Len(rows), Refers(r, threads[t].job), Settle(r, Done(t), threads[t].outcome)
      PROVE  \/ /\ jobs' = Done(t) /\ rows' = rows
                /\ rows[r].lifecycle # "rolling_back"
                /\ rows[r].lifecycle = "active" =>
                     {Done(t)[rows[r].job[u]].status : u \in Sides} # Outcomes
             \/ /\ rows[r].lifecycle = "rolling_back"
                /\ EndRollback(r, Done(t), IF threads[t].outcome = "completed" THEN "rolled_back"
                                           ELSE "rollback_failed")
             \/ /\ rows[r].lifecycle = "active"
                /\ \E s \in Sides : /\ Done(t)[rows[r].job[Other(s)]].status = "failed"
                                    /\ StartRollback(r, Done(t), s)
  BY <1>8 DEF Settle
<1>9. QED
  BY <1>2, <1>4, <1>6, <1>7, <1>8

LEMMA InitTyped == BoundAssumption /\ Init => Types
<1> SUFFICES ASSUME BoundAssumption, Init PROVE Types
  OBVIOUS
<1>1. jobs \in Seq(Job) /\ rows \in Seq([lifecycle : Lifecycle, job : [Sides -> 1 .. Len(jobs)]])
  BY EmptySeq DEF Init
<1>2. threads \in [Threads -> Handler]
  BY DEF Init, Handler
<1>3. worker \in [Sides -> [job : 0 .. Len(jobs), outcome : Outcomes \cup {"none"}]] /\ WorkerKnows
  <2>1. Len(jobs) = 0 /\ worker = [s \in Sides |-> Idle]
    BY DEF Init
  <2>2. Idle \in [job : 0 .. Len(jobs), outcome : Outcomes \cup {"none"}] /\ Idle.outcome = "none"
    BY <2>1 DEF Idle
  <2>3. QED
    BY <2>1, <2>2 DEF WorkerKnows
<1>4. QED
  BY <1>1, <1>2, <1>3 DEF TypeOK, Types, Init, BoundAssumption

\* What handlers read.
LEMMA ReadsTyped ==
  ASSUME BoundAssumption, Types, NEW t \in Threads,
         \/ ReadDeploy(t) \/ ReadRetry(t) \/ ReadRemove(t) \/ ReadRemoveTunnel(t)
         \/ ReadReconfigure(t)
  PROVE  Types'
<1>1. TypeOK /\ DOMAIN rows = 1 .. Len(rows)
  BY RowsTyped DEF Types
<1>2. \E h \in Handler : Read(t, h)
  <2>1. CASE ReadDeploy(t)
    BY <2>1 DEF ReadDeploy, Handler
  <2>2. CASE ReadRetry(t)
    <3>1. PICK r \in DOMAIN rows :
            Read(t, [op |-> "retry", row |-> r,
                     sides |-> {s \in Sides : \/ JobOf(r, s).status # "completed"
                                              \/ rows[r].lifecycle = "rolled_back"}])
      BY <2>2 DEF ReadRetry
    <3> DEFINE some == {s \in Sides : \/ JobOf(r, s).status # "completed"
                                      \/ rows[r].lifecycle = "rolled_back"}
               h == [op |-> "retry", row |-> r, sides |-> some]
    <3>2. some \in SUBSET Sides
      OBVIOUS
    <3> HIDE DEF some
    <3>3. h \in Handler
      BY <3>2, <1>1 DEF Handler
    <3>4. Read(t, h)
      BY <3>1 DEF some
    <3>5. QED
      BY <3>3, <3>4
  <2>3. CASE ReadRemove(t)
    BY <2>3, <1>1 DEF ReadRemove, Handler
  <2>4. CASE ReadRemoveTunnel(t)
    <3>1. PICK s \in Sides : \/ \E r \in DOMAIN rows : Read(t, [op |-> "remove", row |-> r])
                             \/ Read(t, [op |-> "remove_one", side |-> s])
      BY <2>4 DEF ReadRemoveTunnel
    <3>2. \A r \in DOMAIN rows : [op |-> "remove", row |-> r] \in Handler
      BY <1>1 DEF Handler
    <3>3. [op |-> "remove_one", side |-> s] \in Handler
      BY DEF Handler
    <3>4. QED
      BY <3>1, <3>2, <3>3
  <2>5. CASE ReadReconfigure(t)
    BY <2>5, <1>1 DEF ReadReconfigure, Handler
  <2>6. QED
    BY <2>1, <2>2, <2>3, <2>4, <2>5
<1>3. TypeOK' /\ worker' = worker
  BY <1>1, <1>2, ReadTyped
<1>4. QED
  BY <1>3 DEF Types, WorkerKnows

\* A new deployment.
LEMMA DeployTyped ==
  ASSUME TypeOK, NEW t \in Threads, WriteDeploy(t)
  PROVE  /\ jobs' \in Seq(Job) /\ Len(jobs') \in Nat /\ Len(jobs') >= Len(jobs)
         /\ rows' \in Seq(Row(Len(jobs'))) /\ Len(rows') = Len(rows) + 1
         /\ \A j \in 1 .. Len(jobs) : jobs'[j] = jobs[j]
         /\ LET r == Len(rows) + 1 IN
            /\ rows'[r].lifecycle = "active"
            /\ \A s \in Sides : /\ rows'[r].job[s] \in Len(jobs) + 1 .. Len(jobs')
                                /\ jobs'[rows'[r].job[s]]
                                     = [side |-> s, kind |-> "plugin_deploy", status |-> "queued"]
         /\ \A q \in 1 .. Len(rows) : rows'[q] = rows[q]
<1>1. jobs \in Seq(Job) /\ jobs' = jobs \o NewJobs(Sides, "plugin_deploy") /\ Len(jobs) \in Nat
  BY RowsTyped DEF TypeOK, WriteDeploy
<1>2. Queued(jobs, jobs', Sides, "plugin_deploy")
  BY <1>1, Queueing DEF Kinds
<1>3. /\ jobs' \in Seq(Job) /\ Len(jobs') \in Nat /\ Len(jobs') >= Len(jobs)
      /\ \A j \in 1 .. Len(jobs) : jobs'[j] = jobs[j]
      /\ \A s \in Sides : /\ NewId(Sides, s) \in Len(jobs) + 1 .. Len(jobs')
                          /\ jobs'[NewId(Sides, s)]
                               = [side |-> s, kind |-> "plugin_deploy", status |-> "queued"]
  BY <1>2 DEF Queued, NewId
<1> DEFINE js == [s \in Sides |-> NewId(Sides, s)]
           x == [lifecycle |-> "active", job |-> js]
<1>4. js \in [Sides -> 1 .. Len(jobs')]
  <2> SUFFICES ASSUME NEW s \in Sides PROVE NewId(Sides, s) \in 1 .. Len(jobs')
    OBVIOUS
  <2>1. NewId(Sides, s) \in Len(jobs) + 1 .. Len(jobs')
    BY <1>3
  <2>2. QED
    BY <2>1, <1>1, <1>3
<1>5. \A s \in Sides : js[s] = NewId(Sides, s)
  OBVIOUS
<1> HIDE DEF js
<1>6. x \in Row(Len(jobs')) /\ x.lifecycle = "active" /\ x.job = js
  BY <1>4 DEF Row, Lifecycle
<1>7. rows' = Append(rows, x)
  BY DEF WriteDeploy, js
<1> HIDE DEF x
<1>8. rows \in Seq(Row(Len(jobs')))
  BY <1>3, TablesGrow
<1>9. /\ rows' \in Seq(Row(Len(jobs'))) /\ Len(rows') = Len(rows) + 1
      /\ \A q \in 1 .. Len(rows) : rows'[q] = rows[q]
      /\ rows'[Len(rows) + 1] = x
  BY <1>6, <1>7, <1>8, AppendProperties
<1>10. QED
  BY <1>3, <1>5, <1>6, <1>9

\* What operators' handlers write.
LEMMA WritesTyped ==
  ASSUME Types, NEW t \in Threads,
         \/ WriteDeploy(t) \/ WriteRetry(t) \/ WriteRemove(t) \/ WriteRemoveOne(t)
         \/ WriteReconfigure(t)
  PROVE  Types'
<1>1. TypeOK /\ Len(rows) \in Nat /\ threads[t] \in Handler
  BY RowsTyped DEF Types, TypeOK
<1>2. TablesTyped
  <2>1. CASE WriteDeploy(t)
    BY <2>1, <1>1, DeployTyped DEF TablesTyped
  <2>2. CASE WriteRetry(t)
    <3>1. threads[t].row \in 1 .. Len(rows) /\ threads[t].sides \in SUBSET Sides
      BY <2>2, <1>1, HandlerKinds DEF WriteRetry
    <3>2. Enqueue(threads[t].row, threads[t].sides, "plugin_deploy", "active")
      BY <2>2 DEF WriteRetry
    <3>3. "active" \in Lifecycle /\ "plugin_deploy" \in Kinds
      BY DEF Lifecycle, Kinds
    <3>4. QED
      BY <3>1, <3>2, <3>3, <1>1, EnqueueTyped
  <2>3. CASE WriteRemove(t)
    <3>1. threads[t].row \in 1 .. Len(rows)
      BY <2>3, <1>1, HandlerKinds DEF WriteRemove
    <3>2. Enqueue(threads[t].row, Sides, "plugin_remove", "removing")
      BY <2>3 DEF WriteRemove
    <3>3. "removing" \in Lifecycle /\ "plugin_remove" \in Kinds /\ Sides \in SUBSET Sides
      BY DEF Lifecycle, Kinds
    <3>4. QED
      BY <3>1, <3>2, <3>3, <1>1, EnqueueTyped
  <2>4. CASE WriteRemoveOne(t)
    <3>1. {threads[t].side} \in SUBSET Sides /\ "plugin_remove" \in Kinds
      BY <2>4, <1>1, HandlerKinds DEF WriteRemoveOne, Kinds
    <3>2. jobs' = jobs \o NewJobs({threads[t].side}, "plugin_remove") /\ rows' = rows
      BY <2>4 DEF WriteRemoveOne
    <3>3. Queued(jobs, jobs', {threads[t].side}, "plugin_remove")
      BY <3>1, <3>2, <1>1, Queueing DEF TypeOK
    <3>4. jobs' \in Seq(Job) /\ Len(jobs') \in Nat /\ Len(jobs') >= Len(jobs)
      BY <3>3 DEF Queued
    <3>5. rows \in Seq(Row(Len(jobs')))
      BY <3>4, <1>1, TablesGrow
    <3>6. QED
      BY <3>2, <3>4, <3>5, <1>1 DEF TablesTyped
  <2>5. CASE WriteReconfigure(t)
    <3>1. threads[t].row \in 1 .. Len(rows)
      BY <2>5, <1>1, HandlerKinds DEF WriteReconfigure
    <3>2. Enqueue(threads[t].row, Sides, "plugin_deploy", rows[threads[t].row].lifecycle)
      BY <2>5 DEF WriteReconfigure
    <3>3. "plugin_deploy" \in Kinds /\ Sides \in SUBSET Sides
      BY DEF Kinds
    <3>4. rows[threads[t].row].lifecycle \in Lifecycle
      BY <3>1, <1>1, RowsTyped DEF Row
    <3>5. QED
      BY <3>1, <3>2, <3>3, <3>4, <1>1, EnqueueTyped
  <2>6. QED
    BY <2>1, <2>2, <2>3, <2>4, <2>5
<1>3. Written(t)
  BY DEF WriteDeploy, WriteRetry, WriteRemove, WriteRemoveOne, WriteReconfigure
<1>4. TypeOK'
  BY <1>1, <1>2, <1>3, WriteTyped DEF TablesTyped
<1>5. QED
  BY <1>3, <1>4 DEF Types, WorkerKnows, Written

\* The UPDATE of a claim or of the requeueing maintenance.
LEMMA UpdateIs ==
  ASSUME TypeOK, NEW j \in 1 .. Len(jobs), NEW x \in {"queued", "running"},
         jobs' = [jobs EXCEPT ![j].status = x]
  PROVE  /\ jobs' \in Seq(Job) /\ Len(jobs') = Len(jobs)
         /\ jobs'[j].status = x
         /\ \A i \in 1 .. Len(jobs) : /\ jobs'[i].side = jobs[i].side /\ jobs'[i].kind = jobs[i].kind
                                      /\ i # j => jobs'[i] = jobs[i]
<1>1. jobs \in Seq(Job) /\ x \in Statuses4
  BY DEF TypeOK, Statuses4
<1>2. QED
  BY <1>1, StatusWritten

\* A step that keeps the length of the jobs table and leaves the rest to Agents.
LEMMA AgentStepTyped ==
  ASSUME TypeOK,
         jobs' \in Seq(Job), Len(jobs') = Len(jobs), rows' = rows,
         installed' \in [Sides -> BOOLEAN], reported' \in [Sides -> BOOLEAN],
         worker' \in [Sides -> [job : 0 .. Len(jobs), outcome : Outcomes \cup {"none"}]],
         orphans' \subseteq 1 .. Len(jobs),
         threads' \in [Threads -> Handler], ops' = ops, restarts' \in 0 .. MaxRestarts
  PROVE  TypeOK'
<1>1. Handler' = Handler
  BY DEF Handler
<1>2. QED
  BY <1>1 DEF TypeOK

LEMMA ClaimTyped ==
  ASSUME Types, NEW s \in Sides, Claim(s)
  PROVE  Types'
<1>1. TypeOK /\ DOMAIN jobs = 1 .. Len(jobs) /\ Len(jobs) \in Nat
  BY RowsTyped DEF Types
<1>2. PICK j \in 1 .. Len(jobs) : /\ jobs' = [jobs EXCEPT ![j].status = "running"]
                                  /\ worker' = [worker EXCEPT ![s].job = j]
  BY <1>1 DEF Claim
<1>3. jobs' \in Seq(Job) /\ Len(jobs') = Len(jobs)
  BY <1>1, <1>2, UpdateIs
<1>4. /\ worker' \in [Sides -> [job : 0 .. Len(jobs), outcome : Outcomes \cup {"none"}]]
      /\ \A u \in Sides : worker'[u] = IF u = s THEN [worker[s] EXCEPT !.job = j] ELSE worker[u]
  <2>1. j \in 0 .. Len(jobs)
    BY <1>1
  <2>2. QED
    BY <1>1, <1>2, <2>1 DEF TypeOK
<1>5. TypeOK'
  BY <1>1, <1>3, <1>4, AgentStepTyped DEF Claim, TypeOK
<1>6. WorkerKnows'
  <2>1. j # 0 /\ worker'[s].job = j
    BY <1>1, <1>4 DEF TypeOK
  <2>2. QED
    BY <2>1, <1>4 DEF Types, WorkerKnows
<1>7. QED
  BY <1>5, <1>6 DEF Types

LEMMA ExecuteTyped ==
  ASSUME Types, NEW s \in Sides, Execute(s)
  PROVE  Types'
<1>1. TypeOK /\ worker[s].job # 0
  BY DEF Types, Execute
<1>2. PICK o \in Outcomes, here \in BOOLEAN :
        /\ installed' = [installed EXCEPT ![s] = here]
        /\ worker' = [worker EXCEPT ![s].outcome = o]
  BY DEF Execute
<1>3. /\ worker' \in [Sides -> [job : 0 .. Len(jobs), outcome : Outcomes \cup {"none"}]]
      /\ \A u \in Sides : worker'[u] = IF u = s THEN [worker[s] EXCEPT !.outcome = o] ELSE worker[u]
  BY <1>1, <1>2 DEF TypeOK
<1>4. installed' \in [Sides -> BOOLEAN]
  BY <1>1, <1>2 DEF TypeOK
<1>5. TypeOK'
  BY <1>1, <1>3, <1>4, AgentStepTyped DEF Execute, TypeOK
<1>6. WorkerKnows'
  <2>1. worker'[s].job = worker[s].job
    BY <1>1, <1>3 DEF TypeOK
  <2>2. QED
    BY <2>1, <1>1, <1>3 DEF Types, WorkerKnows
<1>7. QED
  BY <1>5, <1>6 DEF Types

LEMMA CutShortTyped ==
  ASSUME BoundAssumption, Types, NEW s \in Sides, CutShort(s)
  PROVE  Types'
<1>1. TypeOK /\ WorkerKnows
  BY DEF Types
<1>2. worker' = [worker EXCEPT ![s] = Idle]
  BY DEF CutShort
<1>3. Idle \in [job : 0 .. Len(jobs), outcome : Outcomes \cup {"none"}] /\ Idle.outcome = "none"
  BY <1>1, RowsTyped DEF Idle
<1>4. /\ worker' \in [Sides -> [job : 0 .. Len(jobs), outcome : Outcomes \cup {"none"}]]
      /\ \A u \in Sides : worker'[u] = IF u = s THEN Idle ELSE worker[u]
  BY <1>1, <1>2, <1>3 DEF TypeOK
<1>5. orphans' \subseteq 1 .. Len(jobs)
  <2>1. worker[s].outcome = "none" => worker[s].job \in 1 .. Len(jobs)
    <3> SUFFICES ASSUME worker[s].outcome = "none" PROVE worker[s].job \in 1 .. Len(jobs)
      OBVIOUS
    <3>1. worker[s] \in [job : 0 .. Len(jobs), outcome : Outcomes \cup {"none"}]
      BY <1>1 DEF TypeOK
    <3>2. worker[s] = [job |-> worker[s].job, outcome |-> "none"]
      BY <3>1
    <3>3. worker[s].job # 0
      BY <3>2 DEF CutShort, Idle
    <3>4. Len(jobs) \in Nat
      BY <1>1, RowsTyped
    <3>5. QED
      BY <3>1, <3>3, <3>4
  <2>2. QED
    BY <2>1, <1>1 DEF CutShort, TypeOK
<1>6. restarts' \in 0 .. MaxRestarts
  BY <1>1 DEF CutShort, TypeOK, BoundAssumption
<1>7. TypeOK'
  BY <1>1, <1>4, <1>5, <1>6, AgentStepTyped DEF CutShort, TypeOK
<1>8. WorkerKnows'
  BY <1>1, <1>3, <1>4 DEF WorkerKnows
<1>9. QED
  BY <1>7, <1>8 DEF Types

\* The steps that neither claim a job nor change a job_task.
LEMMA OtherStepsTyped ==
  ASSUME Types,
         \/ \E s \in Sides : Heartbeat(s)
         \/ OrphanActs
         \/ \E j \in 1 .. Len(jobs) : Requeue(j)
         \/ \E t \in Threads, s \in Sides : ReadResult(t, s)
  PROVE  Types'
<1>1. TypeOK
  BY DEF Types
<1>2. TypeOK' /\ worker' = worker
  <2>1. CASE \E s \in Sides : Heartbeat(s)
    <3>1. PICK s \in Sides : Heartbeat(s)
      BY <2>1
    <3>2. reported' \in [Sides -> BOOLEAN]
      BY <3>1, <1>1 DEF Heartbeat, TypeOK
    <3>3. QED
      BY <3>1, <3>2, <1>1, AgentStepTyped DEF Heartbeat, TypeOK
  <2>2. CASE OrphanActs
    <3>1. PICK j \in orphans, here \in BOOLEAN :
            /\ installed' = [installed EXCEPT ![jobs[j].side] = here]
            /\ orphans' = orphans \ {j}
            /\ UNCHANGED <<jobs, rows, reported, worker, threads, ops, restarts>>
      BY <2>2 DEF OrphanActs
    <3>2. installed' \in [Sides -> BOOLEAN]
      BY <3>1, <1>1 DEF TypeOK
    <3>3. QED
      BY <3>1, <3>2, <1>1, AgentStepTyped DEF TypeOK
  <2>3. CASE \E j \in 1 .. Len(jobs) : Requeue(j)
    <3>1. PICK j \in 1 .. Len(jobs) : Requeue(j)
      BY <2>3
    <3>2. jobs' = [jobs EXCEPT ![j].status = "queued"]
      BY <3>1 DEF Requeue
    <3>3. jobs' \in Seq(Job) /\ Len(jobs') = Len(jobs)
      BY <3>2, <1>1, UpdateIs
    <3>4. QED
      BY <3>1, <3>3, <1>1, AgentStepTyped DEF Requeue, TypeOK
  <2>4. CASE \E t \in Threads, s \in Sides : ReadResult(t, s)
    <3>1. PICK t \in Threads, s \in Sides : ReadResult(t, s)
      BY <2>4
    <3> DEFINE h == [op |-> "result", job |-> worker[s].job, outcome |-> worker[s].outcome]
    <3>2. h \in Handler
      <4>1. worker[s] \in [job : 0 .. Len(jobs), outcome : Outcomes \cup {"none"}]
        BY <1>1 DEF TypeOK
      <4>2. worker[s].outcome \in Outcomes /\ worker[s].job # 0
        BY <3>1, <4>1 DEF ReadResult, Types, WorkerKnows
      <4>3. worker[s].job \in 1 .. Len(jobs)
        BY <4>1, <4>2, <1>1, RowsTyped
      <4>4. QED
        BY <4>2, <4>3 DEF Handler
    <3>3. threads' = [threads EXCEPT ![t] = h]
      BY <3>1 DEF ReadResult
    <3> HIDE DEF h
    <3>4. threads' \in [Threads -> Handler]
      BY <3>2, <3>3, <1>1 DEF TypeOK
    <3>5. QED
      BY <3>1, <3>4, <1>1, AgentStepTyped DEF ReadResult, TypeOK
  <2>5. QED
    BY <2>1, <2>2, <2>3, <2>4
<1>3. QED
  BY <1>2 DEF Types, WorkerKnows

LEMMA ResultTyped ==
  ASSUME Types, NEW t \in Threads, WriteResult(t)
  PROVE  Types' /\ TablesTyped /\ Len(rows') = Len(rows)
<1>1. TypeOK /\ WorkerKnows
  BY DEF Types
<1>2. /\ Done(t) \in Seq(Job) /\ Len(Done(t)) = Len(jobs)
      /\ \/ jobs' = Done(t) /\ rows' = rows
         \/ \E r \in 1 .. Len(rows) :
              EndRollback(r, Done(t), IF threads[t].outcome = "completed" THEN "rolled_back"
                                      ELSE "rollback_failed")
         \/ \E r \in 1 .. Len(rows), s \in Sides : StartRollback(r, Done(t), s)
  BY <1>1, ResultCases
<1>3. Len(jobs) \in Nat /\ Len(rows) \in Nat /\ rows \in Seq(Row(Len(jobs)))
  BY <1>1, RowsTyped
<1>4. TablesTyped /\ Len(rows') = Len(rows)
  <2>1. CASE jobs' = Done(t) /\ rows' = rows
    BY <2>1, <1>2, <1>3 DEF TablesTyped
  <2>2. CASE \E r \in 1 .. Len(rows) :
              EndRollback(r, Done(t), IF threads[t].outcome = "completed" THEN "rolled_back"
                                      ELSE "rollback_failed")
    <3> DEFINE l == IF threads[t].outcome = "completed" THEN "rolled_back" ELSE "rollback_failed"
    <3>1. l \in Lifecycle
      BY DEF Lifecycle
    <3>2. PICK r \in 1 .. Len(rows) : EndRollback(r, Done(t), l)
      BY <2>2
    <3> HIDE DEF l
    <3>3. /\ jobs' = Done(t)
          /\ rows' \in Seq(Row(Len(jobs'))) /\ Len(rows') = Len(rows)
      BY <3>1, <3>2, <1>1, <1>2, EndRollbackTyped
    <3>4. QED
      BY <3>3, <1>2, <1>3 DEF TablesTyped
  <2>3. CASE \E r \in 1 .. Len(rows), s \in Sides : StartRollback(r, Done(t), s)
    <3>1. PICK r \in 1 .. Len(rows), s \in Sides : StartRollback(r, Done(t), s)
      BY <2>3
    <3>2. /\ jobs' \in Seq(Job) /\ Len(jobs') \in Nat /\ Len(jobs') >= Len(jobs)
          /\ rows' \in Seq(Row(Len(jobs'))) /\ Len(rows') = Len(rows)
      BY <3>1, <1>1, <1>2, StartRollbackTyped
    <3>3. QED
      BY <3>2, <1>3 DEF TablesTyped
  <2>4. QED
    BY <1>2, <2>1, <2>2, <2>3
<1>5. \A h \in Handler : h \in Handler'
  BY <1>1, <1>3, <1>4, HandlersGrow DEF TablesTyped
<1>6. threads' \in [Threads -> Handler']
  <2>1. threads \in [Threads -> Handler] /\ threads' = [threads EXCEPT ![t] = Free]
    BY <1>1 DEF TypeOK, WriteResult
  <2>2. Free \in Handler'
    BY DEF Handler
  <2>3. QED
    BY <2>1, <2>2, <1>5
<1>7. /\ worker \in [Sides -> [job : 0 .. Len(jobs'), outcome : Outcomes \cup {"none"}]]
      /\ orphans \subseteq 1 .. Len(jobs')
  BY <1>1, <1>4, TablesGrow DEF TablesTyped
<1>8. /\ worker' = [s \in Sides |-> IF worker[s].job = threads[t].job THEN Idle ELSE worker[s]]
      /\ UNCHANGED <<installed, reported, orphans, ops, restarts>>
  BY DEF WriteResult
<1>9. Idle \in [job : 0 .. Len(jobs'), outcome : Outcomes \cup {"none"}] /\ Idle.outcome = "none"
  BY <1>4 DEF Idle, TablesTyped
<1>10. /\ worker' \in [Sides -> [job : 0 .. Len(jobs'), outcome : Outcomes \cup {"none"}]]
       /\ \A s \in Sides : worker'[s] = Idle \/ worker'[s] = worker[s]
  BY <1>7, <1>8, <1>9
<1>11. TypeOK'
  BY <1>1, <1>4, <1>6, <1>7, <1>8, <1>10 DEF TypeOK, TablesTyped, Row
<1>12. WorkerKnows'
  BY <1>1, <1>9, <1>10 DEF WorkerKnows
<1>13. QED
  BY <1>4, <1>11, <1>12 DEF Types

LEMMA NextTyped == BoundAssumption /\ Types /\ [Next]_vars => Types'
<1> SUFFICES ASSUME BoundAssumption, Types, [Next]_vars
             PROVE  Types'
  OBVIOUS
<1>1. ASSUME NEW t \in Threads,
             \/ ReadDeploy(t) \/ ReadRetry(t) \/ ReadRemove(t) \/ ReadRemoveTunnel(t)
             \/ ReadReconfigure(t)
      PROVE  Types'
  BY <1>1, ReadsTyped
<1>2. ASSUME NEW t \in Threads,
             \/ WriteDeploy(t) \/ WriteRetry(t) \/ WriteRemove(t) \/ WriteRemoveOne(t)
             \/ WriteReconfigure(t)
      PROVE  Types'
  BY <1>2, WritesTyped
<1>3. ASSUME NEW t \in Threads, WriteResult(t) PROVE Types'
  BY <1>3, ResultTyped
<1>4. ASSUME NEW s \in Sides, Claim(s) PROVE Types'
  BY <1>4, ClaimTyped
<1>5. ASSUME NEW s \in Sides, Execute(s) PROVE Types'
  BY <1>5, ExecuteTyped
<1>6. ASSUME NEW s \in Sides, CutShort(s) PROVE Types'
  BY <1>6, CutShortTyped
<1>7. CASE \/ \E s \in Sides : Heartbeat(s)
           \/ OrphanActs
           \/ \E j \in DOMAIN jobs : Requeue(j)
           \/ \E t \in Threads, s \in Sides : ReadResult(t, s)
  <2>1. DOMAIN jobs = 1 .. Len(jobs)
    BY RowsTyped DEF Types
  <2>2. QED
    BY <1>7, <2>1, OtherStepsTyped
<1>8. CASE UNCHANGED vars
  BY <1>8 DEF vars, Types, TypeOK, WorkerKnows, Handler
<1>9. QED
  BY <1>1, <1>2, <1>3, <1>4, <1>5, <1>6, <1>7, <1>8 DEF Next

\* Type correctness, with any number of overlapping handlers: every job id that a deployment, a
\* job_task, an orphan or a handler refers to is in the jobs table.
THEOREM TypeCorrect == Spec => []TypeOK
<1>1. Init => Types
  BY BoundAssumption, InitTyped
<1>2. Types /\ [Next]_vars => Types'
  BY BoundAssumption, NextTyped
<1>3. Types => TypeOK
  BY DEF Types
<1>4. QED
  BY <1>1, <1>2, <1>3, PTL DEF Spec

-----------------------------------------------------------------------------
(* Verdicts, while handlers do not overlap *)

\* No two handlers are between their read and their write.
Serial == \A t, u \in Threads : threads[t] # Free /\ threads[u] # Free => t = u

\* The jobs of a row are those of its sides, and no other row's.
RowRefers(r) == \A s \in Sides : JobOf(r, s).side = s
RowsApart(q, r) == \A s \in Sides : rows[q].job[s] = rows[r].job[s] => q = r

\* What a handler has read is still so when it writes.
StillHolds(t) ==
  /\ threads[t].op = "result" => jobs[threads[t].job].status = "running"
  /\ threads[t].op = "retry" =>
       \A s \in Sides \ threads[t].sides : JobOf(threads[t].row, s).status = "completed"
  /\ threads[t].op = "reconfigure" => rows[threads[t].row].lifecycle = "active"

\* RollbackIsWarranted, RollbackVerdict and HalfFailedIsRolledBack of one row.
RowRight(r) ==
  /\ rows[r].lifecycle = "rolling_back" =>
       \E s \in Sides : RollsBack(r, s) /\ JobOf(r, s).status \in {"queued", "running"}
  /\ rows[r].lifecycle = "rolled_back" =>
       \E s \in Sides : RollsBack(r, s) /\ JobOf(r, s).status = "completed"
  /\ rows[r].lifecycle = "rollback_failed" =>
       \E s \in Sides : RollsBack(r, s) /\ JobOf(r, s).status = "failed"
  /\ rows[r].lifecycle = "active" =>
       ~\E s \in Sides : JobOf(r, s).status = "completed" /\ JobOf(r, Other(s)).status = "failed"

RowsAreRight ==
  /\ \A r \in 1 .. Len(rows) : RowRefers(r)
  /\ \A q, r \in 1 .. Len(rows) : RowsApart(q, r)
  /\ \A r \in 1 .. Len(rows) : RowRight(r)

IInv == TypeOK /\ RowsAreRight /\ \A t \in Threads : StillHolds(t)

\* The job ids of a row, in the terms of the tables.
LEMMA RowJobs ==
  ASSUME TypeOK, NEW r \in 1 .. Len(rows), NEW s \in Sides
  PROVE  /\ rows[r].job[s] \in 1 .. Len(jobs)
         /\ rows[r].lifecycle \in Lifecycle
         /\ JobOf(r, s) \in Job
<1>1. rows[r] \in Row(Len(jobs)) /\ Len(jobs) \in Nat
  BY RowsTyped
<1>2. rows[r].job[s] \in 1 .. Len(jobs) /\ rows[r].lifecycle \in Lifecycle
  BY <1>1 DEF Row
<1>3. QED
  BY <1>2, RowsTyped DEF JobOf

\* What a claim or a requeueing does to a job: only its place in the queue changes.
Alike(j) ==
  /\ jobs'[j].side = jobs[j].side /\ jobs'[j].kind = jobs[j].kind
  /\ \/ jobs'[j].status = jobs[j].status
     \/ jobs'[j].status \in {"queued", "running"} /\ jobs[j].status \in {"queued", "running"}

LEMMA RowKept ==
  ASSUME NEW r, rows'[r] = rows[r], \A s \in Sides : Alike(rows[r].job[s]),
         RowRefers(r), RowRight(r)
  PROVE  RowRefers(r)' /\ RowRight(r)'
<1>1. \A s \in Sides : /\ JobOf(r, s)' = jobs'[rows[r].job[s]] /\ JobOf(r, s) = jobs[rows[r].job[s]]
                       /\ Other(s) \in Sides
  BY Others DEF JobOf
<1>2. \A s \in Sides : /\ JobOf(r, s)'.side = JobOf(r, s).side
                       /\ JobOf(r, s)'.kind = JobOf(r, s).kind
                       /\ \/ JobOf(r, s)'.status = JobOf(r, s).status
                          \/ /\ JobOf(r, s)'.status \in {"queued", "running"}
                             /\ JobOf(r, s).status \in {"queued", "running"}
  BY <1>1 DEF Alike
<1>3. RowRefers(r)'
  BY <1>2 DEF RowRefers
<1>4. RowRight(r)'
  <2>1. \A s \in Sides : RollsBack(r, s) => RollsBack(r, s)'
    BY <1>1, <1>2 DEF RollsBack
  <2>2. rows[r].lifecycle = "rolling_back" =>
          \E s \in Sides : RollsBack(r, s)' /\ JobOf(r, s)'.status \in {"queued", "running"}
    BY <2>1, <1>2 DEF RowRight
  <2>3. rows[r].lifecycle = "rolled_back" =>
          \E s \in Sides : RollsBack(r, s)' /\ JobOf(r, s)'.status = "completed"
    BY <2>1, <1>2 DEF RowRight
  <2>4. rows[r].lifecycle = "rollback_failed" =>
          \E s \in Sides : RollsBack(r, s)' /\ JobOf(r, s)'.status = "failed"
    BY <2>1, <1>2 DEF RowRight
  <2>5. rows[r].lifecycle = "active" =>
          ~\E s \in Sides : JobOf(r, s)'.status = "completed" /\ JobOf(r, Other(s))'.status = "failed"
    BY <1>1, <1>2 DEF RowRight
  <2>6. QED
    BY <2>2, <2>3, <2>4, <2>5 DEF RowRight
<1>5. QED
  BY <1>3, <1>4

LEMMA RowsUnchanged ==
  RowsAreRight /\ UNCHANGED <<jobs, rows>> => RowsAreRight'
BY DEF RowsAreRight, RowRefers, RowsApart, RowRight, RollsBack, JobOf

\* A step that only moves jobs in and out of the queue.
LEMMA QueueMoves ==
  ASSUME TypeOK, RowsAreRight, rows' = rows, \A j \in 1 .. Len(jobs) : Alike(j)
  PROVE  RowsAreRight'
<1>1. \A r \in 1 .. Len(rows), s \in Sides : Alike(rows[r].job[s])
  BY RowJobs
<1>2. \A r \in 1 .. Len(rows) : RowRefers(r)' /\ RowRight(r)'
  BY <1>1, RowKept DEF RowsAreRight
<1>3. QED
  BY <1>2 DEF RowsAreRight, RowsApart

\* Once the only handler under way has written, none is left that relies on what it read.
LEMMA NoneLeft ==
  ASSUME Serial, NEW t \in Threads, threads[t] # Free, threads' = [threads EXCEPT ![t] = Free],
         threads \in [Threads -> Handler]
  PROVE  \A u \in Threads : StillHolds(u)'
<1>1. \A u \in Threads : threads'[u] = Free
  BY DEF Serial
<1>2. Free.op = "none"
  BY DEF Free
<1>3. QED
  BY <1>1, <1>2 DEF StillHolds

\* A handler that has just read is the only one.
LEMMA OnlyReader ==
  ASSUME Serial', NEW t \in Threads, NEW h, h # Free, threads' = [threads EXCEPT ![t] = h],
         threads \in [Threads -> Handler], StillHolds(t)'
  PROVE  \A u \in Threads : StillHolds(u)'
<1>1. \A u \in Threads \ {t} : threads'[u] = Free
  BY DEF Serial
<1>2. Free.op = "none"
  BY DEF Free
<1>3. QED
  BY <1>1, <1>2 DEF StillHolds

\* What an operator's handler may record, by what it read.
Warranted(h) ==
  /\ h # Free
  /\ h.op # "result"
  /\ h.op = "retry" => \A s \in Sides \ h.sides : JobOf(h.row, s).status = "completed"
  /\ h.op = "reconfigure" => rows[h.row].lifecycle = "active"

\* Reading.
LEMMA ReadsKeep ==
  ASSUME IInv, Serial', NEW t \in Threads,
         \/ ReadDeploy(t) \/ ReadRetry(t) \/ ReadRemove(t) \/ ReadRemoveTunnel(t)
         \/ ReadReconfigure(t)
  PROVE  RowsAreRight' /\ \A u \in Threads : StillHolds(u)'
<1>1. TypeOK /\ DOMAIN rows = 1 .. Len(rows) /\ threads \in [Threads -> Handler]
  BY RowsTyped DEF IInv, TypeOK
<1>2. \E h : Read(t, h) /\ Warranted(h)
  <2>1. CASE ReadDeploy(t)
    <3>1. Read(t, [op |-> "deploy"])
      BY <2>1 DEF ReadDeploy
    <3>2. Warranted([op |-> "deploy"])
      BY DEF Warranted, Free
    <3>3. QED
      BY <3>1, <3>2
  <2>2. CASE ReadRetry(t)
    <3>1. PICK r \in DOMAIN rows :
            Read(t, [op |-> "retry", row |-> r,
                     sides |-> {s \in Sides : \/ JobOf(r, s).status # "completed"
                                              \/ rows[r].lifecycle = "rolled_back"}])
      BY <2>2 DEF ReadRetry
    <3> DEFINE some == {s \in Sides : \/ JobOf(r, s).status # "completed"
                                      \/ rows[r].lifecycle = "rolled_back"}
               h == [op |-> "retry", row |-> r, sides |-> some]
    <3>2. \A s \in Sides \ some : JobOf(r, s).status = "completed"
      OBVIOUS
    <3>3. Read(t, h)
      BY <3>1
    <3> HIDE DEF some
    <3>4. h.op = "retry" /\ h.row = r /\ h.sides = some /\ h # Free
      BY DEF Free
    <3> HIDE DEF h
    <3>5. QED
      BY <3>2, <3>3, <3>4 DEF Warranted
  <2>3. CASE ReadRemove(t)
    <3>1. PICK r \in DOMAIN rows : Read(t, [op |-> "remove", row |-> r])
      BY <2>3 DEF ReadRemove
    <3>2. Warranted([op |-> "remove", row |-> r])
      BY DEF Warranted, Free
    <3>3. QED
      BY <3>1, <3>2
  <2>4. CASE ReadRemoveTunnel(t)
    <3>1. PICK s \in Sides : \/ \E r \in DOMAIN rows : Read(t, [op |-> "remove", row |-> r])
                             \/ Read(t, [op |-> "remove_one", side |-> s])
      BY <2>4 DEF ReadRemoveTunnel
    <3>2. /\ \A r : Warranted([op |-> "remove", row |-> r])
          /\ Warranted([op |-> "remove_one", side |-> s])
      BY DEF Warranted, Free
    <3>3. QED
      BY <3>1, <3>2
  <2>5. CASE ReadReconfigure(t)
    <3>1. PICK r \in DOMAIN rows : /\ Read(t, [op |-> "reconfigure", row |-> r])
                                   /\ rows[r].lifecycle = "active"
      BY <2>5 DEF ReadReconfigure
    <3>2. Warranted([op |-> "reconfigure", row |-> r])
      BY <3>1 DEF Warranted, Free
    <3>3. QED
      BY <3>1, <3>2
  <2>6. QED
    BY <2>1, <2>2, <2>3, <2>4, <2>5
<1>3. PICK h : Read(t, h) /\ Warranted(h)
  BY <1>2
<1>4. threads' = [threads EXCEPT ![t] = h] /\ UNCHANGED <<jobs, rows>>
  BY <1>3 DEF Read
<1>5. StillHolds(t)'
  <2>1. threads'[t] = h
    BY <1>1, <1>4
  <2>2. QED
    BY <2>1, <1>3, <1>4 DEF StillHolds, JobOf, Warranted
<1>6. h # Free
  BY <1>3 DEF Warranted
<1>7. QED
  BY <1>1, <1>4, <1>5, <1>6, OnlyReader, RowsUnchanged DEF IInv

LEMMA ReadResultKeeps ==
  ASSUME IInv, Serial', NEW t \in Threads, NEW s \in Sides, ReadResult(t, s)
  PROVE  RowsAreRight' /\ \A u \in Threads : StillHolds(u)'
<1> DEFINE h == [op |-> "result", job |-> worker[s].job, outcome |-> worker[s].outcome]
<1>1. threads \in [Threads -> Handler]
  BY DEF IInv, TypeOK
<1>2. /\ threads' = [threads EXCEPT ![t] = h] /\ UNCHANGED <<jobs, rows>>
      /\ jobs[worker[s].job].status = "running"
  BY DEF ReadResult
<1>3. h # Free /\ h.op = "result" /\ h.job = worker[s].job
  BY DEF Free
<1> HIDE DEF h
<1>4. threads'[t] = h
  BY <1>1, <1>2
<1>5. StillHolds(t)'
  BY <1>2, <1>3, <1>4 DEF StillHolds
<1>6. QED
  BY <1>1, <1>2, <1>3, <1>5, OnlyReader, RowsUnchanged DEF IInv

\* Claims and requeueings.
LEMMA ClaimKeeps ==
  ASSUME IInv, NEW s \in Sides, Claim(s)
  PROVE  RowsAreRight' /\ \A u \in Threads : StillHolds(u)'
<1>1. TypeOK /\ DOMAIN jobs = 1 .. Len(jobs)
  BY RowsTyped DEF IInv
<1>2. PICK j \in 1 .. Len(jobs) : /\ jobs[j].status = "queued"
                                  /\ jobs' = [jobs EXCEPT ![j].status = "running"]
  BY <1>1 DEF Claim
<1>3. UNCHANGED <<rows, threads>>
  BY DEF Claim
<1>4. /\ jobs'[j].status = "running"
      /\ \A i \in 1 .. Len(jobs) : /\ jobs'[i].side = jobs[i].side /\ jobs'[i].kind = jobs[i].kind
                                   /\ i # j => jobs'[i] = jobs[i]
  BY <1>1, <1>2, UpdateIs
<1>5. RowsAreRight'
  <2>1. \A i \in 1 .. Len(jobs) : Alike(i)
    BY <1>2, <1>4 DEF Alike
  <2>2. QED
    BY <2>1, <1>1, <1>3, QueueMoves DEF IInv
<1>6. ASSUME NEW u \in Threads PROVE StillHolds(u)'
  <2>1. threads[u] \in Handler /\ StillHolds(u) /\ threads'[u] = threads[u]
    BY <1>1, <1>3 DEF IInv, TypeOK
  <2>2. threads[u].op = "result" => jobs'[threads[u].job].status = "running"
    BY <2>1, <1>2, <1>4, HandlerKinds DEF StillHolds
  <2>3. ASSUME threads[u].op = "retry", NEW v \in Sides \ threads[u].sides
        PROVE  jobs'[rows[threads[u].row].job[v]].status = "completed"
    <3>1. threads[u].row \in 1 .. Len(rows)
      BY <2>1, <2>3, HandlerKinds
    <3>2. jobs[rows[threads[u].row].job[v]].status = "completed"
      BY <2>1, <2>3 DEF StillHolds, JobOf
    <3>3. rows[threads[u].row].job[v] \in 1 .. Len(jobs)
      BY <3>1, <1>1, RowJobs
    <3>4. QED
      BY <3>2, <3>3, <1>2, <1>4
  <2>4. QED
    BY <2>1, <2>2, <2>3, <1>3 DEF StillHolds, JobOf
<1>7. QED
  BY <1>5, <1>6

LEMMA RequeueKeeps ==
  ASSUME IInv, NEW j \in 1 .. Len(jobs), Requeue(j)
  PROVE  RowsAreRight' /\ \A u \in Threads : StillHolds(u)'
<1>1. TypeOK
  BY DEF IInv
<1>2. /\ jobs[j].status = "running" /\ jobs' = [jobs EXCEPT ![j].status = "queued"]
      /\ UNCHANGED <<rows, threads>>
      /\ \A t \in Threads : threads[t].op = "result" => threads[t].job # j
  BY DEF Requeue
<1>3. /\ jobs'[j].status = "queued"
      /\ \A i \in 1 .. Len(jobs) : /\ jobs'[i].side = jobs[i].side /\ jobs'[i].kind = jobs[i].kind
                                   /\ i # j => jobs'[i] = jobs[i]
  BY <1>1, <1>2, UpdateIs
<1>4. RowsAreRight'
  <2>1. \A i \in 1 .. Len(jobs) : Alike(i)
    BY <1>2, <1>3 DEF Alike
  <2>2. QED
    BY <2>1, <1>1, <1>2, QueueMoves DEF IInv
<1>5. ASSUME NEW u \in Threads PROVE StillHolds(u)'
  <2>1. threads[u] \in Handler /\ StillHolds(u) /\ threads'[u] = threads[u]
    BY <1>1, <1>2 DEF IInv, TypeOK
  <2>2. threads[u].op = "result" => jobs'[threads[u].job].status = "running"
    BY <2>1, <1>2, <1>3, HandlerKinds DEF StillHolds
  <2>3. ASSUME threads[u].op = "retry", NEW v \in Sides \ threads[u].sides
        PROVE  jobs'[rows[threads[u].row].job[v]].status = "completed"
    <3>1. threads[u].row \in 1 .. Len(rows)
      BY <2>1, <2>3, HandlerKinds
    <3>2. jobs[rows[threads[u].row].job[v]].status = "completed"
      BY <2>1, <2>3 DEF StillHolds, JobOf
    <3>3. rows[threads[u].row].job[v] \in 1 .. Len(jobs)
      BY <3>1, <1>1, RowJobs
    <3>4. QED
      BY <3>2, <3>3, <1>2, <1>3
  <2>4. QED
    BY <2>1, <2>2, <2>3, <1>2 DEF StillHolds, JobOf
<1>6. QED
  BY <1>4, <1>5

\* Rows other than the one that a step writes, when the step keeps the jobs they refer to.
LEMMA OtherRowsKept ==
  ASSUME TypeOK, RowsAreRight, NEW r,
         \A q \in 1 .. Len(rows) :
           q # r => rows'[q] = rows[q] /\ \A s \in Sides : Alike(rows[q].job[s])
  PROVE  \A q \in 1 .. Len(rows) : q # r => RowRefers(q)' /\ RowRight(q)'
BY RowKept DEF RowsAreRight

\* A row with new jobs for the sides in S shares none with another row.
LEMMA ApartFromNew ==
  ASSUME TypeOK, RowsAreRight, NEW r, NEW S \in SUBSET Sides,
         r \in 1 .. Len(rows) \/ S = Sides,
         \A s \in S : rows'[r].job[s] \in Len(jobs) + 1 .. Len(jobs'),
         Len(jobs') \in Nat,
         \A s \in Sides \ S : rows'[r].job[s] = rows[r].job[s],
         \A q \in 1 .. Len(rows) : q # r => rows'[q] = rows[q]
  PROVE  /\ \A q \in 1 .. Len(rows) : RowsApart(q, r)' /\ RowsApart(r, q)'
         /\ \A p, q \in 1 .. Len(rows) : RowsApart(p, q)'
<1>1. Len(jobs) \in Nat
  BY RowsTyped
<1>2. ASSUME NEW q \in 1 .. Len(rows), q # r, NEW s \in Sides
      PROVE  rows'[q].job[s] # rows'[r].job[s]
  <2>1. rows'[q].job[s] = rows[q].job[s] /\ rows[q].job[s] \in 1 .. Len(jobs)
    BY <1>2, RowJobs
  <2>2. CASE s \in S
    <3>1. rows'[r].job[s] \in Len(jobs) + 1 .. Len(jobs')
      BY <2>2
    <3>2. QED
      BY <2>1, <3>1, <1>1
  <2>3. CASE s \notin S
    <3>1. rows'[r].job[s] = rows[r].job[s] /\ r \in 1 .. Len(rows)
      BY <2>3
    <3>2. RowsApart(q, r)
      BY <3>1 DEF RowsAreRight
    <3>3. QED
      BY <2>1, <3>1, <3>2, <1>2 DEF RowsApart
  <2>4. QED
    BY <2>2, <2>3
<1>3. \A q \in 1 .. Len(rows) : RowsApart(q, r)' /\ RowsApart(r, q)'
  BY <1>2 DEF RowsApart
<1>4. ASSUME NEW p \in 1 .. Len(rows), NEW q \in 1 .. Len(rows)
      PROVE  RowsApart(p, q)'
  <2>1. CASE p # r /\ q # r
    BY <2>1 DEF RowsAreRight, RowsApart
  <2>2. CASE p = r \/ q = r
    BY <2>2, <1>3
  <2>3. QED
    BY <2>1, <2>2
<1>5. QED
  BY <1>3, <1>4

LEMMA EnqueueKeeps ==
  ASSUME TypeOK, RowsAreRight, NEW r \in 1 .. Len(rows), NEW S \in SUBSET Sides, NEW kind, NEW l,
         TablesTyped, Enqueued(r, S, kind, l),
         RowRight(r)'
  PROVE  RowsAreRight'
<1>1. Len(rows') = Len(rows) /\ Len(jobs') \in Nat
  BY DEF Enqueued, TablesTyped
<1>2. /\ \A j \in 1 .. Len(jobs) : jobs'[j] = jobs[j]
      /\ \A q \in 1 .. Len(rows) : q # r => rows'[q] = rows[q]
  BY DEF Enqueued
<1>3. \A q \in 1 .. Len(rows), s \in Sides : rows[q].job[s] \in 1 .. Len(jobs)
  BY RowJobs
<1>4. \A q \in 1 .. Len(rows) : q # r => RowRefers(q)' /\ RowRight(q)'
  <2>1. \A j \in 1 .. Len(jobs) : Alike(j)
    BY <1>2 DEF Alike
  <2>2. QED
    BY <2>1, <1>2, <1>3, OtherRowsKept
<1>5. RowRefers(r)'
  <2>1. ASSUME NEW s \in Sides PROVE jobs'[rows'[r].job[s]].side = s
    <3>1. CASE s \in S
      <4>1. jobs'[rows'[r].job[s]] = [side |-> s, kind |-> kind, status |-> "queued"]
        BY <3>1 DEF Enqueued
      <4>2. QED
        BY <4>1
    <3>2. CASE s \notin S
      <4>1. rows'[r].job[s] = rows[r].job[s]
        BY <3>2 DEF Enqueued
      <4>2. jobs[rows[r].job[s]].side = s
        BY DEF RowsAreRight, RowRefers, JobOf
      <4>3. QED
        BY <4>1, <4>2, <1>2, <1>3
    <3>3. QED
      BY <3>1, <3>2
  <2>2. QED
    BY <2>1 DEF RowRefers, JobOf
<1>6. \A p, q \in 1 .. Len(rows) : RowsApart(p, q)'
  <2>1. /\ \A s \in S : rows'[r].job[s] \in Len(jobs) + 1 .. Len(jobs')
        /\ \A s \in Sides \ S : rows'[r].job[s] = rows[r].job[s]
    BY DEF Enqueued
  <2>2. QED
    BY <2>1, <1>1, <1>2, ApartFromNew
<1>7. QED
  BY <1>1, <1>4, <1>5, <1>6 DEF RowsAreRight

\* Two queued jobs never make a verdict wrong.
LEMMA BothQueued ==
  ASSUME NEW r \in 1 .. Len(rows), NEW kind, NEW l, Enqueued(r, Sides, kind, l),
         l \in {"active", "removing"}
  PROVE  RowRight(r)'
<1>1. ASSUME NEW s \in Sides PROVE JobOf(r, s)'.status = "queued"
  <2>1. JobOf(r, s)' = [side |-> s, kind |-> kind, status |-> "queued"]
    BY DEF Enqueued, JobOf
  <2>2. QED
    BY <2>1
<1>2. rows'[r].lifecycle = l
  BY DEF Enqueued
<1>3. QED
  BY <1>1, <1>2 DEF RowRight

LEMMA WriteDeployKeeps ==
  ASSUME IInv, NEW t \in Threads, WriteDeploy(t)
  PROVE  RowsAreRight'
<1>0. PICK r : r = Len(rows) + 1
  OBVIOUS
<1>1. TypeOK /\ RowsAreRight /\ Len(rows) \in Nat
  BY RowsTyped DEF IInv
<1>2. /\ Len(jobs') \in Nat
      /\ Len(rows') = r
      /\ \A j \in 1 .. Len(jobs) : jobs'[j] = jobs[j]
      /\ rows'[r].lifecycle = "active"
      /\ \A s \in Sides : /\ rows'[r].job[s] \in Len(jobs) + 1 .. Len(jobs')
                          /\ jobs'[rows'[r].job[s]]
                               = [side |-> s, kind |-> "plugin_deploy", status |-> "queued"]
      /\ \A q \in 1 .. Len(rows) : rows'[q] = rows[q]
  BY <1>0, <1>1, DeployTyped
<1>3. 1 .. Len(rows') = 1 .. Len(rows) \cup {r} /\ r \notin 1 .. Len(rows)
  BY <1>0, <1>1, <1>2
<1>4. \A q \in 1 .. Len(rows), s \in Sides : rows[q].job[s] \in 1 .. Len(jobs)
  BY <1>1, RowJobs
<1>5. \A q \in 1 .. Len(rows) : RowRefers(q)' /\ RowRight(q)'
  <2>1. \A j \in 1 .. Len(jobs) : Alike(j)
    BY <1>2 DEF Alike
  <2>2. QED
    BY <2>1, <1>1, <1>2, <1>3, <1>4, OtherRowsKept
<1>6. RowRefers(r)' /\ RowRight(r)'
  <2>1. \A s \in Sides : JobOf(r, s)' = [side |-> s, kind |-> "plugin_deploy", status |-> "queued"]
    BY <1>2 DEF JobOf
  <2>2. RowRefers(r)'
    BY <2>1 DEF RowRefers
  <2>3. \A s \in Sides : JobOf(r, s)'.status = "queued"
    BY <2>1
  <2>4. RowRight(r)'
    BY <2>3, <1>2 DEF RowRight
  <2>5. QED
    BY <2>2, <2>4
<1>7. /\ \A q \in 1 .. Len(rows) : RowsApart(q, r)' /\ RowsApart(r, q)'
      /\ \A p, q \in 1 .. Len(rows) : RowsApart(p, q)'
  <2>1. Sides \in SUBSET Sides
    OBVIOUS
  <2>2. QED
    BY <2>1, <1>1, <1>2, <1>3, ApartFromNew
<1>8. RowsApart(r, r)'
  BY DEF RowsApart
<1>9. QED
  BY <1>2, <1>3, <1>5, <1>6, <1>7, <1>8 DEF RowsAreRight

\* A retry queues the sides that did not complete; the others had completed when it was read.
LEMMA WriteRetryKeeps ==
  ASSUME IInv, NEW t \in Threads, WriteRetry(t)
  PROVE  RowsAreRight'
<1>0. PICK r, S : r = threads[t].row /\ S = threads[t].sides
  OBVIOUS
<1>1. TypeOK /\ RowsAreRight /\ threads[t] \in Handler /\ StillHolds(t)
  BY DEF IInv, TypeOK
<1>2. r \in 1 .. Len(rows) /\ S \in SUBSET Sides
  BY <1>0, <1>1, HandlerKinds DEF WriteRetry
<1>3. TablesTyped /\ Enqueued(r, S, "plugin_deploy", "active")
  <2>1. Enqueue(r, S, "plugin_deploy", "active")
    BY <1>0 DEF WriteRetry
  <2>2. "active" \in Lifecycle /\ "plugin_deploy" \in Kinds
    BY DEF Lifecycle, Kinds
  <2>3. QED
    BY <2>1, <2>2, <1>1, <1>2, EnqueueTyped
<1>4. \A s \in Sides \ S : jobs[rows[r].job[s]].status = "completed"
  BY <1>0, <1>1 DEF StillHolds, WriteRetry, JobOf
<1>5. RowRight(r)'
  <2>1. ASSUME NEW s \in Sides PROVE JobOf(r, s)'.status \in {"queued", "completed"}
    <3>1. CASE s \in S
      <4>1. JobOf(r, s)' = [side |-> s, kind |-> "plugin_deploy", status |-> "queued"]
        BY <3>1, <1>3 DEF Enqueued, JobOf
      <4>2. QED
        BY <4>1
    <3>2. CASE s \notin S
      <4>1. rows'[r].job[s] = rows[r].job[s] /\ rows[r].job[s] \in 1 .. Len(jobs)
        BY <3>2, <1>1, <1>2, <1>3, RowJobs DEF Enqueued
      <4>2. jobs'[rows[r].job[s]] = jobs[rows[r].job[s]]
        BY <4>1, <1>3 DEF Enqueued
      <4>3. QED
        BY <4>1, <4>2, <1>4, <3>2 DEF JobOf
    <3>3. QED
      BY <3>1, <3>2
  <2>2. rows'[r].lifecycle = "active"
    BY <1>3 DEF Enqueued
  <2>3. QED
    BY <2>1, <2>2, Others DEF RowRight
<1>6. QED
  BY <1>1, <1>2, <1>3, <1>5, EnqueueKeeps

LEMMA WriteRemoveKeeps ==
  ASSUME IInv, NEW t \in Threads, WriteRemove(t)
  PROVE  RowsAreRight'
<1>0. PICK r : r = threads[t].row
  OBVIOUS
<1>1. TypeOK /\ RowsAreRight /\ threads[t] \in Handler
  BY DEF IInv, TypeOK
<1>2. r \in 1 .. Len(rows) /\ Sides \in SUBSET Sides
  BY <1>0, <1>1, HandlerKinds DEF WriteRemove
<1>3. TablesTyped /\ Enqueued(r, Sides, "plugin_remove", "removing")
  <2>1. Enqueue(r, Sides, "plugin_remove", "removing")
    BY <1>0 DEF WriteRemove
  <2>2. "removing" \in Lifecycle /\ "plugin_remove" \in Kinds
    BY DEF Lifecycle, Kinds
  <2>3. QED
    BY <2>1, <2>2, <1>1, <1>2, EnqueueTyped
<1>4. RowRight(r)'
  BY <1>2, <1>3, BothQueued
<1>5. QED
  BY <1>1, <1>2, <1>3, <1>4, EnqueueKeeps

\* A reconfiguration keeps the lifecycle, which was active when it was read.
LEMMA WriteReconfigureKeeps ==
  ASSUME IInv, NEW t \in Threads, WriteReconfigure(t)
  PROVE  RowsAreRight'
<1>0. PICK r : r = threads[t].row
  OBVIOUS
<1>1. TypeOK /\ RowsAreRight /\ threads[t] \in Handler /\ StillHolds(t)
  BY DEF IInv, TypeOK
<1>2. r \in 1 .. Len(rows) /\ Sides \in SUBSET Sides
  BY <1>0, <1>1, HandlerKinds DEF WriteReconfigure
<1>3. TablesTyped /\ Enqueued(r, Sides, "plugin_deploy", "active")
  <2>1. Enqueue(r, Sides, "plugin_deploy", rows[r].lifecycle) /\ rows[r].lifecycle = "active"
    BY <1>0, <1>1 DEF WriteReconfigure, StillHolds
  <2>2. "active" \in Lifecycle /\ "plugin_deploy" \in Kinds
    BY DEF Lifecycle, Kinds
  <2>3. QED
    BY <2>1, <2>2, <1>1, <1>2, EnqueueTyped
<1>4. RowRight(r)'
  BY <1>2, <1>3, BothQueued
<1>5. QED
  BY <1>1, <1>2, <1>3, <1>4, EnqueueKeeps

LEMMA WriteRemoveOneKeeps ==
  ASSUME IInv, NEW t \in Threads, WriteRemoveOne(t)
  PROVE  RowsAreRight'
<1>1. TypeOK /\ RowsAreRight /\ threads[t] \in Handler
  BY DEF IInv, TypeOK
<1>2. {threads[t].side} \in SUBSET Sides /\ "plugin_remove" \in Kinds
  BY <1>1, HandlerKinds DEF WriteRemoveOne, Kinds
<1>3. jobs' = jobs \o NewJobs({threads[t].side}, "plugin_remove") /\ rows' = rows
  BY DEF WriteRemoveOne
<1>4. Queued(jobs, jobs', {threads[t].side}, "plugin_remove")
  BY <1>1, <1>2, <1>3, Queueing DEF TypeOK
<1>5. \A j \in 1 .. Len(jobs) : Alike(j)
  BY <1>4 DEF Queued, Alike
<1>6. QED
  BY <1>1, <1>3, <1>5, QueueMoves

\* Writing, by the only handler under way.
LEMMA WritesKeep ==
  ASSUME IInv, Serial, NEW t \in Threads,
         \/ WriteDeploy(t) \/ WriteRetry(t) \/ WriteRemove(t) \/ WriteRemoveOne(t)
         \/ WriteReconfigure(t)
  PROVE  RowsAreRight' /\ \A u \in Threads : StillHolds(u)'
<1>1. RowsAreRight'
  BY WriteDeployKeeps, WriteRetryKeeps, WriteRemoveKeeps, WriteRemoveOneKeeps, WriteReconfigureKeeps
<1>2. threads[t].op # "none" /\ threads' = [threads EXCEPT ![t] = Free]
  BY DEF WriteDeploy, WriteRetry, WriteRemove, WriteRemoveOne, WriteReconfigure, Written
<1>3. threads[t] # Free
  BY <1>2 DEF Free
<1>4. threads \in [Threads -> Handler]
  BY DEF IInv, TypeOK
<1>5. QED
  BY <1>1, <1>2, <1>3, <1>4, NoneLeft

\* At most one row refers to a job.
LEMMA OneRefers ==
  ASSUME TypeOK, RowsAreRight, NEW q \in 1 .. Len(rows), NEW r \in 1 .. Len(rows), NEW j,
         Refers(q, j), Refers(r, j)
  PROVE  q = r
<1>1. PICK s \in Sides : rows[q].job[s] = j
  BY DEF Refers
<1>2. PICK u \in Sides : rows[r].job[u] = j
  BY DEF Refers
<1>3. jobs[j].side = s /\ jobs[j].side = u
  BY <1>1, <1>2 DEF RowsAreRight, RowRefers, JobOf
<1>4. RowsApart(q, r)
  BY DEF RowsAreRight
<1>5. QED
  BY <1>1, <1>2, <1>3, <1>4 DEF RowsApart

\* Rows that do not refer to the job whose result is written.
LEMMA ResultKeepsOthers ==
  ASSUME TypeOK, RowsAreRight, NEW t \in Threads, WriteResult(t),
         NEW r \in 1 .. Len(rows), Refers(r, threads[t].job),
         \A i \in 1 .. Len(jobs) : jobs'[i] = Done(t)[i],
         \A q \in 1 .. Len(rows) : q # r => rows'[q] = rows[q]
  PROVE  \A q \in 1 .. Len(rows) : q # r => RowRefers(q)' /\ RowRight(q)'
<1>1. PICK j : j = threads[t].job
  OBVIOUS
<1>2. \A i \in 1 .. Len(jobs) : i # j => jobs'[i] = jobs[i]
  BY <1>1, ResultCases
<1>3. ASSUME NEW q \in 1 .. Len(rows), q # r, NEW s \in Sides
      PROVE  Alike(rows[q].job[s])
  <2>1. rows[q].job[s] \in 1 .. Len(jobs)
    BY RowJobs
  <2>2. rows[q].job[s] # j
    BY <1>1, <1>3, OneRefers DEF Refers
  <2>3. QED
    BY <2>1, <2>2, <1>2 DEF Alike
<1>4. QED
  BY <1>3, OtherRowsKept

\* Which side's result it is.
LEMMA ResultOf ==
  ASSUME IInv, NEW t \in Threads, WriteResult(t), NEW r \in 1 .. Len(rows),
         Refers(r, threads[t].job)
  PROVE  \E s \in Sides : rows[r].job[s] = threads[t].job /\ JobOf(r, s).status = "running"
<1>1. jobs[threads[t].job].status = "running"
  BY DEF IInv, StillHolds, WriteResult
<1>2. QED
  BY <1>1 DEF Refers, JobOf

\* A result that starts no rollback and ends none.
LEMMA ResultOnly ==
  ASSUME IInv, NEW t \in Threads, WriteResult(t),
         jobs' = Done(t), rows' = rows,
         NEW r \in 1 .. Len(rows), Refers(r, threads[t].job),
         rows[r].lifecycle # "rolling_back",
         rows[r].lifecycle = "active" => {Done(t)[rows[r].job[u]].status : u \in Sides} # Outcomes
  PROVE  RowRefers(r)' /\ RowRight(r)'
<1>1. TypeOK /\ RowRefers(r) /\ RowRight(r)
  BY DEF IInv, RowsAreRight
<1>2. \A s \in Sides : rows[r].job[s] \in 1 .. Len(jobs)
  BY <1>1, RowJobs
<1>3. RowRefers(r)'
  <2>1. \A i \in 1 .. Len(jobs) : Done(t)[i].side = jobs[i].side
    BY <1>1, ResultCases
  <2>2. QED
    BY <2>1, <1>1, <1>2 DEF RowRefers, JobOf
<1>4. rows[r].lifecycle \notin {"rolled_back", "rollback_failed"}
  <2>1. PICK u \in Sides : JobOf(r, u).status = "running"
    BY ResultOf
  <2>2. \A s \in Sides : u = s \/ u = Other(s)
    BY Others
  <2>3. QED
    BY <2>1, <2>2, <1>1 DEF RowRight, RollsBack
<1>5. ASSUME rows[r].lifecycle = "active", NEW s \in Sides,
             JobOf(r, s)'.status = "completed", JobOf(r, Other(s))'.status = "failed"
      PROVE  FALSE
  <2>1. /\ Done(t)[rows[r].job[s]].status = "completed"
        /\ Done(t)[rows[r].job[Other(s)]].status = "failed"
    BY <1>5 DEF JobOf
  <2>2. Sides = {s, Other(s)}
    BY Others
  <2>3. {Done(t)[rows[r].job[u]].status : u \in Sides} = {"completed", "failed"}
    BY <2>1, <2>2
  <2>4. QED
    BY <2>3, <1>5 DEF Outcomes
<1>6. RowRight(r)'
  BY <1>4, <1>5 DEF RowRight
<1>7. QED
  BY <1>3, <1>6

\* A result that ends a rollback is that of the removal the rollback queued.
LEMMA ResultEnds ==
  ASSUME IInv, NEW t \in Threads, WriteResult(t),
         NEW r \in 1 .. Len(rows), Refers(r, threads[t].job), rows[r].lifecycle = "rolling_back",
         EndRollback(r, Done(t), IF threads[t].outcome = "completed" THEN "rolled_back"
                                 ELSE "rollback_failed")
  PROVE  RowsAreRight'
<1> DEFINE verdict == IF threads[t].outcome = "completed" THEN "rolled_back" ELSE "rollback_failed"
<1>0. PICK j, o, l : j = threads[t].job /\ o = threads[t].outcome /\ l = verdict
  OBVIOUS
<1>1. TypeOK /\ RowsAreRight /\ RowRefers(r) /\ RowRight(r)
  BY DEF IInv, RowsAreRight
<1>2. /\ j \in 1 .. Len(jobs) /\ o \in Outcomes
      /\ Done(t) \in Seq(Job) /\ Len(Done(t)) = Len(jobs)
      /\ Done(t)[j].status = o
      /\ \A i \in 1 .. Len(jobs) :
           /\ Done(t)[i].side = jobs[i].side /\ Done(t)[i].kind = jobs[i].kind
           /\ i # j => Done(t)[i] = jobs[i]
  BY <1>0, <1>1, ResultCases
<1>3. /\ l \in Lifecycle
      /\ o = "completed" => l = "rolled_back"
      /\ o # "completed" => l = "rollback_failed"
  BY <1>0 DEF Lifecycle
<1>4. EndRollback(r, Done(t), l)
  BY <1>0
<1> HIDE DEF verdict
<1>5. /\ jobs' = Done(t)
      /\ Len(rows') = Len(rows)
      /\ rows'[r].lifecycle = l /\ rows'[r].job = rows[r].job
      /\ \A q \in 1 .. Len(rows) : q # r => rows'[q] = rows[q]
  BY <1>1, <1>2, <1>3, <1>4, EndRollbackTyped
<1>6. \A q \in 1 .. Len(rows) : q # r => RowRefers(q)' /\ RowRight(q)'
  BY <1>1, <1>5, ResultKeepsOthers
<1>7. PICK s \in Sides : RollsBack(r, s) /\ JobOf(r, s).status \in {"queued", "running"}
  BY <1>1 DEF RowRight
<1>8. \A u \in Sides : JobOf(r, u)' = Done(t)[rows[r].job[u]] /\ JobOf(r, u) = jobs[rows[r].job[u]]
  BY <1>5 DEF JobOf
<1>9. \A u \in Sides : rows[r].job[u] \in 1 .. Len(jobs)
  BY <1>1, RowJobs
<1>10. rows[r].job[s] = j /\ rows[r].job[Other(s)] # j
  <2>1. PICK u \in Sides : rows[r].job[u] = j /\ JobOf(r, u).status = "running"
    BY <1>0, ResultOf
  <2>2. JobOf(r, Other(s)).status = "failed"
    BY <1>7 DEF RollsBack
  <2>3. u = s /\ Other(s) \in Sides
    BY <2>1, <2>2, Others
  <2>4. QED
    BY <2>1, <2>2, <2>3, <1>8
<1>11. RowRefers(r)'
  BY <1>1, <1>2, <1>8, <1>9 DEF RowRefers
<1>12. RowRight(r)'
  <2>1. JobOf(r, s)'.kind = "plugin_remove" /\ JobOf(r, s)'.status = o
    BY <1>2, <1>7, <1>8, <1>9, <1>10 DEF RollsBack
  <2>2. JobOf(r, Other(s))'.status = "failed"
    BY <1>2, <1>7, <1>8, <1>9, <1>10, Others DEF RollsBack
  <2>3. RollsBack(r, s)'
    BY <2>1, <2>2 DEF RollsBack
  <2>4. o = "completed" \/ o = "failed"
    BY <1>2 DEF Outcomes
  <2>5. QED
    BY <2>1, <2>3, <2>4, <1>3, <1>5 DEF RowRight
<1>13. \A p, q \in 1 .. Len(rows) : RowsApart(p, q)'
  <2>1. \A q \in 1 .. Len(rows) : rows'[q].job = rows[q].job
    BY <1>5
  <2>2. QED
    BY <2>1, <1>1 DEF RowsAreRight, RowsApart
<1>14. QED
  BY <1>5, <1>6, <1>11, <1>12, <1>13 DEF RowsAreRight

\* A result that starts a rollback leaves one side failed and queues the other's removal.
LEMMA ResultStarts ==
  ASSUME IInv, NEW t \in Threads, WriteResult(t),
         NEW r \in 1 .. Len(rows), Refers(r, threads[t].job), NEW s \in Sides,
         Done(t)[rows[r].job[Other(s)]].status = "failed",
         StartRollback(r, Done(t), s)
  PROVE  RowsAreRight'
<1>1. TypeOK /\ RowsAreRight /\ RowRefers(r)
  BY DEF IInv, RowsAreRight
<1>2. /\ Done(t) \in Seq(Job) /\ Len(Done(t)) = Len(jobs)
      /\ \A i \in 1 .. Len(jobs) : Done(t)[i].side = jobs[i].side
  BY <1>1, ResultCases
<1>3. /\ Len(jobs') \in Nat
      /\ Len(rows') = Len(rows)
      /\ \A j \in 1 .. Len(jobs) : jobs'[j] = Done(t)[j]
      /\ rows'[r].lifecycle = "rolling_back"
      /\ rows'[r].job[s] \in Len(jobs) + 1 .. Len(jobs')
      /\ jobs'[rows'[r].job[s]] = [side |-> s, kind |-> "plugin_remove", status |-> "queued"]
      /\ rows'[r].job[Other(s)] = rows[r].job[Other(s)]
      /\ \A q \in 1 .. Len(rows) : q # r => rows'[q] = rows[q]
  BY <1>1, <1>2, StartRollbackTyped
<1>4. \A q \in 1 .. Len(rows) : q # r => RowRefers(q)' /\ RowRight(q)'
  BY <1>1, <1>3, ResultKeepsOthers
<1>5. /\ Other(s) \in Sides /\ Sides = {s, Other(s)}
      /\ rows[r].job[Other(s)] \in 1 .. Len(jobs)
  BY <1>1, Others, RowJobs
<1>6. /\ JobOf(r, s)' = [side |-> s, kind |-> "plugin_remove", status |-> "queued"]
      /\ JobOf(r, Other(s))' = Done(t)[rows[r].job[Other(s)]]
  BY <1>3, <1>5 DEF JobOf
<1>7. RowRefers(r)'
  <2>1. JobOf(r, s)'.side = s
    BY <1>6
  <2>2. JobOf(r, Other(s))'.side = Other(s)
    BY <1>1, <1>2, <1>5, <1>6 DEF RowRefers, JobOf
  <2>3. QED
    BY <2>1, <2>2, <1>5 DEF RowRefers
<1>8. RowRight(r)'
  <2>1. JobOf(r, s)'.kind = "plugin_remove" /\ JobOf(r, s)'.status = "queued"
    BY <1>6
  <2>2. JobOf(r, Other(s))'.status = "failed"
    BY <1>6
  <2>3. RollsBack(r, s)'
    BY <2>1, <2>2 DEF RollsBack
  <2>4. QED
    BY <2>1, <2>3, <1>3 DEF RowRight
<1>9. \A p, q \in 1 .. Len(rows) : RowsApart(p, q)'
  <2>1. {s} \in SUBSET Sides /\ Sides \ {s} = {Other(s)}
    BY <1>5, Others
  <2>2. QED
    BY <2>1, <1>1, <1>3, ApartFromNew
<1>10. QED
  BY <1>3, <1>4, <1>7, <1>8, <1>9 DEF RowsAreRight

LEMMA ResultKeeps ==
  ASSUME IInv, Serial, NEW t \in Threads, WriteResult(t)
  PROVE  RowsAreRight' /\ \A u \in Threads : StillHolds(u)'
<1>1. TypeOK /\ RowsAreRight
  BY DEF IInv
<1>2. /\ threads[t].job \in 1 .. Len(jobs)
      /\ \A i \in 1 .. Len(jobs) : i # threads[t].job => Done(t)[i] = jobs[i]
  BY <1>1, ResultCases
<1>3. ASSUME jobs' = Done(t), rows' = rows,
             \A r \in 1 .. Len(rows) : Refers(r, threads[t].job) => \E q \in 1 .. Len(rows) :
                 /\ Refers(q, threads[t].job)
                 /\ rows[q].lifecycle # "rolling_back"
                 /\ rows[q].lifecycle = "active" =>
                      {Done(t)[rows[q].job[u]].status : u \in Sides} # Outcomes
      PROVE  RowsAreRight'
  <2>1. ASSUME NEW r \in 1 .. Len(rows) PROVE RowRefers(r)' /\ RowRight(r)'
    <3>1. CASE Refers(r, threads[t].job)
      <4>1. PICK q \in 1 .. Len(rows) :
                 /\ Refers(q, threads[t].job)
                 /\ rows[q].lifecycle # "rolling_back"
                 /\ rows[q].lifecycle = "active" =>
                      {Done(t)[rows[q].job[u]].status : u \in Sides} # Outcomes
        BY <1>3, <3>1
      <4>2. q = r
        BY <4>1, <3>1, <1>1, OneRefers
      <4>3. QED
        BY <4>1, <4>2, <1>3, ResultOnly
    <3>2. CASE ~Refers(r, threads[t].job)
      <4>1. \A s \in Sides : rows[r].job[s] \in 1 .. Len(jobs) /\ rows[r].job[s] # threads[t].job
        BY <3>2, <1>1, RowJobs DEF Refers
      <4>2. \A s \in Sides : Alike(rows[r].job[s])
        BY <4>1, <1>2, <1>3 DEF Alike
      <4>3. QED
        BY <4>2, <1>1, <1>3, RowKept DEF RowsAreRight
    <3>3. QED
      BY <3>1, <3>2
  <2>2. QED
    BY <2>1, <1>1, <1>3 DEF RowsAreRight, RowsApart
<1>4. RowsAreRight'
  BY <1>1, <1>3, ResultCases, ResultEnds, ResultStarts
<1>5. threads[t] # Free /\ threads' = [threads EXCEPT ![t] = Free]
  BY DEF WriteResult, Free
<1>6. threads \in [Threads -> Handler]
  BY <1>1 DEF TypeOK
<1>7. QED
  BY <1>4, <1>5, <1>6, NoneLeft

LEMMA InitRight == TypeOK /\ Init => IInv
<1> SUFFICES ASSUME TypeOK, Init PROVE IInv
  OBVIOUS
<1>1. Len(rows) = 0
  BY DEF Init
<1>2. RowsAreRight
  BY <1>1 DEF RowsAreRight
<1>3. \A t \in Threads : threads[t].op = "none"
  BY DEF Init, Free
<1>4. QED
  BY <1>2, <1>3 DEF IInv, StillHolds

LEMMA NextRight == Types' /\ IInv /\ Serial /\ Serial' /\ [Next]_vars => IInv'
<1> SUFFICES ASSUME Types', IInv, Serial, Serial', [Next]_vars
             PROVE  RowsAreRight' /\ \A u \in Threads : StillHolds(u)'
  BY DEF IInv, Types
<1>1. ASSUME NEW t \in Threads,
             \/ ReadDeploy(t) \/ ReadRetry(t) \/ ReadRemove(t) \/ ReadRemoveTunnel(t)
             \/ ReadReconfigure(t)
      PROVE  RowsAreRight' /\ \A u \in Threads : StillHolds(u)'
  BY <1>1, ReadsKeep
<1>2. ASSUME NEW t \in Threads,
             \/ WriteDeploy(t) \/ WriteRetry(t) \/ WriteRemove(t) \/ WriteRemoveOne(t)
             \/ WriteReconfigure(t)
      PROVE  RowsAreRight' /\ \A u \in Threads : StillHolds(u)'
  BY <1>2, WritesKeep
<1>3. ASSUME NEW t \in Threads, WriteResult(t)
      PROVE  RowsAreRight' /\ \A u \in Threads : StillHolds(u)'
  BY <1>3, ResultKeeps
<1>4. ASSUME NEW t \in Threads, NEW s \in Sides, ReadResult(t, s)
      PROVE  RowsAreRight' /\ \A u \in Threads : StillHolds(u)'
  BY <1>4, ReadResultKeeps
<1>5. ASSUME NEW s \in Sides, Claim(s)
      PROVE  RowsAreRight' /\ \A u \in Threads : StillHolds(u)'
  BY <1>5, ClaimKeeps
<1>6. CASE \E j \in DOMAIN jobs : Requeue(j)
  <2>1. DOMAIN jobs = 1 .. Len(jobs)
    BY RowsTyped DEF IInv
  <2>2. QED
    BY <1>6, <2>1, RequeueKeeps
<1>7. ASSUME UNCHANGED <<jobs, rows, threads>>
      PROVE  RowsAreRight' /\ \A u \in Threads : StillHolds(u)'
  <2>1. RowsAreRight'
    BY <1>7, RowsUnchanged DEF IInv
  <2>2. \A u \in Threads : StillHolds(u)'
    BY <1>7 DEF IInv, StillHolds, JobOf
  <2>3. QED
    BY <2>1, <2>2
<1>8. \/ \E s \in Sides : Execute(s) \/ CutShort(s) \/ Heartbeat(s)
      \/ OrphanActs
      \/ UNCHANGED vars
      => UNCHANGED <<jobs, rows, threads>>
  BY DEF Execute, CutShort, Heartbeat, OrphanActs, vars
<1>9. QED
  BY <1>1, <1>2, <1>3, <1>4, <1>5, <1>6, <1>7, <1>8 DEF Next

LEMMA SerialInvariant == Spec /\ []Serial => []IInv
<1>1. Init => Types /\ IInv
  BY BoundAssumption, InitTyped, InitRight DEF Types
<1>2. (Types /\ IInv) /\ Serial /\ Serial' /\ [Next]_vars => (Types /\ IInv)'
  BY BoundAssumption, NextTyped, NextRight
<1>3. QED
  BY <1>1, <1>2, PTL DEF Spec

\* While handlers do not overlap, a rollback is under way only for a deployment with one failed
\* side, removes the other side, and the job that will end it has still to run.
THEOREM RollbacksAreWarranted == Spec /\ []Serial => []RollbackIsWarranted
<1>1. IInv => RollbackIsWarranted
  BY RowsTyped DEF IInv, RowsAreRight, RowRight, RollbackIsWarranted
<1>2. QED
  BY <1>1, SerialInvariant, PTL

\* While handlers do not overlap, a deployment is shown as rolled back, or as failing to be, exactly
\* as the removal that its rollback queued ended.
THEOREM RollbackVerdictsAreRight == Spec /\ []Serial => []RollbackVerdict
<1>1. IInv => RollbackVerdict
  BY RowsTyped DEF IInv, RowsAreRight, RowRight, RollbackVerdict
<1>2. QED
  BY <1>1, SerialInvariant, PTL

\* While handlers do not overlap, no half-failed deployment is left without a rollback, whichever
\* side reports last and whatever operators ask for in between.
THEOREM HalfFailedRollsBack == Spec /\ []Serial => []HalfFailedIsRolledBack
<1>1. IInv => HalfFailedIsRolledBack
  <2> SUFFICES ASSUME IInv, NEW r \in DOMAIN rows, rows[r].lifecycle = "active",
                      Statuses(r) = {"completed", "failed"}
               PROVE  FALSE
    BY DEF HalfFailedIsRolledBack
  <2>1. RowRight(r)
    BY RowsTyped DEF IInv, RowsAreRight
  <2>2. PICK s \in Sides : JobOf(r, s).status = "completed"
    BY DEF Statuses
  <2>3. PICK u \in Sides : JobOf(r, u).status = "failed"
    BY DEF Statuses
  <2>4. u = Other(s)
    BY <2>2, <2>3, Others
  <2>5. QED
    BY <2>1, <2>2, <2>3, <2>4 DEF RowRight
<1>2. QED
  BY <1>1, SerialInvariant, PTL

\* OnlyRunningJobsSettle of one row.
Settled(r) ==
  (rows[r].lifecycle = "rolling_back" /\ rows'[r].lifecycle \in {"rolled_back", "rollback_failed"})
    => \E s \in Sides : /\ JobOf(r, s).status = "running"
                        /\ jobs'[rows[r].job[s]].status \in Outcomes

LEMMA ResultSettles ==
  ASSUME IInv, NEW t \in Threads, WriteResult(t), NEW r \in 1 .. Len(rows)
  PROVE  Settled(r)
<1>1. TypeOK
  BY DEF IInv
<1>2. /\ threads[t].outcome \in Outcomes
      /\ Done(t) \in Seq(Job) /\ Len(Done(t)) = Len(jobs)
      /\ Done(t)[threads[t].job].status = threads[t].outcome
      /\ \/ rows' = rows
         \/ \E q \in 1 .. Len(rows) :
              /\ Refers(q, threads[t].job)
              /\ EndRollback(q, Done(t), IF threads[t].outcome = "completed" THEN "rolled_back"
                                         ELSE "rollback_failed")
         \/ \E q \in 1 .. Len(rows), s \in Sides : StartRollback(q, Done(t), s)
  BY <1>1, ResultCases
<1>3. CASE rows' = rows
  BY <1>3 DEF Settled
<1>4. ASSUME NEW q \in 1 .. Len(rows), NEW s \in Sides, StartRollback(q, Done(t), s)
      PROVE  Settled(r)
  <2>1. /\ rows'[q].lifecycle = "rolling_back"
        /\ \A p \in 1 .. Len(rows) : p # q => rows'[p] = rows[p]
    BY <1>1, <1>2, <1>4, StartRollbackTyped
  <2>2. QED
    BY <2>1 DEF Settled
<1>5. ASSUME NEW q \in 1 .. Len(rows), Refers(q, threads[t].job),
             EndRollback(q, Done(t), IF threads[t].outcome = "completed" THEN "rolled_back"
                                     ELSE "rollback_failed")
      PROVE  Settled(r)
  <2>1. PICK l : l = IF threads[t].outcome = "completed" THEN "rolled_back" ELSE "rollback_failed"
    OBVIOUS
  <2>2. l \in Lifecycle /\ EndRollback(q, Done(t), l)
    BY <1>5, <2>1 DEF Lifecycle
  <2>3. /\ jobs' = Done(t)
        /\ \A p \in 1 .. Len(rows) : p # q => rows'[p] = rows[p]
    BY <1>1, <1>2, <2>2, EndRollbackTyped
  <2>4. PICK s \in Sides : rows[q].job[s] = threads[t].job /\ JobOf(q, s).status = "running"
    BY <1>5, ResultOf
  <2>5. jobs'[rows[q].job[s]].status \in Outcomes
    BY <1>2, <2>3, <2>4
  <2>6. CASE r = q
    BY <2>4, <2>5, <2>6 DEF Settled
  <2>7. CASE r # q
    BY <2>3, <2>7 DEF Settled
  <2>8. QED
    BY <2>6, <2>7
<1>6. QED
  BY <1>2, <1>3, <1>4, <1>5

\* Operators' handlers end no rollback: they queue jobs for a row and make it active or removing.
LEMMA WritesSettleNothing ==
  ASSUME IInv, NEW t \in Threads,
         \/ WriteDeploy(t) \/ WriteRetry(t) \/ WriteRemove(t) \/ WriteRemoveOne(t)
         \/ WriteReconfigure(t),
         NEW r \in 1 .. Len(rows)
  PROVE  Settled(r)
<1>1. TypeOK /\ threads[t] \in Handler /\ StillHolds(t)
  BY DEF IInv, TypeOK
<1>2. ASSUME NEW q \in 1 .. Len(rows), NEW S \in SUBSET Sides, NEW kind \in Kinds,
             NEW l \in {"active", "removing"}, Enqueue(q, S, kind, l)
      PROVE  Settled(r)
  <2>1. l \in Lifecycle
    BY DEF Lifecycle
  <2>2. Enqueued(q, S, kind, l)
    BY <1>1, <1>2, <2>1, EnqueueTyped
  <2>3. rows'[q].lifecycle = l /\ \A p \in 1 .. Len(rows) : p # q => rows'[p] = rows[p]
    BY <2>2 DEF Enqueued
  <2>4. QED
    BY <2>3 DEF Settled
<1>3. "plugin_deploy" \in Kinds /\ "plugin_remove" \in Kinds /\ Sides \in SUBSET Sides
  BY DEF Kinds
<1>4. CASE WriteDeploy(t)
  <2>1. rows'[r] = rows[r]
    BY <1>1, <1>4, DeployTyped
  <2>2. QED
    BY <2>1 DEF Settled
<1>5. CASE WriteRemoveOne(t)
  BY <1>5 DEF WriteRemoveOne, Settled
<1>6. CASE WriteRetry(t)
  <2>1. threads[t].row \in 1 .. Len(rows) /\ threads[t].sides \in SUBSET Sides
    BY <1>6, <1>1, HandlerKinds DEF WriteRetry
  <2>2. Enqueue(threads[t].row, threads[t].sides, "plugin_deploy", "active")
    BY <1>6 DEF WriteRetry
  <2>3. QED
    BY <2>1, <2>2, <1>2, <1>3
<1>7. CASE WriteRemove(t)
  <2>1. threads[t].row \in 1 .. Len(rows)
    BY <1>7, <1>1, HandlerKinds DEF WriteRemove
  <2>2. Enqueue(threads[t].row, Sides, "plugin_remove", "removing")
    BY <1>7 DEF WriteRemove
  <2>3. QED
    BY <2>1, <2>2, <1>2, <1>3
<1>8. CASE WriteReconfigure(t)
  <2>1. threads[t].row \in 1 .. Len(rows)
    BY <1>8, <1>1, HandlerKinds DEF WriteReconfigure
  <2>2. Enqueue(threads[t].row, Sides, "plugin_deploy", "active")
    BY <1>8, <1>1 DEF WriteReconfigure, StillHolds
  <2>3. QED
    BY <2>1, <2>2, <1>2, <1>3
<1>9. QED
  BY <1>4, <1>5, <1>6, <1>7, <1>8

\* While handlers do not overlap, a rollback ends with the result of a job that was running until
\* then: what run DeploymentOverlap finds wrong is due to the overlap alone.
THEOREM RunningJobsSettle == Spec /\ []Serial => OnlyRunningJobsSettle
<1>1. IInv /\ [Next]_vars => [\A r \in DOMAIN rows : Settled(r)]_vars
  <2> SUFFICES ASSUME IInv, Next, NEW r \in 1 .. Len(rows)
               PROVE  Settled(r)
    BY RowsTyped DEF IInv
  <2>1. ASSUME NEW t \in Threads, WriteResult(t) PROVE Settled(r)
    BY <2>1, ResultSettles
  <2>2. ASSUME NEW t \in Threads,
               \/ WriteDeploy(t) \/ WriteRetry(t) \/ WriteRemove(t) \/ WriteRemoveOne(t)
               \/ WriteReconfigure(t)
        PROVE  Settled(r)
    BY <2>2, WritesSettleNothing
  <2>3. ASSUME rows' = rows PROVE Settled(r)
    BY <2>3 DEF Settled
  <2>4. ASSUME NEW t \in Threads,
               \/ ReadDeploy(t) \/ ReadRetry(t) \/ ReadRemove(t) \/ ReadRemoveTunnel(t)
               \/ ReadReconfigure(t) \/ \E s \in Sides : ReadResult(t, s)
        PROVE  rows' = rows
    BY <2>4 DEF ReadDeploy, ReadRetry, ReadRemove, ReadRemoveTunnel, ReadReconfigure, ReadResult, Read
  <2>5. \/ \E s \in Sides : Claim(s) \/ Execute(s) \/ CutShort(s) \/ Heartbeat(s)
        \/ OrphanActs
        \/ \E j \in DOMAIN jobs : Requeue(j)
        => rows' = rows
    BY DEF Claim, Execute, CutShort, Heartbeat, OrphanActs, Requeue
  <2>6. QED
    BY <2>1, <2>2, <2>3, <2>4, <2>5 DEF Next
<1>2. Spec /\ []Serial => [][\A r \in DOMAIN rows : Settled(r)]_vars
  BY <1>1, SerialInvariant, PTL DEF Spec
<1>3. QED
  BY <1>2 DEF OnlyRunningJobsSettle, Settled

-----------------------------------------------------------------------------
(* What runs on the nodes, while there is one deployment and no job_task is cut short *)

OneRow == Len(rows) <= 1

\* A node's jobs are executed in the order of their ids.
InOrder ==
  \A i, k \in 1 .. Len(jobs) :
    i < k /\ jobs[i].side = jobs[k].side /\ jobs[k].status # "queued" => jobs[i].status \in Outcomes

\* A running job is that of the node's job_task, and conversely.
JobTasks ==
  /\ \A j \in 1 .. Len(jobs) : jobs[j].status = "running" => worker[jobs[j].side].job = j
  /\ \A s \in Sides : worker[s].job # 0 =>
       jobs[worker[s].job].side = s /\ jobs[worker[s].job].status = "running"

\* Whether the tunnel runs after a job that succeeded is what the job is for.
Executed(s) ==
  worker[s].outcome = "completed" => installed[s] = (jobs[worker[s].job].kind = "plugin_deploy")

\* More of what a handler has read and is still so when it writes.
StillKnows(t) ==
  /\ threads[t].op = "result" => threads[t].outcome = worker[jobs[threads[t].job].side].outcome
  /\ threads[t].op = "retry" =>
       /\ rows[threads[t].row].lifecycle # "rolling_back"
       /\ rows[threads[t].row].lifecycle = "rolled_back" => threads[t].sides = Sides
  /\ threads[t].op = "remove_one" => \A r \in 1 .. Len(rows) : rows[r].lifecycle # "active"

\* Later jobs of the node on side s.
Later(r, s) == {k \in 1 .. Len(jobs) : k > rows[r].job[s] /\ jobs[k].side = s}

\* Side s of an active or a removed deployment.
SideRight(r, s) ==
  /\ rows[r].lifecycle = "active" /\ JobOf(r, s).kind = "plugin_deploy" =>
       /\ Later(r, s) = {}
       /\ JobOf(r, s).status = "completed" => installed[s]
  /\ rows[r].lifecycle = "removing" =>
       /\ JobOf(r, s).kind = "plugin_remove"
       /\ \A k \in Later(r, s) : jobs[k].kind = "plugin_remove"
       /\ JobOf(r, s).status = "completed" => ~installed[s]

\* The queue in order, its running jobs those of the job_tasks, and what these have done.
Runs ==
  /\ orphans = {}
  /\ InOrder
  /\ JobTasks
  /\ \A s \in Sides : Executed(s)

SidesRight == \A r \in 1 .. Len(rows), s \in Sides : SideRight(r, s)

RunInv == Runs /\ SidesRight /\ \A t \in Threads : StillKnows(t)

NodesInv == restarts = 0 => RunInv

\* What is appended to the jobs table: queued jobs, one for each side in S.
Added(old, new, S, kind) ==
  /\ \A i \in Len(old) + 1 .. Len(new) :
       new[i].side \in S /\ new[i].kind = kind /\ new[i].status = "queued"
  /\ \A i, k \in Len(old) + 1 .. Len(new) : new[i].side = new[k].side => i = k

LEMMA Adding ==
  ASSUME NEW old \in Seq(Job), NEW S \in SUBSET Sides, NEW kind \in Kinds
  PROVE  Added(old, old \o NewJobs(S, kind), S, kind)
<1> DEFINE one(s) == [side |-> s, kind |-> kind, status |-> "queued"]
           new(s) == IF s \in S THEN <<one(s)>> ELSE <<>>
           more == NewJobs(S, kind)
           all == old \o more
<1>1. \A s \in Sides : /\ one(s) \in Job /\ one(s).side = s /\ one(s).kind = kind
                       /\ one(s).status = "queued"
  BY DEF Job, Kinds
<1>2. more = new("iran") \o new("kharej")
  BY DEF NewJobs
<1> HIDE DEF one
<1>3. \A s \in Sides : /\ new(s) \in Seq(Job)
                       /\ s \in S => Len(new(s)) = 1 /\ new(s)[1] = one(s)
                       /\ s \notin S => Len(new(s)) = 0
  BY <1>1
<1> HIDE DEF new
<1>4. "iran" \in Sides /\ "kharej" \in Sides
  BY DEF Sides
<1>5. /\ more \in Seq(Job)
      /\ Len(more) = Len(new("iran")) + Len(new("kharej"))
      /\ \A i \in 1 .. Len(new("iran")) + Len(new("kharej")) :
           more[i] = IF i <= Len(new("iran")) THEN new("iran")[i]
                     ELSE new("kharej")[i - Len(new("iran"))]
  BY <1>2, <1>3, <1>4, ConcatProperties
<1> HIDE DEF more
<1>6. /\ all \in Seq(Job) /\ Len(old) \in Nat
      /\ Len(all) = Len(old) + Len(more)
      /\ \A i \in 1 .. Len(old) + Len(more) :
           all[i] = IF i <= Len(old) THEN old[i] ELSE more[i - Len(old)]
  <2>1. more \in Seq(Job)
    BY <1>5
  <2>2. Len(old) \in Nat
    BY LenProperties
  <2>3. QED
    BY <2>1, <2>2, ConcatProperties
<1> HIDE DEF all
<1>7. \A i \in 1 .. Len(more) : \E s \in S :
        more[i] = one(s) /\ i = IF s = "kharej" /\ "iran" \in S THEN 2 ELSE 1
  <2>1. CASE "iran" \in S /\ "kharej" \in S
    <3>1. Len(more) = 2 /\ more[1] = one("iran") /\ more[2] = one("kharej")
      BY <2>1, <1>3, <1>4, <1>5
    <3>2. QED
      BY <2>1, <3>1
  <2>2. CASE "iran" \in S /\ "kharej" \notin S
    <3>1. Len(more) = 1 /\ more[1] = one("iran")
      BY <2>2, <1>3, <1>4, <1>5
    <3>2. QED
      BY <2>2, <3>1
  <2>3. CASE "iran" \notin S /\ "kharej" \in S
    <3>1. Len(more) = 1 /\ more[1] = one("kharej")
      BY <2>3, <1>3, <1>4, <1>5
    <3>2. QED
      BY <2>3, <3>1
  <2>4. CASE "iran" \notin S /\ "kharej" \notin S
    BY <2>4, <1>3, <1>4, <1>5
  <2>5. QED
    BY <2>1, <2>2, <2>3, <2>4
<1>8. Len(more) \in Nat
  BY <1>5, LenProperties
<1>9. \A i \in Len(old) + 1 .. Len(all) : i - Len(old) \in 1 .. Len(more) /\ all[i] = more[i - Len(old)]
  BY <1>6, <1>8
<1>10. \A i \in Len(old) + 1 .. Len(all) : \E s \in S :
         /\ all[i] = one(s)
         /\ i - Len(old) = IF s = "kharej" /\ "iran" \in S THEN 2 ELSE 1
  BY <1>7, <1>9
<1>11. \A i \in Len(old) + 1 .. Len(all) :
         /\ all[i].side \in S /\ all[i].kind = kind /\ all[i].status = "queued"
         /\ i - Len(old) = IF all[i].side = "kharej" /\ "iran" \in S THEN 2 ELSE 1
  <2> SUFFICES ASSUME NEW i \in Len(old) + 1 .. Len(all)
               PROVE  /\ all[i].side \in S /\ all[i].kind = kind /\ all[i].status = "queued"
                      /\ i - Len(old) = IF all[i].side = "kharej" /\ "iran" \in S THEN 2 ELSE 1
    OBVIOUS
  <2>1. PICK s \in S : /\ all[i] = one(s)
                       /\ i - Len(old) = IF s = "kharej" /\ "iran" \in S THEN 2 ELSE 1
    BY <1>10
  <2>2. QED
    BY <2>1, <1>1
<1>12. \A i, k \in Len(old) + 1 .. Len(all) : all[i].side = all[k].side => i = k
  <2> SUFFICES ASSUME NEW i \in Len(old) + 1 .. Len(all), NEW k \in Len(old) + 1 .. Len(all),
                      all[i].side = all[k].side
               PROVE  i = k
    OBVIOUS
  <2>1. i - Len(old) = k - Len(old)
    BY <1>11
  <2>2. QED
    BY <2>1, <1>6
<1>13. Added(old, all, S, kind)
  BY <1>11, <1>12 DEF Added
<1>14. QED
  BY <1>13 DEF all, more

\* The jobs that job_tasks refer to.
LEMMA TaskJobs ==
  ASSUME Types, NEW s \in Sides
  PROVE  /\ worker[s].job \in 0 .. Len(jobs)
         /\ worker[s].outcome \in Outcomes \cup {"none"}
         /\ worker[s].job = 0 => worker[s].outcome = "none"
         /\ worker[s] = [job |-> worker[s].job, outcome |-> worker[s].outcome]
BY DEF Types, TypeOK, WorkerKnows

LEMMA TaskJob ==
  ASSUME Types, NEW s \in Sides, worker[s].job # 0 \/ worker[s].outcome # "none"
  PROVE  worker[s].job \in 1 .. Len(jobs)
<1>1. worker[s].job \in 0 .. Len(jobs) /\ worker[s].job # 0
  BY TaskJobs
<1>2. Len(jobs) \in Nat
  BY RowsTyped DEF Types
<1>3. QED
  BY <1>1, <1>2

\* Appending queued jobs.
LEMMA QueueGrows ==
  ASSUME Types, Runs, NEW S \in SUBSET Sides, NEW kind,
         Len(jobs') \in Nat, Len(jobs') >= Len(jobs),
         \A j \in 1 .. Len(jobs) : jobs'[j] = jobs[j],
         Added(jobs, jobs', S, kind),
         UNCHANGED <<installed, worker, orphans>>
  PROVE  Runs'
<1>1. Len(jobs) \in Nat /\ \A j \in 1 .. Len(jobs) : jobs[j] \in Job
  BY RowsTyped DEF Types
<1>2. \A j \in 1 .. Len(jobs') :
        \/ j \in 1 .. Len(jobs) /\ jobs'[j] = jobs[j]
        \/ j > Len(jobs) /\ jobs'[j].status = "queued"
  BY <1>1 DEF Added
<1>3. InOrder'
  <2> SUFFICES ASSUME NEW i \in 1 .. Len(jobs'), NEW k \in 1 .. Len(jobs'),
                      i < k, jobs'[i].side = jobs'[k].side, jobs'[k].status # "queued"
               PROVE  jobs'[i].status \in Outcomes
    BY DEF InOrder, Outcomes
  <2>1. k \in 1 .. Len(jobs) /\ jobs'[k] = jobs[k]
    BY <1>2
  <2>2. i \in 1 .. Len(jobs) /\ jobs'[i] = jobs[i]
    BY <2>1, <1>1, <1>2
  <2>3. QED
    BY <2>1, <2>2 DEF Runs, InOrder
<1>4. \A s \in Sides : worker[s].job # 0 => /\ worker[s].job \in 1 .. Len(jobs)
                                           /\ jobs'[worker[s].job] = jobs[worker[s].job]
  <2> SUFFICES ASSUME NEW s \in Sides, worker[s].job # 0
               PROVE  /\ worker[s].job \in 1 .. Len(jobs)
                      /\ jobs'[worker[s].job] = jobs[worker[s].job]
    OBVIOUS
  <2>1. worker[s].job \in 0 .. Len(jobs)
    BY TaskJobs
  <2>2. worker[s].job \in 1 .. Len(jobs)
    BY <1>1, <2>1
  <2>3. QED
    BY <2>2
<1>5. JobTasks'
  <2>1. ASSUME NEW j \in 1 .. Len(jobs'), jobs'[j].status = "running"
        PROVE  worker[jobs'[j].side].job = j
    <3>1. j \in 1 .. Len(jobs) /\ jobs'[j] = jobs[j]
      BY <1>2, <2>1
    <3>2. QED
      BY <2>1, <3>1 DEF Runs, JobTasks
  <2>2. QED
    BY <2>1, <1>4 DEF Runs, JobTasks
<1>6. \A s \in Sides : Executed(s)'
  <2> SUFFICES ASSUME NEW s \in Sides, worker[s].outcome = "completed"
               PROVE  installed[s] = (jobs'[worker[s].job].kind = "plugin_deploy")
    BY DEF Executed
  <2>1. jobs'[worker[s].job] = jobs[worker[s].job]
    BY <1>4, TaskJobs
  <2>2. QED
    BY <2>1 DEF Runs, Executed
<1>7. QED
  BY <1>3, <1>5, <1>6 DEF Runs

\* A row whose jobs a step leaves alone, when later jobs of its sides are removals or none at all.
LEMMA SideKept ==
  ASSUME NEW r, NEW s \in Sides, SideRight(r, s), rows'[r] = rows[r],
         JobOf(r, s)' = JobOf(r, s),
         installed'[s] = installed[s],
         rows[r].lifecycle = "active" => Later(r, s)' = Later(r, s),
         rows[r].lifecycle = "removing" =>
           \A k \in Later(r, s)' :
             \/ k \in Later(r, s) /\ jobs'[k] = jobs[k]
             \/ jobs'[k].kind = "plugin_remove"
  PROVE  SideRight(r, s)'
BY DEF SideRight

\* Later(r, s) after a step.
LEMMA LaterNext ==
  ASSUME NEW r, NEW s
  PROVE  Later(r, s)' = {k \in 1 .. Len(jobs') : k > rows'[r].job[s] /\ jobs'[k].side = s}
BY DEF Later

\* A side whose job a step has just queued.
LEMMA FreshSide ==
  ASSUME Types, NEW r, NEW S \in SUBSET Sides, NEW s \in S, NEW kind,
         Len(jobs') \in Nat, Len(jobs') >= Len(jobs), Added(jobs, jobs', S, kind),
         rows'[r].job[s] \in Len(jobs) + 1 .. Len(jobs'),
         jobs'[rows'[r].job[s]] = [side |-> s, kind |-> kind, status |-> "queued"],
         rows'[r].lifecycle = "removing" => kind = "plugin_remove"
  PROVE  SideRight(r, s)'
<1>1. Len(jobs) \in Nat
  BY RowsTyped DEF Types
<1>2. PICK j : j = rows'[r].job[s]
  OBVIOUS
<1>3. jobs'[j].side = s /\ jobs'[j].kind = kind /\ jobs'[j].status = "queued"
  BY <1>2
<1>4. Later(r, s)' = {}
  <2> SUFFICES ASSUME NEW k \in 1 .. Len(jobs'), k > j, jobs'[k].side = s
               PROVE  FALSE
    BY <1>2, LaterNext
  <2>1. j \in Len(jobs) + 1 .. Len(jobs') /\ k \in Len(jobs) + 1 .. Len(jobs')
    BY <1>1, <1>2
  <2>2. k = j
    BY <2>1, <1>3 DEF Added
  <2>3. QED
    BY <2>1, <2>2, <1>1
<1>5. JobOf(r, s)' = jobs'[j]
  BY <1>2 DEF JobOf
<1>6. QED
  BY <1>3, <1>4, <1>5 DEF SideRight

\* A side whose completed job a retry leaves out.
LEMMA RetriedSide ==
  ASSUME Types, NEW r \in 1 .. Len(rows), NEW S \in SUBSET Sides, NEW s \in Sides \ S,
         SideRight(r, s), rows[r].lifecycle \in {"active", "removing"},
         TablesTyped, Enqueued(r, S, "plugin_deploy", "active"),
         Added(jobs, jobs', S, "plugin_deploy"),
         installed' = installed
  PROVE  SideRight(r, s)'
<1>1. Len(jobs) \in Nat /\ TypeOK /\ Len(jobs') \in Nat
  BY RowsTyped DEF Types, TablesTyped
<1>2. /\ rows'[r].job[s] = rows[r].job[s] /\ rows'[r].lifecycle = "active"
      /\ \A j \in 1 .. Len(jobs) : jobs'[j] = jobs[j]
  BY DEF Enqueued
<1>3. rows[r].job[s] \in 1 .. Len(jobs)
  BY <1>1, RowJobs
<1>4. JobOf(r, s)' = JobOf(r, s)
  BY <1>2, <1>3 DEF JobOf
<1>5. Later(r, s)' \subseteq Later(r, s)
  <2> SUFFICES ASSUME NEW k \in 1 .. Len(jobs'), k > rows[r].job[s], jobs'[k].side = s
               PROVE  k \in Later(r, s)
    BY <1>2, LaterNext
  <2>1. k \notin Len(jobs) + 1 .. Len(jobs')
    BY DEF Added
  <2>2. k \in 1 .. Len(jobs)
    BY <2>1, <1>1
  <2>3. QED
    BY <2>2, <1>2 DEF Later
<1>6. QED
  BY <1>2, <1>4, <1>5 DEF SideRight

\* Queueing jobs for the only row.
LEMMA EnqueueRuns ==
  ASSUME Types, Runs, OneRow, NEW r \in 1 .. Len(rows), NEW S \in SUBSET Sides,
         NEW kind \in Kinds, NEW l \in Lifecycle, Enqueue(r, S, kind, l),
         UNCHANGED <<installed, worker, orphans>>,
         l = "removing" => kind = "plugin_remove",
         \A s \in Sides \ S : SideRight(r, s)'
  PROVE  Runs' /\ SidesRight'
<1>1. TypeOK /\ jobs \in Seq(Job) /\ Len(rows) \in Nat
  BY RowsTyped DEF Types, TypeOK
<1>2. TablesTyped /\ Enqueued(r, S, kind, l)
  BY <1>1, EnqueueTyped
<1>3. Added(jobs, jobs', S, kind)
  <2>1. jobs' = jobs \o NewJobs(S, kind)
    BY DEF Enqueue
  <2>2. QED
    BY <2>1, <1>1, Adding
<1>4. Len(jobs') \in Nat /\ Len(jobs') >= Len(jobs)
  BY <1>2 DEF TablesTyped
<1>5. Runs'
  BY <1>2, <1>3, <1>4, QueueGrows DEF Enqueued
<1>6. ASSUME NEW s \in S PROVE SideRight(r, s)'
  <2>1. /\ rows'[r].job[s] \in Len(jobs) + 1 .. Len(jobs')
        /\ jobs'[rows'[r].job[s]] = [side |-> s, kind |-> kind, status |-> "queued"]
        /\ rows'[r].lifecycle = l
    BY <1>2 DEF Enqueued
  <2>2. QED
    BY <2>1, <1>3, <1>4, FreshSide
<1>7. \A q \in 1 .. Len(rows') : q = r
  BY <1>1, <1>2 DEF OneRow, Enqueued
<1>8. QED
  BY <1>5, <1>6, <1>7 DEF SidesRight


LEMMA DeployRuns ==
  ASSUME Types, RunInv, OneRow', NEW t \in Threads, WriteDeploy(t)
  PROVE  Runs' /\ SidesRight'
<1>0. PICK r : r = Len(rows) + 1
  OBVIOUS
<1>1. TypeOK /\ Runs /\ jobs \in Seq(Job) /\ Len(rows) \in Nat
  BY RowsTyped DEF Types, TypeOK, RunInv
<1>2. /\ Len(jobs') \in Nat /\ Len(jobs') >= Len(jobs)
      /\ Len(rows') = r
      /\ \A j \in 1 .. Len(jobs) : jobs'[j] = jobs[j]
      /\ rows'[r].lifecycle = "active"
      /\ \A s \in Sides : /\ rows'[r].job[s] \in Len(jobs) + 1 .. Len(jobs')
                          /\ jobs'[rows'[r].job[s]]
                               = [side |-> s, kind |-> "plugin_deploy", status |-> "queued"]
  BY <1>0, <1>1, DeployTyped
<1>3. Added(jobs, jobs', Sides, "plugin_deploy")
  <2>1. jobs' = jobs \o NewJobs(Sides, "plugin_deploy")
    BY DEF WriteDeploy
  <2>2. Sides \in SUBSET Sides /\ "plugin_deploy" \in Kinds
    BY DEF Kinds
  <2>3. QED
    BY <2>1, <2>2, <1>1, Adding
<1>4. UNCHANGED <<installed, worker, orphans>> /\ Sides \in SUBSET Sides
  BY DEF WriteDeploy, Written
<1>5. Runs'
  BY <1>1, <1>2, <1>3, <1>4, QueueGrows
<1>6. \A s \in Sides : SideRight(r, s)'
  BY <1>2, <1>3, <1>4, FreshSide
<1>7. \A q \in 1 .. Len(rows') : q = r
  BY <1>0, <1>1, <1>2 DEF OneRow
<1>8. QED
  BY <1>5, <1>6, <1>7 DEF SidesRight

\* A retry leaves a side out only if its job completed and the deployment was not rolled back.
LEMMA RetryRuns ==
  ASSUME Types, IInv, RunInv, OneRow, NEW t \in Threads, WriteRetry(t)
  PROVE  Runs' /\ SidesRight'
<1>0. PICK r, S : r = threads[t].row /\ S = threads[t].sides
  OBVIOUS
<1>1. /\ TypeOK /\ Runs /\ SidesRight /\ threads[t] \in Handler
      /\ StillHolds(t) /\ StillKnows(t) /\ threads[t].op = "retry"
  BY DEF IInv, TypeOK, RunInv, WriteRetry
<1>2. r \in 1 .. Len(rows) /\ S \in SUBSET Sides
  BY <1>0, <1>1, HandlerKinds
<1>3. Enqueue(r, S, "plugin_deploy", "active") /\ UNCHANGED <<installed, worker, orphans>>
  BY <1>0 DEF WriteRetry, Written
<1>4. "active" \in Lifecycle /\ "plugin_deploy" \in Kinds
  BY DEF Lifecycle, Kinds
<1>5. TablesTyped /\ Enqueued(r, S, "plugin_deploy", "active")
  BY <1>1, <1>2, <1>3, <1>4, EnqueueTyped
<1>6. Added(jobs, jobs', S, "plugin_deploy")
  <2>1. jobs' = jobs \o NewJobs(S, "plugin_deploy") /\ jobs \in Seq(Job)
    BY <1>1, <1>3 DEF Enqueue, TypeOK
  <2>2. QED
    BY <2>1, <1>2, <1>4, Adding
<1>7. ASSUME NEW s \in Sides \ S PROVE SideRight(r, s)'
  <2>1. JobOf(r, s).status = "completed"
    BY <1>0, <1>1 DEF StillHolds
  <2>2. rows[r].lifecycle \notin {"rolling_back", "rolled_back"}
    BY <1>0, <1>1 DEF StillKnows
  <2>3. rows[r].lifecycle # "rollback_failed"
    <3>1. RowRight(r)
      BY <1>2 DEF IInv, RowsAreRight
    <3>2. \A u \in Sides : s = u \/ s = Other(u)
      BY Others
    <3>3. QED
      BY <2>1, <3>1, <3>2 DEF RowRight, RollsBack
  <2>4. rows[r].lifecycle \in Lifecycle
    BY <1>1, <1>2, RowJobs
  <2>5. rows[r].lifecycle \in {"active", "removing"}
    BY <2>2, <2>3, <2>4 DEF Lifecycle
  <2>6. SideRight(r, s)
    BY <1>1, <1>2 DEF SidesRight
  <2>7. QED
    BY <2>5, <2>6, <1>2, <1>3, <1>5, <1>6, RetriedSide
<1>8. QED
  BY <1>1, <1>2, <1>3, <1>4, <1>7, EnqueueRuns

LEMMA RemoveRuns ==
  ASSUME Types, RunInv, OneRow, NEW t \in Threads, WriteRemove(t)
  PROVE  Runs' /\ SidesRight'
<1>0. PICK r : r = threads[t].row
  OBVIOUS
<1>1. Runs /\ threads[t] \in Handler
  BY DEF Types, TypeOK, RunInv
<1>2. r \in 1 .. Len(rows) /\ Sides \in SUBSET Sides
  BY <1>0, <1>1, HandlerKinds DEF WriteRemove
<1>3. Enqueue(r, Sides, "plugin_remove", "removing") /\ UNCHANGED <<installed, worker, orphans>>
  BY <1>0 DEF WriteRemove, Written
<1>4. "removing" \in Lifecycle /\ "plugin_remove" \in Kinds
  BY DEF Lifecycle, Kinds
<1>5. QED
  BY <1>1, <1>2, <1>3, <1>4, EnqueueRuns

LEMMA ReconfigureRuns ==
  ASSUME Types, IInv, RunInv, OneRow, NEW t \in Threads, WriteReconfigure(t)
  PROVE  Runs' /\ SidesRight'
<1>0. PICK r : r = threads[t].row
  OBVIOUS
<1>1. Runs /\ threads[t] \in Handler /\ StillHolds(t)
  BY DEF IInv, TypeOK, RunInv
<1>2. r \in 1 .. Len(rows) /\ Sides \in SUBSET Sides
  BY <1>0, <1>1, HandlerKinds DEF WriteReconfigure
<1>3. Enqueue(r, Sides, "plugin_deploy", "active") /\ UNCHANGED <<installed, worker, orphans>>
  BY <1>0, <1>1 DEF WriteReconfigure, StillHolds, Written
<1>4. "active" \in Lifecycle /\ "plugin_deploy" \in Kinds
  BY DEF Lifecycle, Kinds
<1>5. QED
  BY <1>1, <1>2, <1>3, <1>4, EnqueueRuns

\* A tunnel that is removed from one node belongs to no active deployment.
LEMMA RemoveOneRuns ==
  ASSUME Types, RunInv, NEW t \in Threads, WriteRemoveOne(t)
  PROVE  Runs' /\ SidesRight'
<1>0. PICK S : S = {threads[t].side}
  OBVIOUS
<1>1. /\ TypeOK /\ Runs /\ SidesRight /\ threads[t] \in Handler
      /\ StillKnows(t) /\ threads[t].op = "remove_one"
      /\ jobs \in Seq(Job) /\ Len(jobs) \in Nat
  BY RowsTyped DEF Types, TypeOK, RunInv, WriteRemoveOne
<1>2. S \in SUBSET Sides /\ "plugin_remove" \in Kinds
  BY <1>0, <1>1, HandlerKinds DEF Kinds
<1>3. jobs' = jobs \o NewJobs(S, "plugin_remove") /\ rows' = rows
  BY <1>0 DEF WriteRemoveOne
<1>4. UNCHANGED <<installed, worker, orphans>>
  BY DEF WriteRemoveOne, Written
<1>5. Queued(jobs, jobs', S, "plugin_remove") /\ Added(jobs, jobs', S, "plugin_remove")
  BY <1>1, <1>2, <1>3, Queueing, Adding
<1>6. /\ Len(jobs') \in Nat /\ Len(jobs') >= Len(jobs)
      /\ \A j \in 1 .. Len(jobs) : jobs'[j] = jobs[j]
  BY <1>5 DEF Queued
<1>7. Runs'
  BY <1>1, <1>2, <1>4, <1>5, <1>6, QueueGrows
<1>8. ASSUME NEW r \in 1 .. Len(rows), NEW s \in Sides PROVE SideRight(r, s)'
  <2>1. rows[r].lifecycle # "active"
    BY <1>1 DEF StillKnows
  <2>2. rows[r].job[s] \in 1 .. Len(jobs)
    BY <1>1, RowJobs
  <2>3. JobOf(r, s)' = JobOf(r, s)
    BY <2>2, <1>3, <1>6 DEF JobOf
  <2>4. ASSUME NEW k \in Later(r, s)'
        PROVE  \/ k \in Later(r, s) /\ jobs'[k] = jobs[k]
               \/ jobs'[k].kind = "plugin_remove"
    <3>1. k \in 1 .. Len(jobs') /\ k > rows[r].job[s] /\ jobs'[k].side = s
      BY <2>4, <1>3, LaterNext
    <3>2. CASE k \in 1 .. Len(jobs)
      BY <3>1, <3>2, <1>6 DEF Later
    <3>3. CASE k \notin 1 .. Len(jobs)
      <4>1. k \in Len(jobs) + 1 .. Len(jobs')
        BY <3>1, <3>3, <1>1, <1>6
      <4>2. QED
        BY <4>1, <1>5 DEF Added
    <3>4. QED
      BY <3>2, <3>3
  <2>5. SideRight(r, s)
    BY <1>1 DEF SidesRight
  <2>6. QED
    BY <2>1, <2>3, <2>4, <2>5, <1>3, <1>4, SideKept
<1>9. QED
  BY <1>3, <1>7, <1>8 DEF SidesRight

LEMMA NoneKnows ==
  ASSUME Serial, NEW t \in Threads, threads[t] # Free, threads' = [threads EXCEPT ![t] = Free],
         threads \in [Threads -> Handler]
  PROVE  \A u \in Threads : StillKnows(u)'
<1>1. \A u \in Threads : threads'[u] = Free
  BY DEF Serial
<1>2. Free.op = "none"
  BY DEF Free
<1>3. QED
  BY <1>1, <1>2 DEF StillKnows

LEMMA OnlyReaderKnows ==
  ASSUME Serial', NEW t \in Threads, NEW h, h # Free, threads' = [threads EXCEPT ![t] = h],
         threads \in [Threads -> Handler], StillKnows(t)'
  PROVE  \A u \in Threads : StillKnows(u)'
<1>1. \A u \in Threads \ {t} : threads'[u] = Free
  BY DEF Serial
<1>2. Free.op = "none"
  BY DEF Free
<1>3. QED
  BY <1>1, <1>2 DEF StillKnows

LEMMA WritesRun ==
  ASSUME Types, IInv, RunInv, Serial, OneRow, OneRow', NEW t \in Threads,
         \/ WriteDeploy(t) \/ WriteRetry(t) \/ WriteRemove(t) \/ WriteRemoveOne(t)
         \/ WriteReconfigure(t)
  PROVE  RunInv'
<1>1. Runs' /\ SidesRight'
  BY DeployRuns, RetryRuns, RemoveRuns, RemoveOneRuns, ReconfigureRuns
<1>2. threads[t].op # "none" /\ threads' = [threads EXCEPT ![t] = Free]
  BY DEF WriteDeploy, WriteRetry, WriteRemove, WriteRemoveOne, WriteReconfigure, Written
<1>3. threads[t] # Free
  BY <1>2 DEF Free
<1>4. threads \in [Threads -> Handler]
  BY DEF IInv, TypeOK
<1>5. QED
  BY <1>1, <1>2, <1>3, <1>4, NoneKnows DEF RunInv

LEMMA TablesUnchanged ==
  Runs /\ SidesRight /\ UNCHANGED <<jobs, rows, installed, worker, orphans>> => Runs' /\ SidesRight'
BY DEF Runs, SidesRight, InOrder, JobTasks, Executed, SideRight, Later, JobOf

\* What an operator's handler may record.
Recorded(h) ==
  /\ h # Free /\ h.op # "result"
  /\ h.op = "retry" => /\ rows[h.row].lifecycle # "rolling_back"
                       /\ rows[h.row].lifecycle = "rolled_back" => h.sides = Sides
  /\ h.op = "remove_one" => \A r \in 1 .. Len(rows) : rows[r].lifecycle # "active"

LEMMA ReadsRun ==
  ASSUME Types, RunInv, Serial', NEW t \in Threads,
         \/ ReadDeploy(t) \/ ReadRetry(t) \/ ReadRemove(t) \/ ReadRemoveTunnel(t)
         \/ ReadReconfigure(t)
  PROVE  RunInv'
<1>1. DOMAIN rows = 1 .. Len(rows) /\ threads \in [Threads -> Handler]
  BY RowsTyped DEF Types, TypeOK
<1>2. \E h : Read(t, h) /\ Recorded(h)
  <2>1. CASE ReadDeploy(t)
    <3>1. Read(t, [op |-> "deploy"])
      BY <2>1 DEF ReadDeploy
    <3>2. Recorded([op |-> "deploy"])
      BY DEF Recorded, Free
    <3>3. QED
      BY <3>1, <3>2
  <2>2. CASE ReadRetry(t)
    <3>1. PICK r \in DOMAIN rows :
            /\ rows[r].lifecycle # "rolling_back"
            /\ Read(t, [op |-> "retry", row |-> r,
                        sides |-> {s \in Sides : \/ JobOf(r, s).status # "completed"
                                                 \/ rows[r].lifecycle = "rolled_back"}])
      BY <2>2 DEF ReadRetry
    <3> DEFINE some == {s \in Sides : \/ JobOf(r, s).status # "completed"
                                      \/ rows[r].lifecycle = "rolled_back"}
               h == [op |-> "retry", row |-> r, sides |-> some]
    <3>2. rows[r].lifecycle = "rolled_back" => some = Sides
      OBVIOUS
    <3>3. Read(t, h)
      BY <3>1
    <3> HIDE DEF some
    <3>4. h.op = "retry" /\ h.row = r /\ h.sides = some /\ h # Free
      BY DEF Free
    <3> HIDE DEF h
    <3>5. QED
      BY <3>1, <3>2, <3>3, <3>4 DEF Recorded
  <2>3. CASE ReadRemove(t)
    <3>1. PICK r \in DOMAIN rows : Read(t, [op |-> "remove", row |-> r])
      BY <2>3 DEF ReadRemove
    <3>2. Recorded([op |-> "remove", row |-> r])
      BY DEF Recorded, Free
    <3>3. QED
      BY <3>1, <3>2
  <2>4. CASE ReadRemoveTunnel(t)
    <3>1. PICK s \in Sides : \/ \E r \in DOMAIN rows : Read(t, [op |-> "remove", row |-> r])
                             \/ /\ {r \in DOMAIN rows : rows[r].lifecycle = "active"} = {}
                                /\ Read(t, [op |-> "remove_one", side |-> s])
      BY <2>4 DEF ReadRemoveTunnel
    <3>2. \A r : Recorded([op |-> "remove", row |-> r])
      BY DEF Recorded, Free
    <3>3. {r \in DOMAIN rows : rows[r].lifecycle = "active"} = {} =>
            Recorded([op |-> "remove_one", side |-> s])
      BY <1>1 DEF Recorded, Free
    <3>4. QED
      BY <3>1, <3>2, <3>3
  <2>5. CASE ReadReconfigure(t)
    <3>1. PICK r \in DOMAIN rows : Read(t, [op |-> "reconfigure", row |-> r])
      BY <2>5 DEF ReadReconfigure
    <3>2. Recorded([op |-> "reconfigure", row |-> r])
      BY DEF Recorded, Free
    <3>3. QED
      BY <3>1, <3>2
  <2>6. QED
    BY <2>1, <2>2, <2>3, <2>4, <2>5
<1>3. PICK h : Read(t, h) /\ Recorded(h)
  BY <1>2
<1>4. /\ threads' = [threads EXCEPT ![t] = h]
      /\ UNCHANGED <<jobs, rows, installed, worker, orphans>>
  BY <1>3 DEF Read
<1>5. StillKnows(t)'
  <2>1. threads'[t] = h
    BY <1>1, <1>4
  <2>2. QED
    BY <2>1, <1>3, <1>4 DEF StillKnows, Recorded
<1>6. h # Free
  BY <1>3 DEF Recorded
<1>7. QED
  BY <1>1, <1>4, <1>5, <1>6, OnlyReaderKnows, TablesUnchanged DEF RunInv

LEMMA ReadResultRuns ==
  ASSUME Types, RunInv, Serial', NEW t \in Threads, NEW s \in Sides, ReadResult(t, s)
  PROVE  RunInv'
<1> DEFINE h == [op |-> "result", job |-> worker[s].job, outcome |-> worker[s].outcome]
<1>1. threads \in [Threads -> Handler]
  BY DEF Types, TypeOK
<1>2. /\ threads' = [threads EXCEPT ![t] = h]
      /\ UNCHANGED <<jobs, rows, installed, worker, orphans>>
      /\ worker[s].outcome # "none"
  BY DEF ReadResult
<1>3. h # Free /\ h.op = "result" /\ h.job = worker[s].job /\ h.outcome = worker[s].outcome
  BY DEF Free
<1> HIDE DEF h
<1>4. threads'[t] = h
  BY <1>1, <1>2
<1>5. jobs[worker[s].job].side = s
  BY <1>2, TaskJobs DEF RunInv, Runs, JobTasks
<1>6. StillKnows(t)'
  BY <1>2, <1>3, <1>4, <1>5 DEF StillKnows
<1>7. QED
  BY <1>1, <1>2, <1>3, <1>6, OnlyReaderKnows, TablesUnchanged DEF RunInv

\* The oldest queued job of an idle node has only ended jobs before it.
LEMMA ClaimRuns ==
  ASSUME Types, IInv, RunInv, NEW s \in Sides, Claim(s)
  PROVE  RunInv'
<1>1. TypeOK /\ DOMAIN jobs = 1 .. Len(jobs) /\ Len(jobs) \in Nat /\ Runs /\ SidesRight
  BY RowsTyped DEF Types, RunInv
<1>2. PICK j \in 1 .. Len(jobs) :
        /\ jobs[j].side = s /\ jobs[j].status = "queued"
        /\ \A k \in 1 .. j - 1 : ~(jobs[k].side = s /\ jobs[k].status = "queued")
        /\ jobs' = [jobs EXCEPT ![j].status = "running"]
        /\ worker' = [worker EXCEPT ![s].job = j]
  BY <1>1 DEF Claim
<1>3. UNCHANGED <<rows, installed, orphans, threads>> /\ worker[s] = Idle
  BY DEF Claim
<1>4. /\ Len(jobs') = Len(jobs) /\ jobs'[j].status = "running"
      /\ \A i \in 1 .. Len(jobs) : /\ jobs'[i].side = jobs[i].side /\ jobs'[i].kind = jobs[i].kind
                                   /\ i # j => jobs'[i] = jobs[i]
  BY <1>1, <1>2, UpdateIs
<1>5. \A u \in Sides : worker'[u] = IF u = s THEN [job |-> j, outcome |-> "none"] ELSE worker[u]
  <2>1. worker \in [Sides -> [job : 0 .. Len(jobs), outcome : Outcomes \cup {"none"}]]
    BY <1>1 DEF TypeOK
  <2>2. QED
    BY <2>1, <1>2, <1>3 DEF Idle
<1>6. \A i \in 1 .. Len(jobs) : i < j /\ jobs[i].side = s => jobs[i].status \in Outcomes
  <2> SUFFICES ASSUME NEW i \in 1 .. Len(jobs), i < j, jobs[i].side = s
               PROVE  jobs[i].status \in Outcomes
    OBVIOUS
  <2>1. i \in 1 .. j - 1
    BY <1>1
  <2>2. jobs[i].status # "queued"
    BY <2>1, <1>2
  <2>3. jobs[i].status # "running"
    <3>1. worker[s].job = 0
      BY <1>3 DEF Idle
    <3>2. QED
      BY <3>1, <1>1 DEF Runs, JobTasks
  <2>4. jobs[i] \in Job
    BY <1>1, RowsTyped
  <2>5. QED
    BY <2>2, <2>3, <2>4 DEF Job
<1>7. InOrder'
  <2> SUFFICES ASSUME NEW i \in 1 .. Len(jobs), NEW k \in 1 .. Len(jobs),
                      i < k, jobs'[i].side = jobs'[k].side, jobs'[k].status # "queued"
               PROVE  jobs'[i].status \in Outcomes
    BY <1>4 DEF InOrder, Outcomes
  <2>1. CASE k = j
    BY <2>1, <1>1, <1>2, <1>4, <1>6
  <2>2. CASE k # j
    <3>1. jobs[i].status \in Outcomes
      BY <2>2, <1>1, <1>4 DEF Runs, InOrder
    <3>2. i # j
      BY <3>1, <1>2 DEF Outcomes
    <3>3. QED
      BY <3>1, <3>2, <1>4
  <2>3. QED
    BY <2>1, <2>2
<1>8. JobTasks'
  <2>1. ASSUME NEW i \in 1 .. Len(jobs), jobs'[i].status = "running"
        PROVE  worker'[jobs'[i].side].job = i
    <3>1. CASE i = j
      BY <3>1, <1>2, <1>4, <1>5
    <3>2. CASE i # j
      <4>1. jobs'[i] = jobs[i] /\ worker[jobs[i].side].job = i
        BY <2>1, <3>2, <1>1, <1>4 DEF Runs, JobTasks
      <4>2. jobs[i].side \in Sides
        BY <1>1, RowsTyped DEF Job
      <4>3. jobs[i].side # s
        BY <4>1, <1>3, <1>1 DEF Idle
      <4>4. QED
        BY <4>1, <4>2, <4>3, <1>5
    <3>3. QED
      BY <3>1, <3>2
  <2>2. ASSUME NEW u \in Sides, worker'[u].job # 0
        PROVE  jobs'[worker'[u].job].side = u /\ jobs'[worker'[u].job].status = "running"
    <3>1. CASE u = s
      BY <3>1, <1>2, <1>4, <1>5
    <3>2. CASE u # s
      <4>1. worker'[u] = worker[u]
        BY <3>2, <1>5
      <4>2. jobs[worker[u].job].side = u /\ jobs[worker[u].job].status = "running"
        BY <2>2, <4>1, <1>1 DEF Runs, JobTasks
      <4>3. worker[u].job \in 1 .. Len(jobs)
        BY <2>2, <4>1, TaskJob
      <4>4. QED
        BY <4>1, <4>2, <4>3, <1>2, <1>4
    <3>3. QED
      BY <3>1, <3>2
  <2>3. QED
    BY <2>1, <2>2, <1>4 DEF JobTasks
<1>9. \A u \in Sides : Executed(u)'
  <2> SUFFICES ASSUME NEW u \in Sides, worker'[u].outcome = "completed"
               PROVE  installed[u] = (jobs'[worker'[u].job].kind = "plugin_deploy")
    BY <1>3 DEF Executed
  <2>1. worker'[u] = worker[u]
    BY <1>5
  <2>2. worker[u].job \in 1 .. Len(jobs)
    BY <2>1, TaskJob
  <2>3. Executed(u)
    BY <1>1 DEF Runs
  <2>4. QED
    BY <2>1, <2>2, <2>3, <1>4 DEF Executed
<1>10. Runs'
  BY <1>1, <1>3, <1>7, <1>8, <1>9 DEF Runs
<1>11. ASSUME NEW r \in 1 .. Len(rows), NEW u \in Sides PROVE SideRight(r, u)'
  <2>1. rows[r].job[u] \in 1 .. Len(jobs)
    BY <1>1, RowJobs
  <2>2. /\ JobOf(r, u)'.kind = JobOf(r, u).kind
        /\ JobOf(r, u)'.status = "completed" => JobOf(r, u).status = "completed"
    BY <2>1, <1>3, <1>4 DEF JobOf
  <2>3. Later(r, u)' = Later(r, u)
    BY <1>3, <1>4 DEF Later
  <2>4. \A k \in Later(r, u) : jobs'[k].kind = jobs[k].kind
    BY <1>4 DEF Later
  <2>5. SideRight(r, u)
    BY <1>1 DEF SidesRight
  <2>6. QED
    BY <2>2, <2>3, <2>4, <2>5, <1>3 DEF SideRight
<1>12. ASSUME NEW u \in Threads PROVE StillKnows(u)'
  <2>1. threads[u] \in Handler /\ StillKnows(u) /\ threads'[u] = threads[u] /\ StillHolds(u)
    BY <1>1, <1>3 DEF IInv, TypeOK, RunInv
  <2>2. ASSUME threads[u].op = "result"
        PROVE  threads[u].outcome = worker'[jobs'[threads[u].job].side].outcome
    <3>1. threads[u].job \in 1 .. Len(jobs) /\ jobs[threads[u].job].status = "running"
      BY <2>1, <2>2, HandlerKinds DEF StillHolds
    <3>2. worker[jobs[threads[u].job].side].job = threads[u].job
      BY <3>1, <1>1 DEF Runs, JobTasks
    <3>3. jobs[threads[u].job].side \in Sides
      BY <3>1, <1>1, RowsTyped DEF Job
    <3>4. jobs[threads[u].job].side # s
      BY <3>1, <3>2, <1>3, <1>1 DEF Idle
    <3>5. worker'[jobs[threads[u].job].side] = worker[jobs[threads[u].job].side]
      BY <3>3, <3>4, <1>5
    <3>6. QED
      BY <2>1, <2>2, <3>1, <3>5, <1>4 DEF StillKnows
  <2>3. QED
    BY <2>1, <2>2, <1>3 DEF StillKnows
<1>13. QED
  BY <1>3, <1>10, <1>11, <1>12 DEF RunInv, SidesRight

\* An execution touches no side whose deployment or removal has completed, unless to remove again.
LEMMA ExecuteRuns ==
  ASSUME Types, IInv, RunInv, NEW s \in Sides, Execute(s)
  PROVE  RunInv'
<1>0. PICK w : w = worker[s].job
  OBVIOUS
<1>1. TypeOK /\ Len(jobs) \in Nat /\ Runs /\ SidesRight
  BY RowsTyped DEF Types, RunInv
<1>2. w # 0 /\ worker[s].outcome = "none" /\ UNCHANGED <<jobs, rows, orphans, threads>>
  BY <1>0 DEF Execute
<1>3. PICK o \in Outcomes, here \in BOOLEAN :
        /\ here \in After(w, o)
        /\ installed' = [installed EXCEPT ![s] = here]
        /\ worker' = [worker EXCEPT ![s].outcome = o]
  BY <1>0 DEF Execute
<1>4. w \in 1 .. Len(jobs) /\ jobs[w].side = s /\ jobs[w].status = "running"
  BY <1>0, <1>1, <1>2, TaskJob DEF Runs, JobTasks
<1>5. \A u \in Sides : worker'[u] = IF u = s THEN [job |-> w, outcome |-> o] ELSE worker[u]
  <2>1. worker \in [Sides -> [job : 0 .. Len(jobs), outcome : Outcomes \cup {"none"}]]
    BY <1>1 DEF TypeOK
  <2>2. QED
    BY <2>1, <1>0, <1>3
<1>6. \A u \in Sides : installed'[u] = IF u = s THEN here ELSE installed[u]
  BY <1>1, <1>3 DEF TypeOK
<1>7. /\ o = "completed" => here = (jobs[w].kind = "plugin_deploy")
      /\ o # "completed" => here \in {installed[s], FALSE}
  BY <1>3, <1>4 DEF After, Outcomes
<1>8. Runs'
  <2>1. InOrder'
    BY <1>1, <1>2 DEF Runs, InOrder
  <2>2. JobTasks'
    <3>1. \A u \in Sides : worker'[u].job = worker[u].job
      BY <1>0, <1>5
    <3>2. \A j \in 1 .. Len(jobs) : jobs[j].side \in Sides
      BY <1>1, RowsTyped DEF Job
    <3>3. QED
      BY <3>1, <3>2, <1>1, <1>2 DEF Runs, JobTasks
  <2>3. ASSUME NEW u \in Sides PROVE Executed(u)'
    <3>1. CASE u = s
      BY <3>1, <1>2, <1>5, <1>6, <1>7 DEF Executed
    <3>2. CASE u # s
      BY <3>2, <1>1, <1>2, <1>5, <1>6 DEF Runs, Executed
    <3>3. QED
      BY <3>1, <3>2
  <2>4. QED
    BY <2>1, <2>2, <2>3, <1>1, <1>2 DEF Runs
<1>9. ASSUME NEW r \in 1 .. Len(rows), NEW u \in Sides PROVE SideRight(r, u)'
  <2>1. SideRight(r, u) /\ rows[r].job[u] \in 1 .. Len(jobs)
    BY <1>1, RowJobs DEF SidesRight
  <2>2. JobOf(r, u)' = JobOf(r, u) /\ Later(r, u)' = Later(r, u)
    BY <1>2 DEF JobOf, Later
  <2>3. CASE u # s \/ JobOf(r, u).status # "completed"
    BY <2>1, <2>2, <2>3, <1>2, <1>6 DEF SideRight
  <2>4. CASE u = s /\ JobOf(r, u).status = "completed"
    <3>1. jobs[rows[r].job[u]].side = s /\ jobs[rows[r].job[u]].status = "completed"
      BY <2>4 DEF IInv, RowsAreRight, RowRefers, JobOf
    <3>2. w > rows[r].job[u]
      <4>1. w # rows[r].job[u]
        BY <3>1, <1>4
      <4>2. ~(w < rows[r].job[u])
        BY <2>1, <3>1, <1>1, <1>4 DEF Runs, InOrder, Outcomes
      <4>3. QED
        BY <4>1, <4>2, <2>1, <1>1, <1>4
    <3>3. w \in Later(r, u)
      BY <2>4, <3>2, <1>4 DEF Later
    <3>4. rows[r].lifecycle = "removing" => ~here
      <4> SUFFICES ASSUME rows[r].lifecycle = "removing" PROVE ~here
        OBVIOUS
      <4>1. jobs[w].kind = "plugin_remove" /\ ~installed[s]
        BY <2>1, <2>4, <3>3 DEF SideRight
      <4>2. installed[s] = FALSE
        BY <4>1, <1>1 DEF TypeOK
      <4>3. QED
        BY <4>1, <4>2, <1>7
    <3>5. QED
      BY <2>1, <2>2, <2>4, <3>3, <3>4, <1>2, <1>6 DEF SideRight
  <2>5. QED
    BY <2>3, <2>4
<1>10. ASSUME NEW u \in Threads PROVE StillKnows(u)'
  <2>1. threads[u] \in Handler /\ StillKnows(u) /\ threads'[u] = threads[u] /\ StillHolds(u)
    BY <1>1, <1>2 DEF IInv, TypeOK, RunInv
  <2>2. ASSUME threads[u].op = "result"
        PROVE  threads[u].outcome = worker'[jobs[threads[u].job].side].outcome
    <3>1. threads[u].job \in 1 .. Len(jobs) /\ threads[u].outcome \in Outcomes
      BY <2>1, <2>2, HandlerKinds
    <3>2. jobs[threads[u].job].side \in Sides
      BY <3>1, <1>1, RowsTyped DEF Job
    <3>3. threads[u].outcome = worker[jobs[threads[u].job].side].outcome
      BY <2>1, <2>2 DEF StillKnows
    <3>4. jobs[threads[u].job].side # s
      BY <3>1, <3>3, <1>2 DEF Outcomes
    <3>5. QED
      BY <3>2, <3>3, <3>4, <1>5
  <2>3. QED
    BY <2>1, <2>2, <1>2 DEF StillKnows
<1>11. QED
  BY <1>2, <1>8, <1>9, <1>10 DEF RunInv, SidesRight

\* The queue and the job_tasks after a result, whatever else its transaction appends.
LEMMA ResultRuns ==
  ASSUME Types, IInv, RunInv, NEW t \in Threads, WriteResult(t),
         Len(jobs') \in Nat, Len(jobs') >= Len(jobs),
         \A i \in 1 .. Len(jobs) : jobs'[i] = Done(t)[i],
         \A i \in Len(jobs) + 1 .. Len(jobs') : jobs'[i].status = "queued"
  PROVE  Runs'
<1>0. PICK j, o : j = threads[t].job /\ o = threads[t].outcome
  OBVIOUS
<1>1. TypeOK /\ Len(jobs) \in Nat /\ Runs
  BY RowsTyped DEF Types, RunInv
<1>2. /\ j \in 1 .. Len(jobs) /\ o \in Outcomes
      /\ jobs'[j].status = o
      /\ \A i \in 1 .. Len(jobs) : /\ jobs'[i].side = jobs[i].side /\ jobs'[i].kind = jobs[i].kind
                                   /\ i # j => jobs'[i] = jobs[i]
  BY <1>0, <1>1, ResultCases
<1>3. jobs[j].status = "running"
  BY <1>0 DEF IInv, StillHolds, WriteResult
<1>4. \A i \in 1 .. Len(jobs') : i \in 1 .. Len(jobs) \/ jobs'[i].status = "queued"
  BY <1>1
<1>5. UNCHANGED <<installed, orphans>>
  BY DEF WriteResult
<1>6. \A s \in Sides : worker'[s] = IF worker[s].job = j THEN Idle ELSE worker[s]
  BY <1>0 DEF WriteResult
<1>7. InOrder'
  <2> SUFFICES ASSUME NEW i \in 1 .. Len(jobs'), NEW k \in 1 .. Len(jobs'),
                      i < k, jobs'[i].side = jobs'[k].side, jobs'[k].status # "queued"
               PROVE  jobs'[i].status \in Outcomes
    BY DEF InOrder, Outcomes
  <2>1. i \in 1 .. Len(jobs) /\ k \in 1 .. Len(jobs)
    BY <1>1, <1>4
  <2>2. jobs[k].status # "queued" /\ jobs[i].side = jobs[k].side
    BY <2>1, <1>2, <1>3
  <2>3. jobs[i].status \in Outcomes
    BY <2>1, <2>2, <1>1 DEF Runs, InOrder
  <2>4. QED
    BY <2>1, <2>3, <1>2
<1>8. JobTasks'
  <2>1. ASSUME NEW i \in 1 .. Len(jobs'), jobs'[i].status = "running"
        PROVE  worker'[jobs'[i].side].job = i
    <3>1. i \in 1 .. Len(jobs) /\ i # j
      BY <2>1, <1>2, <1>4 DEF Outcomes
    <3>2. jobs'[i] = jobs[i] /\ jobs[i].side \in Sides
      BY <3>1, <1>1, <1>2, RowsTyped DEF Job
    <3>3. worker[jobs[i].side].job = i
      BY <2>1, <3>1, <3>2, <1>1 DEF Runs, JobTasks
    <3>4. QED
      BY <3>1, <3>2, <3>3, <1>6
  <2>2. ASSUME NEW s \in Sides, worker'[s].job # 0
        PROVE  jobs'[worker'[s].job].side = s /\ jobs'[worker'[s].job].status = "running"
    <3>1. worker[s].job # j /\ worker'[s] = worker[s]
      BY <2>2, <1>6 DEF Idle
    <3>2. worker[s].job \in 1 .. Len(jobs)
      BY <2>2, <3>1, TaskJob
    <3>3. jobs[worker[s].job].side = s /\ jobs[worker[s].job].status = "running"
      BY <2>2, <3>1, <1>1 DEF Runs, JobTasks
    <3>4. QED
      BY <3>1, <3>2, <3>3, <1>2
  <2>3. QED
    BY <2>1, <2>2 DEF JobTasks
<1>9. \A s \in Sides : Executed(s)'
  <2> SUFFICES ASSUME NEW s \in Sides, worker'[s].outcome = "completed"
               PROVE  installed[s] = (jobs'[worker'[s].job].kind = "plugin_deploy")
    BY <1>5 DEF Executed
  <2>1. worker'[s] = worker[s]
    BY <1>6 DEF Idle
  <2>2. worker[s].job \in 1 .. Len(jobs)
    BY <2>1, TaskJob
  <2>3. Executed(s)
    BY <1>1 DEF Runs
  <2>4. QED
    BY <2>1, <2>2, <2>3, <1>2 DEF Executed
<1>10. QED
  BY <1>1, <1>5, <1>7, <1>8, <1>9 DEF Runs

\* A side of a row after a result that leaves the row alone.
LEMMA ResultSide ==
  ASSUME Types, IInv, RunInv, NEW t \in Threads, WriteResult(t), jobs' = Done(t), rows' = rows,
         NEW r \in 1 .. Len(rows), NEW s \in Sides
  PROVE  SideRight(r, s)'
<1>0. PICK j, o : j = threads[t].job /\ o = threads[t].outcome
  OBVIOUS
<1>1. TypeOK /\ Runs /\ SideRight(r, s)
  BY DEF Types, RunInv, SidesRight
<1>2. /\ j \in 1 .. Len(jobs) /\ Len(jobs') = Len(jobs)
      /\ jobs'[j].status = o
      /\ \A i \in 1 .. Len(jobs) : /\ jobs'[i].side = jobs[i].side /\ jobs'[i].kind = jobs[i].kind
                                   /\ i # j => jobs'[i] = jobs[i]
  BY <1>0, <1>1, ResultCases
<1>3. rows[r].job[s] \in 1 .. Len(jobs)
  BY <1>1, RowJobs
<1>4. JobOf(r, s)'.kind = JobOf(r, s).kind
  BY <1>2, <1>3 DEF JobOf
<1>5. Later(r, s)' = Later(r, s) /\ \A k \in Later(r, s) : jobs'[k].kind = jobs[k].kind
  BY <1>2 DEF Later
<1>6. installed' = installed
  BY DEF WriteResult
<1>7. CASE rows[r].job[s] # j
  <2>1. JobOf(r, s)' = JobOf(r, s)
    BY <1>2, <1>3, <1>7 DEF JobOf
  <2>2. QED
    BY <2>1, <1>1, <1>5, <1>6 DEF SideRight
<1>8. CASE rows[r].job[s] = j
  <2>1. JobOf(r, s) = jobs[j] /\ JobOf(r, s)'.status = o
    BY <1>2, <1>8 DEF JobOf
  <2>2. jobs[j].side = s /\ jobs[j].status = "running"
    BY <2>1, <1>0 DEF IInv, RowsAreRight, RowRefers, StillHolds, WriteResult
  <2>3. worker[s].job = j
    BY <2>2, <1>1, <1>2 DEF Runs, JobTasks
  <2>4. o = worker[s].outcome
    BY <2>2, <1>0 DEF RunInv, StillKnows, WriteResult
  <2>5. o = "completed" => installed[s] = (jobs[j].kind = "plugin_deploy")
    BY <2>3, <2>4, <1>1 DEF Runs, Executed
  <2>6. QED
    BY <2>1, <2>5, <1>1, <1>4, <1>5, <1>6 DEF SideRight
<1>9. QED
  BY <1>7, <1>8

LEMMA WriteResultRuns ==
  ASSUME Types, IInv, RunInv, Serial, OneRow, NEW t \in Threads, WriteResult(t)
  PROVE  RunInv'
<1>1. TypeOK /\ Len(jobs) \in Nat /\ Len(rows) \in Nat
  BY RowsTyped DEF Types
<1>2. /\ Done(t) \in Seq(Job) /\ Len(Done(t)) = Len(jobs)
      /\ \/ jobs' = Done(t) /\ rows' = rows
         \/ \E r \in 1 .. Len(rows) :
              EndRollback(r, Done(t), IF threads[t].outcome = "completed" THEN "rolled_back"
                                      ELSE "rollback_failed")
         \/ \E r \in 1 .. Len(rows), s \in Sides : StartRollback(r, Done(t), s)
  BY <1>1, ResultCases
<1>3. ASSUME jobs' = Done(t), rows' = rows
      PROVE  Runs' /\ SidesRight'
  <2>1. Runs'
    <3>1. Len(jobs') = Len(jobs)
      BY <1>2, <1>3
    <3>2. \A i \in Len(jobs) + 1 .. Len(jobs') : jobs'[i].status = "queued"
      BY <3>1, <1>1
    <3>3. QED
      BY <3>1, <3>2, <1>1, <1>3, ResultRuns
  <2>2. SidesRight'
    BY <1>3, ResultSide DEF SidesRight
  <2>3. QED
    BY <2>1, <2>2
<1>4. ASSUME NEW r \in 1 .. Len(rows),
             EndRollback(r, Done(t), IF threads[t].outcome = "completed" THEN "rolled_back"
                                     ELSE "rollback_failed")
      PROVE  Runs' /\ SidesRight'
  <2>1. PICK l : l = IF threads[t].outcome = "completed" THEN "rolled_back" ELSE "rollback_failed"
    OBVIOUS
  <2>2. l \in Lifecycle /\ l \notin {"active", "removing"} /\ EndRollback(r, Done(t), l)
    BY <1>4, <2>1 DEF Lifecycle
  <2>3. /\ jobs' = Done(t)
        /\ Len(rows') = Len(rows) /\ rows'[r].lifecycle = l
    BY <1>1, <1>2, <2>2, EndRollbackTyped
  <2>4. Len(jobs') = Len(jobs)
    BY <1>2, <2>3
  <2>5. \A i \in Len(jobs) + 1 .. Len(jobs') : jobs'[i].status = "queued"
    BY <2>4, <1>1
  <2>6. Runs'
    BY <2>3, <2>4, <2>5, <1>1, ResultRuns
  <2>7. \A q \in 1 .. Len(rows') : q = r
    BY <2>3, <1>1 DEF OneRow
  <2>8. \A s \in Sides : SideRight(r, s)'
    BY <2>2, <2>3 DEF SideRight
  <2>9. QED
    BY <2>6, <2>7, <2>8 DEF SidesRight
<1>5. ASSUME NEW r \in 1 .. Len(rows), NEW s \in Sides, StartRollback(r, Done(t), s)
      PROVE  Runs' /\ SidesRight'
  <2>1. /\ Len(jobs') \in Nat /\ Len(jobs') >= Len(jobs)
        /\ Len(rows') = Len(rows) /\ rows'[r].lifecycle = "rolling_back"
        /\ \A j \in 1 .. Len(jobs) : jobs'[j] = Done(t)[j]
    BY <1>1, <1>2, <1>5, StartRollbackTyped
  <2>2. \A i \in Len(jobs) + 1 .. Len(jobs') : jobs'[i].status = "queued"
    <3>1. jobs' = Done(t) \o NewJobs({s}, "plugin_remove")
      BY <1>5 DEF StartRollback
    <3>2. {s} \in SUBSET Sides /\ "plugin_remove" \in Kinds
      BY DEF Kinds
    <3>3. Added(Done(t), jobs', {s}, "plugin_remove")
      BY <3>1, <3>2, <1>2, Adding
    <3>4. QED
      BY <3>3, <1>2 DEF Added
  <2>3. Runs'
    BY <2>1, <2>2, ResultRuns
  <2>4. \A q \in 1 .. Len(rows') : q = r
    BY <2>1, <1>1 DEF OneRow
  <2>5. \A u \in Sides : SideRight(r, u)'
    BY <2>1 DEF SideRight
  <2>6. QED
    BY <2>3, <2>4, <2>5 DEF SidesRight
<1>6. Runs' /\ SidesRight'
  BY <1>2, <1>3, <1>4, <1>5
<1>7. threads[t] # Free /\ threads' = [threads EXCEPT ![t] = Free]
  BY DEF WriteResult, Free
<1>8. threads \in [Threads -> Handler]
  BY <1>1 DEF TypeOK
<1>9. QED
  BY <1>6, <1>7, <1>8, NoneKnows DEF RunInv

\* Without cut-off job_tasks there are no orphans, and no lease runs out.
LEMMA NothingElseRuns ==
  ASSUME Types, RunInv
  PROVE  /\ ~OrphanActs
         /\ \A j \in 1 .. Len(jobs) : ~Requeue(j)
<1>1. ~OrphanActs
  BY DEF RunInv, Runs, OrphanActs
<1>2. ASSUME NEW j \in 1 .. Len(jobs), Requeue(j) PROVE FALSE
  <2>1. jobs[j].status = "running" /\ \A s \in Sides : worker[s].job # j
    BY <1>2 DEF Requeue
  <2>2. jobs[j].side \in Sides
    BY RowsTyped DEF Types, Job
  <2>3. QED
    BY <2>1, <2>2 DEF RunInv, Runs, JobTasks
<1>3. QED
  BY <1>1, <1>2

LEMMA InitRuns == Types /\ Init => RunInv
<1> SUFFICES ASSUME Types, Init PROVE RunInv
  OBVIOUS
<1>1. /\ Len(jobs) = 0 /\ Len(rows) = 0 /\ orphans = {}
      /\ worker = [s \in Sides |-> Idle] /\ threads = [t \in Threads |-> Free]
  BY DEF Init
<1>2. InOrder
  BY <1>1 DEF InOrder
<1>3. JobTasks /\ \A s \in Sides : Executed(s)
  BY <1>1 DEF JobTasks, Executed, Idle
<1>4. SidesRight
  BY <1>1 DEF SidesRight
<1>5. \A t \in Threads : StillKnows(t)
  BY <1>1 DEF StillKnows, Free
<1>6. QED
  BY <1>1, <1>2, <1>3, <1>4, <1>5 DEF RunInv, Runs

LEMMA NextRuns ==
  Types /\ IInv /\ NodesInv /\ Serial /\ Serial' /\ OneRow /\ OneRow' /\ [Next]_vars => NodesInv'
<1> SUFFICES ASSUME Types, IInv, NodesInv, Serial, Serial', OneRow, OneRow', [Next]_vars, restarts' = 0
             PROVE  RunInv'
  BY DEF NodesInv
<1>1. DOMAIN jobs = 1 .. Len(jobs) /\ restarts \in Nat
  BY RowsTyped DEF Types, TypeOK
<1>2. restarts = 0 /\ ~\E s \in Sides : CutShort(s)
  <2>1. ~\E s \in Sides : CutShort(s)
    BY <1>1 DEF CutShort
  <2>2. restarts' = restarts
    BY <2>1 DEF Next, vars, ReadDeploy, ReadRetry, ReadRemove, ReadRemoveTunnel, ReadReconfigure, Read,
          ReadResult, WriteDeploy, WriteRetry, WriteRemove, WriteRemoveOne, WriteReconfigure, Written,
          WriteResult, Claim, Execute, Heartbeat, OrphanActs, Requeue
  <2>3. QED
    BY <2>1, <2>2
<1>3. RunInv
  BY <1>2 DEF NodesInv
<1>4. ASSUME NEW t \in Threads,
             \/ ReadDeploy(t) \/ ReadRetry(t) \/ ReadRemove(t) \/ ReadRemoveTunnel(t)
             \/ ReadReconfigure(t)
      PROVE  RunInv'
  BY <1>3, <1>4, ReadsRun
<1>5. ASSUME NEW t \in Threads,
             \/ WriteDeploy(t) \/ WriteRetry(t) \/ WriteRemove(t) \/ WriteRemoveOne(t)
             \/ WriteReconfigure(t)
      PROVE  RunInv'
  BY <1>3, <1>5, WritesRun
<1>6. ASSUME NEW t \in Threads, WriteResult(t) PROVE RunInv'
  BY <1>3, <1>6, WriteResultRuns
<1>7. ASSUME NEW t \in Threads, NEW s \in Sides, ReadResult(t, s) PROVE RunInv'
  BY <1>3, <1>7, ReadResultRuns
<1>8. ASSUME NEW s \in Sides, Claim(s) PROVE RunInv'
  BY <1>3, <1>8, ClaimRuns
<1>9. ASSUME NEW s \in Sides, Execute(s) PROVE RunInv'
  BY <1>3, <1>9, ExecuteRuns
<1>10. ASSUME UNCHANGED <<jobs, rows, installed, worker, orphans, threads>> PROVE RunInv'
  <2>1. Runs' /\ SidesRight'
    BY <1>3, <1>10, TablesUnchanged DEF RunInv
  <2>2. \A t \in Threads : StillKnows(t)'
    BY <1>3, <1>10 DEF RunInv, StillKnows
  <2>3. QED
    BY <2>1, <2>2 DEF RunInv
<1>11. \/ \E s \in Sides : Heartbeat(s)
       \/ UNCHANGED vars
       => UNCHANGED <<jobs, rows, installed, worker, orphans, threads>>
  BY DEF Heartbeat, vars
<1>12. ~OrphanActs /\ ~\E j \in DOMAIN jobs : Requeue(j)
  BY <1>1, <1>3, NothingElseRuns
<1>13. QED
  BY <1>2, <1>4, <1>5, <1>6, <1>7, <1>8, <1>9, <1>10, <1>11, <1>12 DEF Next

LEMMA NodesInvariant == Spec /\ []Serial /\ []OneRow => [](Types /\ IInv /\ NodesInv)
<1>1. Init => Types /\ IInv /\ NodesInv
  BY BoundAssumption, InitTyped, InitRight, InitRuns DEF Types, NodesInv
<1>2. /\ (Types /\ IInv /\ NodesInv) /\ Serial /\ Serial' /\ OneRow /\ OneRow' /\ [Next]_vars
      => (Types /\ IInv /\ NodesInv)'
  BY BoundAssumption, NextTyped, NextRight, NextRuns
<1>3. QED
  BY <1>1, <1>2, PTL DEF Spec

\* While handlers do not overlap and the name has one deployment, and as long as no job_task is cut
\* short, a side whose deployment completed runs the tunnel, also when the tunnel list removes it and
\* a retry brings it back.
THEOREM DeployedRuns == Spec /\ []Serial /\ []OneRow => []DeployedSideRuns
<1>1. Types /\ IInv /\ NodesInv => DeployedSideRuns
  <2> SUFFICES ASSUME Types, NodesInv, restarts = 0, NEW r \in DOMAIN rows, NEW s \in Sides,
                      rows[r].lifecycle = "active", JobOf(r, s).kind = "plugin_deploy",
                      JobOf(r, s).status = "completed"
               PROVE  installed[s]
    BY DEF DeployedSideRuns
  <2>1. SideRight(r, s)
    BY RowsTyped DEF NodesInv, RunInv, SidesRight, Types
  <2>2. QED
    BY <2>1 DEF SideRight
<1>2. QED
  BY <1>1, NodesInvariant, PTL

\* Under the same conditions a deployment that is shown as removed runs on neither node.
THEOREM RemovedRunsNot == Spec /\ []Serial /\ []OneRow => []RemovedIsGone
<1>1. Types /\ IInv /\ NodesInv => RemovedIsGone
  <2> SUFFICES ASSUME Types, NodesInv, restarts = 0, NEW r \in DOMAIN rows, Shown(r) = "removed",
                      NEW s \in Sides
               PROVE  ~installed[s]
    BY DEF RemovedIsGone, Gone
  <2>1. rows[r].lifecycle = "removing" /\ Statuses(r) = {"completed"}
    <3>1. rows[r].lifecycle \in Lifecycle
      BY RowsTyped DEF Types, Row
    <3>2. CASE rows[r].lifecycle \in {"rolling_back", "rolled_back", "rollback_failed"}
      BY <3>2 DEF Shown
    <3>3. CASE rows[r].lifecycle \in {"active", "removing"} /\ "failed" \in Statuses(r)
      BY <3>3 DEF Shown
    <3>4. CASE /\ rows[r].lifecycle \in {"active", "removing"} /\ "failed" \notin Statuses(r)
               /\ Statuses(r) # {"completed"}
      BY <3>4 DEF Shown
    <3>5. CASE rows[r].lifecycle = "active" /\ Statuses(r) = {"completed"}
      BY <3>5 DEF Shown
    <3>6. QED
      BY <3>1, <3>2, <3>3, <3>4, <3>5 DEF Lifecycle
  <2>2. JobOf(r, s).status = "completed"
    BY <2>1 DEF Statuses
  <2>3. SideRight(r, s)
    BY RowsTyped DEF NodesInv, RunInv, SidesRight, Types
  <2>4. QED
    BY <2>1, <2>2, <2>3 DEF SideRight
<1>2. QED
  BY <1>1, NodesInvariant, PTL

=============================================================================
