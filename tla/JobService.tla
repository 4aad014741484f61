------------------------------ MODULE JobService ------------------------------
(***************************************************************************)
(* What the Hub's remote-job table promises, with neither clocks nor      *)
(* messages: a job is granted to its node's Agent, a grant may be revoked *)
(* and given again, and the job ends once, with the outcome that the last *)
(* grant produced.  JobQueue implements it.                               *)
(***************************************************************************)
EXTENDS Naturals

CONSTANT Jobs        \* ids of the rows that may be inserted

Outcomes == {"completed", "failed"}

VARIABLES
  status,            \* jobs.status, "none" before the row exists
  grants,            \* how often the job has been given to its Agent
  produced           \* what the current grant's execution returned, or "none"

vars == <<status, grants, produced>>

Init ==
  /\ status = [j \in Jobs |-> "none"]
  /\ grants = [j \in Jobs |-> 0]
  /\ produced = [j \in Jobs |-> "none"]

Submit(j) ==
  /\ status[j] = "none"
  /\ status' = [status EXCEPT ![j] = "queued"]
  /\ UNCHANGED <<grants, produced>>

Grant(j) ==
  /\ status[j] = "queued"
  /\ status' = [status EXCEPT ![j] = "running"]
  /\ grants' = [grants EXCEPT ![j] = @ + 1]
  /\ produced' = [produced EXCEPT ![j] = "none"]

\* The execution of a grant returns at most once, and only while the grant holds.
Produce(j, o) ==
  /\ status[j] = "running"
  /\ produced[j] = "none"
  /\ produced' = [produced EXCEPT ![j] = o]
  /\ UNCHANGED <<status, grants>>

\* Expired grants are revoked together.
Revoke(S) ==
  /\ \A j \in S : status[j] = "running"
  /\ status' = [j \in Jobs |-> IF j \in S THEN "queued" ELSE status[j]]
  /\ UNCHANGED <<grants, produced>>

Finish(j) ==
  /\ status[j] = "running"
  /\ produced[j] \in Outcomes
  /\ status' = [status EXCEPT ![j] = produced[j]]
  /\ UNCHANGED <<grants, produced>>

Next ==
  \/ \E j \in Jobs : Submit(j) \/ Grant(j) \/ Finish(j)
  \/ \E j \in Jobs, o \in Outcomes : Produce(j, o)
  \/ \E S \in SUBSET Jobs : Revoke(S)

Spec == Init /\ [][Next]_vars
===============================================================================
