--------------------------- MODULE NodeProvisioning ---------------------------
(***************************************************************************)
(* INSTALL / SYNC AGENT: the Hub replaces the Agent's files, its Python    *)
(* environment and its enrollment token on a server over SSH, restarts the *)
(* service and waits for a heartbeat; whatever fails on the way is rolled  *)
(* back.  Operators create, move, delete and retry nodes meanwhile,        *)
(* systemd may restart the Agent at any moment, SSH steps fail, the        *)
(* connection breaks, the safety timeout strikes and the Hub crashes.      *)
(*                                                                         *)
(* An attempt numbers what it brings: the files it installs and the token  *)
(* that was generated for it.  Handlers of the thread pool run between any *)
(* two steps of an attempt; what an attempt does between two awaits is one *)
(* step.                                                                   *)
(***************************************************************************)
EXTENDS Integers, FiniteSets

CONSTANTS
  Rows,              \* nodes rows; a row stands for a new id once nothing refers to its old one
  Servers,           \* SSH endpoints
  Files,             \* program files that an attempt installs before the configuration
  MaxAttempts,       \* bound on attempts
  MaxFaults          \* bound on failed SSH steps, lost connections, timeouts and Hub crashes

ASSUME SizeAssumption == Files \in Nat \ {0} /\ MaxAttempts \in Nat \ {0}
ASSUME BoundAssumption == MaxFaults \in Nat

Config == Files + 1
Venv == Files + 2
Items == 1 .. Venv                    \* in the order in which an attempt installs them
None == 0
ASSUME ServerAssumption == None \notin Servers
Foreign == MaxAttempts + 1            \* the token of an Agent of some other Hub
Versions == None .. Foreign

VARIABLES
  row,               \* nodes: provision_status, agent_token_hash, host
  disk,              \* per server: what each target holds; the configuration holds its token
  agent,             \* dark-noc-agent.service: started, and the token and program it runs with
  task,              \* the attempt of a row, phase "none" without one
  deleting,          \* rows whose deletion has passed its checks
  attempts, faults

vars == <<row, disk, agent, task, deleting, attempts, faults>>
counters == <<attempts, faults>>

Installing == {"backup", "install", "token", "restart", "await"}
Undoing == {"undoStop", "undoItem", "undoToken", "undoService"}
Phases == {"none", "queued", "read", "stage", "cleanup", "failed"} \cup Installing \cup Undoing

NoAttempt ==
  [phase |-> "none", host |-> None, item |-> 1, number |-> None, old |-> None, new |-> None,
   backup |-> [i \in Items |-> None], backed |-> {}, installed |-> {}, reached |-> {},
   changed |-> FALSE, restarted |-> FALSE, wasActive |-> FALSE, seen |-> FALSE,
   before |-> [i \in Items |-> None], faulty |-> FALSE, unsure |-> FALSE, closing |-> FALSE]

TypeOK ==
  /\ row \in [Rows -> [status : {"none", "provisioning", "completed", "failed"},
                       token : Versions, host : Servers \cup {None}]]
  /\ disk \in [Servers -> [Items -> Versions]]
  /\ agent \in [Servers -> [started : BOOLEAN, token : Versions, program : Versions]]
  /\ \A r \in Rows :
       /\ task[r].phase \in Phases
       /\ task[r].item \in Items
       /\ task[r].installed \cup task[r].backed \subseteq task[r].reached
  /\ deleting \subseteq Rows
  /\ attempts \in 0 .. MaxAttempts
  /\ faults \in 0 .. MaxFaults

\* A server is new, or runs the Agent of some other Hub.
Init ==
  /\ row = [r \in Rows |-> [status |-> "none", token |-> None, host |-> None]]
  /\ \E foreign \in SUBSET Servers :
       /\ disk = [s \in Servers |-> [i \in Items |-> IF s \in foreign THEN Foreign ELSE None]]
       /\ agent = [s \in Servers |->
            IF s \in foreign THEN [started |-> TRUE, token |-> Foreign, program |-> Foreign]
                             ELSE [started |-> FALSE, token |-> None, program |-> None]]
  /\ task = [r \in Rows |-> NoAttempt]
  /\ deleting = {}
  /\ attempts = 0 /\ faults = 0

-----------------------------------------------------------------------------
(* Operators of the Hub: handlers of the thread pool.                      *)

Conflict(r, s) == \E q \in Rows \ {r} : row[q].status # "none" /\ row[q].host = s

\* The background task of a request starts when its row is committed.
Enqueue(r) ==
  /\ attempts < MaxAttempts
  /\ attempts' = attempts + 1
  /\ task' = [task EXCEPT ![r] = [NoAttempt EXCEPT !.phase = "queued", !.number = attempts + 1]]

\* create_node_mutation: the row is born 'provisioning' with the hash of a new token.
CreateNode(r, s) ==
  /\ row[r].status = "none" /\ task[r].phase = "none" /\ r \notin deleting
  /\ ~Conflict(r, s)
  /\ row' = [row EXCEPT ![r] = [status |-> "provisioning", token |-> attempts + 1, host |-> s]]
  /\ Enqueue(r)
  /\ UNCHANGED <<disk, agent, deleting, faults>>

\* prepare_node_provision_mutation: only one attempt per row.  A completed one may still be
\* removing its backups; the new one waits for its lock, and is not affected by them.
RetryNode(r) ==
  /\ row[r].status \in {"completed", "failed"}
  /\ ~Conflict(r, row[r].host)
  /\ row' = [row EXCEPT ![r].status = "provisioning"]
  /\ Enqueue(r)
  /\ UNCHANGED <<disk, agent, deleting, faults>>

\* update_node_mutation moves a node to another endpoint and keeps its token.
MoveNode(r, s) ==
  /\ row[r].status \in {"completed", "failed"} /\ row[r].host # s
  /\ ~Conflict(r, s)
  /\ row' = [row EXCEPT ![r].host = s]
  /\ UNCHANGED <<disk, agent, task, deleting, counters>>

\* delete_node_mutation reads in autocommit mode and opens its transaction later.
ReadDelete(r) ==
  /\ row[r].status \in {"completed", "failed"}
  /\ deleting' = deleting \cup {r}
  /\ UNCHANGED <<row, disk, agent, task, counters>>

WriteDelete(r) ==
  /\ r \in deleting
  /\ deleting' = deleting \ {r}
  /\ row' = [row EXCEPT ![r] = [status |-> "none", token |-> None, host |-> None]]
  /\ UNCHANGED <<disk, agent, task, counters>>

-----------------------------------------------------------------------------
(* An attempt, under the lock of its endpoint.                             *)

Locked(s) == \E r \in Rows : task[r].host = s /\ task[r].phase \notin {"none", "queued"}
Provisioning(r) == row[r].status = "provisioning"
Keeps(r, t) == task' = [task EXCEPT ![r] = t]

\* provision_node gets the lock, checks the row again and reads its token.
TaskStarts(r) ==
  /\ task[r].phase = "queued"
  /\ Provisioning(r) => ~Locked(row[r].host)
  /\ Keeps(r, IF Provisioning(r)
              THEN [task[r] EXCEPT !.phase = "read", !.host = row[r].host, !.old = row[r].token]
              ELSE NoAttempt)
  /\ UNCHANGED <<row, disk, agent, deleting, counters>>

\* Mutant: every attempt enrolls the Agent anew.
FreshToken(r, found) == task[r].number

\* The token of the Agent on the server is kept if it is this row's or nobody's.
TokenFor(r, found) == IF found = None THEN task[r].number ELSE found

\* The Agent of another row or of another Hub is refused.
Refused(r, found) ==
  /\ found \notin {None, task[r].old}
  /\ found = Foreign \/ \E q \in Rows \ {r} : row[q].token = found

ReadConfig(r) ==
  LET found == disk[task[r].host][Config]
  IN  /\ task[r].phase = "read"
      /\ Keeps(r, [task[r] EXCEPT !.phase = IF Refused(r, found) THEN "failed" ELSE "stage",
                                  !.new = TokenFor(r, found)])
      /\ UNCHANGED <<row, disk, agent, deleting, counters>>

\* Files and environment are staged beside their targets; the service is inspected.
Stage(r) ==
  /\ task[r].phase = "stage"
  /\ Keeps(r, [task[r] EXCEPT !.phase = "backup", !.item = 1, !.before = disk[task[r].host],
                              !.wasActive = agent[task[r].host].started])
  /\ UNCHANGED <<row, disk, agent, deleting, counters>>

\* A file is copied to its backup; the environment is moved there.
BackedUp(t) == [disk EXCEPT ![t.host][t.item] = IF t.item = Venv THEN None ELSE @]

BackUp(r) ==
  LET t == task[r]
      content == disk[t.host][t.item]
  IN  /\ t.phase = "backup"
      /\ disk' = BackedUp(t)
      /\ Keeps(r, [t EXCEPT !.phase = "install",
                            !.reached = @ \cup {t.item},
                            !.backup[t.item] = content,
                            !.backed = IF content = None THEN @ ELSE @ \cup {t.item}])
      /\ UNCHANGED <<row, agent, deleting, counters>>

\* The staged item takes the place of its target.
Installed(t) == [disk EXCEPT ![t.host][t.item] = IF t.item = Config THEN t.new ELSE t.number]

Install(r) ==
  LET t == task[r]
  IN  /\ t.phase = "install"
      /\ disk' = Installed(t)
      /\ Keeps(r, [t EXCEPT !.phase = IF t.item = Venv THEN "token" ELSE "backup",
                            !.item = IF t.item = Venv THEN @ ELSE @ + 1,
                            !.installed = @ \cup {t.item}])
      /\ UNCHANGED <<row, agent, deleting, counters>>

\* The row must still be the one that was read; agent_token_hash is UNIQUE.
MayStore(r) ==
  /\ Provisioning(r) /\ row[r].token = task[r].old
  /\ \A q \in Rows \ {r} : row[q].token # task[r].new

StoreToken(r) ==
  /\ task[r].phase = "token"
  /\ IF MayStore(r)
     THEN /\ row' = [row EXCEPT ![r].token = task[r].new]
          /\ Keeps(r, [task[r] EXCEPT !.phase = "restart", !.changed = task[r].new # task[r].old])
     ELSE /\ Keeps(r, [task[r] EXCEPT !.phase = "undoItem", !.item = Venv])
          /\ UNCHANGED row
  /\ UNCHANGED <<disk, agent, deleting, counters>>

\* A process of the Agent loads what is on the disk, if all of it is there.
Loaded(d) ==
  IF \E i \in Items : d[i] = None
  THEN [started |-> TRUE, token |-> None, program |-> None]
  ELSE [started |-> TRUE, token |-> d[Config], program |-> d[1]]
Running(s) == Loaded(disk[s])
Stopped == [started |-> FALSE, token |-> None, program |-> None]

\* Mutant: systemctl start, which leaves a running Agent alone.
AfterStart(s) == IF agent[s].token = None THEN Running(s) ELSE agent[s]

AfterRestart(s) == Running(s)

\* systemctl restart; the baseline of last_seen is read once the service is active.
RestartService(r) ==
  LET s == task[r].host
  IN  /\ task[r].phase = "restart"
      /\ agent' = [agent EXCEPT ![s] = AfterRestart(s)]
      /\ Keeps(r, [task[r] EXCEPT !.restarted = TRUE, !.seen = FALSE,
                    !.phase = IF AfterRestart(s).token = None THEN "undoStop" ELSE "await"])
      /\ UNCHANGED <<row, disk, deleting, counters>>

\* agent_node finds the row by the token of the request; the handler stores last_seen.
Heartbeat(s, r) ==
  /\ agent[s].token # None /\ row[r].token = agent[s].token
  /\ task[r].phase = "await" /\ ~task[r].seen
  /\ Keeps(r, [task[r] EXCEPT !.seen = TRUE])
  /\ UNCHANGED <<row, disk, agent, deleting, counters>>

\* A poll of nodes.last_seen finds a newer heartbeat.
Complete(r) ==
  /\ task[r].phase = "await" /\ task[r].seen
  /\ IF Provisioning(r) /\ row[r].token = task[r].new
     THEN /\ row' = [row EXCEPT ![r].status = "completed"]
          /\ Keeps(r, [task[r] EXCEPT !.phase = "cleanup"])
     ELSE /\ Keeps(r, [task[r] EXCEPT !.phase = "undoStop"])
          /\ UNCHANGED row
  /\ UNCHANGED <<disk, agent, deleting, counters>>

\* The backups of a completed attempt are removed.
CleanUp(r) ==
  /\ task[r].phase = "cleanup"
  /\ Keeps(r, NoAttempt)
  /\ UNCHANGED <<row, disk, agent, deleting, counters>>

-----------------------------------------------------------------------------
(* Failures and rollback_activation.                                       *)

\* Where an attempt goes when a step fails before it is activated, or after.
Abandoned(t) ==
  [t EXCEPT !.phase = IF t.phase \in {"queued", "read", "stage"} THEN "failed"
                      ELSE IF t.restarted THEN "undoStop" ELSE "undoItem",
            !.item = Venv]

\* A step reports an error and changed nothing; a restart is attempted even if it fails.
StepFails(r) ==
  LET t == task[r]
  IN  /\ faults < MaxFaults /\ faults' = faults + 1
      /\ t.phase \in {"read", "stage"} \cup (Installing \ {"await"})
      /\ Keeps(r, Abandoned([t EXCEPT !.restarted = @ \/ t.phase = "restart"]))
      /\ UNCHANGED <<row, disk, agent, deleting, attempts>>

\* Twelve polls without a heartbeat.
NoHeartbeat(r) ==
  /\ task[r].phase = "await"
  /\ Keeps(r, Abandoned(task[r]))
  /\ UNCHANGED <<row, disk, agent, deleting, counters>>

UndoStop(r) ==
  /\ task[r].phase = "undoStop"
  /\ agent' = [agent EXCEPT ![task[r].host] = Stopped]
  /\ Keeps(r, [task[r] EXCEPT !.phase = "undoItem", !.item = Venv])
  /\ UNCHANGED <<row, disk, deleting, counters>>

\* The environment is removed and its backup moved back, if nothing is in the way.
RestoredVenv(t) ==
  LET kept == IF Venv \in t.installed THEN None ELSE disk[t.host][Venv]
  IN  IF Venv \in t.backed /\ kept = None THEN t.backup[Venv] ELSE kept

\* Mutant: an installed file without a backup stays.
KeepsNewFile(t) == IF t.item \in t.installed \cap t.backed THEN t.backup[t.item] ELSE disk[t.host][t.item]

\* Mutant: the backup of a file is removed without being put back.
RemovesBackup(t) == IF t.item \in t.installed \ t.backed THEN None ELSE disk[t.host][t.item]

\* A backup replaces the file that was installed over it, and a file that was new is removed.
RestoredFile(t) ==
  IF t.item \notin t.installed THEN disk[t.host][t.item]
  ELSE IF t.item \in t.backed THEN t.backup[t.item] ELSE None

\* Mutant: one item too many.
NextUndoPastFirst(t) == IF t.item = 0 THEN [t EXCEPT !.phase = "undoToken"] ELSE [t EXCEPT !.item = @ - 1]

NextUndo(t) == IF t.item = 1 THEN [t EXCEPT !.phase = "undoToken"] ELSE [t EXCEPT !.item = @ - 1]

\* The environment first, then the files in reverse order; every backup is used up.
UndoItem(r) ==
  LET t == task[r]
  IN  /\ t.phase = "undoItem"
      /\ disk' = [disk EXCEPT ![t.host][t.item] = IF t.item = Venv THEN RestoredVenv(t) ELSE RestoredFile(t)]
      /\ Keeps(r, NextUndo([t EXCEPT !.backup[t.item] = IF t.item = Venv /\ disk'[t.host][Venv] # @ THEN @ ELSE None]))
      /\ UNCHANGED <<row, agent, deleting, counters>>

\* The earlier token returns to the row if it still has this attempt's and nobody else has it.
RestoredToken(r) ==
  IF task[r].changed /\ row[r].token = task[r].new /\ \A q \in Rows \ {r} : row[q].token # task[r].old
  THEN [row EXCEPT ![r].token = task[r].old]
  ELSE row

UndoToken(r) ==
  /\ task[r].phase = "undoToken"
  /\ row' = RestoredToken(r)
  /\ Keeps(r, [task[r] EXCEPT !.phase = "undoService"])
  /\ UNCHANGED <<disk, agent, deleting, counters>>

\* A service that was touched is restarted if it was active, and stopped otherwise.
UndoService(r) ==
  LET s == task[r].host
  IN  /\ task[r].phase = "undoService"
      /\ agent' = IF ~task[r].restarted THEN agent
                  ELSE [agent EXCEPT ![s] = IF task[r].wasActive THEN Running(s) ELSE Stopped]
      /\ Keeps(r, [task[r] EXCEPT !.phase = "failed"])
      /\ UNCHANGED <<row, disk, deleting, counters>>

\* The staged items are removed and the row is set to 'failed' if it still is 'provisioning'.
FailedRow(r) == IF Provisioning(r) THEN [row EXCEPT ![r].status = "failed"] ELSE row

Fails(r) ==
  /\ task[r].phase = "failed"
  /\ row' = FailedRow(r)
  /\ Keeps(r, NoAttempt)
  /\ UNCHANGED <<disk, agent, deleting, counters>>

\* A step of the rollback fails; the next one is tried.
UndoFails(r) ==
  LET t == [task[r] EXCEPT !.faulty = TRUE]
  IN  /\ faults < MaxFaults /\ faults' = faults + 1
      /\ \/ t.phase = "undoStop" /\ Keeps(r, [t EXCEPT !.phase = "undoItem", !.item = Venv])
         \/ t.phase = "undoItem" /\ Keeps(r, NextUndo(t))
         \/ t.phase = "undoService" /\ Keeps(r, [t EXCEPT !.phase = "failed"])
      /\ UNCHANGED <<row, disk, agent, deleting, attempts>>

\* The connection breaks: nothing on the server can be rolled back, the token can.
ConnectionLost(r) ==
  /\ faults < MaxFaults /\ faults' = faults + 1
  /\ task[r].phase \in {"backup", "install", "restart", "undoStop", "undoItem", "undoService"}
  /\ row' = RestoredToken(r)
  /\ Keeps(r, [task[r] EXCEPT !.phase = "failed", !.faulty = TRUE])
  /\ UNCHANGED <<disk, agent, deleting, attempts>>

\* The safety timeout cancels the attempt once.  A request that SSH has sent takes
\* effect or not, and the attempt does not know; a rollback that runs goes on in the
\* background while its connection is being closed.  A completed row stays completed.
Timeout(r) ==
  LET t == task[r]
      atRestart == t.phase = "restart"
  IN  /\ faults < MaxFaults /\ faults' = faults + 1
      /\ t.phase \notin {"none", "failed"} /\ ~t.closing
      /\ Keeps(r, CASE t.phase \in Undoing -> [t EXCEPT !.closing = TRUE]
                    [] t.phase = "cleanup" -> NoAttempt
                    [] OTHER -> Abandoned([t EXCEPT !.restarted = @ \/ atRestart,
                                                    !.unsure = t.phase \in {"backup", "install"}]))
      /\ disk' \in {disk} \cup (IF t.phase = "backup" THEN {BackedUp(t)} ELSE {})
                         \cup (IF t.phase = "install" THEN {Installed(t)} ELSE {})
      /\ agent' \in {agent} \cup (IF atRestart THEN {[agent EXCEPT ![t.host] = Running(t.host)]} ELSE {})
      /\ UNCHANGED <<row, deleting, attempts>>

\* The connection is gone before a rollback in the background has ended.
ConnectionCloses(r) ==
  /\ task[r].phase \in Undoing /\ task[r].closing
  /\ row' = RestoredToken(r)
  /\ Keeps(r, [task[r] EXCEPT !.phase = "failed"])
  /\ UNCHANGED <<disk, agent, deleting, counters>>

-----------------------------------------------------------------------------
(* The rest of the world.                                                  *)

\* systemd restarts a started service whenever its process ends.
AgentRestarts(s) ==
  /\ agent[s].started /\ agent[s] # Running(s)
  /\ agent' = [agent EXCEPT ![s] = Running(s)]
  /\ UNCHANGED <<row, disk, task, deleting, counters>>

\* Mutant: nothing looks after the attempts that a crash interrupts.
StaysInterrupted(r) == row[r].status

\* bootstrap_database sets the attempts that a crash interrupted to 'failed'.
Recovered(r) == IF Provisioning(r) THEN "failed" ELSE row[r].status

HubRestart ==
  /\ faults < MaxFaults /\ faults' = faults + 1
  /\ row' = [r \in Rows |-> [row[r] EXCEPT !.status = Recovered(r)]]
  /\ task' = [r \in Rows |-> NoAttempt]
  /\ deleting' = {}
  /\ UNCHANGED <<disk, agent, attempts>>

Attempt(r) ==
  \/ TaskStarts(r) \/ ReadConfig(r) \/ Stage(r)
  \/ BackUp(r) \/ Install(r) \/ StoreToken(r) \/ RestartService(r)
  \/ Complete(r) \/ NoHeartbeat(r) \/ CleanUp(r)
  \/ UndoStop(r) \/ UndoItem(r) \/ UndoToken(r) \/ UndoService(r) \/ Fails(r)

Next ==
  \/ \E r \in Rows, s \in Servers : CreateNode(r, s) \/ MoveNode(r, s) \/ Heartbeat(s, r)
  \/ \E r \in Rows :
       \/ RetryNode(r) \/ ReadDelete(r) \/ WriteDelete(r) \/ Attempt(r)
       \/ StepFails(r) \/ UndoFails(r) \/ ConnectionLost(r)
       \/ Timeout(r) \/ ConnectionCloses(r)
  \/ \E s \in Servers : AgentRestarts(s)
  \/ HubRestart

Spec == Init /\ [][Next]_vars

\* Every SSH step has a timeout of its own, so that an attempt goes on.
FairSpec == Spec /\ \A r \in Rows : WF_vars(Attempt(r))

-----------------------------------------------------------------------------
(* Properties.                                                             *)

Ends(r) == task[r].phase = "failed" /\ task'[r].phase = "none" /\ faults' = faults

Restored(r) ==
  LET t == task[r]
  IN  t.reached # {} /\ ~t.faulty =>
        /\ disk[t.host] = t.before
        /\ agent[t.host].started = t.wasActive

\* The attempt is past the restoration of its token.
PassesToken(r) ==
  task[r].phase \notin {"undoService", "failed"} /\ task'[r].phase \in {"undoService", "failed"}

\* A failed attempt leaves nothing behind (rollback_activation): the files, the
\* environment and the state of the service are those it found, unless the rollback
\* itself was hit by a failing SSH step or a lost connection, or a timeout hit it or a
\* step on the disk; and whatever hits it, the row does not keep the token of an attempt
\* that is gone, unless the earlier one has become another row's.
RollbackRestores ==
  [][\A r \in Rows :
       /\ Ends(r) /\ ~task[r].unsure /\ ~task[r].closing => Restored(r)
       /\ PassesToken(r) /\ task[r].changed /\ row'[r].host # None =>
            row'[r].token # task[r].new \/ \E q \in Rows \ {r} : row'[q].token = task[r].old]_vars

\* "Fail-safe Hub/Agent upgrades with automatic file rollback" (README.md:72): the same,
\* at whichever step the safety timeout stops the attempt.
TimeoutRestores == [][\A r \in Rows : Ends(r) => Restored(r)]_vars

\* At every instant of an attempt, and so after a crash, a broken connection or a
\* failing rollback, what the server had is still there: in its place or in the backup
\* (ProvisioningTimeout shows what a timeout during a step on the disk does).
NothingIsLost ==
  \A r \in Rows : task[r].phase \in Installing \cup Undoing /\ ~task[r].unsure =>
    \A i \in Items : task[r].before[i] \in {None, disk[task[r].host][i], task[r].backup[i]}

\* 'completed' is true: the server then has all that the attempt brought, and the Agent
\* that runs from it is the one whose token the Hub accepts for this row.
CompletedIsLive ==
  [][\A r \in Rows : Provisioning(r) /\ row'[r].status = "completed" =>
       LET t == task[r]
       IN  /\ \A i \in Items \ {Config} : disk[t.host][i] = t.number
           /\ disk[t.host][Config] = row[r].token
           /\ agent[t.host].token = row[r].token /\ agent[t.host].program = t.number]_vars

\* An Agent that was enrolled stays enrolled while it is upgraded, while the upgrade is
\* rolled back and when the Hub crashes in between: the server keeps its token and the
\* Hub keeps accepting it.
EnrolledStaysEnrolled ==
  \A r \in Rows :
    LET t == task[r]
    IN  t.phase \in Installing \cup Undoing /\ t.before[Config] = t.old
        => /\ disk[t.host][Config] = t.old
           /\ row[r].host = t.host => row[r].token = t.old

\* An attempt ends, unless the node is deleted under it.
AttemptEnds == \A r \in Rows : Provisioning(r) ~> ~Provisioning(r)
=============================================================================
