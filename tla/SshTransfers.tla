----------------------------- MODULE SshTransfers -----------------------------
(***************************************************************************)
(* The SSH file manager of the Hub on one server: uploads, which stand for *)
(* relays and the editor's saves too, rename, delete and download.  A      *)
(* request waits for a transfer slot, stages a file beside its             *)
(* destination, waits for the lock of the destination and puts the file in *)
(* its place: with the POSIX rename extension in one step, without it by   *)
(* moving the old file to a backup first, with a rollback if that fails.   *)
(*                                                                         *)
(* Requests are coroutines that interleave at every await.  Clients leave, *)
(* SFTP requests fail, the connection breaks and the transfer timeout      *)
(* strikes.  A content is named after the request that wrote it.           *)
(***************************************************************************)
EXTENDS Integers, FiniteSets

CONSTANTS
  Requests,          \* positive numbers, also their contents
  Paths,             \* negative numbers, also their first contents
  Kinds,             \* the operations that clients ask for
  MaxSlots,          \* bound on SSH_TRANSFER_CONCURRENCY
  MaxFaults,         \* bound on failed SFTP requests and lost connections
  MaxTimeouts        \* bound on requests that run into the transfer timeout

ASSUME NameAssumption == Requests \subseteq Nat \ {0} /\ Paths \subseteq Int \ Nat /\ Paths # {}
ASSUME FiniteAssumption == IsFiniteSet(Requests)
ASSUME KindAssumption == Kinds \subseteq {"upload", "rename", "delete", "download"}
ASSUME BoundAssumption == MaxSlots \in Nat \ {0} /\ MaxFaults \in Nat /\ MaxTimeouts \in Nat

Nothing == 0
Contents == Requests \cup Paths \cup {Nothing}

VARIABLES
  slots, free,       \* SSH_TRANSFER_SEMAPHORE: its size and its value
  posix,             \* does the server support posix-rename@openssh.com?
  file,              \* content per path
  lock,              \* ssh_destination_lock: its holder per path
  req,               \* the requests
  faults,
  timedOut           \* the requests that the timeout has cancelled

vars == <<slots, free, posix, file, lock, req, faults, timedOut>>
server == <<slots, posix>>
counters == <<faults, timedOut>>

Staging == {"check", "copy"}
Finalizing == {"stat", "place", "swap", "backup", "move", "remove"}
Undoing == {"undoStat", "undoAside", "undoBack", "undoClean"}
Phases == {"idle", "waiting", "granted", "lockWait", "lockGranted", "act", "failed", "done", "ended"}
          \cup Staging \cup Finalizing \cup Undoing

Request(k, d, f, o) ==
  [kind |-> k, dest |-> d, from |-> f, overwrite |-> o, phase |-> "waiting", ok |-> FALSE,
   part |-> Nothing, backup |-> Nothing, aside |-> Nothing, prev |-> Nothing,
   broken |-> FALSE, detached |-> FALSE]

TypeOK ==
  /\ slots \in 1 .. MaxSlots /\ free \in 0 .. slots
  /\ posix \in BOOLEAN
  /\ file \in [Paths -> Contents]
  /\ lock \in [Paths -> Requests \cup {Nothing}]
  /\ \A r \in Requests :
       /\ req[r].phase \in Phases
       /\ req[r].part \in {Nothing, r}
       /\ {req[r].backup, req[r].aside, req[r].prev} \subseteq Contents
  /\ faults \in 0 .. MaxFaults /\ timedOut \subseteq Requests

Init ==
  /\ slots \in 1 .. MaxSlots /\ free = slots
  /\ posix \in BOOLEAN
  /\ \E existing \in SUBSET Paths : file = [p \in Paths |-> IF p \in existing THEN p ELSE Nothing]
  /\ lock = [p \in Paths |-> Nothing]
  /\ req = [r \in Requests |->
       [Request("upload", CHOOSE p \in Paths : TRUE, CHOOSE p \in Paths : TRUE, FALSE) EXCEPT !.phase = "idle"]]
  /\ faults = 0 /\ timedOut = {}

Becomes(r, t) == req' = [req EXCEPT ![r] = t]
Goes(r, p) == Becomes(r, [req[r] EXCEPT !.phase = p])

-----------------------------------------------------------------------------
(* Slots and locks: disconnect_aware_semaphore.                            *)

Arrive(r) ==
  /\ req[r].phase = "idle"
  /\ \E k \in Kinds, d \in Paths, f \in Paths, o \in BOOLEAN :
       /\ k = "rename" <=> f # d
       /\ k # "upload" => ~o
       /\ Becomes(r, Request(k, d, f, o))
  /\ UNCHANGED <<server, free, file, lock, counters>>

\* The waiter's acquire returns before the request that polls for it goes on.
Grant(r) ==
  /\ req[r].phase = "waiting" /\ free > 0
  /\ free' = free - 1
  /\ Goes(r, "granted")
  /\ UNCHANGED <<server, file, lock, counters>>

Enter(r) ==
  /\ req[r].phase = "granted"
  /\ Goes(r, CASE req[r].kind = "upload" -> "check"
               [] req[r].kind = "download" -> "copy"
               [] OTHER -> "lockWait")
  /\ UNCHANGED <<server, free, file, lock, counters>>

GrantLock(r) ==
  /\ req[r].phase = "lockWait" /\ lock[req[r].dest] = Nothing
  /\ lock' = [lock EXCEPT ![req[r].dest] = r]
  /\ Goes(r, "lockGranted")
  /\ UNCHANGED <<server, free, file, counters>>

EnterLocked(r) ==
  /\ req[r].phase = "lockGranted"
  /\ Goes(r, IF req[r].kind = "upload" THEN "stat" ELSE "act")
  /\ UNCHANGED <<server, free, file, lock, counters>>

\* Mutant: a waiter that has won the race with the cancellation keeps its slot.
ReturnedNever(r) == free

\* Mutant: a waiter that has not acquired gives a slot back.
ReturnedAlways(r) == free + 1

\* A slot that was granted to a request that gives up is returned.
Returned(r) == IF req[r].phase = "granted" THEN free + 1 ELSE free

GivesUpWaiting(r) ==
  /\ req[r].phase \in {"waiting", "granted"}
  /\ free' = Returned(r)
  /\ Goes(r, "ended")
  /\ UNCHANGED <<file, lock>>

GivesUpLock(r) ==
  /\ req[r].phase \in {"lockWait", "lockGranted"}
  /\ lock' = [p \in Paths |-> IF lock[p] = r THEN Nothing ELSE lock[p]]
  /\ Goes(r, "failed")
  /\ UNCHANGED <<free, file>>

\* A poll finds that the client has left: while it waits, before a chunk of the copy,
\* and once more when the lock is held.
Leave(r) ==
  /\ \/ GivesUpWaiting(r)
     \/ GivesUpLock(r)
     \/ req[r].phase = "copy" /\ Goes(r, "failed") /\ UNCHANGED <<free, file, lock>>
  /\ UNCHANGED <<server, counters>>

-----------------------------------------------------------------------------
(* Staging and the File Manager's actions.                                 *)

\* sftp_path_exists
Exists(p) == file[p] # Nothing

Check(r) ==
  /\ req[r].phase = "check"
  /\ Goes(r, IF Exists(req[r].dest) /\ ~req[r].overwrite THEN "failed" ELSE "copy")
  /\ UNCHANGED <<server, free, file, lock, counters>>

\* The chunks of an upload have been written to a file of its own.
Staged(r) == [req[r] EXCEPT !.phase = "lockWait", !.part = r]

Copy(r) ==
  /\ req[r].phase = "copy"
  /\ IF req[r].kind = "download" THEN Goes(r, "done") ELSE Becomes(r, Staged(r))
  /\ UNCHANGED <<server, free, file, lock, counters>>

\* Rename refuses an existing destination, and so does SFTP's rename; only the
\* destination of a rename is locked.
Renamed(r) == [file EXCEPT ![req[r].dest] = file[req[r].from], ![req[r].from] = Nothing]

Act(r) ==
  LET d == req[r].dest
  IN  /\ req[r].phase = "act"
      /\ CASE req[r].kind = "delete" /\ Exists(d) ->
                file' = [file EXCEPT ![d] = Nothing] /\ Goes(r, "done")
           [] req[r].kind = "rename" /\ ~Exists(d) /\ Exists(req[r].from) ->
                file' = Renamed(r) /\ Goes(r, "done")
           [] OTHER -> file' = file /\ Goes(r, "failed")
      /\ UNCHANGED <<server, free, lock, counters>>

-----------------------------------------------------------------------------
(* finalize_sftp_file.                                                     *)

\* Mutant: the first check is taken for good.
MayReplaceUnasked(r) == TRUE

MayReplace(r) == req[r].overwrite

Stat(r) ==
  LET old == file[req[r].dest]
  IN  /\ req[r].phase = "stat"
      /\ Becomes(r, [req[r] EXCEPT !.prev = old,
                      !.phase = CASE ~Exists(req[r].dest) -> "place"
                                  [] Exists(req[r].dest) /\ MayReplace(r) -> "swap"
                                  [] OTHER -> "failed"])
      /\ UNCHANGED <<server, free, file, lock, counters>>

Placed(r) == [file EXCEPT ![req[r].dest] = req[r].part]

\* SFTP's rename fails if the destination exists.
MayPlace(r) == file[req[r].dest] = Nothing

Place(r) ==
  /\ req[r].phase = "place"
  /\ IF MayPlace(r)
     THEN file' = Placed(r) /\ Becomes(r, [req[r] EXCEPT !.phase = "done", !.part = Nothing])
     ELSE file' = file /\ Goes(r, "failed")
  /\ UNCHANGED <<server, free, lock, counters>>

\* Mutant: every server gets the swap over a backup.
SwapsOverBackup(r) == FALSE

SwapsAtomically(r) == posix

Swap(r) ==
  /\ req[r].phase = "swap"
  /\ IF SwapsAtomically(r)
     THEN file' = Placed(r) /\ Becomes(r, [req[r] EXCEPT !.phase = "done", !.part = Nothing])
     ELSE file' = file /\ Goes(r, "backup")
  /\ UNCHANGED <<server, free, lock, counters>>

\* rename(destination, backup): the old file may have been renamed away meanwhile.
MovedAside(r) == [file EXCEPT ![req[r].dest] = Nothing]

\* Mutant: the old file is removed, not moved to the backup.
WithoutBackup(r) == [req[r] EXCEPT !.phase = "move"]

WithBackup(r) == [req[r] EXCEPT !.phase = "move", !.backup = file[req[r].dest]]

Backup(r) ==
  /\ req[r].phase = "backup"
  /\ IF file[req[r].dest] # Nothing
     THEN file' = MovedAside(r) /\ Becomes(r, WithBackup(r))
     ELSE file' = file /\ Goes(r, "undoStat")
  /\ UNCHANGED <<server, free, lock, counters>>

\* rename(temporary, destination)
Move(r) ==
  /\ req[r].phase = "move"
  /\ IF file[req[r].dest] = Nothing
     THEN file' = Placed(r) /\ Becomes(r, [req[r] EXCEPT !.phase = "remove", !.part = Nothing])
     ELSE file' = file /\ Goes(r, "undoStat")
  /\ UNCHANGED <<server, free, lock, counters>>

Remove(r) ==
  /\ req[r].phase = "remove"
  /\ Becomes(r, [req[r] EXCEPT !.phase = "done", !.backup = Nothing])
  /\ UNCHANGED <<server, free, file, lock, counters>>

\* rollback() looks what there is ...
UndoStat(r) ==
  /\ req[r].phase = "undoStat"
  /\ Goes(r, IF req[r].backup = Nothing THEN "failed"
             ELSE IF Exists(req[r].dest) THEN "undoAside" ELSE "undoBack")
  /\ UNCHANGED <<server, free, file, lock, counters>>

\* ... puts what is at the destination aside ...
UndoAside(r) ==
  /\ req[r].phase = "undoAside"
  /\ IF file[req[r].dest] = Nothing
     THEN Becomes(r, [req[r] EXCEPT !.phase = "failed", !.broken = TRUE])
     ELSE Becomes(r, [req[r] EXCEPT !.phase = "undoBack", !.aside = file[req[r].dest]])
  /\ file' = MovedAside(r)
  /\ UNCHANGED <<server, free, lock, counters>>

\* ... and the backup back, with a rename that replaces nothing ...
UndoBack(r) ==
  /\ req[r].phase = "undoBack"
  /\ IF file[req[r].dest] = Nothing
     THEN /\ file' = [file EXCEPT ![req[r].dest] = req[r].backup]
          /\ Becomes(r, [req[r] EXCEPT !.phase = "undoClean", !.backup = Nothing])
     ELSE file' = file /\ Becomes(r, [req[r] EXCEPT !.phase = "failed", !.broken = TRUE])
  /\ UNCHANGED <<server, free, lock, counters>>

\* cleanup_sftp_path, of the file put aside here and of the staged one at the end.
CleanedUp(t) == IF t.phase = "undoClean" THEN [t EXCEPT !.aside = Nothing] ELSE [t EXCEPT !.part = Nothing]

\* ... and removes what it put aside.
UndoClean(r) ==
  /\ req[r].phase = "undoClean"
  /\ Becomes(r, [CleanedUp(req[r]) EXCEPT !.phase = "failed"])
  /\ UNCHANGED <<server, free, file, lock, counters>>

-----------------------------------------------------------------------------
(* The end of a request, and what may go wrong.                            *)

Unlocked(r) == [p \in Paths |-> IF lock[p] = r THEN Nothing ELSE lock[p]]

\* The staged file is removed, the lock and the slot are given back.
End(r) ==
  /\ req[r].phase \in {"done", "failed"} /\ ~req[r].detached
  /\ lock' = Unlocked(r)
  /\ free' = free + 1
  /\ Becomes(r, [CleanedUp(req[r]) EXCEPT !.phase = "ended", !.ok = req[r].phase = "done"])
  /\ UNCHANGED <<server, file, counters>>

\* Mutant: no rollback when the second rename of a swap fails.
AfterFailureWithoutUndo(p) ==
  CASE p = "backup" -> "undoStat" [] p = "remove" -> "done" [] OTHER -> "failed"

\* A swap is rolled back; a backup that cannot be removed is only logged.
AfterFailure(p) ==
  CASE p \in {"backup", "move"} -> "undoStat" [] p = "remove" -> "done" [] OTHER -> "failed"

\* An SFTP request fails and changes nothing.
SftpFails(r) ==
  LET p == req[r].phase
  IN  /\ faults < MaxFaults /\ faults' = faults + 1
      /\ p \in {"act"} \cup Staging \cup Finalizing \cup Undoing
      /\ Becomes(r, [req[r] EXCEPT !.phase = AfterFailure(p), !.broken = p \in Undoing])
      /\ UNCHANGED <<server, free, file, lock, timedOut>>

\* The connection breaks: nothing can be rolled back or removed any more.  What was under
\* way has taken effect or not, and a broken connection at the end may go unnoticed.
ConnectionLost(r) ==
  /\ faults < MaxFaults /\ faults' = faults + 1
  /\ req[r].phase \in {"act", "done"} \cup Staging \cup Finalizing \cup Undoing
  /\ \E ok \in BOOLEAN :
       /\ ok => req[r].phase \in {"remove", "done"}
       /\ Becomes(r, [req[r] EXCEPT !.phase = "ended", !.broken = TRUE, !.ok = ok])
  /\ lock' = Unlocked(r)
  /\ free' = free + 1
  /\ UNCHANGED <<server, file, timedOut>>

\* The timeout cancels the request once.  A request that SFTP has sent may have taken
\* effect unnoticed: then the cancelled step is the one before req[r].phase.
TimesOutAtWork(r) ==
  LET p == req[r].phase
  IN  /\ \/ p \in {"act", "stat", "place", "swap", "done", "remove"} \cup Staging /\ Goes(r, "failed")
         \/ p \in {"backup", "move", "remove"} /\ Goes(r, "undoStat")
      /\ UNCHANGED <<free, file, lock>>

\* A rollback is shielded: it goes on in the background, while the request gives the lock
\* back, removes its staged file and closes the connection.
TimesOutInUndo(r) ==
  /\ req[r].phase \in Undoing /\ ~req[r].detached
  /\ lock' = Unlocked(r)
  /\ Becomes(r, [req[r] EXCEPT !.detached = TRUE, !.part = Nothing])
  /\ UNCHANGED <<free, file>>

Timeout(r) ==
  /\ r \notin timedOut /\ timedOut' = timedOut \cup {r} /\ Cardinality(timedOut') <= MaxTimeouts
  /\ GivesUpWaiting(r) \/ GivesUpLock(r) \/ TimesOutAtWork(r) \/ TimesOutInUndo(r)
  /\ UNCHANGED <<server, faults>>

Disconnects(r) ==
  /\ req[r].detached /\ req[r].phase # "ended"
  /\ free' = free + 1
  /\ Goes(r, "ended")
  /\ UNCHANGED <<server, file, lock, counters>>

Step(r) ==
  \/ Grant(r) \/ Enter(r) \/ GrantLock(r) \/ EnterLocked(r)
  \/ Check(r) \/ Copy(r) \/ Act(r)
  \/ Stat(r) \/ Place(r) \/ Swap(r) \/ Backup(r) \/ Move(r) \/ Remove(r)
  \/ UndoStat(r) \/ UndoAside(r) \/ UndoBack(r) \/ UndoClean(r)
  \/ End(r) \/ Disconnects(r)

Next ==
  \E r \in Requests :
    Arrive(r) \/ Step(r) \/ Leave(r) \/ SftpFails(r) \/ ConnectionLost(r) \/ Timeout(r)

Spec == Init /\ [][Next]_vars

\* Every await of a request returns: SFTP requests have timeouts, chunks an idle timeout.
FairSpec == Spec /\ \A r \in Requests : WF_vars(Step(r))

-----------------------------------------------------------------------------
(* Properties.                                                             *)

HoldsSlot(r) == req[r].phase \notin {"idle", "waiting", "ended"}

\* Whoever leaves, fails or times out at whichever moment, a slot is given back exactly
\* once (disconnect_aware_semaphore).
SlotsAreConserved == free + Cardinality({r \in Requests : HoldsSlot(r)}) = slots

\* A file is only replaced by a request that asked for it: the first check for an existing
\* destination is made long before the file is put in its place, and the rollback of a
\* request that timed out goes on beside the next holder of the lock.
NoSilentReplacement ==
  [][\A p \in Paths : Nothing \notin {file[p], file'[p]} /\ file'[p] # file[p] =>
       \E r \in Requests : req'[r] # req[r] /\ req[r].dest = p /\ req[r].overwrite]_vars

Stored == {file[p] : p \in Paths} \cup {req[r].backup : r \in Requests} \cup {req[r].aside : r \in Requests}

\* No rollback works or has worked on the destination of r in the background, without its lock.
Alone(r) == \A q \in Requests : req[q].detached => req[q].dest # req[r].dest

\* A content vanishes from the server only if it was deleted, if a whole new file has
\* taken its place by request, or if it belongs to an upload that is being undone.  A
\* rollback that goes on after its request has timed out breaks this for its
\* destination: it, or the next holder of the lock, may take the other's file for its own.
NothingIsLost ==
  [][\A c \in (Stored \ Stored') \ {Nothing} :
       \E r \in Requests :
         \/ req[r].phase = "undoClean" /\ (c = r \/ ~Alone(r))
         \/ req[r].kind = "delete" /\ req[r].phase = "act" /\ c = file[req[r].dest]
         \/ req[r].overwrite /\ req'[r].part = Nothing /\ c \in {file[req[r].dest], req[r].backup}]_vars

\* With the POSIX rename extension a reader never finds a gap where a file is replaced.
NoGap ==
  [][posix => \A p \in Paths : file[p] # Nothing /\ file'[p] = Nothing =>
       \E r \in Requests : req[r].phase = "act" /\ p \in {req[r].dest, req[r].from}]_vars

EndsOverwriting(r) ==
  /\ req[r].phase # "ended" /\ req'[r].phase = "ended" /\ ~req'[r].broken
  /\ req[r].prev # Nothing
  /\ \A q \in Requests : ~(req[q].kind = "rename" /\ req[q].from = req[r].dest)

\* A finalization that fails leaves the previous or the new file at the destination, unless
\* the connection broke, the rollback failed or timed out (its own or another one of the
\* destination), or somebody renamed the file.
DestinationSurvives ==
  [][\A r \in Requests :
       EndsOverwriting(r) /\ Alone(r) => file[req[r].dest] # Nothing]_vars

\* No request waits for ever, and none keeps a slot.
EveryRequestEnds == \A r \in Requests : req[r].phase = "waiting" ~> req[r].phase = "ended"
=============================================================================
