--------------------------- MODULE SshTransfersProofs ---------------------------
(***************************************************************************)
(* What TLAPS proves about SshTransfers, for any number of requests,       *)
(* paths, slots, faults and timeouts: slots are given back exactly once, a *)
(* file is only replaced by a request that asked for it, with the POSIX    *)
(* rename extension a replacement leaves no gap, and, where no rollback    *)
(* works without its lock, no file is lost and a failed replacement leaves *)
(* one at its destination.                                                 *)
(***************************************************************************)
EXTENDS SshTransfers, FiniteSetTheorems, TLAPS

Records ==
  [kind : Kinds \cup {"upload"}, dest : Paths, from : Paths, overwrite : BOOLEAN,
   phase : Phases, ok : BOOLEAN, part : Contents, backup : Contents, aside : Contents,
   prev : Contents, broken : BOOLEAN, detached : BOOLEAN]

\* The phases of a swap over a backup.
Recovery == {"backup", "move", "remove"} \cup Undoing

\* An upload has staged its file before it waits for the lock of the destination.
IsReady(kind, phase) ==
  phase \in {"stat", "place", "swap"} \/ (kind = "upload" /\ phase \in {"lockWait", "lockGranted"})

\* A request in the background has its slot, one that replaces a file may do so, and a backup
\* is made where the extension is missing.
Sound(r, t) ==
  /\ t \in Records /\ t.part \in {Nothing, r}
  /\ t.detached => t.phase \notin {"idle", "waiting"}
  /\ IsReady(t.kind, t.phase) => t.part = r
  /\ t.phase = "swap" => t.overwrite
  /\ t.phase \in Recovery => ~posix

Charge(t) == IF t.phase \in {"idle", "waiting", "ended"} THEN 0 ELSE 1

IInv ==
  /\ slots \in 1 .. MaxSlots /\ free \in Nat /\ posix \in BOOLEAN
  /\ file \in [Paths -> Contents]
  /\ lock \in [Paths -> Requests \cup {Nothing}]
  /\ faults \in 0 .. MaxFaults /\ timedOut \subseteq Requests
  /\ DOMAIN req = Requests /\ req = [r \in Requests |-> req[r]]
  /\ \A r \in Requests : Sound(r, req[r])
  /\ SlotsAreConserved

\* A step of a request makes it t, and settles the slot.
Makes(r, t) ==
  /\ req' = [req EXCEPT ![r] = t]
  /\ Sound(r, t)
  /\ free' = free + Charge(req[r]) - Charge(t) /\ free' \in Nat

Frame ==
  /\ UNCHANGED server
  /\ file' \in [Paths -> Contents]
  /\ lock' \in [Paths -> Requests \cup {Nothing}]
  /\ faults' \in 0 .. MaxFaults /\ timedOut' \subseteq Requests

-------------------------------------------------------------------------------
(* Slots *)

LEMMA Conservation ==
  ASSUME IInv, NEW r \in Requests, NEW t, Makes(r, t), UNCHANGED slots
  PROVE  SlotsAreConserved'
<1> DEFINE H == {q \in Requests : HoldsSlot(q)}
<1> DEFINE G == {q \in Requests : HoldsSlot(q)'}
<1>1. IsFiniteSet(H) /\ Cardinality(H) \in Nat
  BY FiniteAssumption, FS_Subset, FS_CardinalityType
<1>2. \A q \in Requests : HoldsSlot(q)' <=> IF q = r THEN Charge(t) = 1 ELSE HoldsSlot(q)
  BY DEF IInv, Makes, HoldsSlot, Charge
<1>3. HoldsSlot(r) <=> Charge(req[r]) = 1
  BY DEF HoldsSlot, Charge
<1>4. G = IF Charge(t) = 1 THEN H \cup {r} ELSE H \ {r}
  BY <1>2
<1>5. /\ Cardinality(H \cup {r}) = IF r \in H THEN Cardinality(H) ELSE Cardinality(H) + 1
      /\ Cardinality(H \ {r}) = IF r \in H THEN Cardinality(H) - 1 ELSE Cardinality(H)
  BY <1>1, FS_AddElement, FS_RemoveElement
<1>6. Cardinality(G) = Cardinality(H) - Charge(req[r]) + Charge(t)
  <2>1. r \in H <=> Charge(req[r]) = 1
    BY <1>3
  <2>2. Charge(req[r]) \in {0, 1} /\ Charge(t) \in {0, 1}
    BY DEF Charge
  <2> HIDE DEF H, G
  <2> QED
    BY <1>1, <1>4, <1>5, <2>1, <2>2
<1>7. free \in Nat /\ slots \in Int /\ free + Cardinality(H) = slots
  BY DEF IInv, SlotsAreConserved
<1>8. Charge(req[r]) \in Int /\ Charge(t) \in Int
  BY DEF Charge
<1>9. free' + Cardinality(G) = slots
  <2> HIDE DEF H, G
  <2> QED
    BY <1>1, <1>6, <1>7, <1>8 DEF Makes
<1> QED
  BY <1>9 DEF SlotsAreConserved

LEMMA MakesIInv ==
  ASSUME IInv, NEW r \in Requests, NEW t, Makes(r, t), Frame
  PROVE  IInv'
<1>1. SlotsAreConserved'
  BY Conservation DEF Frame, server
<1>2. DOMAIN req' = Requests /\ req' = [q \in Requests |-> req'[q]]
  BY DEF IInv, Makes
<1>3. \A q \in Requests : Sound(q, req[q])' 
  BY DEF IInv, Makes, Frame, server, Sound
<1>4. free' \in Nat
  BY DEF Makes
<1> QED
  BY <1>1, <1>2, <1>3, <1>4 DEF IInv, Frame, server

-------------------------------------------------------------------------------
(* Every action is such a step.                                            *)

Moves(r) == Frame /\ \E t : Makes(r, t)

LEMMA GoesTo ==
  ASSUME IInv, NEW r \in Requests, NEW p \in Phases, Goes(r, p), UNCHANGED free, Frame,
         Charge(req[r]) = 1, p \notin {"idle", "waiting", "ended"},
         IsReady(req[r].kind, p) => req[r].part = r,
         p = "swap" => req[r].overwrite, p \in Recovery => ~posix
  PROVE  Moves(r)
<1> DEFINE t == [req[r] EXCEPT !.phase = p]
<1>1. Sound(r, req[r])
  BY DEF IInv
<1>2. Sound(r, t)
  BY <1>1 DEF Sound, Records
<1>3. Charge(t) = 1
  BY <1>1 DEF Charge, Sound, Records
<1>4. free \in Nat
  BY DEF IInv
<1>5. Makes(r, t)
  <2> HIDE DEF t
  <2>1. req' = [req EXCEPT ![r] = t]
    BY DEF Goes, Becomes, t
  <2> QED
    BY <1>2, <1>3, <1>4, <2>1 DEF Makes
<1> HIDE DEF t
<1> QED
  BY <1>5 DEF Moves

LEMMA WaitingSteps ==
  ASSUME IInv, NEW r \in Requests, Arrive(r) \/ Grant(r) \/ Enter(r) \/ GrantLock(r) \/ EnterLocked(r)
  PROVE  Moves(r)
<1>1. Sound(r, req[r]) /\ free \in Nat
  BY DEF IInv
<1>2. Frame
  BY DEF IInv, Frame, Arrive, Grant, Enter, GrantLock, EnterLocked, counters, server
<1>3. CASE Arrive(r)
  <2>1. PICK k \in Kinds, d \in Paths, f \in Paths, o \in BOOLEAN : Becomes(r, Request(k, d, f, o))
    BY <1>3 DEF Arrive
  <2>2. Sound(r, Request(k, d, f, o))
    BY DEF Sound, Records, Request, Phases, Contents, Nothing, IsReady, Recovery, Undoing
  <2>3. Charge(req[r]) = 0 /\ Charge(Request(k, d, f, o)) = 0
    BY <1>3 DEF Arrive, Charge, Request
  <2>4. free' = free
    BY <1>3 DEF Arrive
  <2>5. Makes(r, Request(k, d, f, o))
    BY <1>1, <2>1, <2>2, <2>3, <2>4 DEF Makes, Becomes
  <2> QED
    BY <1>2, <2>5 DEF Moves
<1>4. CASE Grant(r)
  <2> DEFINE t == [req[r] EXCEPT !.phase = "granted"]
  <2>1. Sound(r, t)
    BY <1>1 DEF Sound, Records, Phases, IsReady, Recovery, Undoing
  <2>2. Charge(req[r]) = 0 /\ Charge(t) = 1
    BY <1>1, <1>4 DEF Charge, Sound, Records, Grant
  <2>3. req' = [req EXCEPT ![r] = t] /\ free' = free - 1 /\ free > 0
    BY <1>4 DEF Grant, Goes, Becomes
  <2> HIDE DEF t
  <2>4. Makes(r, t)
    BY <1>1, <2>1, <2>2, <2>3 DEF Makes
  <2> QED
    BY <1>2, <2>4 DEF Moves
<1>5. CASE Enter(r)
  <2>1. PICK p \in {"check", "copy", "lockWait"} : Goes(r, p) /\ (p = "lockWait" => req[r].kind # "upload")
    BY <1>5 DEF Enter
  <2>2. Charge(req[r]) = 1 /\ free' = free
    BY <1>5 DEF Enter, Charge
  <2>3. ~IsReady(req[r].kind, p)
    BY <1>5, <2>1 DEF Enter, IsReady
  <2> QED
    BY <1>2, <2>1, <2>2, <2>3, GoesTo DEF Phases, Staging, Recovery, Undoing
<1>6. CASE GrantLock(r)
  <2>1. Goes(r, "lockGranted") /\ Charge(req[r]) = 1 /\ free' = free
    BY <1>6 DEF GrantLock, Charge
  <2>2. IsReady(req[r].kind, "lockGranted") => req[r].part = r
    BY <1>1, <1>6 DEF GrantLock, IsReady, Sound
  <2> QED
    BY <1>2, <2>1, <2>2, GoesTo DEF Phases, Recovery, Undoing
<1>7. CASE EnterLocked(r)
  <2>1. PICK p \in {"stat", "act"} : Goes(r, p) /\ (p = "stat" => req[r].kind = "upload")
    BY <1>7 DEF EnterLocked
  <2>2. Charge(req[r]) = 1 /\ free' = free
    BY <1>7 DEF EnterLocked, Charge
  <2>3. IsReady(req[r].kind, p) => req[r].part = r
    BY <1>1, <1>7, <2>1 DEF EnterLocked, IsReady, Sound
  <2> QED
    BY <1>2, <2>1, <2>2, <2>3, GoesTo DEF Phases, Finalizing, Recovery, Undoing
<1> QED
  BY <1>3, <1>4, <1>5, <1>6, <1>7

LEMMA Working ==
  ASSUME IInv, NEW r \in Requests, NEW t, Becomes(r, t), Sound(r, t), UNCHANGED free, Frame,
         Charge(req[r]) = Charge(t)
  PROVE  Moves(r)
<1>1. free \in Nat /\ Charge(t) \in Int
  BY DEF IInv, Charge
<1>2. Makes(r, t)
  BY <1>1 DEF Makes, Becomes
<1> QED
  BY <1>2 DEF Moves

LEMMA Ending ==
  ASSUME IInv, NEW r \in Requests, NEW t, Becomes(r, t), Sound(r, t), free' = free + 1, Frame,
         Charge(req[r]) = 1, Charge(t) = 0
  PROVE  Moves(r)
<1>1. free \in Nat
  BY DEF IInv
<1>2. Makes(r, t)
  BY <1>1 DEF Makes, Becomes
<1> QED
  BY <1>2 DEF Moves

LEMMA StagingSteps ==
  ASSUME IInv, NEW r \in Requests, Check(r) \/ Copy(r) \/ Act(r)
  PROVE  Moves(r)
<1>1. Sound(r, req[r]) /\ Nothing \in Contents
  BY DEF IInv, Contents
<1>2. Frame
  <2>1. CASE Act(r)
    <3>1. req[r].dest \in Paths /\ req[r].from \in Paths
      BY <1>1 DEF Sound, Records
    <3>2. file' \in {file, [file EXCEPT ![req[r].dest] = Nothing], Renamed(r)}
      BY <2>1 DEF Act
    <3>3. file' \in [Paths -> Contents]
      BY <1>1, <3>1, <3>2 DEF Renamed, IInv
    <3> QED
      BY <2>1, <3>3 DEF Act, Frame, IInv, counters, server
  <2> QED
    BY <2>1 DEF IInv, Frame, Check, Copy, counters, server
<1>3. free' = free /\ Charge(req[r]) = 1
  BY DEF Check, Copy, Act, Charge
<1>4. CASE Check(r)
  <2>1. PICK p \in {"failed", "copy"} : Goes(r, p)
    BY <1>4 DEF Check
  <2> QED
    BY <1>2, <1>3, <2>1, GoesTo DEF Phases, Staging, IsReady, Recovery, Undoing
<1>5. CASE Copy(r)
  <2>1. CASE Goes(r, "done")
    BY <1>2, <1>3, <2>1, GoesTo DEF Phases, IsReady, Recovery, Undoing
  <2>2. CASE Becomes(r, Staged(r))
    <3>1. Sound(r, Staged(r))
      <4>1. Staged(r) \in Records /\ Staged(r).part = r /\ Staged(r).phase = "lockWait"
        BY <1>1 DEF Staged, Sound, Records, Phases, Contents
      <4> QED
        BY <4>1 DEF Sound, Recovery, Undoing
    <3>2. Charge(Staged(r)) = 1
      BY <1>1 DEF Staged, Sound, Records, Charge
    <3> QED
      BY <1>2, <1>3, <2>2, <3>1, <3>2, Working
  <2> QED
    BY <1>5, <2>1, <2>2 DEF Copy
<1>6. CASE Act(r)
  <2>1. PICK p \in {"done", "failed"} : Goes(r, p)
    BY <1>6 DEF Act
  <2> QED
    BY <1>2, <1>3, <2>1, GoesTo DEF Phases, IsReady, Recovery, Undoing
<1> QED
  BY <1>4, <1>5, <1>6

LEMMA FinalSteps ==
  ASSUME IInv, NEW r \in Requests,
         Stat(r) \/ Place(r) \/ Swap(r) \/ Backup(r) \/ Move(r) \/ Remove(r)
  PROVE  Moves(r)
<1>1. Sound(r, req[r]) /\ Nothing \in Contents
  BY DEF IInv, Contents
<1>2. req[r].dest \in Paths /\ req[r].part \in Contents /\ file[req[r].dest] \in Contents
  BY <1>1 DEF Sound, Records, IInv
<1>3. Frame
  <2>1. file' \in {file, Placed(r), MovedAside(r)}
    BY DEF Stat, Place, Swap, Backup, Move, Remove
  <2>2. file' \in [Paths -> Contents]
    BY <1>1, <1>2, <2>1 DEF IInv, Placed, MovedAside
  <2> QED
    BY <2>2 DEF IInv, Frame, Stat, Place, Swap, Backup, Move, Remove, counters, server
<1>4. free' = free /\ Charge(req[r]) = 1
  BY DEF Stat, Place, Swap, Backup, Move, Remove, Charge
<1>5. CASE Stat(r)
  <2>1. PICK p \in {"place", "swap", "failed"} :
          /\ Becomes(r, [req[r] EXCEPT !.prev = file[req[r].dest], !.phase = p])
          /\ p = "swap" => req[r].overwrite
    BY <1>5 DEF Stat, MayReplace
  <2>2. req[r].part = r
    BY <1>1, <1>5 DEF Stat, Sound, IsReady
  <2> DEFINE t == [req[r] EXCEPT !.prev = file[req[r].dest], !.phase = p]
  <2>3. Sound(r, t) /\ Charge(t) = 1
    BY <1>1, <1>2, <2>1, <2>2 DEF Sound, Records, Phases, Finalizing, Recovery, Undoing, Charge
  <2>4. Becomes(r, t)
    BY <2>1
  <2> HIDE DEF t
  <2> QED
    BY <1>3, <1>4, <2>3, <2>4, Working
<1>6. ASSUME Becomes(r, [req[r] EXCEPT !.phase = "done", !.part = Nothing])
      PROVE  Moves(r)
  <2> DEFINE t == [req[r] EXCEPT !.phase = "done", !.part = Nothing]
  <2>1. Sound(r, t) /\ Charge(t) = 1
    BY <1>1 DEF Sound, Records, Phases, IsReady, Recovery, Undoing, Charge
  <2>2. Becomes(r, t)
    BY <1>6
  <2> HIDE DEF t
  <2> QED
    BY <1>3, <1>4, <2>1, <2>2, Working
<1>7. CASE Place(r)
  <2>1. CASE Goes(r, "failed")
    BY <1>3, <1>4, <2>1, GoesTo DEF Phases, IsReady, Recovery, Undoing
  <2> QED
    BY <1>6, <1>7, <2>1 DEF Place
<1>8. CASE Swap(r)
  <2>1. CASE Goes(r, "backup") /\ ~posix
    BY <1>3, <1>4, <2>1, GoesTo DEF IsReady, Phases, Finalizing
  <2> QED
    BY <1>6, <1>8, <2>1 DEF Swap, SwapsAtomically
<1>9. CASE Goes(r, "undoStat") /\ req[r].phase \in {"backup", "move"}
  <2>1. ~posix
    BY <1>1, <1>9 DEF Sound, Recovery
  <2> QED
    BY <1>3, <1>4, <1>9, <2>1, GoesTo DEF IsReady, Phases, Undoing
<1>10. CASE Backup(r)
  <2>1. CASE Becomes(r, WithBackup(r))
    <3>1. Sound(r, WithBackup(r)) /\ Charge(WithBackup(r)) = 1
      BY <1>1, <1>2, <1>10 DEF IsReady, WithBackup, Sound, Records, Phases, Finalizing, Recovery, Charge, Backup
    <3> QED
      BY <1>3, <1>4, <2>1, <3>1, Working
  <2> QED
    BY <1>9, <1>10, <2>1 DEF Backup
<1>11. CASE Move(r)
  <2> DEFINE t == [req[r] EXCEPT !.phase = "remove", !.part = Nothing]
  <2>1. CASE Becomes(r, t)
    <3>1. Sound(r, t) /\ Charge(t) = 1
      BY <1>1, <1>11 DEF IsReady, Sound, Records, Phases, Finalizing, Recovery, Charge, Move
    <3> HIDE DEF t
    <3> QED
      BY <1>3, <1>4, <2>1, <3>1, Working
  <2> QED
    BY <1>9, <1>11, <2>1 DEF Move
<1>12. CASE Remove(r)
  <2> DEFINE t == [req[r] EXCEPT !.phase = "done", !.backup = Nothing]
  <2>1. Sound(r, t) /\ Charge(t) = 1
    BY <1>1 DEF Sound, Records, Phases, IsReady, Recovery, Undoing, Charge
  <2>2. Becomes(r, t)
    BY <1>12 DEF Remove
  <2> HIDE DEF t
  <2> QED
    BY <1>3, <1>4, <2>1, <2>2, Working
<1> QED
  BY <1>5, <1>7, <1>8, <1>10, <1>11, <1>12

LEMMA UndoSteps ==
  ASSUME IInv, NEW r \in Requests,
         UndoStat(r) \/ UndoAside(r) \/ UndoBack(r) \/ UndoClean(r)
  PROVE  Moves(r)
<1>1. Sound(r, req[r]) /\ Nothing \in Contents /\ ~posix
  BY DEF IInv, Contents, Sound, IsReady, Recovery, Undoing, UndoStat, UndoAside, UndoBack, UndoClean
<1>2. req[r].dest \in Paths /\ req[r].backup \in Contents /\ file[req[r].dest] \in Contents
  BY <1>1 DEF Sound, Records, IInv
<1>3. Frame
  <2>1. file' \in {file, MovedAside(r), [file EXCEPT ![req[r].dest] = req[r].backup]}
    BY DEF UndoStat, UndoAside, UndoBack, UndoClean
  <2>2. file' \in [Paths -> Contents]
    BY <1>1, <1>2, <2>1 DEF IInv, MovedAside
  <2> QED
    BY <2>2 DEF IInv, Frame, UndoStat, UndoAside, UndoBack, UndoClean, counters, server
<1>4. free' = free /\ Charge(req[r]) = 1
  BY DEF UndoStat, UndoAside, UndoBack, UndoClean, Charge
<1>5. ASSUME Becomes(r, [req[r] EXCEPT !.phase = "failed", !.broken = TRUE])
      PROVE  Moves(r)
  <2> DEFINE t == [req[r] EXCEPT !.phase = "failed", !.broken = TRUE]
  <2>1. Sound(r, t) /\ Charge(t) = 1
    BY <1>1 DEF IsReady, Sound, Records, Phases, Charge
  <2>2. Becomes(r, t)
    BY <1>5
  <2> HIDE DEF t
  <2> QED
    BY <1>3, <1>4, <2>1, <2>2, Working
<1>6. CASE UndoStat(r)
  <2>1. PICK p \in {"failed", "undoAside", "undoBack"} : Goes(r, p)
    BY <1>6 DEF UndoStat
  <2> QED
    BY <1>1, <1>3, <1>4, <2>1, GoesTo DEF IsReady, Phases, Undoing
<1>7. CASE UndoAside(r)
  <2> DEFINE t == [req[r] EXCEPT !.phase = "undoBack", !.aside = file[req[r].dest]]
  <2>1. CASE Becomes(r, t)
    <3>1. Sound(r, t) /\ Charge(t) = 1
      BY <1>1, <1>2 DEF IsReady, Sound, Records, Phases, Undoing, Charge
    <3> HIDE DEF t
    <3> QED
      BY <1>3, <1>4, <2>1, <3>1, Working
  <2> QED
    BY <1>5, <1>7, <2>1 DEF UndoAside
<1>8. CASE UndoBack(r)
  <2> DEFINE t == [req[r] EXCEPT !.phase = "undoClean", !.backup = Nothing]
  <2>1. CASE Becomes(r, t)
    <3>1. Sound(r, t) /\ Charge(t) = 1
      BY <1>1, <1>2 DEF IsReady, Sound, Records, Phases, Undoing, Charge
    <3> HIDE DEF t
    <3> QED
      BY <1>3, <1>4, <2>1, <3>1, Working
  <2> QED
    BY <1>5, <1>8, <2>1 DEF UndoBack
<1>9. CASE UndoClean(r)
  <2> DEFINE t == [CleanedUp(req[r]) EXCEPT !.phase = "failed"]
  <2>1. Sound(r, t) /\ Charge(t) = 1
    BY <1>1, <1>9 DEF IsReady, UndoClean, CleanedUp, Sound, Records, Phases, Undoing, Charge
  <2>2. Becomes(r, t)
    BY <1>9 DEF UndoClean
  <2> HIDE DEF t
  <2> QED
    BY <1>3, <1>4, <2>1, <2>2, Working
<1> QED
  BY <1>6, <1>7, <1>8, <1>9

-------------------------------------------------------------------------------
(* The end of a request *)

LEMMA UnlockedType ==
  ASSUME IInv, NEW r \in Requests
  PROVE  Unlocked(r) \in [Paths -> Requests \cup {Nothing}]
BY DEF IInv, Unlocked

LEMMA GivingUp ==
  ASSUME IInv, NEW r \in Requests, Frame, GivesUpWaiting(r) \/ GivesUpLock(r)
  PROVE  Moves(r)
<1>1. Sound(r, req[r])
  BY DEF IInv
<1>2. CASE GivesUpLock(r)
  <2>1. Goes(r, "failed") /\ free' = free /\ Charge(req[r]) = 1
    BY <1>2 DEF GivesUpLock, Charge
  <2> QED
    BY <2>1, GoesTo DEF Phases, IsReady, Recovery, Undoing
<1>3. CASE GivesUpWaiting(r)
  <2> DEFINE t == [req[r] EXCEPT !.phase = "ended"]
  <2>1. Sound(r, t) /\ Charge(t) = 0
    BY <1>1 DEF Sound, Records, Phases, IsReady, Recovery, Undoing, Charge
  <2>2. Becomes(r, t)
    BY <1>3 DEF GivesUpWaiting, Goes
  <2> HIDE DEF t
  <2>3. CASE req[r].phase = "waiting"
    <3>1. free' = free /\ Charge(req[r]) = 0
      BY <1>3, <2>3 DEF GivesUpWaiting, Returned, Charge
    <3> QED
      BY <2>1, <2>2, <3>1, Working
  <2>4. CASE req[r].phase = "granted"
    <3>1. free' = free + 1 /\ Charge(req[r]) = 1
      BY <1>3, <2>4 DEF GivesUpWaiting, Returned, Charge
    <3> QED
      BY <2>1, <2>2, <3>1, Ending
  <2> QED
    BY <1>3, <2>3, <2>4 DEF GivesUpWaiting
<1> QED
  BY <1>2, <1>3

LEMMA LeaveStep ==
  ASSUME IInv, NEW r \in Requests, Leave(r)
  PROVE  Moves(r)
<1>1. Frame
  <2>1. lock' \in {lock, Unlocked(r)} /\ file' = file
    BY DEF Leave, GivesUpWaiting, GivesUpLock, Unlocked
  <2> QED
    BY <2>1, UnlockedType DEF Leave, IInv, Frame, counters, server
<1>2. CASE req[r].phase = "copy" /\ Goes(r, "failed") /\ UNCHANGED free
  <2>1. Charge(req[r]) = 1
    BY <1>2 DEF Charge
  <2> QED
    BY <1>1, <1>2, <2>1, GoesTo DEF Phases, IsReady, Recovery, Undoing
<1> QED
  BY <1>1, <1>2, GivingUp DEF Leave

LEMMA EndSteps ==
  ASSUME IInv, NEW r \in Requests, End(r) \/ ConnectionLost(r) \/ Disconnects(r)
  PROVE  Moves(r)
<1>1. Sound(r, req[r]) /\ Nothing \in Contents
  BY DEF IInv, Contents
<1>2. Frame
  <2>1. lock' \in {lock, Unlocked(r)} /\ file' = file
    BY DEF End, ConnectionLost, Disconnects
  <2>2. lock' \in [Paths -> Requests \cup {Nothing}] /\ file' \in [Paths -> Contents]
    BY <2>1, UnlockedType DEF IInv
  <2>3. faults' \in {faults, faults + 1} /\ (faults' # faults => faults < MaxFaults) /\ timedOut' = timedOut
    BY DEF End, ConnectionLost, Disconnects, counters
  <2>4. faults' \in 0 .. MaxFaults /\ timedOut' \subseteq Requests
    BY <2>3, BoundAssumption DEF IInv
  <2> QED
    BY <2>2, <2>4 DEF Frame, server, End, ConnectionLost, Disconnects
<1>3. free' = free + 1
  BY DEF End, ConnectionLost, Disconnects
<1>4. Charge(req[r]) = 1
  BY <1>1 DEF End, ConnectionLost, Disconnects, Charge, Sound, Staging, Finalizing, Undoing
<1>5. \E t : Becomes(r, t) /\ Sound(r, t) /\ Charge(t) = 0
  <2>1. CASE End(r)
    <3> DEFINE t == [CleanedUp(req[r]) EXCEPT !.phase = "ended", !.ok = req[r].phase = "done"]
    <3>1. Sound(r, t) /\ Charge(t) = 0
      BY <1>1, <2>1 DEF CleanedUp, Sound, Records, Phases, IsReady, Recovery, Undoing, Charge
    <3>2. Becomes(r, t)
      BY <2>1 DEF End
    <3> HIDE DEF t
    <3> QED
      BY <3>1, <3>2
  <2>2. CASE ConnectionLost(r)
    <3>1. PICK ok \in BOOLEAN :
            Becomes(r, [req[r] EXCEPT !.phase = "ended", !.broken = TRUE, !.ok = ok])
      BY <2>2 DEF ConnectionLost
    <3> DEFINE t == [req[r] EXCEPT !.phase = "ended", !.broken = TRUE, !.ok = ok]
    <3>2. Sound(r, t) /\ Charge(t) = 0
      BY <1>1 DEF Sound, Records, Phases, IsReady, Recovery, Undoing, Charge
    <3>3. Becomes(r, t)
      BY <3>1
    <3> HIDE DEF t
    <3> QED
      BY <3>2, <3>3
  <2>3. CASE Disconnects(r)
    <3> DEFINE t == [req[r] EXCEPT !.phase = "ended"]
    <3>1. Sound(r, t) /\ Charge(t) = 0
      BY <1>1 DEF Sound, Records, Phases, IsReady, Recovery, Undoing, Charge
    <3>2. Becomes(r, t)
      BY <2>3 DEF Disconnects, Goes
    <3> HIDE DEF t
    <3> QED
      BY <3>1, <3>2
  <2> QED
    BY <2>1, <2>2, <2>3
<1> QED
  BY <1>2, <1>3, <1>4, <1>5, Ending

LEMMA FailureStep ==
  ASSUME IInv, NEW r \in Requests, SftpFails(r)
  PROVE  Moves(r)
<1>1. Sound(r, req[r])
  BY DEF IInv
<1>2. Frame
  BY BoundAssumption DEF IInv, Frame, SftpFails, server
<1>3. req[r].phase \in {"act"} \cup Staging \cup Finalizing \cup Undoing
  BY DEF SftpFails
<1> DEFINE u == AfterFailure(req[r].phase)
<1>4. u \in {"undoStat", "done", "failed"} /\ (u = "undoStat" => req[r].phase \in {"backup", "move"})
  BY DEF AfterFailure
<1> DEFINE b == req[r].phase \in Undoing
<1> DEFINE t == [req[r] EXCEPT !.phase = u, !.broken = b]
<1>5. Sound(r, t)
  <2>1. u \in Recovery => ~posix
    BY <1>1, <1>4 DEF Sound, IsReady, Recovery, Undoing
  <2>2. b \in BOOLEAN
    OBVIOUS
  <2> HIDE DEF u, b
  <2> QED
    BY <1>1, <1>4, <2>1, <2>2 DEF IsReady, Sound, Records, Phases, Undoing
<1>6. Charge(req[r]) = 1 /\ Charge(t) = 1
  <2> HIDE DEF u, b
  <2> QED
    BY <1>1, <1>3, <1>4 DEF Charge, Sound, Records, Staging, Finalizing, Undoing
<1>7. Becomes(r, t) /\ free' = free
  BY DEF SftpFails
<1> HIDE DEF t
<1> QED
  BY <1>2, <1>5, <1>6, <1>7, Working

LEMMA TimeoutStep ==
  ASSUME IInv, NEW r \in Requests, Timeout(r)
  PROVE  Moves(r)
<1>1. Sound(r, req[r]) /\ Nothing \in Contents
  BY DEF IInv, Contents
<1>2. Frame
  <2>1. lock' \in {lock, Unlocked(r)} /\ file' = file
    BY DEF Timeout, GivesUpWaiting, GivesUpLock, TimesOutAtWork, TimesOutInUndo, Unlocked
  <2>2. lock' \in [Paths -> Requests \cup {Nothing}] /\ file' \in [Paths -> Contents]
    BY <2>1, UnlockedType DEF IInv
  <2> QED
    BY <2>2, BoundAssumption DEF Timeout, IInv, Frame, server
<1>3. CASE TimesOutAtWork(r)
  <2>1. free' = free
    BY <1>3 DEF TimesOutAtWork
  <2>2. Charge(req[r]) = 1
    BY <1>3 DEF TimesOutAtWork, Charge, Staging
  <2>3. CASE Goes(r, "failed")
    BY <1>2, <2>1, <2>2, <2>3, GoesTo DEF Phases, IsReady, Recovery, Undoing
  <2>4. CASE Goes(r, "undoStat") /\ req[r].phase \in {"backup", "move", "remove"}
    <3>1. ~posix
      BY <1>1, <2>4 DEF Sound, Recovery
    <3> QED
      BY <1>2, <2>1, <2>2, <2>4, <3>1, GoesTo DEF IsReady, Phases, Undoing
  <2> QED
    BY <1>3, <2>3, <2>4 DEF TimesOutAtWork
<1>4. CASE TimesOutInUndo(r)
  <2> DEFINE t == [req[r] EXCEPT !.detached = TRUE, !.part = Nothing]
  <2>1. Sound(r, t)
    BY <1>1, <1>4 DEF IsReady, TimesOutInUndo, Undoing, Sound, Records
  <2>2. Charge(req[r]) = 1 /\ Charge(t) = 1
    BY <1>1, <1>4 DEF TimesOutInUndo, Undoing, Charge, Sound, Records
  <2>3. Becomes(r, t) /\ free' = free
    BY <1>4 DEF TimesOutInUndo
  <2> HIDE DEF t
  <2> QED
    BY <1>2, <2>1, <2>2, <2>3, Working
<1> QED
  BY <1>2, <1>3, <1>4, GivingUp DEF Timeout

-------------------------------------------------------------------------------
(* The inductive invariant *)

LEMMA InitIInv == Init => IInv
<1> SUFFICES ASSUME Init PROVE IInv
  OBVIOUS
<1> DEFINE p == CHOOSE p \in Paths : TRUE
<1> DEFINE t == [Request("upload", p, p, FALSE) EXCEPT !.phase = "idle"]
<1>1. p \in Paths
  BY NameAssumption
<1>2. req = [r \in Requests |-> t]
  BY DEF Init
<1>3. \A r \in Requests : Sound(r, t)
  <2> HIDE DEF p
  <2> QED
    BY <1>1 DEF Sound, Records, Request, Phases, Contents, Nothing, IsReady, Recovery, Undoing
<1>4. t.phase = "idle"
  <2> HIDE DEF p
  <2> QED
    BY DEF Request
<1> HIDE DEF t
<1>5. {r \in Requests : HoldsSlot(r)} = {}
  BY <1>2, <1>4 DEF HoldsSlot
<1>6. SlotsAreConserved
  <2>1. Cardinality({r \in Requests : HoldsSlot(r)}) = 0
    BY <1>5, FS_EmptySet
  <2> QED
    BY <2>1, BoundAssumption DEF SlotsAreConserved, Init
<1>7. file \in [Paths -> Contents]
  BY DEF Init, Contents
<1>8. slots \in 1 .. MaxSlots /\ free \in Nat /\ posix \in BOOLEAN
  BY BoundAssumption DEF Init
<1>9. lock \in [Paths -> Requests \cup {Nothing}]
  BY DEF Init
<1>10. faults \in 0 .. MaxFaults /\ timedOut \subseteq Requests
  BY BoundAssumption DEF Init
<1>11. /\ DOMAIN req = Requests /\ req = [r \in Requests |-> req[r]]
       /\ \A r \in Requests : Sound(r, req[r])
  BY <1>2, <1>3
<1> QED
  BY <1>6, <1>7, <1>8, <1>9, <1>10, <1>11 DEF IInv

LEMMA StepMoves ==
  ASSUME IInv, Next
  PROVE  \E r \in Requests : Moves(r)
<1>1. PICK r \in Requests :
        Arrive(r) \/ Step(r) \/ Leave(r) \/ SftpFails(r) \/ ConnectionLost(r) \/ Timeout(r)
  BY DEF Next
<1>2. Moves(r)
  BY <1>1, WaitingSteps, StagingSteps, FinalSteps, UndoSteps, LeaveStep, EndSteps, FailureStep, TimeoutStep
  DEF Step
<1> QED
  BY <1>2

LEMMA NextIInv == IInv /\ [Next]_vars => IInv'
<1> SUFFICES ASSUME IInv, [Next]_vars PROVE IInv'
  OBVIOUS
<1>1. CASE Next
  <2>1. PICK r \in Requests : Moves(r)
    BY <1>1, StepMoves
  <2> QED
    BY <2>1, MakesIInv DEF Moves
<1>2. CASE UNCHANGED vars
  BY <1>2 DEF vars, IInv, Sound, SlotsAreConserved, HoldsSlot
<1> QED
  BY <1>1, <1>2

LEMMA IInvTypeOK == IInv => TypeOK
<1> SUFFICES ASSUME IInv PROVE TypeOK
  OBVIOUS
<1> DEFINE H == {r \in Requests : HoldsSlot(r)}
<1>1. Cardinality(H) \in Nat
  BY FiniteAssumption, FS_Subset, FS_CardinalityType
<1>2. free + Cardinality(H) = slots /\ free \in Nat /\ slots \in 1 .. MaxSlots
  BY DEF IInv, SlotsAreConserved
<1>3. free \in 0 .. slots
  <2> HIDE DEF H
  <2> QED
    BY <1>1, <1>2, BoundAssumption
<1>4. \A r \in Requests :
        /\ req[r].phase \in Phases
        /\ req[r].part \in {Nothing, r}
        /\ {req[r].backup, req[r].aside, req[r].prev} \subseteq Contents
  BY DEF IInv, Sound, Records
<1> QED
  BY <1>3, <1>4 DEF TypeOK, IInv

-------------------------------------------------------------------------------
(* What a step does to the files *)

Acts(r) ==
  /\ req[r].phase = "act"
  /\ \/ file' = [file EXCEPT ![req[r].dest] = Nothing]
     \/ ~Exists(req[r].dest) /\ file' = Renamed(r)

Puts(r) ==
  /\ file' = Placed(r) /\ req'[r] # req[r]
  /\ ~Exists(req[r].dest) \/ req[r].phase = "swap"

PutsAside(r) == req[r].phase \in Recovery /\ file' = MovedAside(r)

PutsBack(r) == ~Exists(req[r].dest) /\ file' = [file EXCEPT ![req[r].dest] = req[r].backup]

LEMMA FileEffect ==
  ASSUME IInv, Next
  PROVE  file' = file \/ \E r \in Requests : Acts(r) \/ Puts(r) \/ PutsAside(r) \/ PutsBack(r)
<1>1. PICK r \in Requests :
        Arrive(r) \/ Step(r) \/ Leave(r) \/ SftpFails(r) \/ ConnectionLost(r) \/ Timeout(r)
  BY DEF Next
<1>2. Sound(r, req[r])
  BY DEF IInv
<1>3. CASE Act(r)
  <2>1. file' = file \/ Acts(r)
    BY <1>3 DEF Act, Acts, Exists
  <2> QED
    BY <2>1
<1>4. CASE Place(r) \/ Swap(r) \/ Move(r)
  <2>1. file' = file \/ (/\ file' = Placed(r)
                         /\ \E p \in {"done", "remove"} : Becomes(r, [req[r] EXCEPT !.phase = p, !.part = Nothing])
                         /\ ~Exists(req[r].dest) \/ req[r].phase = "swap"
                         /\ req[r].phase \in {"place", "swap", "move"})
    BY <1>4 DEF Place, Swap, Move, MayPlace, Exists
  <2>2. ASSUME NEW p \in {"done", "remove"}, req[r].phase \in {"place", "swap", "move"},
               Becomes(r, [req[r] EXCEPT !.phase = p, !.part = Nothing])
        PROVE  req'[r] # req[r]
    <3> DEFINE t == [req[r] EXCEPT !.phase = p, !.part = Nothing]
    <3>1. t.phase = p
      BY <1>2 DEF Sound, Records
    <3>2. t # req[r]
      <4> HIDE DEF t
      <4> QED
        BY <2>2, <3>1
    <3>3. req' = [req EXCEPT ![r] = t]
      BY <2>2 DEF Becomes
    <3> HIDE DEF t
    <3> QED
      BY <3>2, <3>3 DEF IInv
  <2>3. file' = file \/ Puts(r)
    BY <2>1, <2>2 DEF Puts
  <2> QED
    BY <2>3
<1>5. CASE Backup(r) \/ UndoAside(r)
  <2>1. file' = file \/ PutsAside(r)
    BY <1>5 DEF Backup, UndoAside, PutsAside, Recovery, Undoing
  <2> QED
    BY <2>1
<1>6. CASE UndoBack(r)
  <2>1. file' = file \/ PutsBack(r)
    BY <1>6 DEF UndoBack, PutsBack, Exists
  <2> QED
    BY <2>1
<1>7. CASE \/ Arrive(r) \/ Grant(r) \/ Enter(r) \/ GrantLock(r) \/ EnterLocked(r) \/ Leave(r)
           \/ Check(r) \/ Copy(r) \/ Stat(r) \/ Remove(r) \/ UndoStat(r) \/ UndoClean(r)
           \/ End(r) \/ Disconnects(r) \/ SftpFails(r) \/ ConnectionLost(r) \/ Timeout(r)
  BY <1>7 DEF Arrive, Grant, Enter, GrantLock, EnterLocked, Leave, GivesUpWaiting, GivesUpLock, Check, Copy,
     Stat, Remove, UndoStat, UndoClean, End, Disconnects, SftpFails, ConnectionLost, Timeout,
     TimesOutAtWork, TimesOutInUndo, server
<1> QED
  BY <1>1, <1>3, <1>4, <1>5, <1>6, <1>7 DEF Step

LEMMA StepReplaces ==
  ASSUME IInv, Next, NEW p \in Paths, file[p] # Nothing, file'[p] # Nothing, file'[p] # file[p]
  PROVE  \E r \in Requests : req'[r] # req[r] /\ req[r].dest = p /\ req[r].overwrite
<1>1. file \in [Paths -> Contents]
  BY DEF IInv
<1>2. PICK r \in Requests : Acts(r) \/ Puts(r) \/ PutsAside(r) \/ PutsBack(r)
  BY FileEffect
<1>3. Sound(r, req[r]) /\ req[r].dest \in Paths /\ req[r].from \in Paths
  BY DEF IInv, Sound, Records
<1>4. ~Acts(r) /\ ~PutsAside(r) /\ ~PutsBack(r)
  BY <1>1, <1>3 DEF Acts, PutsAside, PutsBack, Exists, Renamed, MovedAside
<1>5. p = req[r].dest /\ req[r].phase = "swap" /\ req'[r] # req[r]
  BY <1>1, <1>2, <1>3, <1>4 DEF Puts, Exists, Placed
<1> QED
  BY <1>3, <1>5 DEF Sound

LEMMA StepGap ==
  ASSUME IInv, Next, posix, NEW p \in Paths, file[p] # Nothing, file'[p] = Nothing
  PROVE  \E r \in Requests : req[r].phase = "act" /\ p \in {req[r].dest, req[r].from}
<1>1. file \in [Paths -> Contents]
  BY DEF IInv
<1>2. PICK r \in Requests : Acts(r) \/ Puts(r) \/ PutsAside(r) \/ PutsBack(r)
  BY FileEffect
<1>3. Sound(r, req[r]) /\ req[r].dest \in Paths /\ req[r].from \in Paths
  BY DEF IInv, Sound, Records
<1>4. ~PutsAside(r)
  BY <1>3 DEF PutsAside, Sound
<1>5. ~PutsBack(r)
  BY <1>1, <1>3 DEF PutsBack, Exists
<1>6. ~Puts(r)
  <2>1. SUFFICES ASSUME Puts(r) PROVE FALSE
    OBVIOUS
  <2>2. p = req[r].dest /\ req[r].phase = "swap"
    BY <1>1, <1>3, <2>1 DEF Puts, Placed, Exists
  <2>3. req[r].part = r /\ r # Nothing
    BY <1>3, <2>2, NameAssumption DEF Sound, IsReady, Nothing
  <2> QED
    BY <1>1, <1>3, <2>1, <2>2, <2>3 DEF Puts, Placed
<1>7. Acts(r)
  BY <1>2, <1>4, <1>5, <1>6
<1> QED
  BY <1>1, <1>3, <1>7 DEF Acts, Renamed

-------------------------------------------------------------------------------
(* What a request knows of its destination *)

Waiting == {"idle", "waiting", "granted", "check", "copy", "lockWait"}

\* A request that has the lock of its destination, unless it is over and never looked there.
InLock(t) ==
  /\ ~t.detached
  /\ \/ t.phase \in {"lockGranted", "act"} \cup Finalizing \cup Undoing
     \/ t.phase \in {"done", "failed"} /\ t.prev # Nothing

\* What a request has of its own: the lock, the staged file, the backup, what it put aside.
Known(r, t, holder) ==
  /\ InLock(t) => holder = r
  /\ t.phase = "idle" => t.kind = "upload"
  /\ t.phase \in Waiting \cup {"lockGranted", "act", "stat", "place"} => t.prev = Nothing
  /\ t.phase \in Waiting \cup {"lockGranted", "act", "stat", "place", "swap", "backup"} => t.backup = Nothing
  /\ t.phase \in Waiting \cup {"lockGranted", "act", "undoStat", "undoAside"} \cup Finalizing => t.aside = Nothing
  /\ t.phase \in {"move", "remove", "undoAside", "undoBack"} => t.backup # Nothing
  /\ t.phase \in {"swap", "backup", "move", "remove"} => t.overwrite
  /\ t.phase \in {"backup", "move"} => t.part = r
  /\ t.phase = "remove" => t.part = Nothing

\* What may be at the destination: nobody else puts a file there while a request has its lock.
Found(r, t, content) ==
  /\ t.phase = "move" => content = Nothing
  /\ t.phase \in {"remove", "undoStat", "undoAside"} /\ t.backup # Nothing => content \in {Nothing, r}
  /\ t.phase \in {"undoBack", "undoClean"} => t.aside \in {Nothing, r}

\* When there is a file at the destination.
There(t, content) ==
  \/ t.phase \in {"swap", "backup", "remove", "undoClean"}
  \/ t.phase = "undoStat" /\ t.backup = Nothing
  \/ t.phase \in {"done", "failed"} /\ t.prev # Nothing /\ ~t.broken
  => content # Nothing

Unrenamed(r) == \A q \in Requests : ~(req[q].kind = "rename" /\ req[q].from = req[r].dest)

LInv ==
  \A r \in Requests :
    /\ Known(r, req[r], lock[req[r].dest])
    /\ Alone(r) => Found(r, req[r], file[req[r].dest])
    /\ Alone(r) /\ Unrenamed(r) => There(req[r], file[req[r].dest])

\* A step of r leaves the others' locks alone; it changes its destination while it has the lock
\* or in the background, and only a rename another path.
Spares(r) ==
  /\ \A p \in Paths, q \in Requests : q # r /\ lock[p] = q => lock'[p] = q
  /\ \A p \in Paths : file'[p] # file[p] =>
       \/ p = req[r].dest /\ (InLock(req[r]) \/ req[r].detached)
       \/ p = req[r].from /\ req[r].kind = "rename" /\ file'[p] = Nothing

\* What it is about does not change once a request has arrived.
Remembers(r) ==
  \/ req[r].phase = "idle" /\ req'[r].phase = "waiting"
  \/ /\ req'[r].dest = req[r].dest /\ req'[r].from = req[r].from /\ req'[r].kind = req[r].kind
     /\ req[r].detached => req'[r].detached

\* What r knows after its step.
KnowsNext(r) ==
  /\ Known(r, req'[r], lock'[req'[r].dest])
  /\ Alone(r) => Found(r, req'[r], file'[req'[r].dest])
  /\ Alone(r) /\ Unrenamed(r) => There(req'[r], file'[req'[r].dest])

Takes(r) == Spares(r) /\ Remembers(r) /\ KnowsNext(r)

LEMMA TakesLInv ==
  ASSUME IInv, LInv, NEW r \in Requests, Moves(r), Takes(r)
  PROVE  LInv'
<1>1. /\ \A q \in Requests : q # r => req'[q] = req[q]
      /\ \A q \in Requests : Sound(q, req[q])
  BY DEF IInv, Moves, Makes
<1>2. ASSUME NEW q \in Requests, Alone(q)' PROVE (q = r /\ req[r].phase = "idle") \/ Alone(q)
  BY <1>1, <1>2 DEF Alone, Takes, Remembers, Sound
<1>3. ASSUME NEW q \in Requests, Unrenamed(q)' PROVE (q = r /\ req[r].phase = "idle") \/ Unrenamed(q)
  BY <1>1, <1>3 DEF Unrenamed, Takes, Remembers, LInv, Known
<1>4. ASSUME NEW q \in Requests
      PROVE  /\ Known(q, req[q], lock[req[q].dest])'
             /\ Alone(q)' => Found(q, req[q], file[req[q].dest])'
             /\ Alone(q)' /\ Unrenamed(q)' => There(req[q], file[req[q].dest])'
  <2>1. CASE q = r
    <3>1. Known(r, req'[r], lock'[req'[r].dest])
      BY DEF Takes, KnowsNext
    <3>2. CASE req[r].phase = "idle" /\ req'[r].phase = "waiting"
      BY <2>1, <3>1, <3>2 DEF Found, There
    <3>3. CASE req[r].phase # "idle" \/ req'[r].phase # "waiting"
      <4>1. req[r].phase = "idle" => ~req[r].detached /\ req[r].kind = "upload"
        BY <1>1 DEF Sound, LInv, Known
      <4>2. (Alone(r)' => Alone(r)) /\ (Unrenamed(r)' => Unrenamed(r))
        BY <1>1, <3>3, <4>1 DEF Alone, Unrenamed, Takes, Remembers
      <4>3. QED
        BY <2>1, <4>2 DEF Takes, KnowsNext
    <3>4. QED
      BY <3>2, <3>3
  <2>2. CASE q # r
    <3>1. req'[q] = req[q] /\ req[q].dest \in Paths
      BY <1>1, <2>2 DEF Sound, Records
    <3>2. /\ Known(q, req[q], lock[req[q].dest])
          /\ Alone(q) => Found(q, req[q], file[req[q].dest])
          /\ Alone(q) /\ Unrenamed(q) => There(req[q], file[req[q].dest])
      BY DEF LInv
    <3>3. InLock(req[q]) => lock'[req[q].dest] = q
      BY <2>2, <3>1, <3>2 DEF Known, Takes, Spares
    <3>4. Known(q, req[q], lock'[req[q].dest])
      BY <3>2, <3>3 DEF Known
    <3>5. (Alone(q)' => Alone(q)) /\ (Unrenamed(q)' => Unrenamed(q))
      BY <1>2, <1>3, <2>2
    <3>6. CASE file'[req[q].dest] = file[req[q].dest]
      BY <3>1, <3>2, <3>4, <3>5, <3>6
    <3>7. CASE /\ req[q].dest = req[r].from /\ req[r].kind = "rename"
               /\ file'[req[q].dest] = Nothing
      <4>1. ~Unrenamed(q)
        BY <3>7 DEF Unrenamed
      <4>2. Found(q, req[q], file[req[q].dest]) => Found(q, req[q], Nothing)
        BY DEF Found
      <4>3. QED
        BY <3>1, <3>2, <3>4, <3>5, <3>7, <4>1, <4>2
    <3>8. CASE req[q].dest = req[r].dest /\ (InLock(req[r]) \/ req[r].detached)
      <4>1. CASE req[r].detached
        <5>1. ~Alone(q)
          BY <3>8, <4>1 DEF Alone
        <5>2. QED
          BY <3>1, <3>4, <3>5, <5>1
      <4>2. CASE InLock(req[r])
        <5>1. lock[req[r].dest] = r
          BY <4>2 DEF LInv, Known
        <5>2. ~InLock(req[q])
          BY <2>2, <3>2, <3>8, <5>1 DEF Known
        <5>3. Alone(q) => ~req[q].detached
          BY DEF Alone
        <5>4. Alone(q) => req[q].phase \notin Finalizing \cup Undoing /\
                          (req[q].phase \in {"done", "failed"} => req[q].prev = Nothing)
          BY <5>2, <5>3 DEF InLock
        <5>5. Alone(q) => Found(q, req[q], file'[req[q].dest]) /\ There(req[q], file'[req[q].dest])
          BY <5>4 DEF Found, There, Finalizing, Undoing
        <5>6. QED
          BY <3>1, <3>4, <3>5, <5>5
      <4>3. QED
        BY <3>8, <4>1, <4>2
    <3>9. QED
      BY <3>1, <3>6, <3>7, <3>8 DEF Takes, Spares
  <2>3. QED
    BY <2>1, <2>2
<1>5. QED
  BY <1>4 DEF LInv

\* The fields of a request that goes to another phase.
LEMMA GoesFields ==
  ASSUME IInv, NEW r \in Requests, NEW p, Goes(r, p)
  PROVE  /\ req'[r].phase = p
         /\ req'[r].kind = req[r].kind /\ req'[r].dest = req[r].dest /\ req'[r].from = req[r].from
         /\ req'[r].overwrite = req[r].overwrite /\ req'[r].part = req[r].part
         /\ req'[r].backup = req[r].backup /\ req'[r].aside = req[r].aside /\ req'[r].prev = req[r].prev
         /\ req'[r].broken = req[r].broken /\ req'[r].detached = req[r].detached
<1> DEFINE t == [req[r] EXCEPT !.phase = p]
<1>1. req[r] \in Records
  BY DEF IInv, Sound
<1>2. /\ t.phase = p
      /\ t.kind = req[r].kind /\ t.dest = req[r].dest /\ t.from = req[r].from
      /\ t.overwrite = req[r].overwrite /\ t.part = req[r].part
      /\ t.backup = req[r].backup /\ t.aside = req[r].aside /\ t.prev = req[r].prev
      /\ t.broken = req[r].broken /\ t.detached = req[r].detached
  BY <1>1 DEF Records
<1> HIDE DEF t
<1>3. req'[r] = t
  BY DEF IInv, Goes, Becomes, t
<1>4. QED
  BY <1>2, <1>3

\* What holds of a request before its step.
LEMMA Before ==
  ASSUME IInv, LInv, NEW r \in Requests
  PROVE  /\ req[r] \in Records /\ r # Nothing
         /\ req[r].dest \in Paths /\ req[r].from \in Paths
         /\ file \in [Paths -> Contents] /\ lock \in [Paths -> Requests \cup {Nothing}]
         /\ Known(r, req[r], lock[req[r].dest])
         /\ Alone(r) => Found(r, req[r], file[req[r].dest])
         /\ Alone(r) /\ Unrenamed(r) => There(req[r], file[req[r].dest])
         /\ Alone(r) => ~req[r].detached
         /\ req[r].detached => req[r].phase \notin {"idle", "waiting"}
BY NameAssumption DEF IInv, LInv, Sound, Records, Alone, Nothing

LEMMA WaitingTakes ==
  ASSUME IInv, LInv, NEW r \in Requests,
         Arrive(r) \/ Grant(r) \/ Enter(r) \/ GrantLock(r) \/ EnterLocked(r)
  PROVE  Takes(r)
<1>1. file' = file /\ Known(r, req[r], lock[req[r].dest])
  BY Before DEF Arrive, Grant, Enter, GrantLock, EnterLocked
<1>2. CASE Arrive(r)
  <2>1. PICK k \in Kinds, d \in Paths, f \in Paths, o \in BOOLEAN : Becomes(r, Request(k, d, f, o))
    BY <1>2 DEF Arrive
  <2>2. req'[r] = Request(k, d, f, o)
    BY <2>1 DEF IInv, Becomes
  <2>3. /\ req'[r].phase = "waiting" /\ req'[r].detached = FALSE /\ req'[r].prev = Nothing
        /\ req'[r].backup = Nothing /\ req'[r].aside = Nothing
    BY <2>2 DEF Request
  <2>4. Spares(r) /\ Remembers(r)
    BY <1>1, <1>2, <2>3 DEF Arrive, Spares, Remembers
  <2>5. KnowsNext(r)
    BY <2>3 DEF KnowsNext, Known, Found, There, InLock, Finalizing, Undoing
  <2>6. QED
    BY <2>4, <2>5 DEF Takes
<1>3. ASSUME NEW p \in {"granted", "check", "copy", "lockWait"}, Goes(r, p), lock' = lock,
             req[r].phase \in {"waiting", "granted"}
      PROVE  Takes(r)
  <2>1. Spares(r) /\ Remembers(r)
    BY <1>1, <1>3, GoesFields DEF Spares, Remembers
  <2>2. KnowsNext(r)
    BY <1>1, <1>3, GoesFields DEF KnowsNext, Known, Found, There, InLock, Finalizing, Undoing, Waiting
  <2>3. QED
    BY <2>1, <2>2 DEF Takes
<1>4. CASE Grant(r)
  BY <1>3, <1>4 DEF Grant
<1>5. CASE Enter(r)
  <2>1. PICK p \in {"check", "copy", "lockWait"} : Goes(r, p)
    BY <1>5 DEF Enter
  <2>2. QED
    BY <1>3, <1>5, <2>1 DEF Enter
<1>6. CASE GrantLock(r)
  <2>1. /\ lock' = [lock EXCEPT ![req[r].dest] = r] /\ lock[req[r].dest] = Nothing
        /\ Goes(r, "lockGranted") /\ req[r].phase = "lockWait"
    BY <1>6 DEF GrantLock
  <2>2. lock'[req[r].dest] = r
    BY <2>1, Before
  <2>3. Spares(r) /\ Remembers(r)
    <3>1. \A p \in Paths, q \in Requests : q # r /\ lock[p] = q => lock'[p] = q
      BY <2>1, Before
    <3>2. QED
      BY <1>1, <2>1, <3>1, GoesFields DEF Spares, Remembers
  <2>4. KnowsNext(r)
    BY <1>1, <2>1, <2>2, GoesFields DEF KnowsNext, Known, Found, There, InLock, Finalizing, Undoing, Waiting
  <2>5. QED
    BY <2>3, <2>4 DEF Takes
<1>7. CASE EnterLocked(r)
  <2>1. PICK p \in {"stat", "act"} : Goes(r, p)
    BY <1>7 DEF EnterLocked
  <2>2. lock' = lock /\ req[r].phase = "lockGranted"
    BY <1>7 DEF EnterLocked
  <2>3. Spares(r) /\ Remembers(r)
    BY <1>1, <2>1, <2>2, GoesFields DEF Spares, Remembers
  <2>4. KnowsNext(r)
    BY <1>1, <2>1, <2>2, GoesFields
    DEF KnowsNext, Known, Found, There, InLock, Finalizing, Undoing, Waiting
  <2>5. QED
    BY <2>3, <2>4 DEF Takes
<1>8. QED
  BY <1>2, <1>4, <1>5, <1>6, <1>7

LEMMA StagingTakes ==
  ASSUME IInv, LInv, NEW r \in Requests, Check(r) \/ Copy(r) \/ Act(r)
  PROVE  Takes(r)
<1>1. lock' = lock /\ Known(r, req[r], lock[req[r].dest]) /\ req[r].dest \in Paths /\ req[r].from \in Paths
  BY Before DEF Check, Copy, Act
<1>2. ASSUME NEW p \in {"copy", "failed", "done"}, Goes(r, p),
             req[r].phase \in {"check", "copy", "act"}
      PROVE  Remembers(r) /\ KnowsNext(r)
  <2>1. Remembers(r)
    BY <1>2, GoesFields DEF Remembers
  <2>2. KnowsNext(r)
    BY <1>1, <1>2, GoesFields DEF KnowsNext, Known, Found, There, InLock, Finalizing, Undoing, Waiting
  <2>3. QED
    BY <2>1, <2>2
<1>3. CASE Check(r)
  <2>1. Spares(r)
    BY <1>1, <1>3 DEF Check, Spares
  <2>2. PICK p \in {"failed", "copy"} : Goes(r, p)
    BY <1>3 DEF Check
  <2>3. QED
    BY <1>2, <1>3, <2>1, <2>2 DEF Check, Takes
<1>4. CASE Copy(r)
  <2>1. Spares(r)
    BY <1>1, <1>4 DEF Copy, Spares
  <2>2. CASE Becomes(r, Staged(r))
    <3>1. req'[r] = Staged(r)
      BY <2>2 DEF IInv, Becomes
    <3>2. /\ req'[r].phase = "lockWait" /\ req'[r].dest = req[r].dest /\ req'[r].from = req[r].from
          /\ req'[r].kind = req[r].kind /\ req'[r].detached = req[r].detached /\ req'[r].prev = req[r].prev
          /\ req'[r].backup = req[r].backup /\ req'[r].aside = req[r].aside
      BY <3>1, Before DEF Staged, Records
    <3>3. Remembers(r)
      BY <3>2 DEF Remembers
    <3>4. KnowsNext(r)
      BY <1>1, <1>4, <3>2 DEF Copy, KnowsNext, Known, Found, There, InLock, Finalizing, Undoing, Waiting
    <3>5. QED
      BY <2>1, <3>3, <3>4 DEF Takes
  <2>3. CASE Goes(r, "done")
    BY <1>2, <1>4, <2>1, <2>3 DEF Copy, Takes
  <2>4. QED
    BY <1>4, <2>2, <2>3 DEF Copy
<1>5. CASE Act(r)
  <2>1. PICK p \in {"done", "failed"} : Goes(r, p)
    BY <1>5 DEF Act
  <2>2. Remembers(r) /\ KnowsNext(r)
    BY <1>2, <1>5, <2>1 DEF Act
  <2>3. \/ file' \in {file, [file EXCEPT ![req[r].dest] = Nothing]}
        \/ file' = Renamed(r) /\ req[r].kind = "rename"
    BY <1>5 DEF Act
  <2>4. req[r].dest # req[r].from => Renamed(r)[req[r].from] = Nothing
    BY <1>1, Before DEF Renamed
  <2>5. CASE req[r].detached \/ InLock(req[r])
    <3>1. \A d \in Paths : file'[d] # file[d] =>
            d = req[r].dest \/ (d = req[r].from /\ req[r].kind = "rename" /\ file'[d] = Nothing)
      BY <1>1, <2>3, Before DEF Renamed
    <3>2. QED
      BY <1>1, <2>2, <2>5, <3>1 DEF Takes, Spares
  <2>6. QED
    BY <1>5, <2>5 DEF InLock, Act
<1>6. QED
  BY <1>3, <1>4, <1>5

LEMMA FinalTakes ==
  ASSUME IInv, LInv, NEW r \in Requests,
         Stat(r) \/ Place(r) \/ Swap(r) \/ Backup(r) \/ Move(r) \/ Remove(r)
  PROVE  Takes(r)
<1>1. /\ lock' = lock /\ Known(r, req[r], lock[req[r].dest]) /\ req[r] \in Records
      /\ req[r].dest \in Paths /\ file \in [Paths -> Contents] /\ r # Nothing
      /\ Alone(r) => Found(r, req[r], file[req[r].dest])
      /\ Alone(r) /\ Unrenamed(r) => There(req[r], file[req[r].dest])
  BY Before DEF Stat, Place, Swap, Backup, Move, Remove
<1>2. Spares(r)
  <2>1. file' \in {file, Placed(r), MovedAside(r)}
    BY DEF Stat, Place, Swap, Backup, Move, Remove
  <2>2. \A p \in Paths : file'[p] # file[p] => p = req[r].dest
    BY <1>1, <2>1 DEF Placed, MovedAside
  <2>3. req[r].detached \/ InLock(req[r])
    BY DEF InLock, Finalizing, Stat, Place, Swap, Backup, Move, Remove
  <2>4. QED
    BY <1>1, <2>2, <2>3 DEF Spares
<1>3. CASE Stat(r)
  <2>1. PICK p \in {"place", "swap", "failed"} :
          /\ Becomes(r, [req[r] EXCEPT !.prev = file[req[r].dest], !.phase = p])
          /\ p = "swap" => req[r].overwrite
          /\ p = "place" <=> file[req[r].dest] = Nothing
    BY <1>3 DEF Stat, MayReplace, Exists
  <2> DEFINE t == [req[r] EXCEPT !.prev = file[req[r].dest], !.phase = p]
  <2>2. /\ t.phase = p /\ t.prev = file[req[r].dest]
        /\ t.dest = req[r].dest /\ t.from = req[r].from /\ t.kind = req[r].kind
        /\ t.overwrite = req[r].overwrite /\ t.detached = req[r].detached
        /\ t.backup = req[r].backup /\ t.aside = req[r].aside
    BY <1>1 DEF Records
  <2>3. req'[r] = t
    BY <2>1 DEF IInv, Becomes
  <2> HIDE DEF t
  <2>4. Remembers(r)
    BY <2>2, <2>3 DEF Remembers
  <2>5. req[r].phase = "stat" /\ file' = file
    BY <1>3 DEF Stat
  <2>6. KnowsNext(r)
    BY <1>1, <2>1, <2>2, <2>3, <2>5 DEF KnowsNext, Known, Found, There, InLock, Finalizing, Undoing, Waiting
  <2>7. QED
    BY <1>2, <2>4, <2>6 DEF Takes
<1>4. ASSUME NEW p \in {"done", "remove"}, Becomes(r, [req[r] EXCEPT !.phase = p, !.part = Nothing]),
             file' = Placed(r), req[r].phase \in {"place", "swap", "move"}, req[r].part = r,
             p = "remove" <=> req[r].phase = "move"
      PROVE  Takes(r)
  <2> DEFINE t == [req[r] EXCEPT !.phase = p, !.part = Nothing]
  <2>1. /\ t.phase = p /\ t.part = Nothing /\ t.prev = req[r].prev
        /\ t.dest = req[r].dest /\ t.from = req[r].from /\ t.kind = req[r].kind
        /\ t.overwrite = req[r].overwrite /\ t.detached = req[r].detached
        /\ t.backup = req[r].backup /\ t.aside = req[r].aside
    BY <1>1 DEF Records
  <2>2. req'[r] = t
    BY <1>4 DEF IInv, Becomes
  <2> HIDE DEF t
  <2>3. Remembers(r)
    BY <2>1, <2>2 DEF Remembers
  <2>4. file'[req[r].dest] = r
    BY <1>1, <1>4 DEF Placed
  <2>5. KnowsNext(r)
    BY <1>1, <1>4, <2>1, <2>2, <2>4 DEF KnowsNext, Known, Found, There, InLock, Finalizing, Undoing, Waiting
  <2>6. QED
    BY <1>2, <2>3, <2>5 DEF Takes
<1>5. ASSUME NEW p \in {"failed", "backup", "undoStat"}, Goes(r, p), file' = file,
             p = "failed" => req[r].phase = "place", p = "backup" => req[r].phase = "swap",
             p = "undoStat" => \/ req[r].phase = "backup" /\ file[req[r].dest] = Nothing
                               \/ req[r].phase = "move" /\ file[req[r].dest] # Nothing
      PROVE  Takes(r)
  <2>1. Remembers(r)
    BY <1>5, GoesFields DEF Remembers
  <2>2. KnowsNext(r)
    <3>1. CASE p \in {"failed", "backup"}
      <4>1. req[r].phase = "swap" => req[r].part = r
        BY DEF IInv, Sound, IsReady
      <4>2. QED
        BY <1>1, <1>5, <3>1, <4>1, GoesFields
        DEF KnowsNext, Known, Found, There, InLock, Finalizing, Undoing, Waiting
    <3>2. CASE p = "undoStat"
      BY <1>1, <1>5, <3>2, GoesFields DEF KnowsNext, Known, Found, There, InLock, Finalizing, Undoing, Waiting
    <3>3. QED
      BY <3>1, <3>2
  <2>3. QED
    BY <1>2, <2>1, <2>2 DEF Takes
<1>6. Sound(r, req[r])
  BY DEF IInv
<1>7. CASE Place(r)
  BY <1>4, <1>5, <1>6, <1>7 DEF Place, Sound, IsReady
<1>8. CASE Swap(r)
  BY <1>4, <1>5, <1>6, <1>8 DEF Swap, Sound, IsReady
<1>9. CASE Backup(r)
  <2>1. CASE file[req[r].dest] = Nothing
    BY <1>5, <1>9, <2>1 DEF Backup
  <2>2. CASE file[req[r].dest] # Nothing
    <3>1. req[r].phase = "backup" /\ file' = MovedAside(r) /\ req'[r] = WithBackup(r)
      BY <1>9, <2>2 DEF Backup, IInv, Becomes
    <3>2. /\ req'[r].phase = "move" /\ req'[r].backup = file[req[r].dest]
          /\ req'[r].dest = req[r].dest /\ req'[r].from = req[r].from /\ req'[r].kind = req[r].kind
          /\ req'[r].overwrite = req[r].overwrite /\ req'[r].detached = req[r].detached
          /\ req'[r].part = req[r].part /\ req'[r].aside = req[r].aside /\ req'[r].prev = req[r].prev
      BY <1>1, <3>1 DEF WithBackup, Records
    <3>3. file'[req[r].dest] = Nothing
      BY <1>1, <3>1 DEF MovedAside
    <3>4. Remembers(r)
      BY <3>2 DEF Remembers
    <3>5. KnowsNext(r)
      BY <1>1, <2>2, <3>1, <3>2, <3>3 DEF KnowsNext, Known, Found, There, InLock, Finalizing, Undoing, Waiting
    <3>6. QED
      BY <1>2, <3>4, <3>5 DEF Takes
  <2>3. QED
    BY <2>1, <2>2
<1>10. CASE Move(r)
  <2>1. req[r].phase = "move" /\ req[r].part = r
    BY <1>1, <1>10 DEF Known, Move
  <2>2. QED
    BY <1>4, <1>5, <1>10, <2>1 DEF Move
<1>11. CASE Remove(r)
  <2> DEFINE t == [req[r] EXCEPT !.phase = "done", !.backup = Nothing]
  <2>1. /\ t.phase = "done" /\ t.prev = req[r].prev
        /\ t.dest = req[r].dest /\ t.from = req[r].from /\ t.kind = req[r].kind
        /\ t.overwrite = req[r].overwrite /\ t.detached = req[r].detached
    BY <1>1 DEF Records
  <2>2. req'[r] = t /\ file' = file /\ req[r].phase = "remove"
    BY <1>11 DEF IInv, Remove, Becomes
  <2> HIDE DEF t
  <2>3. Remembers(r)
    BY <2>1, <2>2 DEF Remembers
  <2>4. KnowsNext(r)
    BY <1>1, <2>1, <2>2 DEF KnowsNext, Known, Found, There, InLock, Finalizing, Undoing, Waiting
  <2>5. QED
    BY <1>2, <2>3, <2>4 DEF Takes
<1>12. QED
  BY <1>3, <1>7, <1>8, <1>9, <1>10, <1>11

LEMMA UndoTakes ==
  ASSUME IInv, LInv, NEW r \in Requests,
         UndoStat(r) \/ UndoAside(r) \/ UndoBack(r) \/ UndoClean(r)
  PROVE  Takes(r)
<1>1. /\ lock' = lock /\ Known(r, req[r], lock[req[r].dest]) /\ req[r] \in Records
      /\ req[r].dest \in Paths /\ file \in [Paths -> Contents] /\ r # Nothing
      /\ Alone(r) => Found(r, req[r], file[req[r].dest])
      /\ Alone(r) /\ Unrenamed(r) => There(req[r], file[req[r].dest])
  BY Before DEF UndoStat, UndoAside, UndoBack, UndoClean
<1>2. Spares(r)
  <2>1. file' \in {file, MovedAside(r), [file EXCEPT ![req[r].dest] = req[r].backup]}
    BY DEF UndoStat, UndoAside, UndoBack, UndoClean
  <2>2. \A p \in Paths : file'[p] # file[p] => p = req[r].dest
    BY <1>1, <2>1 DEF MovedAside
  <2>3. req[r].detached \/ InLock(req[r])
    BY DEF InLock, Undoing, UndoStat, UndoAside, UndoBack, UndoClean
  <2>4. QED
    BY <1>1, <2>2, <2>3 DEF Spares
<1>3. CASE UndoStat(r)
  <2>1. PICK p \in {"failed", "undoAside", "undoBack"} :
          /\ Goes(r, p)
          /\ p = "failed" <=> req[r].backup = Nothing
    BY <1>3 DEF UndoStat
  <2>2. Remembers(r)
    BY <2>1, GoesFields DEF Remembers
  <2>3. req[r].phase = "undoStat" /\ file' = file
    BY <1>3 DEF UndoStat
  <2>4. KnowsNext(r)
    BY <1>1, <2>1, <2>3, GoesFields DEF KnowsNext, Known, Found, There, InLock, Finalizing, Undoing, Waiting
  <2>5. QED
    BY <1>2, <2>2, <2>4 DEF Takes
<1>4. ASSUME NEW p \in {"failed", "undoBack", "undoClean"},
             req'[r].phase = p,
             req'[r].dest = req[r].dest, req'[r].from = req[r].from, req'[r].kind = req[r].kind,
             req'[r].detached = req[r].detached, req'[r].prev = req[r].prev
      PROVE  Remembers(r)
  BY <1>4 DEF Remembers
<1>5. ASSUME Becomes(r, [req[r] EXCEPT !.phase = "failed", !.broken = TRUE]), req[r].phase \in Undoing
      PROVE  Takes(r)
  <2> DEFINE t == [req[r] EXCEPT !.phase = "failed", !.broken = TRUE]
  <2>1. /\ t.phase = "failed" /\ t.broken = TRUE /\ t.prev = req[r].prev
        /\ t.dest = req[r].dest /\ t.from = req[r].from /\ t.kind = req[r].kind
        /\ t.detached = req[r].detached
    BY <1>1 DEF Records
  <2>2. req'[r] = t
    BY <1>5 DEF IInv, Becomes
  <2> HIDE DEF t
  <2>3. KnowsNext(r)
    BY <1>1, <1>5, <2>1, <2>2 DEF KnowsNext, Known, Found, There, InLock, Finalizing, Undoing, Waiting
  <2>4. QED
    BY <1>2, <1>4, <2>1, <2>2, <2>3 DEF Takes
<1>6. CASE UndoAside(r)
  <2>1. CASE file[req[r].dest] = Nothing
    BY <1>5, <1>6, <2>1 DEF UndoAside, Undoing
  <2>2. CASE file[req[r].dest] # Nothing
    <3> DEFINE t == [req[r] EXCEPT !.phase = "undoBack", !.aside = file[req[r].dest]]
    <3>1. /\ t.phase = "undoBack" /\ t.aside = file[req[r].dest] /\ t.prev = req[r].prev
          /\ t.dest = req[r].dest /\ t.from = req[r].from /\ t.kind = req[r].kind
          /\ t.detached = req[r].detached /\ t.backup = req[r].backup
      BY <1>1 DEF Records
    <3>2. req'[r] = t /\ req[r].phase = "undoAside"
      BY <1>6, <2>2 DEF IInv, Becomes, UndoAside
    <3> HIDE DEF t
    <3>3. KnowsNext(r)
      BY <1>1, <2>2, <3>1, <3>2 DEF KnowsNext, Known, Found, There, InLock, Finalizing, Undoing, Waiting
    <3>4. QED
      BY <1>2, <1>4, <3>1, <3>2, <3>3 DEF Takes
  <2>3. QED
    BY <2>1, <2>2
<1>7. CASE UndoBack(r)
  <2>1. CASE file[req[r].dest] # Nothing
    BY <1>5, <1>7, <2>1 DEF UndoBack, Undoing
  <2>2. CASE file[req[r].dest] = Nothing
    <3> DEFINE t == [req[r] EXCEPT !.phase = "undoClean", !.backup = Nothing]
    <3>1. /\ t.phase = "undoClean" /\ t.aside = req[r].aside /\ t.prev = req[r].prev
          /\ t.dest = req[r].dest /\ t.from = req[r].from /\ t.kind = req[r].kind
          /\ t.detached = req[r].detached
      BY <1>1 DEF Records
    <3>2. /\ req'[r] = t /\ req[r].phase = "undoBack"
          /\ file' = [file EXCEPT ![req[r].dest] = req[r].backup]
      BY <1>7, <2>2 DEF IInv, Becomes, UndoBack
    <3> HIDE DEF t
    <3>3. file'[req[r].dest] = req[r].backup /\ req[r].backup # Nothing
      BY <1>1, <3>2 DEF Known
    <3>4. KnowsNext(r)
      BY <1>1, <2>2, <3>1, <3>2, <3>3 DEF KnowsNext, Known, Found, There, InLock, Finalizing, Undoing, Waiting
    <3>5. QED
      BY <1>2, <1>4, <3>1, <3>2, <3>4 DEF Takes
  <2>3. QED
    BY <2>1, <2>2
<1>8. CASE UndoClean(r)
  <2> DEFINE t == [CleanedUp(req[r]) EXCEPT !.phase = "failed"]
  <2>1. req[r].phase = "undoClean" /\ file' = file
    BY <1>8 DEF UndoClean
  <2>2. /\ t.phase = "failed" /\ t.prev = req[r].prev
        /\ t.dest = req[r].dest /\ t.from = req[r].from /\ t.kind = req[r].kind
        /\ t.detached = req[r].detached
    BY <1>1, <2>1 DEF Records, CleanedUp
  <2>3. req'[r] = t
    BY <1>8 DEF IInv, Becomes, UndoClean
  <2> HIDE DEF t
  <2>4. KnowsNext(r)
    BY <1>1, <2>1, <2>2, <2>3 DEF KnowsNext, Known, Found, There, InLock, Finalizing, Undoing, Waiting
  <2>5. QED
    BY <1>2, <1>4, <2>2, <2>3, <2>4 DEF Takes
<1>9. QED
  BY <1>3, <1>6, <1>7, <1>8

\* A request that is over has nothing left that is known of it.
LEMMA EndedTakes ==
  ASSUME IInv, LInv, NEW r \in Requests, file' = file, lock' \in {lock, Unlocked(r)},
         req'[r].phase = "ended",
         req'[r].dest = req[r].dest, req'[r].from = req[r].from, req'[r].kind = req[r].kind,
         req'[r].detached = req[r].detached
  PROVE  Takes(r)
<1>1. Spares(r)
  BY Before DEF Spares, Unlocked
<1>2. Remembers(r)
  BY DEF Remembers
<1>3. KnowsNext(r)
  BY DEF KnowsNext, Known, Found, There, InLock, Finalizing, Undoing, Waiting
<1>4. QED
  BY <1>1, <1>2, <1>3 DEF Takes

LEMMA GivingUpTakes ==
  ASSUME IInv, LInv, NEW r \in Requests, GivesUpWaiting(r) \/ GivesUpLock(r)
  PROVE  Takes(r)
<1>1. CASE GivesUpWaiting(r)
  <2>1. Goes(r, "ended") /\ file' = file /\ lock' = lock
    BY <1>1 DEF GivesUpWaiting
  <2>2. QED
    BY <2>1, GoesFields, EndedTakes
<1>2. CASE GivesUpLock(r)
  <2>1. /\ Goes(r, "failed") /\ file' = file /\ lock' = Unlocked(r)
        /\ req[r].phase \in {"lockWait", "lockGranted"} /\ Known(r, req[r], lock[req[r].dest])
    BY <1>2, Before DEF GivesUpLock, Unlocked
  <2>2. Spares(r)
    BY <2>1, Before DEF Spares, Unlocked
  <2>3. Remembers(r)
    BY <2>1, GoesFields DEF Remembers
  <2>4. KnowsNext(r)
    BY <2>1, GoesFields DEF KnowsNext, Known, Found, There, InLock, Finalizing, Undoing, Waiting
  <2>5. QED
    BY <2>2, <2>3, <2>4 DEF Takes
<1>3. QED
  BY <1>1, <1>2

LEMMA LeaveTakes ==
  ASSUME IInv, LInv, NEW r \in Requests, Leave(r)
  PROVE  Takes(r)
<1>1. CASE req[r].phase = "copy" /\ Goes(r, "failed") /\ UNCHANGED <<free, file, lock>>
  <2>1. Known(r, req[r], lock[req[r].dest])
    BY Before
  <2>2. Spares(r) /\ Remembers(r)
    BY <1>1, GoesFields DEF Spares, Remembers
  <2>3. KnowsNext(r)
    BY <1>1, <2>1, GoesFields DEF KnowsNext, Known, Found, There, InLock, Finalizing, Undoing, Waiting
  <2>4. QED
    BY <2>2, <2>3 DEF Takes
<1>2. QED
  BY <1>1, GivingUpTakes DEF Leave

LEMMA EndTakes ==
  ASSUME IInv, LInv, NEW r \in Requests, End(r) \/ ConnectionLost(r) \/ Disconnects(r)
  PROVE  Takes(r)
<1>1. req[r] \in Records
  BY Before
<1>2. file' = file /\ lock' \in {lock, Unlocked(r)}
  BY DEF End, ConnectionLost, Disconnects
<1>3. CASE End(r)
  <2> DEFINE t == [CleanedUp(req[r]) EXCEPT !.phase = "ended", !.ok = req[r].phase = "done"]
  <2>1. /\ t.phase = "ended" /\ t.dest = req[r].dest /\ t.from = req[r].from /\ t.kind = req[r].kind
        /\ t.detached = req[r].detached
    BY <1>1 DEF CleanedUp, Records
  <2>2. req'[r] = t
    BY <1>3 DEF IInv, End, Becomes
  <2> HIDE DEF t
  <2>3. QED
    BY <1>2, <2>1, <2>2, EndedTakes
<1>4. CASE ConnectionLost(r)
  <2>1. PICK ok \in BOOLEAN : Becomes(r, [req[r] EXCEPT !.phase = "ended", !.broken = TRUE, !.ok = ok])
    BY <1>4 DEF ConnectionLost
  <2> DEFINE t == [req[r] EXCEPT !.phase = "ended", !.broken = TRUE, !.ok = ok]
  <2>2. /\ t.phase = "ended" /\ t.dest = req[r].dest /\ t.from = req[r].from /\ t.kind = req[r].kind
        /\ t.detached = req[r].detached
    BY <1>1 DEF Records
  <2>3. req'[r] = t
    BY <2>1 DEF IInv, Becomes
  <2> HIDE DEF t
  <2>4. QED
    BY <1>2, <2>2, <2>3, EndedTakes
<1>5. CASE Disconnects(r)
  <2>1. Goes(r, "ended")
    BY <1>5 DEF Disconnects
  <2>2. QED
    BY <1>2, <2>1, GoesFields, EndedTakes
<1>6. QED
  BY <1>3, <1>4, <1>5

LEMMA FailureTakes ==
  ASSUME IInv, LInv, NEW r \in Requests, SftpFails(r)
  PROVE  Takes(r)
<1>1. /\ file' = file /\ lock' = lock /\ req[r] \in Records
      /\ Known(r, req[r], lock[req[r].dest])
      /\ Alone(r) => Found(r, req[r], file[req[r].dest])
      /\ Alone(r) /\ Unrenamed(r) => There(req[r], file[req[r].dest])
  BY Before DEF SftpFails
<1>2. req[r].phase \in {"act"} \cup Staging \cup Finalizing \cup Undoing
  BY DEF SftpFails
<1> DEFINE u == AfterFailure(req[r].phase)
<1> DEFINE b == req[r].phase \in Undoing
<1> DEFINE t == [req[r] EXCEPT !.phase = u, !.broken = b]
<1>3. /\ t.phase = u /\ t.broken = b
      /\ t.dest = req[r].dest /\ t.from = req[r].from /\ t.kind = req[r].kind
      /\ t.overwrite = req[r].overwrite /\ t.detached = req[r].detached /\ t.prev = req[r].prev
      /\ t.part = req[r].part /\ t.backup = req[r].backup /\ t.aside = req[r].aside
  <2> HIDE DEF u, b
  <2>1. QED
    BY <1>1 DEF Records
<1>4. req'[r] = t
  BY DEF IInv, SftpFails, Becomes
<1> HIDE DEF t
<1>5. Spares(r) /\ Remembers(r)
  BY <1>1, <1>3, <1>4 DEF Spares, Remembers
<1>6. KnowsNext(r)
  <2>1. CASE req[r].phase \in {"backup", "move"}
    <3>1. u = "undoStat" /\ b = FALSE
      BY <2>1 DEF AfterFailure, Undoing
    <3> HIDE DEF u, b
    <3>2. QED
      BY <1>1, <1>3, <1>4, <2>1, <3>1
      DEF KnowsNext, Known, Found, There, InLock, Finalizing, Undoing, Waiting
  <2>2. CASE req[r].phase = "remove"
    <3>1. u = "done" /\ b = FALSE
      BY <2>2 DEF AfterFailure, Undoing
    <3> HIDE DEF u, b
    <3>2. QED
      BY <1>1, <1>3, <1>4, <2>2, <3>1
      DEF KnowsNext, Known, Found, There, InLock, Finalizing, Undoing, Waiting
  <2>3. CASE req[r].phase \in Undoing
    <3>1. u = "failed" /\ b = TRUE
      BY <2>3 DEF AfterFailure, Undoing
    <3> HIDE DEF u, b
    <3>2. QED
      BY <1>1, <1>3, <1>4, <2>3, <3>1
      DEF KnowsNext, Known, Found, There, InLock, Finalizing, Undoing, Waiting
  <2>4. CASE req[r].phase \in {"act", "stat", "place", "swap"} \cup Staging
    <3>1. u = "failed" /\ b = FALSE
      BY <2>4 DEF AfterFailure, Undoing, Staging
    <3> HIDE DEF u, b
    <3>2. QED
      BY <1>1, <1>3, <1>4, <2>4, <3>1
      DEF KnowsNext, Known, Found, There, InLock, Finalizing, Undoing, Waiting, Staging
  <2>5. QED
    BY <1>2, <2>1, <2>2, <2>3, <2>4 DEF Finalizing
<1>7. QED
  BY <1>5, <1>6 DEF Takes

LEMMA TimeoutTakes ==
  ASSUME IInv, LInv, NEW r \in Requests, Timeout(r)
  PROVE  Takes(r)
<1>1. /\ req[r] \in Records /\ Known(r, req[r], lock[req[r].dest])
      /\ Alone(r) => Found(r, req[r], file[req[r].dest])
      /\ Alone(r) /\ Unrenamed(r) => There(req[r], file[req[r].dest])
  BY Before
<1>2. CASE TimesOutAtWork(r)
  <2>1. file' = file /\ lock' = lock
    BY <1>2 DEF TimesOutAtWork
  <2>2. CASE /\ req[r].phase \in {"act", "stat", "place", "swap", "done", "remove"} \cup Staging
             /\ Goes(r, "failed")
    <3>1. Spares(r) /\ Remembers(r)
      BY <2>1, <2>2, GoesFields DEF Spares, Remembers
    <3>2. KnowsNext(r)
      BY <1>1, <2>1, <2>2, GoesFields
      DEF KnowsNext, Known, Found, There, InLock, Finalizing, Undoing, Waiting, Staging
    <3>3. QED
      BY <3>1, <3>2 DEF Takes
  <2>3. CASE req[r].phase \in {"backup", "move", "remove"} /\ Goes(r, "undoStat")
    <3>1. Spares(r) /\ Remembers(r)
      BY <2>1, <2>3, GoesFields DEF Spares, Remembers
    <3>2. KnowsNext(r)
      BY <1>1, <2>1, <2>3, GoesFields
      DEF KnowsNext, Known, Found, There, InLock, Finalizing, Undoing, Waiting
    <3>3. QED
      BY <3>1, <3>2 DEF Takes
  <2>4. QED
    BY <1>2, <2>2, <2>3 DEF TimesOutAtWork
<1>3. CASE TimesOutInUndo(r)
  <2>1. req[r].phase \in Undoing /\ file' = file /\ lock' = Unlocked(r)
    BY <1>3 DEF TimesOutInUndo
  <2> DEFINE t == [req[r] EXCEPT !.detached = TRUE, !.part = Nothing]
  <2>2. /\ t.phase = req[r].phase /\ t.detached = TRUE /\ t.broken = req[r].broken
        /\ t.dest = req[r].dest /\ t.from = req[r].from /\ t.kind = req[r].kind
        /\ t.overwrite = req[r].overwrite /\ t.prev = req[r].prev
        /\ t.backup = req[r].backup /\ t.aside = req[r].aside
    BY <1>1 DEF Records
  <2>3. req'[r] = t
    BY <1>3 DEF IInv, TimesOutInUndo, Becomes
  <2> HIDE DEF t
  <2>4. Spares(r) /\ Remembers(r)
    BY <2>1, <2>2, <2>3, Before DEF Spares, Remembers, Unlocked
  <2>5. KnowsNext(r)
    BY <1>1, <2>1, <2>2, <2>3 DEF KnowsNext, Known, Found, There, InLock, Finalizing, Undoing, Waiting
  <2>6. QED
    BY <2>4, <2>5 DEF Takes
<1>4. QED
  BY <1>2, <1>3, GivingUpTakes DEF Timeout

LEMMA NextLInv == IInv /\ LInv /\ [Next]_vars => LInv'
<1> SUFFICES ASSUME IInv, LInv, [Next]_vars PROVE LInv'
  OBVIOUS
<1>1. CASE Next
  <2>1. PICK r \in Requests :
          Arrive(r) \/ Step(r) \/ Leave(r) \/ SftpFails(r) \/ ConnectionLost(r) \/ Timeout(r)
    BY <1>1 DEF Next
  <2>2. Moves(r)
    BY <2>1, WaitingSteps, StagingSteps, FinalSteps, UndoSteps, LeaveStep, EndSteps, FailureStep, TimeoutStep
    DEF Step
  <2>3. Takes(r)
    BY <2>1, WaitingTakes, StagingTakes, FinalTakes, UndoTakes, LeaveTakes, EndTakes, FailureTakes, TimeoutTakes
    DEF Step
  <2>4. QED
    BY <2>2, <2>3, TakesLInv
<1>2. CASE UNCHANGED vars
  BY <1>2 DEF vars, LInv, Alone, Unrenamed
<1>3. QED
  BY <1>1, <1>2

LEMMA InitLInv == Init => LInv
<1> SUFFICES ASSUME Init, NEW r \in Requests PROVE
      /\ Known(r, req[r], lock[req[r].dest])
      /\ Found(r, req[r], file[req[r].dest])
      /\ There(req[r], file[req[r].dest])
  BY DEF LInv
<1> DEFINE p == CHOOSE p \in Paths : TRUE
<1> DEFINE t == [Request("upload", p, p, FALSE) EXCEPT !.phase = "idle"]
<1>1. req[r] = t
  BY DEF Init
<1>2. /\ t.phase = "idle" /\ t.kind = "upload" /\ t.prev = Nothing /\ t.backup = Nothing
      /\ t.aside = Nothing /\ t.detached = FALSE
  <2> HIDE DEF p
  <2>1. QED
    BY DEF Request
<1> HIDE DEF t
<1>3. QED
  BY <1>1, <1>2 DEF Known, Found, There, InLock, Finalizing, Undoing, Waiting

-------------------------------------------------------------------------------
(* What a step may lose *)

\* Why content c may vanish in a step of r.
Excused(r, c) ==
  \/ req[r].phase = "undoClean" /\ (c = r \/ ~Alone(r))
  \/ req[r].kind = "delete" /\ req[r].phase = "act" /\ c = file[req[r].dest]
  \/ req[r].overwrite /\ req'[r].part = Nothing /\ c \in {file[req[r].dest], req[r].backup}

\* What vanishes was at a path that the step changes, or in a backup of the request itself.
LEMMA Vanishing ==
  ASSUME IInv, NEW r \in Requests, Moves(r), NEW c \in Stored, c \notin Stored'
  PROVE  /\ c \in {req[r].backup, req[r].aside} \/ \E p \in Paths : file[p] = c /\ file'[p] # c
         /\ c \notin {req'[r].backup, req'[r].aside} /\ \A p \in Paths : file'[p] # c
<1>1. \A q \in Requests : q # r => req'[q] = req[q]
  BY DEF IInv, Moves, Makes
<1>2. c \notin {req'[r].backup, req'[r].aside} /\ \A p \in Paths : file'[p] # c
  BY DEF Stored
<1>3. \A q \in Requests : q # r => c \notin {req[q].backup, req[q].aside}
  BY <1>1 DEF Stored
<1>4. QED
  BY <1>2, <1>3 DEF Stored

\* A step that neither writes to the server nor forgets a backup loses nothing.
LEMMA NothingVanishes ==
  ASSUME IInv, NEW r \in Requests, Moves(r), NEW c \in Stored, c \notin Stored', c # Nothing,
         file' = file, req'[r].backup = req[r].backup, req'[r].aside = req[r].aside
  PROVE  FALSE
BY Vanishing

LEMMA QuietLoses ==
  ASSUME IInv, LInv, NEW r \in Requests, Moves(r), NEW c \in Stored, c \notin Stored', c # Nothing,
         \/ Arrive(r) \/ Grant(r) \/ Enter(r) \/ GrantLock(r) \/ EnterLocked(r) \/ Leave(r)
         \/ Check(r) \/ Copy(r) \/ Stat(r) \/ UndoStat(r)
         \/ End(r) \/ Disconnects(r) \/ SftpFails(r) \/ ConnectionLost(r) \/ Timeout(r)
  PROVE  FALSE
<1>1. file' = file
  BY DEF Arrive, Grant, Enter, GrantLock, EnterLocked, Leave, GivesUpWaiting, GivesUpLock, Check, Copy,
     Stat, UndoStat, End, Disconnects, SftpFails, ConnectionLost, Timeout, TimesOutAtWork, TimesOutInUndo
<1>2. req[r] \in Records /\ Known(r, req[r], lock[req[r].dest])
  BY Before
<1>3. CASE Arrive(r)
  <2>1. req[r].backup = Nothing /\ req[r].aside = Nothing
    BY <1>2, <1>3 DEF Arrive, Known, Waiting
  <2>2. QED
    BY <1>1, <2>1, Vanishing
<1>4. ASSUME NEW p, Goes(r, p)
      PROVE  FALSE
  BY <1>1, <1>4, GoesFields, NothingVanishes
<1>5. CASE Copy(r) /\ Becomes(r, Staged(r))
  <2>1. req'[r] = Staged(r)
    BY <1>5 DEF IInv, Becomes
  <2>2. QED
    BY <1>1, <1>2, <2>1, NothingVanishes DEF Staged, Records
<1>6. CASE Stat(r)
  <2>1. PICK p \in Phases : req'[r] = [req[r] EXCEPT !.prev = file[req[r].dest], !.phase = p]
    BY <1>6 DEF Stat, IInv, Becomes, Phases, Finalizing
  <2>2. QED
    BY <1>1, <1>2, <2>1, NothingVanishes DEF Records
<1>7. CASE End(r)
  <2>1. req'[r] = [CleanedUp(req[r]) EXCEPT !.phase = "ended", !.ok = req[r].phase = "done"]
        /\ req[r].phase # "undoClean"
    BY <1>7 DEF End, IInv, Becomes
  <2>2. req'[r].backup = req[r].backup /\ req'[r].aside = req[r].aside
    BY <1>2, <2>1 DEF Records, CleanedUp
  <2>3. QED
    BY <1>1, <2>2, NothingVanishes
<1>8. CASE SftpFails(r)
  <2>1. req'[r] = [req[r] EXCEPT !.phase = AfterFailure(req[r].phase), !.broken = req[r].phase \in Undoing]
    BY <1>8 DEF SftpFails, IInv, Becomes
  <2>2. req'[r].backup = req[r].backup /\ req'[r].aside = req[r].aside
    BY <1>2, <2>1 DEF Records
  <2>3. QED
    BY <1>1, <2>2, NothingVanishes
<1>9. CASE ConnectionLost(r)
  <2>1. PICK ok \in BOOLEAN : req'[r] = [req[r] EXCEPT !.phase = "ended", !.broken = TRUE, !.ok = ok]
    BY <1>9 DEF ConnectionLost, IInv, Becomes
  <2>2. QED
    BY <1>1, <1>2, <2>1, NothingVanishes DEF Records
<1>10. CASE Timeout(r) /\ TimesOutInUndo(r)
  <2>1. req'[r] = [req[r] EXCEPT !.detached = TRUE, !.part = Nothing]
    BY <1>10 DEF TimesOutInUndo, IInv, Becomes
  <2>2. QED
    BY <1>1, <1>2, <2>1, NothingVanishes DEF Records
<1>11. CASE \/ Grant(r) \/ Enter(r) \/ GrantLock(r) \/ EnterLocked(r) \/ Leave(r)
            \/ Check(r) \/ (Copy(r) /\ ~Becomes(r, Staged(r))) \/ UndoStat(r) \/ Disconnects(r)
            \/ (Timeout(r) /\ ~TimesOutInUndo(r))
  <2>1. \E p : Goes(r, p)
    BY <1>11 DEF Grant, Enter, GrantLock, EnterLocked, Leave, Check, Copy, UndoStat, Disconnects,
       Timeout, TimesOutAtWork, GivesUpWaiting, GivesUpLock
  <2>2. QED
    BY <1>4, <2>1
<1>12. QED
  BY <1>3, <1>5, <1>6, <1>7, <1>8, <1>9, <1>10, <1>11

LEMMA WorkLoses ==
  ASSUME IInv, LInv, NEW r \in Requests, Moves(r), NEW c \in Stored, c \notin Stored', c # Nothing,
         \/ Act(r) \/ Place(r) \/ Swap(r) \/ Backup(r) \/ Move(r) \/ Remove(r)
         \/ UndoAside(r) \/ UndoBack(r) \/ UndoClean(r)
  PROVE  Excused(r, c)
<1>1. /\ req[r] \in Records /\ Known(r, req[r], lock[req[r].dest]) /\ file \in [Paths -> Contents]
      /\ req[r].dest \in Paths /\ req[r].from \in Paths
      /\ Alone(r) => Found(r, req[r], file[req[r].dest])
  BY Before
<1>2. /\ c \in {req[r].backup, req[r].aside} \/ \E p \in Paths : file[p] = c /\ file'[p] # c
      /\ c \notin {req'[r].backup, req'[r].aside} /\ \A p \in Paths : file'[p] # c
  BY Vanishing
<1>3. ASSUME file' = file, req'[r].backup = req[r].backup, req'[r].aside = req[r].aside
      PROVE  FALSE
  BY <1>3, NothingVanishes
<1>4. ASSUME NEW p, Goes(r, p), file' = file PROVE FALSE
  BY <1>3, <1>4, GoesFields
<1>5. CASE Act(r)
  <2>1. PICK p : Goes(r, p)
    BY <1>5 DEF Act
  <2>2. req'[r].backup = req[r].backup /\ req'[r].aside = req[r].aside
    BY <2>1, GoesFields
  <2>3. CASE req[r].kind = "delete" /\ file' = [file EXCEPT ![req[r].dest] = Nothing]
    <3>1. \E d \in Paths : file[d] = c /\ file'[d] # c
      BY <1>2, <2>2
    <3>2. c = file[req[r].dest]
      BY <1>1, <2>3, <3>1
    <3>3. QED
      BY <1>5, <2>3, <3>2 DEF Act, Excused
  <2>4. CASE file' = Renamed(r) /\ file[req[r].dest] = Nothing /\ file[req[r].from] # Nothing
    <3>1. PICK d \in Paths : file[d] = c /\ file'[d] # c
      BY <1>2, <2>2
    <3>2. req[r].from # req[r].dest
      BY <2>4
    <3>3. d = req[r].from
      BY <1>1, <2>4, <3>1 DEF Renamed
    <3>4. file'[req[r].dest] = c
      BY <1>1, <2>4, <3>1, <3>2, <3>3 DEF Renamed
    <3>5. QED
      BY <1>1, <1>2, <3>4
  <2>5. QED
    BY <1>4, <1>5, <2>1, <2>3, <2>4 DEF Act, Exists
<1>6. ASSUME NEW p \in {"done", "remove"}, Becomes(r, [req[r] EXCEPT !.phase = p, !.part = Nothing]),
             file' = Placed(r)
      PROVE  c = file[req[r].dest] /\ req'[r].part = Nothing
  <2> DEFINE t == [req[r] EXCEPT !.phase = p, !.part = Nothing]
  <2>1. t.backup = req[r].backup /\ t.aside = req[r].aside /\ t.part = Nothing
    BY <1>1 DEF Records
  <2>2. req'[r] = t
    BY <1>6 DEF IInv, Becomes
  <2> HIDE DEF t
  <2>3. PICK d \in Paths : file[d] = c /\ file'[d] # c
    BY <1>2, <2>1, <2>2
  <2>4. QED
    BY <1>1, <1>6, <2>1, <2>2, <2>3 DEF Placed
<1>7. CASE Place(r)
  BY <1>4, <1>6, <1>7 DEF Place, MayPlace
<1>8. CASE Swap(r)
  BY <1>1, <1>4, <1>6, <1>8 DEF Swap, Excused, Known
<1>9. CASE Move(r)
  BY <1>4, <1>6, <1>9 DEF Move
<1>10. CASE Backup(r)
  <2>1. CASE file[req[r].dest] = Nothing
    BY <1>4, <1>10, <2>1 DEF Backup
  <2>2. CASE file[req[r].dest] # Nothing
    <3>1. file' = MovedAside(r) /\ req'[r] = WithBackup(r) /\ req[r].phase = "backup"
      BY <1>10, <2>2 DEF Backup, IInv, Becomes
    <3>2. req'[r].backup = file[req[r].dest]
      BY <1>1, <3>1 DEF WithBackup, Records
    <3>3. req[r].backup = Nothing /\ req[r].aside = Nothing
      BY <1>1, <3>1 DEF Known, Finalizing
    <3>4. PICK d \in Paths : file[d] = c /\ file'[d] # c
      BY <1>2, <3>3
    <3>5. d = req[r].dest
      BY <1>1, <3>1, <3>4 DEF MovedAside
    <3>6. QED
      BY <1>2, <3>2, <3>4, <3>5
  <2>3. QED
    BY <2>1, <2>2
<1>11. CASE Remove(r)
  <2> DEFINE t == [req[r] EXCEPT !.phase = "done", !.backup = Nothing]
  <2>1. t.aside = req[r].aside /\ t.part = req[r].part
    BY <1>1 DEF Records
  <2>2. req'[r] = t /\ file' = file /\ req[r].phase = "remove"
    BY <1>11 DEF Remove, IInv, Becomes
  <2> HIDE DEF t
  <2>3. c = req[r].backup
    BY <1>2, <2>1, <2>2
  <2>4. req[r].overwrite /\ req'[r].part = Nothing
    BY <1>1, <2>1, <2>2 DEF Known
  <2>5. QED
    BY <2>3, <2>4 DEF Excused
<1>12. CASE UndoAside(r)
  <2>1. file' = MovedAside(r) /\ req[r].phase = "undoAside"
    BY <1>12 DEF UndoAside
  <2>2. req[r].aside = Nothing
    BY <1>1, <2>1 DEF Known
  <2>3. CASE file[req[r].dest] = Nothing
    <3> DEFINE t == [req[r] EXCEPT !.phase = "failed", !.broken = TRUE]
    <3>1. t.backup = req[r].backup /\ t.aside = req[r].aside
      BY <1>1 DEF Records
    <3>2. req'[r] = t
      BY <1>12, <2>3 DEF UndoAside, IInv, Becomes
    <3> HIDE DEF t
    <3>3. file' = file
      BY <1>1, <2>1, <2>3 DEF MovedAside
    <3>4. QED
      BY <1>3, <3>1, <3>2, <3>3
  <2>4. CASE file[req[r].dest] # Nothing
    <3> DEFINE t == [req[r] EXCEPT !.phase = "undoBack", !.aside = file[req[r].dest]]
    <3>1. t.backup = req[r].backup /\ t.aside = file[req[r].dest]
      BY <1>1 DEF Records
    <3>2. req'[r] = t
      BY <1>12, <2>4 DEF UndoAside, IInv, Becomes
    <3> HIDE DEF t
    <3>3. PICK d \in Paths : file[d] = c /\ file'[d] # c
      BY <1>2, <2>2, <3>1, <3>2
    <3>4. d = req[r].dest
      BY <1>1, <2>1, <3>3 DEF MovedAside
    <3>5. QED
      BY <1>2, <3>1, <3>2, <3>3, <3>4
  <2>5. QED
    BY <2>3, <2>4
<1>13. CASE UndoBack(r)
  <2>1. CASE file[req[r].dest] # Nothing
    <3> DEFINE t == [req[r] EXCEPT !.phase = "failed", !.broken = TRUE]
    <3>1. t.backup = req[r].backup /\ t.aside = req[r].aside
      BY <1>1 DEF Records
    <3>2. req'[r] = t /\ file' = file
      BY <1>13, <2>1 DEF UndoBack, IInv, Becomes
    <3> HIDE DEF t
    <3>3. QED
      BY <1>3, <3>1, <3>2
  <2>2. CASE file[req[r].dest] = Nothing
    <3> DEFINE t == [req[r] EXCEPT !.phase = "undoClean", !.backup = Nothing]
    <3>1. t.aside = req[r].aside
      BY <1>1 DEF Records
    <3>2. req'[r] = t /\ file' = [file EXCEPT ![req[r].dest] = req[r].backup]
      BY <1>13, <2>2 DEF UndoBack, IInv, Becomes
    <3> HIDE DEF t
    <3>3. c # req[r].aside /\ c # req[r].backup
      BY <1>1, <1>2, <3>1, <3>2
    <3>4. PICK d \in Paths : file[d] = c /\ file'[d] # c
      BY <1>2, <3>3
    <3>5. d = req[r].dest
      BY <1>1, <3>2, <3>4
    <3>6. QED
      BY <2>2, <3>4, <3>5
  <2>3. QED
    BY <2>1, <2>2
<1>14. CASE UndoClean(r)
  <2> DEFINE t == [CleanedUp(req[r]) EXCEPT !.phase = "failed"]
  <2>1. req[r].phase = "undoClean" /\ file' = file
    BY <1>14 DEF UndoClean
  <2>2. t.backup = req[r].backup
    BY <1>1, <2>1 DEF Records, CleanedUp
  <2>3. req'[r] = t
    BY <1>14 DEF UndoClean, IInv, Becomes
  <2> HIDE DEF t
  <2>4. c = req[r].aside
    BY <1>2, <2>1, <2>2, <2>3
  <2>5. Alone(r) => c = r
    BY <1>1, <2>1, <2>4 DEF Found
  <2>6. QED
    BY <2>1, <2>5 DEF Excused
<1>15. QED
  BY <1>5, <1>7, <1>8, <1>9, <1>10, <1>11, <1>12, <1>13, <1>14

LEMMA StepLoses ==
  ASSUME IInv, LInv, Next, NEW c \in Stored, c \notin Stored', c # Nothing
  PROVE  \E r \in Requests : Excused(r, c)
<1>1. PICK r \in Requests :
        Arrive(r) \/ Step(r) \/ Leave(r) \/ SftpFails(r) \/ ConnectionLost(r) \/ Timeout(r)
  BY DEF Next
<1>2. Moves(r)
  BY <1>1, WaitingSteps, StagingSteps, FinalSteps, UndoSteps, LeaveStep, EndSteps, FailureStep, TimeoutStep
  DEF Step
<1>3. Excused(r, c)
  BY <1>1, <1>2, QuietLoses, WorkLoses DEF Step
<1>4. QED
  BY <1>3

LEMMA StepSurvives ==
  ASSUME IInv, LInv, Next, NEW r \in Requests, EndsOverwriting(r), Alone(r)
  PROVE  file[req[r].dest] # Nothing
<1>1. PICK q \in Requests :
        Arrive(q) \/ Step(q) \/ Leave(q) \/ SftpFails(q) \/ ConnectionLost(q) \/ Timeout(q)
  BY DEF Next
<1>2. Moves(q)
  BY <1>1, WaitingSteps, StagingSteps, FinalSteps, UndoSteps, LeaveStep, EndSteps, FailureStep, TimeoutStep
  DEF Step
<1>3. q = r
  BY <1>2 DEF Moves, Makes, IInv, EndsOverwriting
<1>4. /\ req[r] \in Records /\ Known(r, req[r], lock[req[r].dest]) /\ ~req[r].detached
      /\ There(req[r], file[req[r].dest])
  BY Before DEF EndsOverwriting, Unrenamed
<1>5. req[r].phase \notin Waiting \cup {"lockGranted", "act", "stat", "place"} /\ req'[r].phase = "ended"
  BY <1>4 DEF Known, EndsOverwriting
<1>6. CASE End(r)
  <2> DEFINE t == [CleanedUp(req[r]) EXCEPT !.phase = "ended", !.ok = req[r].phase = "done"]
  <2>1. t.broken = req[r].broken
    BY <1>4 DEF CleanedUp, Records
  <2>2. req'[r] = t
    BY <1>6 DEF End, IInv, Becomes
  <2> HIDE DEF t
  <2>3. ~req[r].broken /\ req[r].prev # Nothing /\ req[r].phase \in {"done", "failed"}
    BY <1>6, <2>1, <2>2 DEF EndsOverwriting, End
  <2>4. QED
    BY <1>4, <2>3 DEF There
<1>7. CASE ConnectionLost(r)
  <2>1. PICK ok \in BOOLEAN : req'[r] = [req[r] EXCEPT !.phase = "ended", !.broken = TRUE, !.ok = ok]
    BY <1>7 DEF ConnectionLost, IInv, Becomes
  <2>2. req'[r].broken
    BY <1>4, <2>1 DEF Records
  <2>3. QED
    BY <2>2 DEF EndsOverwriting
<1>8. ASSUME NEW p, Goes(r, p), p # "ended" PROVE FALSE
  BY <1>5, <1>8, GoesFields
<1>9. ASSUME NEW t, t.phase # "ended", Becomes(r, t) PROVE FALSE
  <2>1. req'[r] = t
    BY <1>9 DEF IInv, Becomes
  <2>2. QED
    BY <1>5, <1>9, <2>1
<1>10. ~(Swap(r) \/ Backup(r) \/ Move(r) \/ Remove(r))
  <2>1. /\ [req[r] EXCEPT !.phase = "done", !.part = Nothing].phase = "done"
        /\ [req[r] EXCEPT !.phase = "remove", !.part = Nothing].phase = "remove"
        /\ [req[r] EXCEPT !.phase = "done", !.backup = Nothing].phase = "done"
        /\ WithBackup(r).phase = "move"
    BY <1>4 DEF Records, WithBackup
  <2>2. QED
    BY <1>8, <1>9, <2>1 DEF Swap, Backup, Move, Remove
<1>11. ~(UndoStat(r) \/ UndoAside(r) \/ UndoBack(r) \/ UndoClean(r))
  <2>1. /\ [req[r] EXCEPT !.phase = "failed", !.broken = TRUE].phase = "failed"
        /\ [req[r] EXCEPT !.phase = "undoBack", !.aside = file[req[r].dest]].phase = "undoBack"
        /\ [req[r] EXCEPT !.phase = "undoClean", !.backup = Nothing].phase = "undoClean"
        /\ [CleanedUp(req[r]) EXCEPT !.phase = "failed"].phase = "failed"
    BY <1>4 DEF Records, CleanedUp
  <2>2. ~UndoStat(r)
    BY <1>8 DEF UndoStat
  <2>3. ~UndoAside(r) /\ ~UndoBack(r) /\ ~UndoClean(r)
    BY <1>9, <2>1 DEF UndoAside, UndoBack, UndoClean
  <2>4. QED
    BY <2>2, <2>3
<1>12. ~SftpFails(r)
  <2> SUFFICES ASSUME SftpFails(r) PROVE FALSE
    OBVIOUS
  <2>1. req'[r] = [req[r] EXCEPT !.phase = AfterFailure(req[r].phase), !.broken = req[r].phase \in Undoing]
    BY DEF SftpFails, IInv, Becomes
  <2>2. req'[r].phase = AfterFailure(req[r].phase)
    BY <1>4, <2>1 DEF Records
  <2>3. AfterFailure(req[r].phase) # "ended"
    BY DEF AfterFailure
  <2>4. QED
    BY <1>5, <2>2, <2>3
<1>13. ~Timeout(r)
  <2>1. ~GivesUpWaiting(r) /\ ~GivesUpLock(r)
    BY <1>5 DEF GivesUpWaiting, GivesUpLock, Waiting
  <2>2. ~TimesOutAtWork(r)
    BY <1>8 DEF TimesOutAtWork
  <2>3. req[r].phase \in Undoing => [req[r] EXCEPT !.detached = TRUE, !.part = Nothing].phase # "ended"
    BY <1>4 DEF Records, Undoing
  <2>4. ~TimesOutInUndo(r)
    BY <1>9, <2>3 DEF TimesOutInUndo
  <2>5. QED
    BY <2>1, <2>2, <2>4 DEF Timeout
<1>14. ~(\/ Arrive(r) \/ Grant(r) \/ Enter(r) \/ GrantLock(r) \/ EnterLocked(r) \/ Leave(r)
         \/ Check(r) \/ Copy(r) \/ Act(r) \/ Stat(r) \/ Place(r) \/ Disconnects(r))
  BY <1>4, <1>5 DEF Arrive, Grant, Enter, GrantLock, EnterLocked, Leave, GivesUpWaiting, GivesUpLock,
     Check, Copy, Act, Stat, Place, Disconnects, Waiting
<1>15. QED
  BY <1>1, <1>3, <1>6, <1>7, <1>10, <1>11, <1>12, <1>13, <1>14 DEF Step

-------------------------------------------------------------------------------
(* The theorems *)

LEMMA Inductive == Spec => []IInv
BY InitIInv, NextIInv, PTL DEF Spec

\* Every variable keeps its type; in particular the semaphore's value never exceeds its size
\* (disconnect_aware_semaphore).
THEOREM TypeCorrect == Spec => []TypeOK
BY Inductive, IInvTypeOK, PTL

\* Whoever leaves, fails or times out at whichever moment, a slot is given back exactly once
\* (disconnect_aware_semaphore).
THEOREM SlotConservation == Spec => []SlotsAreConserved
<1>1. IInv => SlotsAreConserved
  BY DEF IInv
<1> QED
  BY <1>1, Inductive, PTL

\* Whatever happens between its two checks, finalize_sftp_file replaces a file only for a
\* request with overwrite.
THEOREM ReplacementIsAsked == Spec => NoSilentReplacement
<1> DEFINE A == \A p \in Paths : Nothing \notin {file[p], file'[p]} /\ file'[p] # file[p] =>
                  \E r \in Requests : req'[r] # req[r] /\ req[r].dest = p /\ req[r].overwrite
<1>1. IInv /\ [Next]_vars => [A]_vars
  BY StepReplaces DEF vars
<1> QED
  BY <1>1, Inductive, PTL DEF Spec, NoSilentReplacement

\* With the POSIX rename extension a file vanishes only in a delete or a rename
\* (finalize_sftp_file).
THEOREM NoGapOnReplace == Spec => NoGap
<1> DEFINE A == posix => \A p \in Paths : file[p] # Nothing /\ file'[p] = Nothing =>
                  \E r \in Requests : req[r].phase = "act" /\ p \in {req[r].dest, req[r].from}
<1>1. IInv /\ [Next]_vars => [A]_vars
  BY StepGap DEF vars
<1> QED
  BY <1>1, Inductive, PTL DEF Spec, NoGap

LEMMA DestinationsAreKnown == Spec => [](IInv /\ LInv)
<1>1. Init => IInv /\ LInv
  BY InitIInv, InitLInv
<1>2. (IInv /\ LInv) /\ [Next]_vars => (IInv /\ LInv)'
  BY NextIInv, NextLInv
<1>3. QED
  BY <1>1, <1>2, PTL DEF Spec

\* Whatever is cancelled or breaks between the renames of finalize_sftp_file, no content vanishes
\* that was not deleted, replaced by request or just uploaded, as long as no rollback works on the
\* destination in the background.
THEOREM NothingLost == Spec => NothingIsLost
<1> DEFINE A == \A c \in (Stored \ Stored') \ {Nothing} : \E r \in Requests :
                  \/ req[r].phase = "undoClean" /\ (c = r \/ ~Alone(r))
                  \/ req[r].kind = "delete" /\ req[r].phase = "act" /\ c = file[req[r].dest]
                  \/ req[r].overwrite /\ req'[r].part = Nothing /\ c \in {file[req[r].dest], req[r].backup}
<1>1. ASSUME IInv, LInv, [Next]_vars PROVE [A]_vars
  BY <1>1, StepLoses DEF vars, Excused
<1>2. QED
  BY <1>1, DestinationsAreKnown, PTL DEF Spec, NothingIsLost

\* An overwriting request that ends leaves its destination in place, the previous file or the new
\* one, however its finalization failed (finalize_sftp_file).
THEOREM DestinationIsKept == Spec => DestinationSurvives
<1> DEFINE A == \A r \in Requests : EndsOverwriting(r) /\ Alone(r) => file[req[r].dest] # Nothing
<1>1. ASSUME IInv, LInv, [Next]_vars PROVE [A]_vars
  BY <1>1, StepSurvives DEF vars
<1>2. QED
  BY <1>1, DestinationsAreKnown, PTL DEF Spec, DestinationSurvives
=================================================================================
