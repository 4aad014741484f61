------------------------- MODULE NodeProvisioningProofs -------------------------
(***************************************************************************)
(* What TLAPS proves about NodeProvisioning, for any rows, servers, number *)
(* of files, attempts and faults: an installation loses nothing that was   *)
(* on the server, keeps an enrolled Agent enrolled, is rolled back as a    *)
(* whole, and is reported as completed when the new Agent runs.            *)
(***************************************************************************)
EXTENDS NodeProvisioning, TLAPS

AttemptRecords ==
  [phase : Phases, host : Servers \cup {None}, item : Items,
   number : Versions, old : Versions, new : Versions,
   backup : [Items -> Versions], backed : SUBSET Items, installed : SUBSET Items,
   reached : SUBSET Items, changed : BOOLEAN, restarted : BOOLEAN, wasActive : BOOLEAN,
   seen : BOOLEAN, before : [Items -> Versions], faulty : BOOLEAN, unsure : BOOLEAN,
   closing : BOOLEAN]

RowRecords ==
  [status : {"none", "provisioning", "completed", "failed"}, token : Versions,
   host : Servers \cup {None}]

AgentRecords == [started : BOOLEAN, token : Versions, program : Versions]

Types ==
  /\ row \in [Rows -> RowRecords]
  /\ disk \in [Servers -> [Items -> Versions]]
  /\ agent \in [Servers -> AgentRecords]
  /\ task \in [Rows -> AttemptRecords]
  /\ deleting \subseteq Rows
  /\ attempts \in 0 .. MaxAttempts
  /\ faults \in 0 .. MaxFaults

\* An attempt that has the lock of its endpoint.
Holds(t) == t.phase \notin {"none", "queued"} /\ t.host # None

Touching == Installing \cup Undoing

\* An attempt that has touched its server, or is about to.
AtWork(t) == t.phase \in Touching \/ (t.phase = "failed" /\ t.reached # {})

Early == {"none", "queued", "read", "stage"}

\* Nothing has happened yet.
Untouched(t) ==
  /\ t.reached = {} /\ t.installed = {} /\ t.backed = {}
  /\ ~t.changed /\ ~t.restarted /\ ~t.unsure

\* Existing rows have a token; an attempt knows the token it read and the one it brings.
Tokens(t, w) ==
  /\ w.status = "none" <=> w.host = None
  /\ w.status # "none" => w.token # None
  /\ t.phase # "none" => t.number # None
  /\ t.phase \in {"queued", "read"} => t.new = None
  /\ t.phase = "queued" => t.host = None
  /\ t.phase \in Touching \cup {"read", "stage", "cleanup"} => t.host # None
  /\ Holds(t) => t.old # None /\ (w.status # "none" => w.token \in {t.old, t.new})
  /\ t.phase \in Touching /\ t.changed => t.new # t.old

\* One attempt per server.
Exclusive ==
  \A r, q \in Rows : r # q /\ Holds(task[r]) /\ Holds(task[q]) => task[r].host # task[q].host

\* How far an attempt has come.
Position(t) ==
  /\ t.phase \in Installing => ~t.unsure
  /\ t.phase = "backup" => t.reached = 1 .. (t.item - 1) /\ t.installed = t.reached
  /\ t.phase = "install" => t.reached = 1 .. t.item /\ t.installed = 1 .. (t.item - 1)
  /\ t.phase \in {"token", "restart", "await"} => t.reached = Items /\ t.installed = Items
  /\ t.phase \in {"await", "undoStop"} => t.restarted
  /\ t.phase = "failed" /\ t.reached # {} => t.host # None

\* The rollback has yet to come to item i.
ToUndo(t, i) ==
  t.phase \in Installing \cup {"undoStop"} \/ (t.phase = "undoItem" /\ i <= t.item)

New(t, i) == IF i = Config THEN t.new ELSE t.number

\* What is known of an item: where its earlier content is, and what is in its place.
ItemKept(t, d, i) ==
  /\ i \in t.installed \cup t.backed => i \in t.reached
  /\ i \in t.reached /\ ToUndo(t, i) =>
       t.backup[i] = t.before[i] /\ (i \in t.backed <=> t.before[i] # None)
  /\ ~t.unsure /\ i \notin t.reached => d[i] = t.before[i]
  /\ ~t.unsure /\ i \in t.reached /\ ToUndo(t, i) =>
       d[i] = IF i \in t.installed THEN New(t, i) ELSE IF i = Venv THEN None ELSE t.before[i]
  /\ ~t.unsure /\ i \in t.reached /\ ~ToUndo(t, i) =>
       d[i] = t.before[i] \/ ((t.faulty \/ t.closing) /\ t.backup[i] = t.before[i])

\* The token that an attempt brings is the one it found on the server, if any.
Brings(t, d) ==
  /\ t.phase = "stage" => t.new = IF d[Config] = None THEN t.number ELSE d[Config]
  /\ t.phase \in Touching => t.new = IF t.before[Config] = None THEN t.number ELSE t.before[Config]

\* An enrolled Agent's configuration holds its token throughout.
ConfigKept(t, d) == t.phase \in Touching /\ t.before[Config] = t.old => d[Config] = t.old

\* The service is as it was found until it is restarted, and after the rollback.
ServiceKept(t, a) ==
  /\ t.phase \in Touching /\ ~t.restarted => a.started = t.wasActive
  /\ t.phase = "failed" /\ t.reached # {} /\ ~t.faulty /\ ~t.closing => a.started = t.wasActive

Sound(t, w) ==
  /\ Tokens(t, w)
  /\ t.phase \in Early => Untouched(t)
  /\ Position(t)
  /\ t.installed \cup t.backed \subseteq t.reached

Server(t, d, a) ==
  /\ AtWork(t) => \A i \in Items : ItemKept(t, d, i)
  /\ Brings(t, d)
  /\ ConfigKept(t, d)
  /\ ServiceKept(t, a)
  /\ t.phase = "await" => a = Loaded(d)

IInv ==
  /\ Types
  /\ Exclusive
  /\ \A r \in Rows : Sound(task[r], row[r])
  /\ \A r \in Rows : Holds(task[r]) => Server(task[r], disk[task[r].host], agent[task[r].host])

-------------------------------------------------------------------------------
LEMMA Numbers ==
  /\ Items = 1 .. Venv /\ Venv \in Nat /\ 1 \in Items /\ Config \in Items /\ Venv \in Items
  /\ Config # Venv /\ None \in Versions
BY SizeAssumption DEF Items, Venv, Config, Versions, Foreign, None

(* A step of the attempt of row r makes it t, and touches its own server only. *)

Local(r, t) ==
  /\ task' = [task EXCEPT ![r] = t] /\ t \in AttemptRecords
  /\ Holds(t) => Holds(task[r]) /\ t.host = task[r].host
  /\ row' \in [Rows -> RowRecords] /\ \A q \in Rows \ {r} : row'[q] = row[q]
  /\ disk' \in [Servers -> [Items -> Versions]] /\ agent' \in [Servers -> AgentRecords]
  /\ \A s \in Servers : disk'[s] # disk[s] \/ agent'[s] # agent[s] => Holds(t) /\ s = t.host
  /\ deleting' \subseteq Rows /\ attempts' \in 0 .. MaxAttempts /\ faults' \in 0 .. MaxFaults
  /\ Sound(t, row'[r])
  /\ Holds(t) => Server(t, disk'[t.host], agent'[t.host])

LEMMA LocalIInv ==
  ASSUME IInv, NEW r \in Rows, NEW t, Local(r, t)
  PROVE  IInv'
<1>1. /\ task \in [Rows -> AttemptRecords] /\ task'[r] = t
      /\ \A q \in Rows \ {r} : task'[q] = task[q] /\ row'[q] = row[q]
  BY DEF IInv, Types, Local
<1>2. Types'
  BY <1>1 DEF IInv, Types, Local
<1>3. Exclusive'
  BY <1>1 DEF IInv, Exclusive, Local
<1>4. \A q \in Rows : Sound(task[q], row[q])'
  <2>1. Sound(t, row'[r]) /\ \A q \in Rows : Sound(task[q], row[q])
    BY DEF IInv, Local
  <2> QED
    BY <1>1, <2>1
<1>5. ASSUME NEW q \in Rows \ {r}, Holds(task[q])
      PROVE  disk'[task[q].host] = disk[task[q].host] /\ agent'[task[q].host] = agent[task[q].host]
  <2>1. task[q].host \in Servers
    BY <1>1, <1>5 DEF Holds, AttemptRecords
  <2>2. Holds(t) => task[q].host # t.host
    BY <1>5 DEF IInv, Exclusive, Local
  <2> QED
    BY <2>1, <2>2 DEF Local
<1>6. ASSUME NEW q \in Rows, Holds(task'[q])
      PROVE  Server(task'[q], disk'[task'[q].host], agent'[task'[q].host])
  <2>1. CASE q = r
    BY <1>1, <1>6, <2>1 DEF Local
  <2>2. CASE q # r
    BY <1>1, <1>5, <1>6, <2>2 DEF IInv
  <2> QED
    BY <2>1, <2>2
<1> QED
  BY <1>2, <1>3, <1>4, <1>6 DEF IInv

LEMMA Facts ==
  ASSUME IInv, NEW r \in Rows
  PROVE  /\ task[r] \in AttemptRecords /\ row[r] \in RowRecords /\ Sound(task[r], row[r])
         /\ Holds(task[r]) =>
              /\ task[r].host \in Servers
              /\ disk[task[r].host] \in [Items -> Versions] /\ agent[task[r].host] \in AgentRecords
              /\ Server(task[r], disk[task[r].host], agent[task[r].host])
<1>1. task[r] \in AttemptRecords /\ row[r] \in RowRecords
  BY DEF IInv, Types
<1>2. Holds(task[r]) => task[r].host \in Servers
  BY <1>1 DEF Holds, AttemptRecords
<1> QED
  BY <1>1, <1>2 DEF IInv, Types

\* A step that leaves the server alone.
LEMMA QuietStep ==
  ASSUME IInv, NEW r \in Rows, NEW t \in AttemptRecords,
         task' = [task EXCEPT ![r] = t],
         Holds(t) => Holds(task[r]) /\ t.host = task[r].host,
         row' = row \/ \E w \in RowRecords : row' = [row EXCEPT ![r] = w],
         UNCHANGED <<disk, agent>>,
         deleting' \subseteq Rows, attempts' \in 0 .. MaxAttempts, faults' \in 0 .. MaxFaults,
         Sound(t, row'[r]),
         Holds(t) => Server(t, disk[t.host], agent[t.host])
  PROVE  IInv'
<1>1. row' \in [Rows -> RowRecords] /\ \A q \in Rows \ {r} : row'[q] = row[q]
  BY DEF IInv, Types
<1>2. Local(r, t)
  BY <1>1 DEF IInv, Types, Local
<1> QED
  BY <1>2, LocalIInv

LEMMA ReadSteps ==
  ASSUME IInv, NEW r \in Rows, ReadConfig(r) \/ Stage(r)
  PROVE  IInv'
<1> DEFINE t0 == task[r]
           d == disk[t0.host]
<1>1. Sound(t0, row[r]) /\ t0 \in AttemptRecords /\ Holds(t0) /\ Untouched(t0)
  BY Facts DEF ReadConfig, Stage, Sound, Tokens, Early, Holds
<1>2. t0.host \in Servers /\ d \in [Items -> Versions] /\ Server(t0, d, agent[t0.host])
  BY <1>1, Facts
<1>3. Config \in Items /\ 1 \in Items
  BY SizeAssumption DEF Config, Items, Venv
<1>4. CASE ReadConfig(r)
  <2> DEFINE t == [t0 EXCEPT !.phase = IF Refused(r, d[Config]) THEN "failed" ELSE "stage",
                             !.new = TokenFor(r, d[Config])]
  <2>1. TokenFor(r, d[Config]) \in Versions
    BY <1>1, <1>2, <1>3 DEF TokenFor, AttemptRecords
  <2>2. t \in AttemptRecords
    BY <1>1, <2>1 DEF AttemptRecords, Phases
  <2>3. Holds(t) /\ t.host = t0.host /\ t.phase \in {"failed", "stage"} /\ t.new = TokenFor(r, d[Config])
        /\ t.old = t0.old /\ t.number = t0.number /\ t.reached = {} /\ Untouched(t) /\ t.item = t0.item
    BY <1>1 DEF AttemptRecords, Untouched, Holds
  <2> HIDE DEF t
  <2>4. Sound(t, row[r])
    <3>1. row[r].status # "none" => row[r].token = t0.old
      BY <1>1, <1>4 DEF Sound, Tokens, ReadConfig
    <3>2. Tokens(t, row[r])
      BY <1>1, <1>4, <2>3, <3>1 DEF Sound, Tokens, Touching, Installing, Undoing, ReadConfig, Holds
    <3> QED
      BY <2>3, <3>2 DEF Sound, Position, Installing, Untouched
  <2>5. Server(t, d, agent[t.host])
    BY <2>3 DEF Server, AtWork, Brings, ConfigKept, ServiceKept, Touching, Installing, Undoing, TokenFor
  <2>6. /\ task' = [task EXCEPT ![r] = t]
        /\ UNCHANGED <<row, disk, agent, deleting, counters>>
    BY <1>4 DEF ReadConfig, Keeps, t
  <2> QED
    BY <1>1, <2>2, <2>3, <2>4, <2>5, <2>6, QuietStep DEF counters, IInv, Types
<1>5. CASE Stage(r)
  <2> DEFINE t == [t0 EXCEPT !.phase = "backup", !.item = 1, !.before = d,
                             !.wasActive = agent[t0.host].started]
  <2>1. agent[t0.host].started \in BOOLEAN
    BY <1>1, Facts DEF AgentRecords
  <2>2. t \in AttemptRecords
    BY <1>1, <1>2, <1>3, <2>1 DEF AttemptRecords, Phases, Installing
  <2>3. Holds(t) /\ t.host = t0.host /\ t.phase = "backup" /\ t.new = t0.new
        /\ t.old = t0.old /\ t.number = t0.number /\ t.reached = {} /\ Untouched(t) /\ t.item = 1
        /\ t.before = d /\ t.wasActive = agent[t0.host].started
    BY <1>1 DEF AttemptRecords, Untouched, Holds
  <2> HIDE DEF t
  <2>4. Sound(t, row[r])
    <3>1. Tokens(t, row[r])
      BY <1>1, <1>5, <2>3 DEF Sound, Tokens, Stage, Holds, Untouched
    <3>2. Position(t)
      BY <2>3 DEF Position, Untouched, Installing
    <3> QED
      BY <2>3, <3>1, <3>2 DEF Sound, Early, Untouched
  <2>5. Server(t, d, agent[t.host])
    <3>1. t.new = IF d[Config] = None THEN t.number ELSE d[Config]
      BY <1>2, <1>5, <2>3 DEF Stage, Server, Brings
    <3>2. \A i \in Items : ItemKept(t, d, i)
      BY <2>3 DEF ItemKept, Untouched
    <3>3. t.before[Config] = t.old => d[Config] = t.old
      BY <2>3
    <3> QED
      BY <2>3, <3>1, <3>2, <3>3 DEF Server, Brings, ConfigKept, ServiceKept
  <2>6. /\ task' = [task EXCEPT ![r] = t]
        /\ UNCHANGED <<row, disk, agent, deleting, counters>>
    BY <1>5 DEF Stage, Keeps, t
  <2> QED
    BY <1>1, <2>2, <2>3, <2>4, <2>5, <2>6, QuietStep DEF counters, IInv, Types
<1> QED
  BY <1>4, <1>5

\* A step that may change the server's disk and service.
LEMMA ServerStep ==
  ASSUME IInv, NEW r \in Rows, NEW t \in AttemptRecords,
         NEW d \in [Items -> Versions], NEW a \in AgentRecords,
         task' = [task EXCEPT ![r] = t],
         Holds(t), Holds(task[r]), t.host = task[r].host,
         disk' = [disk EXCEPT ![t.host] = d], agent' = [agent EXCEPT ![t.host] = a],
         UNCHANGED <<row, deleting, attempts>>, faults' \in 0 .. MaxFaults,
         Sound(t, row[r]), Server(t, d, a)
  PROVE  IInv'
<1>1. t.host \in Servers
  BY Facts
<1>2. disk'[t.host] = d /\ agent'[t.host] = a
  BY <1>1 DEF IInv, Types
<1>3. disk' \in [Servers -> [Items -> Versions]] /\ agent' \in [Servers -> AgentRecords]
  BY <1>1 DEF IInv, Types
<1>4. \A s \in Servers : disk'[s] # disk[s] \/ agent'[s] # agent[s] => s = t.host
  BY DEF IInv, Types
<1>5. Local(r, t)
  BY <1>2, <1>3, <1>4 DEF IInv, Types, Local
<1> QED
  BY <1>5, LocalIInv

\* A step that leaves an item alone.
LEMMA SameItem ==
  ASSUME NEW t0, NEW t, NEW d0, NEW d, NEW i, ItemKept(t0, d0, i),
         d[i] = d0[i], t.backup[i] = t0.backup[i], t.before[i] = t0.before[i],
         i \in t.reached <=> i \in t0.reached, i \in t.installed <=> i \in t0.installed,
         i \in t.backed <=> i \in t0.backed, t0.unsure => t.unsure,
         t0.faulty \/ t0.closing => t.faulty \/ t.closing,
         t.new = t0.new, t.number = t0.number, ToUndo(t, i) <=> ToUndo(t0, i)
  PROVE  ItemKept(t, d, i)
BY DEF ItemKept, New

LEMMA BackUpStep ==
  ASSUME IInv, NEW r \in Rows, BackUp(r)
  PROVE  IInv'
<1> DEFINE t0 == task[r]
           h == t0.host
           i0 == t0.item
           c == disk[h][i0]
           d == [disk[h] EXCEPT ![i0] = IF i0 = Venv THEN None ELSE @]
           t == [t0 EXCEPT !.phase = "install", !.reached = @ \cup {i0}, !.backup[i0] = c,
                           !.backed = IF c = None THEN @ ELSE @ \cup {i0}]
<1>1. Sound(t0, row[r]) /\ t0 \in AttemptRecords /\ Holds(t0)
  BY Facts DEF BackUp, Sound, Tokens, Touching, Installing, Holds
<1>2. h \in Servers /\ disk[h] \in [Items -> Versions] /\ agent[h] \in AgentRecords
      /\ Server(t0, disk[h], agent[h])
  BY <1>1, Facts
<1>3. i0 \in Items /\ t0.phase = "backup" /\ None \in Versions /\ Items \subseteq Int
  BY <1>1, SizeAssumption DEF AttemptRecords, BackUp, Versions, Foreign, Items, None, Venv
<1>4. c \in Versions /\ d \in [Items -> Versions]
  BY <1>2, <1>3
<1>5. t \in AttemptRecords
  BY <1>1, <1>3, <1>4 DEF AttemptRecords, Phases, Installing
<1>6. /\ t.phase = "install" /\ t.host = h /\ t.item = i0 /\ t.number = t0.number /\ t.old = t0.old
      /\ t.new = t0.new /\ t.reached = t0.reached \cup {i0} /\ t.installed = t0.installed
      /\ t.changed = t0.changed /\ t.restarted = t0.restarted /\ t.unsure = t0.unsure
      /\ t.wasActive = t0.wasActive /\ t.before = t0.before /\ t.faulty = t0.faulty
      /\ t.closing = t0.closing
      /\ t.backup = [t0.backup EXCEPT ![i0] = c]
      /\ t.backed = IF c = None THEN t0.backed ELSE t0.backed \cup {i0}
  BY <1>1 DEF AttemptRecords
<1>7. /\ task' = [task EXCEPT ![r] = t]
      /\ disk' = [disk EXCEPT ![h] = d] /\ agent' = [agent EXCEPT ![h] = agent[h]]
      /\ UNCHANGED <<row, deleting, attempts, faults>>
  BY <1>2, <1>3 DEF BackUp, BackedUp, Keeps, counters, IInv, Types
<1> HIDE DEF t, d
<1>8. Sound(t, row[r])
  <2>1. Tokens(t, row[r]) /\ Holds(t)
    BY <1>1, <1>3, <1>6 DEF Sound, Tokens, Holds, Touching, Installing
  <2>2. Position(t)
    BY <1>1, <1>3, <1>6, SizeAssumption DEF Sound, Position, Installing, Items, Venv
  <2> QED
    BY <1>1, <1>6, <2>1, <2>2 DEF Sound, Early
<1>9. Server(t, d, agent[h])
  <2>1. \A i \in Items : ItemKept(t0, disk[h], i)
    BY <1>2, <1>3 DEF Server, AtWork, Touching, Installing
  <2>2. ~t0.unsure /\ i0 \notin t0.reached
    <3>1. ~t0.unsure /\ t0.reached = 1 .. (i0 - 1) /\ i0 \in Int
      BY <1>1, <1>3 DEF Sound, Position, Installing
    <3> QED
      BY <3>1
  <2>3. ASSUME NEW i \in Items
        PROVE  ItemKept(t, d, i)
    <3>1. CASE i = i0
      <4>1. d[i] = (IF i0 = Venv THEN None ELSE c) /\ t.backup[i] = c
        BY <1>1, <1>2, <1>6, <3>1 DEF AttemptRecords, d
      <4>2. c = t0.before[i] /\ i \notin t0.backed /\ i \notin t0.installed
        BY <2>1, <2>2, <3>1 DEF ItemKept
      <4> QED
        BY <1>3, <1>6, <3>1, <4>1, <4>2 DEF ItemKept, ToUndo, Installing
    <3>2. CASE i # i0
      <4>1. d[i] = disk[h][i] /\ t.backup[i] = t0.backup[i]
        BY <1>1, <1>2, <1>6, <3>2 DEF AttemptRecords, d
      <4> QED
        BY <1>3, <1>6, <2>1, <3>2, <4>1, SameItem DEF ToUndo, Installing
    <3> QED
      BY <3>1, <3>2
  <2>4. Brings(t, d) /\ ServiceKept(t, agent[h])
    BY <1>2, <1>3, <1>6 DEF Server, Brings, ServiceKept, Touching, Installing
  <2>5. ConfigKept(t, d)
    BY <1>2, <1>3, <1>6, SizeAssumption DEF Server, ConfigKept, Touching, Installing, Config, Venv, d
  <2> QED
    BY <1>6, <2>3, <2>4, <2>5 DEF Server
<1> QED
  BY <1>1, <1>2, <1>4, <1>5, <1>6, <1>7, <1>8, <1>9, ServerStep DEF IInv, Types, Holds

LEMMA InstallStep ==
  ASSUME IInv, NEW r \in Rows, Install(r)
  PROVE  IInv'
<1> DEFINE t0 == task[r]
           h == t0.host
           i0 == t0.item
           d == [disk[h] EXCEPT ![i0] = New(t0, i0)]
           t == [t0 EXCEPT !.phase = IF i0 = Venv THEN "token" ELSE "backup",
                           !.item = IF i0 = Venv THEN @ ELSE @ + 1,
                           !.installed = @ \cup {i0}]
<1>1. Sound(t0, row[r]) /\ t0 \in AttemptRecords /\ Holds(t0)
  BY Facts DEF Install, Sound, Tokens, Touching, Installing, Holds
<1>2. h \in Servers /\ disk[h] \in [Items -> Versions] /\ agent[h] \in AgentRecords
      /\ Server(t0, disk[h], agent[h])
  BY <1>1, Facts
<1>3. i0 \in Items /\ t0.phase = "install" /\ Items = 1 .. Venv /\ Venv \in Nat
  BY <1>1, SizeAssumption DEF AttemptRecords, Install, Items, Venv
<1>4. d \in [Items -> Versions]
  BY <1>1, <1>2, <1>3 DEF AttemptRecords, New
<1>5. t \in AttemptRecords
  <2> DEFINE n == IF i0 = Venv THEN i0 ELSE i0 + 1
             p == IF i0 = Venv THEN "token" ELSE "backup"
  <2>1. n \in Items /\ p \in Phases
    BY <1>3 DEF Phases, Installing
  <2>2. t = [t0 EXCEPT !.phase = p, !.item = n, !.installed = @ \cup {i0}]
    BY <1>1 DEF AttemptRecords
  <2> HIDE DEF n, p, t
  <2> QED
    BY <1>1, <1>3, <2>1, <2>2 DEF AttemptRecords
<1>6. /\ t.phase = (IF i0 = Venv THEN "token" ELSE "backup") /\ t.host = h
      /\ t.item = (IF i0 = Venv THEN i0 ELSE i0 + 1) /\ t.number = t0.number /\ t.old = t0.old
      /\ t.new = t0.new /\ t.reached = t0.reached /\ t.installed = t0.installed \cup {i0}
      /\ t.changed = t0.changed /\ t.restarted = t0.restarted /\ t.unsure = t0.unsure
      /\ t.wasActive = t0.wasActive /\ t.before = t0.before /\ t.faulty = t0.faulty
      /\ t.closing = t0.closing
      /\ t.backup = t0.backup /\ t.backed = t0.backed
  BY <1>1 DEF AttemptRecords
<1>7. /\ task' = [task EXCEPT ![r] = t]
      /\ disk' = [disk EXCEPT ![h] = d] /\ agent' = [agent EXCEPT ![h] = agent[h]]
      /\ UNCHANGED <<row, deleting, attempts, faults>>
  BY <1>2, <1>3 DEF Install, Installed, New, Keeps, counters, IInv, Types
<1> HIDE DEF t, d
<1>8. Sound(t, row[r])
  <2>1. Tokens(t, row[r]) /\ Holds(t)
    BY <1>1, <1>3, <1>6 DEF Sound, Tokens, Holds, Touching, Installing
  <2>2. Position(t)
    BY <1>1, <1>3, <1>6 DEF Sound, Position, Installing
  <2> QED
    <3>1. i0 \in t0.reached /\ t0.installed \cup t0.backed \subseteq t0.reached
      BY <1>1, <1>3 DEF Sound, Position
    <3> QED
      BY <1>3, <1>6, <2>1, <2>2, <3>1 DEF Sound, Early
<1>9. Server(t, d, agent[h])
  <2>1. \A i \in Items : ItemKept(t0, disk[h], i)
    BY <1>2, <1>3 DEF Server, AtWork, Touching, Installing
  <2>2. ~t0.unsure /\ i0 \in t0.reached
    BY <1>1, <1>3 DEF Sound, Position, Installing
  <2>3. ASSUME NEW i \in Items
        PROVE  ItemKept(t, d, i)
    <3>1. CASE i = i0
      BY <1>1, <1>2, <1>3, <1>6, <2>1, <2>2, <3>1 DEF ItemKept, ToUndo, Installing, New, d
    <3>2. CASE i # i0
      BY <1>1, <1>2, <1>3, <1>6, <2>1, <3>2 DEF ItemKept, ToUndo, Installing, New, d
    <3> QED
      BY <3>1, <3>2
  <2>4. Brings(t, d) /\ ServiceKept(t, agent[h])
    BY <1>2, <1>3, <1>6 DEF Server, Brings, ServiceKept, Touching, Installing
  <2>5. ConfigKept(t, d)
    <3>1. t0.before[Config] = t0.old => disk[h][Config] = t0.old /\ t0.new = t0.old
      BY <1>1, <1>2, <1>3 DEF Server, ConfigKept, Brings, Sound, Tokens, Touching, Installing
    <3> QED
      BY <1>2, <1>3, <1>6, <3>1 DEF ConfigKept, New, d
  <2> QED
    BY <1>6, <2>3, <2>4, <2>5 DEF Server
<1> QED
  BY <1>1, <1>2, <1>4, <1>5, <1>6, <1>7, <1>8, <1>9, ServerStep DEF IInv, Types, Holds

-------------------------------------------------------------------------------
(* An installation that fails is turned back. *)

\* What an attempt knows from before the activation.
SameAim(t0, t) ==
  /\ t.host = t0.host /\ t.number = t0.number /\ t.old = t0.old /\ t.new = t0.new
  /\ t.before = t0.before /\ t.changed = t0.changed

SameAttempt(t0, t) ==
  /\ t.host = t0.host /\ t.number = t0.number /\ t.old = t0.old /\ t.new = t0.new
  /\ t.backup = t0.backup /\ t.backed = t0.backed /\ t.installed = t0.installed
  /\ t.reached = t0.reached /\ t.before = t0.before /\ t.changed = t0.changed
  /\ t.wasActive = t0.wasActive /\ t.faulty = t0.faulty /\ t.closing = t0.closing

\* The attempt t0 becomes t, the disk of its server d0 becomes d and the service a0 becomes a.
TurnsBack(t0, w, d0, a0, t, d, a) ==
  /\ t0.phase \in Installing /\ t.phase \in {"undoStop", "undoItem"}
  /\ t.phase = "undoItem" => t.item = Venv
  /\ t.phase = "undoStop" => t.restarted
  /\ SameAttempt(t0, t) /\ Sound(t0, w) /\ Server(t0, d0, a0)
  /\ d = d0 \/ (t.unsure /\ (t0.before[Config] = t0.old => d[Config] = t0.old))
  /\ t0.restarted => t.restarted
  /\ a = a0 \/ t.restarted

LEMMA TurnBack ==
  ASSUME NEW t0 \in AttemptRecords, NEW t \in AttemptRecords, NEW w, NEW d0, NEW d, NEW a0, NEW a,
         TurnsBack(t0, w, d0, a0, t, d, a)
  PROVE  Holds(t0) /\ Holds(t) /\ Sound(t, w) /\ Server(t, d, a)
<1> USE DEF TurnsBack
<1>1. Holds(t0) /\ Holds(t)
  BY DEF Sound, Tokens, Holds, Touching, Installing, SameAttempt
<1>2. Sound(t, w)
  <2>1. Tokens(t0, w) /\ t0.phase \in Touching /\ t.phase \in Touching
    BY DEF Sound, Touching, Undoing
  <2>2. t.phase \notin {"none", "queued", "read"} /\ t0.phase # "none"
    BY DEF Installing
  <2>3. Tokens(t, w)
    BY <1>1, <2>1, <2>2 DEF Tokens, SameAttempt
  <2> QED
    BY <2>3 DEF Sound, Position, Early, Installing, SameAttempt
<1>3. ~t0.unsure
  BY DEF Sound, Position
<1>4. ASSUME NEW i \in Items
      PROVE  ItemKept(t, d, i)
  <2>1. ItemKept(t0, d0, i)
    BY DEF Server, AtWork, Touching
  <2>2. ToUndo(t, i) /\ ToUndo(t0, i)
    <3>1. i <= Venv
      BY SizeAssumption DEF Items, Venv
    <3> QED
      BY <3>1 DEF ToUndo
  <2>3. CASE d = d0
    BY <1>3, <2>1, <2>2, <2>3, SameItem DEF SameAttempt
  <2>4. CASE t.unsure
    BY <2>1, <2>2, <2>4 DEF ItemKept, SameAttempt
  <2> QED
    BY <2>3, <2>4
<1>5. Brings(t, d) /\ ConfigKept(t, d)
  BY DEF Server, Brings, ConfigKept, Touching, Undoing, SameAttempt
<1>6. ServiceKept(t, a) /\ t.phase # "await"
  BY DEF Server, ServiceKept, Touching, SameAttempt
<1> QED
  BY <1>1, <1>2, <1>4, <1>5, <1>6 DEF Server

LEMMA AbandonedIs ==
  ASSUME NEW t \in AttemptRecords
  PROVE  /\ Abandoned(t) \in AttemptRecords /\ SameAttempt(t, Abandoned(t))
         /\ Abandoned(t).item = Venv /\ Abandoned(t).unsure = t.unsure
         /\ Abandoned(t).restarted = t.restarted
         /\ Abandoned(t).phase = IF t.phase \in {"queued", "read", "stage"} THEN "failed"
                                 ELSE IF t.restarted THEN "undoStop" ELSE "undoItem"
<1> DEFINE p == IF t.phase \in {"queued", "read", "stage"} THEN "failed"
                ELSE IF t.restarted THEN "undoStop" ELSE "undoItem"
<1>1. p \in Phases /\ Venv \in Items
  BY SizeAssumption DEF Phases, Undoing, Items, Venv
<1>2. Abandoned(t) = [t EXCEPT !.phase = p, !.item = Venv]
  BY DEF Abandoned
<1> HIDE DEF p
<1>3. Abandoned(t) \in AttemptRecords
  BY <1>1, <1>2 DEF AttemptRecords
<1>4. SameAttempt(t, Abandoned(t))
  BY <1>2 DEF AttemptRecords, SameAttempt
<1>5. /\ Abandoned(t).item = Venv /\ Abandoned(t).unsure = t.unsure
      /\ Abandoned(t).restarted = t.restarted /\ Abandoned(t).phase = p
  BY <1>2 DEF AttemptRecords
<1> QED
  BY <1>3, <1>4, <1>5 DEF p

\* An attempt that fails before it has touched its server.
LEMMA EarlyFailure ==
  ASSUME NEW t0 \in AttemptRecords, NEW t \in AttemptRecords, NEW w, NEW d0, NEW d, NEW a,
         t0.phase \in {"queued", "read", "stage"}, t.phase = "failed",
         SameAttempt(t0, t), Sound(t0, w)
  PROVE  Sound(t, w) /\ (Holds(t) => Holds(t0) /\ Server(t, d, a))
<1>1. t.reached = {}
  BY DEF Sound, Early, Untouched, SameAttempt
<1>2. Holds(t) => Holds(t0)
  BY DEF Sound, Tokens, Holds, SameAttempt
<1>3. t.phase \notin Touching \cup {"none", "queued", "read", "stage", "cleanup"}
  BY DEF Touching, Installing, Undoing
<1>4. Tokens(t, w)
  <2>1. Tokens(t0, w) /\ t0.phase # "none"
    BY DEF Sound
  <2> QED
    BY <1>2, <1>3, <2>1 DEF Tokens, SameAttempt
<1>5. Sound(t, w)
  BY <1>1, <1>4 DEF Sound, Early, Position, Installing, SameAttempt
<1>6. Server(t, d, a)
  BY <1>1, <1>3 DEF Server, AtWork, Brings, ConfigKept, ServiceKept, Touching, Installing
<1> QED
  BY <1>2, <1>5, <1>6

-------------------------------------------------------------------------------
(* The rest of an activation. *)

LEMMA NothingDone ==
  ASSUME IInv, NEW r \in Rows, task' = [task EXCEPT ![r] = NoAttempt],
         row' = row \/ \E s \in {"completed", "failed"} :
                         row[r].status # "none" /\ row' = [row EXCEPT ![r].status = s],
         UNCHANGED <<disk, agent, deleting, attempts>>, faults' \in 0 .. MaxFaults
  PROVE  IInv'
<1>1. NoAttempt \in AttemptRecords /\ NoAttempt.phase = "none" /\ NoAttempt.host = None
      /\ Untouched(NoAttempt)
  <2>1. None \in Versions /\ 1 \in Items
    BY SizeAssumption DEF Versions, Foreign, None, Items, Venv
  <2> QED
    BY <2>1 DEF NoAttempt, AttemptRecords, Phases, Untouched
<1>2. row[r] \in RowRecords /\ Sound(task[r], row[r])
  BY Facts
<1>3. \E w \in RowRecords : row' = [row EXCEPT ![r] = w]
  <2>1. CASE row' = row
    BY <1>2, <2>1 DEF IInv, Types
  <2>2. ASSUME NEW s \in {"completed", "failed"}, row' = [row EXCEPT ![r].status = s]
        PROVE  \E w \in RowRecords : row' = [row EXCEPT ![r] = w]
    <3>1. [row[r] EXCEPT !.status = s] \in RowRecords
      BY <1>2 DEF RowRecords
    <3> QED
      BY <2>2, <3>1
  <2> QED
    BY <2>1, <2>2
<1>4. Sound(NoAttempt, row'[r])
  <2>1. row'[r].host = row[r].host /\ row'[r].token = row[r].token
        /\ (row'[r].status = "none" <=> row[r].status = "none")
    BY <1>2 DEF IInv, Types, RowRecords
  <2>2. Tokens(NoAttempt, row'[r])
    BY <1>1, <1>2, <2>1 DEF Sound, Tokens, Holds, Touching, Installing, Undoing
  <2> QED
    BY <1>1, <2>2 DEF Sound, Position, Installing, Untouched
<1>5. ~Holds(NoAttempt)
  BY <1>1 DEF Holds
<1> HIDE DEF NoAttempt
<1> QED
  BY <1>1, <1>3, <1>4, <1>5, QuietStep DEF IInv, Types

LEMMA EndSteps ==
  ASSUME IInv, NEW r \in Rows, CleanUp(r) \/ Fails(r)
  PROVE  IInv'
<1>1. task' = [task EXCEPT ![r] = NoAttempt]
  BY DEF CleanUp, Fails, Keeps
<1>2. row' = row \/ (row[r].status # "none" /\ row' = [row EXCEPT ![r].status = "failed"])
  BY DEF CleanUp, Fails, FailedRow, Provisioning
<1>3. UNCHANGED <<disk, agent, deleting, attempts>> /\ faults' \in 0 .. MaxFaults
  BY DEF CleanUp, Fails, counters, IInv, Types
<1> QED
  BY <1>1, <1>2, <1>3, NothingDone

\* A failing step of an installation changes neither the server nor the row.
LEMMA FailingStep ==
  ASSUME IInv, NEW r \in Rows, NEW t1 \in AttemptRecords,
         task[r].phase \in {"read", "stage"} \cup Installing,
         t1.phase = task[r].phase, SameAttempt(task[r], t1), t1.unsure = task[r].unsure,
         task[r].restarted => t1.restarted,
         Keeps(r, Abandoned(t1)),
         UNCHANGED <<row, disk, agent, deleting, attempts>>, faults' \in 0 .. MaxFaults
  PROVE  IInv'
<1> DEFINE t0 == task[r]
           t == Abandoned(t1)
           h == t0.host
<1>1. t0 \in AttemptRecords /\ Sound(t0, row[r]) /\ row' = row
  BY Facts
<1>2. t \in AttemptRecords /\ SameAttempt(t0, t) /\ t.item = Venv
      /\ (t0.restarted => t.restarted)
      /\ t.phase = IF t0.phase \in {"queued", "read", "stage"} THEN "failed"
                   ELSE IF t.restarted THEN "undoStop" ELSE "undoItem"
  BY AbandonedIs DEF SameAttempt
<1>3. task' = [task EXCEPT ![r] = t] /\ t.host = t0.host
  BY <1>2 DEF Keeps, SameAttempt
<1> HIDE DEF t
<1>4. CASE t0.phase \in Installing
  <2>1. Holds(t0)
    BY <1>1, <1>4 DEF Sound, Tokens, Holds, Touching, Installing
  <2>2. Server(t0, disk[h], agent[h])
    BY <2>1, Facts
  <2>3. Holds(t0) /\ Holds(t) /\ Sound(t, row[r]) /\ Server(t, disk[h], agent[h])
    <3>1. TurnsBack(t0, row[r], disk[h], agent[h], t, disk[h], agent[h])
      BY <1>1, <1>2, <1>4, <2>2 DEF TurnsBack, Installing
    <3> QED
      BY <1>1, <1>2, <3>1, TurnBack
  <2> QED
    BY <1>1, <1>2, <1>3, <2>3, QuietStep DEF IInv, Types
<1>5. CASE t0.phase \in {"read", "stage"}
  <2>1. Sound(t, row[r]) /\ (Holds(t) => Holds(t0) /\ Server(t, disk[h], agent[h]))
    BY <1>1, <1>2, <1>5, EarlyFailure
  <2> QED
    BY <1>1, <1>2, <1>3, <2>1, QuietStep DEF IInv, Types
<1> QED
  BY <1>4, <1>5

LEMMA FailureSteps ==
  ASSUME IInv, NEW r \in Rows, StepFails(r) \/ NoHeartbeat(r)
  PROVE  IInv'
<1>1. task[r] \in AttemptRecords
  BY Facts
<1>2. CASE NoHeartbeat(r)
  <2>1. SameAttempt(task[r], task[r]) /\ task[r].phase \in Installing
    BY <1>2 DEF SameAttempt, NoHeartbeat, Installing
  <2> QED
    BY <1>1, <1>2, <2>1, FailingStep DEF NoHeartbeat, counters, IInv, Types
<1>3. CASE StepFails(r)
  <2> DEFINE t1 == [task[r] EXCEPT !.restarted = @ \/ task[r].phase = "restart"]
  <2>1. t1 \in AttemptRecords /\ SameAttempt(task[r], t1) /\ t1.phase = task[r].phase
        /\ t1.unsure = task[r].unsure /\ (task[r].restarted => t1.restarted)
    BY <1>1 DEF AttemptRecords, SameAttempt
  <2>2. Keeps(r, Abandoned(t1)) /\ task[r].phase \in {"read", "stage"} \cup Installing
    BY <1>3 DEF StepFails
  <2>3. UNCHANGED <<row, disk, agent, deleting, attempts>> /\ faults' \in 0 .. MaxFaults
    BY <1>3, BoundAssumption DEF StepFails, IInv, Types
  <2> HIDE DEF t1
  <2> QED
    BY <2>1, <2>2, <2>3, FailingStep
<1> QED
  BY <1>2, <1>3

\* Past the last item an installation goes on without touching the disk.
LEMMA Onward ==
  ASSUME NEW t0 \in AttemptRecords, NEW t \in AttemptRecords, NEW w0, NEW w, NEW d, NEW a0, NEW a,
         t0.phase \in {"token", "restart", "await"}, t.phase \in {"restart", "await"},
         SameAttempt([t0 EXCEPT !.changed = t.changed], t), t.unsure = t0.unsure,
         t0.restarted => t.restarted, a = a0 \/ t.restarted, t.phase = "await" => t.restarted /\ a = Loaded(d),
         Sound(t0, w0), Server(t0, d, a0), Tokens(t, w)
  PROVE  Holds(t0) /\ Holds(t) /\ t.host = t0.host /\ Sound(t, w) /\ Server(t, d, a)
<1>1. /\ t.host = t0.host /\ t.number = t0.number /\ t.old = t0.old /\ t.new = t0.new
      /\ t.backup = t0.backup /\ t.backed = t0.backed /\ t.installed = t0.installed
      /\ t.reached = t0.reached /\ t.before = t0.before
      /\ t.wasActive = t0.wasActive /\ t.faulty = t0.faulty /\ t.closing = t0.closing
  BY DEF SameAttempt, AttemptRecords
<1>2. Holds(t0) /\ Holds(t)
  BY <1>1 DEF Sound, Tokens, Holds, Touching, Installing
<1>3. Sound(t, w)
  BY <1>1 DEF Sound, Position, Early, Installing
<1>4. ASSUME NEW i \in Items
      PROVE  ItemKept(t, d, i)
  <2>1. ItemKept(t0, d, i)
    BY DEF Server, AtWork, Touching, Installing
  <2>2. ToUndo(t, i) /\ ToUndo(t0, i)
    BY DEF ToUndo, Installing
  <2> QED
    BY <1>1, <2>1, <2>2, SameItem
<1>5. Brings(t, d) /\ ConfigKept(t, d) /\ ServiceKept(t, a)
  BY <1>1 DEF Server, Brings, ConfigKept, ServiceKept, Touching, Installing
<1> QED
  BY <1>1, <1>2, <1>3, <1>4, <1>5 DEF Server

\* What an attempt knows of the tokens while it is at work.
LEMMA NewIsSome ==
  ASSUME NEW t, NEW w, NEW d, NEW a, t.phase \in Touching, Sound(t, w), Server(t, d, a)
  PROVE  t.new # None /\ t.old # None /\ t.number # None /\ Holds(t) /\ Tokens(t, w)
BY DEF Sound, Tokens, Server, Brings, Holds, Touching, Installing, Undoing

LEMMA StoreTokenStep ==
  ASSUME IInv, NEW r \in Rows, StoreToken(r)
  PROVE  IInv'
<1> DEFINE t0 == task[r]
           d == disk[t0.host]
           a == agent[t0.host]
<1>1. t0 \in AttemptRecords /\ Sound(t0, row[r]) /\ t0.phase = "token" /\ row[r] \in RowRecords
  BY Facts DEF StoreToken
<1>2. Holds(t0) /\ Server(t0, d, a) /\ t0.phase \in Touching /\ t0.phase \in Installing
  BY <1>1, Facts DEF Sound, Tokens, Holds, Touching, Installing
<1>3. UNCHANGED <<disk, agent, deleting, attempts, faults>>
  BY DEF StoreToken, counters
<1>4. CASE MayStore(r)
  <2> DEFINE c == t0.new # t0.old
             t == [t0 EXCEPT !.phase = "restart", !.changed = c]
             w == [row[r] EXCEPT !.token = t0.new]
  <2>1. t \in AttemptRecords /\ w \in RowRecords
    <3>1. c \in BOOLEAN
      OBVIOUS
    <3> HIDE DEF c
    <3>2. t \in AttemptRecords
      BY <1>1, <3>1 DEF AttemptRecords, Phases, Installing
    <3>3. w \in RowRecords
      BY <1>1 DEF AttemptRecords, RowRecords
    <3> QED
      BY <3>2, <3>3
  <2>2. /\ t.phase = "restart" /\ SameAttempt([t0 EXCEPT !.changed = t.changed], t)
        /\ t.unsure = t0.unsure /\ t.restarted = t0.restarted /\ t.changed = (t0.new # t0.old)
        /\ t.host = t0.host /\ t.number = t0.number /\ t.old = t0.old /\ t.new = t0.new
    BY <1>1 DEF AttemptRecords, SameAttempt
  <2>3. w.status = row[r].status /\ w.host = row[r].host /\ w.token = t0.new
    BY <1>1 DEF RowRecords
  <2>4. task' = [task EXCEPT ![r] = t] /\ row' = [row EXCEPT ![r] = w]
    BY <1>4 DEF StoreToken, Keeps
  <2>5. row'[r] = w
    BY <2>4 DEF IInv, Types
  <2> HIDE DEF t, w
  <2>6. Tokens(t, w)
    <3>1. t0.new # None /\ t0.old # None /\ t0.number # None /\ Tokens(t0, row[r]) /\ t0.host # None
      BY <1>1, <1>2, NewIsSome DEF Holds
    <3> QED
      BY <2>2, <2>3, <3>1 DEF Tokens
  <2>7. Holds(t0) /\ Holds(t) /\ t.host = t0.host /\ Sound(t, w) /\ Server(t, d, a)
    BY <1>1, <1>2, <2>1, <2>2, <2>6, Onward
  <2> QED
    BY <1>3, <2>1, <2>4, <2>5, <2>7, QuietStep DEF IInv, Types
<1>5. CASE ~MayStore(r)
  <2> DEFINE t == [t0 EXCEPT !.phase = "undoItem", !.item = Venv]
  <2>1. t \in AttemptRecords
    BY <1>1, Numbers DEF AttemptRecords, Phases, Undoing
  <2>2. /\ t.phase = "undoItem" /\ t.item = Venv /\ SameAttempt(t0, t)
        /\ t.restarted = t0.restarted /\ t.host = t0.host
    BY <1>1 DEF AttemptRecords, SameAttempt
  <2>3. task' = [task EXCEPT ![r] = t] /\ row' = row
    BY <1>5 DEF StoreToken, Keeps
  <2> HIDE DEF t
  <2>4. Holds(t0) /\ Holds(t) /\ Sound(t, row[r]) /\ Server(t, d, a)
    <3>1. TurnsBack(t0, row[r], d, a, t, d, a)
      BY <1>1, <1>2, <2>1, <2>2 DEF TurnsBack
    <3> QED
      BY <1>1, <2>1, <3>1, TurnBack
  <2> QED
    BY <1>3, <2>1, <2>2, <2>3, <2>4, QuietStep DEF IInv, Types
<1> QED
  BY <1>4, <1>5

LEMMA LoadedIs ==
  ASSUME NEW d \in [Items -> Versions]
  PROVE  Loaded(d) \in AgentRecords
<1>1. None \in Versions /\ 1 \in Items /\ Config \in Items
  BY SizeAssumption DEF Versions, Foreign, None, Items, Venv, Config
<1> QED
  BY <1>1 DEF Loaded, AgentRecords

LEMMA RestartStep ==
  ASSUME IInv, NEW r \in Rows, RestartService(r)
  PROVE  IInv'
<1> DEFINE t0 == task[r]
           h == t0.host
           d == disk[h]
           a == Loaded(d)
           p == IF a.token = None THEN "undoStop" ELSE "await"
           t == [t0 EXCEPT !.restarted = TRUE, !.seen = FALSE, !.phase = p]
           u == [t EXCEPT !.item = Venv]
<1>1. t0 \in AttemptRecords /\ Sound(t0, row[r]) /\ t0.phase = "restart" /\ row[r] \in RowRecords
  BY Facts DEF RestartService
<1>2. Holds(t0) /\ Server(t0, d, agent[h]) /\ t0.phase \in Touching /\ t0.phase \in Installing
      /\ h \in Servers /\ d \in [Items -> Versions]
  BY <1>1, Facts DEF Sound, Tokens, Holds, Touching, Installing
<1>3. a \in AgentRecords
  BY <1>2, LoadedIs
<1>4. /\ task' = [task EXCEPT ![r] = t]
      /\ disk' = [disk EXCEPT ![h] = d] /\ agent' = [agent EXCEPT ![h] = a]
      /\ UNCHANGED <<row, deleting, attempts, faults>>
  BY <1>2 DEF RestartService, AfterRestart, Running, Keeps, counters, IInv, Types
<1>5. p \in {"undoStop", "await"} /\ a = Loaded(d)
  OBVIOUS
<1> HIDE DEF p, a
<1>6. t \in AttemptRecords
  BY <1>1, <1>5 DEF AttemptRecords, Phases, Installing, Undoing
<1>7. /\ t.phase = p /\ SameAttempt([t0 EXCEPT !.changed = t.changed], t) /\ SameAttempt(t0, t)
      /\ t.unsure = t0.unsure /\ t.restarted /\ t.changed = t0.changed /\ t.item = t0.item
  BY <1>1 DEF AttemptRecords, SameAttempt
<1> HIDE DEF t
<1>8. t0.reached = Items /\ t0.installed = Items
  BY <1>1 DEF Sound, Position
<1>9. CASE p = "await"
  <2>1. Tokens(t0, row[r]) /\ t0.host # None
    BY <1>1, <1>2, NewIsSome DEF Holds
  <2>2. Tokens(t, row[r])
    BY <1>1, <1>7, <1>9, <2>1 DEF Tokens, SameAttempt, Holds, Touching, Installing
  <2>3. Holds(t) /\ t.host = t0.host /\ Sound(t, row[r]) /\ Server(t, d, a)
    BY <1>1, <1>2, <1>5, <1>6, <1>7, <1>9, <2>2, Onward
  <2> QED
    BY <1>2, <1>3, <1>4, <1>6, <2>3, ServerStep DEF IInv, Types
<1>10. CASE p = "undoStop"
  <2>1. Holds(t) /\ Sound(t, row[r]) /\ Server(t, d, a) /\ t.host = t0.host
    <3>1. TurnsBack(t0, row[r], d, agent[h], t, d, a)
      BY <1>1, <1>2, <1>7, <1>10 DEF TurnsBack
    <3> QED
      BY <1>1, <1>6, <1>7, <3>1, TurnBack DEF SameAttempt
  <2> QED
    BY <1>2, <1>3, <1>4, <1>6, <2>1, ServerStep DEF IInv, Types
<1> QED
  BY <1>5, <1>9, <1>10

LEMMA AwaitSteps ==
  ASSUME IInv, NEW r \in Rows, Complete(r) \/ \E s \in Servers : Heartbeat(s, r)
  PROVE  IInv'
<1> DEFINE t0 == task[r]
           d == disk[t0.host]
           a == agent[t0.host]
<1>1. t0 \in AttemptRecords /\ Sound(t0, row[r]) /\ t0.phase = "await" /\ row[r] \in RowRecords
  BY Facts DEF Heartbeat, Complete
<1>2. Holds(t0) /\ Server(t0, d, a) /\ t0.phase \in Touching /\ t0.phase \in Installing
      /\ t0.restarted /\ a = Loaded(d)
  BY <1>1, Facts DEF Sound, Tokens, Holds, Touching, Installing, Position, Server
<1>3. UNCHANGED <<disk, agent, deleting, attempts, faults>>
  BY DEF Heartbeat, Complete, counters
<1>4. t0.new # None /\ t0.old # None /\ t0.number # None /\ Tokens(t0, row[r]) /\ t0.host # None
  BY <1>1, <1>2, NewIsSome DEF Holds
<1>5. ASSUME NEW s \in Servers, Heartbeat(s, r)
      PROVE  IInv'
  <2> DEFINE t == [t0 EXCEPT !.seen = TRUE]
  <2>1. t \in AttemptRecords
    BY <1>1 DEF AttemptRecords
  <2>2. /\ t.phase = "await" /\ SameAttempt([t0 EXCEPT !.changed = t.changed], t) /\ t.restarted
        /\ t.unsure = t0.unsure /\ t.host = t0.host /\ SameAttempt(t0, t)
    BY <1>1, <1>2 DEF AttemptRecords, SameAttempt
  <2>3. task' = [task EXCEPT ![r] = t] /\ row' = row
    BY <1>5 DEF Heartbeat, Keeps
  <2> HIDE DEF t
  <2>4. Tokens(t, row[r])
    BY <1>1, <1>4, <2>2 DEF Tokens, SameAttempt, Holds
  <2>5. Holds(t) /\ Sound(t, row[r]) /\ Server(t, d, a)
    BY <1>1, <1>2, <2>1, <2>2, <2>4, Onward
  <2> QED
    BY <1>2, <1>3, <2>1, <2>2, <2>3, <2>5, QuietStep DEF IInv, Types
<1>6. CASE Complete(r) /\ Provisioning(r) /\ row[r].token = t0.new
  <2> DEFINE t == [t0 EXCEPT !.phase = "cleanup"]
             w == [row[r] EXCEPT !.status = "completed"]
  <2>1. t \in AttemptRecords /\ w \in RowRecords
    BY <1>1 DEF AttemptRecords, Phases, RowRecords
  <2>2. t.phase = "cleanup" /\ SameAttempt(t0, t)
    BY <1>1 DEF AttemptRecords, SameAttempt
  <2>3. w.status = "completed" /\ w.host = row[r].host /\ w.token = row[r].token
        /\ row[r].status = "provisioning"
    BY <1>1, <1>6 DEF RowRecords, Provisioning
  <2>4. task' = [task EXCEPT ![r] = t] /\ row' = [row EXCEPT ![r] = w]
    BY <1>6 DEF Complete, Keeps
  <2>5. row'[r] = w
    BY <2>4 DEF IInv, Types
  <2> HIDE DEF t, w
  <2>6. Tokens(t, w)
    BY <1>1, <1>4, <2>2, <2>3 DEF Tokens, SameAttempt, Holds, Touching, Installing, Undoing
  <2>7. Sound(t, w) /\ Server(t, d, a) /\ t.host = t0.host
    BY <1>1, <2>2, <2>6 DEF Sound, Early, Position, Installing, Server, AtWork, Touching, Undoing, Brings,
                      ConfigKept, ServiceKept, SameAttempt
  <2> QED
    BY <1>2, <1>3, <2>1, <2>4, <2>5, <2>7, QuietStep DEF IInv, Types
<1>7. CASE Complete(r) /\ ~(Provisioning(r) /\ row[r].token = t0.new)
  <2> DEFINE t == [t0 EXCEPT !.phase = "undoStop"]
  <2>1. t \in AttemptRecords
    BY <1>1 DEF AttemptRecords, Phases, Undoing
  <2>2. t.phase = "undoStop" /\ SameAttempt(t0, t) /\ t.restarted /\ t.host = t0.host
    BY <1>1, <1>2 DEF AttemptRecords, SameAttempt
  <2>3. task' = [task EXCEPT ![r] = t] /\ row' = row
    BY <1>7 DEF Complete, Keeps
  <2> HIDE DEF t
  <2>4. Holds(t) /\ Sound(t, row[r]) /\ Server(t, d, a)
    <3>1. TurnsBack(t0, row[r], d, a, t, d, a)
      BY <1>1, <1>2, <2>2 DEF TurnsBack
    <3> QED
      BY <1>1, <2>1, <3>1, TurnBack
  <2> QED
    BY <1>2, <1>3, <2>1, <2>2, <2>3, <2>4, QuietStep DEF IInv, Types
<1> QED
  BY <1>5, <1>6, <1>7

-------------------------------------------------------------------------------
(* The rollback. *)

\* What a step of the rollback has to keep, when it makes the attempt t0 to t, its row
\* w0 to w, the disk of its server d0 to d and the service a0 to a.
RollsBack(t0, w0, d0, a0, t, w, d, a) ==
  /\ t0.phase \in Touching /\ t.phase \in Undoing \cup {"failed"}
  /\ t.phase = "undoStop" => t.restarted
  /\ SameAim(t0, t)
  /\ Sound(t0, w0) /\ Server(t0, d0, a0)
  /\ w.status = w0.status /\ w.host = w0.host /\ w.token \in {w0.token, t0.old}
  /\ \A i \in Items : ItemKept(t, d, i)
  /\ t0.before[Config] = t0.old => d[Config] = t0.old
  /\ ServiceKept(t, a)

LEMMA RollbackStep ==
  ASSUME NEW t0 \in AttemptRecords, NEW t \in AttemptRecords, NEW w0, NEW w, NEW d0, NEW d,
         NEW a0, NEW a, RollsBack(t0, w0, d0, a0, t, w, d, a)
  PROVE  Holds(t0) /\ Holds(t) /\ t.host = t0.host /\ Sound(t, w) /\ Server(t, d, a)
<1> USE DEF RollsBack
<1>1. /\ t.host = t0.host /\ t.number = t0.number /\ t.old = t0.old /\ t.new = t0.new
      /\ t.before = t0.before /\ t.changed = t0.changed
  BY DEF SameAim
<1>2. t0.new # None /\ t0.old # None /\ t0.number # None /\ Tokens(t0, w0) /\ t0.host # None /\ Holds(t0)
  BY NewIsSome DEF Holds
<1>3. t.phase \notin Installing \cup {"none", "queued", "read", "stage", "cleanup"}
  BY DEF Undoing, Installing
<1>4. Holds(t)
  BY <1>1, <1>2, <1>3 DEF Holds
<1>5. Tokens(t, w)
  BY <1>1, <1>2, <1>3 DEF Tokens
<1>6. Sound(t, w)
  <2>1. t.installed \cup t.backed \subseteq t.reached
    BY DEF ItemKept, AttemptRecords
  <2> QED
    BY <1>3, <1>4, <1>5, <2>1 DEF Sound, Position, Early, Installing, Holds
<1>7. Brings(t, d) /\ ConfigKept(t, d)
  BY <1>1, <1>3 DEF Server, Brings, ConfigKept
<1> QED
  BY <1>1, <1>2, <1>3, <1>4, <1>6, <1>7 DEF Server, Installing

\* How a rollback that is under way looks.
LEMMA UndoFacts ==
  ASSUME IInv, NEW r \in Rows, task[r].phase \in Undoing
  PROVE  LET t0 == task[r]
             h == t0.host
         IN  /\ t0 \in AttemptRecords /\ Sound(t0, row[r]) /\ row[r] \in RowRecords
             /\ h \in Servers /\ disk[h] \in [Items -> Versions] /\ agent[h] \in AgentRecords
             /\ Server(t0, disk[h], agent[h]) /\ t0.phase \in Touching
             /\ Holds(t0) /\ t0.host # None /\ t0.new # None /\ t0.old # None
             /\ \A i \in Items : ItemKept(t0, disk[h], i)
             /\ t0.before[Config] = t0.old => disk[h][Config] = t0.old
<1>1. task[r] \in AttemptRecords /\ Sound(task[r], row[r]) /\ row[r] \in RowRecords
      /\ task[r].phase \in Touching
  BY Facts DEF Touching
<1>2. Holds(task[r])
  BY <1>1 DEF Sound, Tokens, Holds, Undoing
<1>3. /\ task[r].host \in Servers
      /\ disk[task[r].host] \in [Items -> Versions] /\ agent[task[r].host] \in AgentRecords
      /\ Server(task[r], disk[task[r].host], agent[task[r].host])
  BY <1>2, Facts
<1>4. task[r].new # None /\ task[r].old # None
  BY <1>1, <1>3, NewIsSome
<1> QED
  BY <1>1, <1>2, <1>3, <1>4 DEF Server, AtWork, ConfigKept, Holds

LEMMA UndoStopStep ==
  ASSUME IInv, NEW r \in Rows, UndoStop(r)
  PROVE  IInv'
<1> DEFINE t0 == task[r]
           h == t0.host
           d == disk[h]
           t == [t0 EXCEPT !.phase = "undoItem", !.item = Venv]
<1>1. t0.phase \in Undoing /\ t0.phase = "undoStop"
  BY DEF UndoStop, Undoing
<1>2. /\ t0 \in AttemptRecords /\ Sound(t0, row[r])
      /\ h \in Servers /\ d \in [Items -> Versions] /\ agent[h] \in AgentRecords
      /\ Server(t0, d, agent[h]) /\ t0.phase \in Touching /\ Holds(t0)
      /\ \A i \in Items : ItemKept(t0, d, i)
      /\ t0.before[Config] = t0.old => d[Config] = t0.old
  BY <1>1, UndoFacts
<1>3. Stopped \in AgentRecords /\ t \in AttemptRecords
  BY <1>2, Numbers DEF Stopped, AgentRecords, AttemptRecords, Phases, Undoing
<1>4. /\ t.phase = "undoItem" /\ t.item = Venv /\ SameAttempt(t0, t)
      /\ t.restarted = t0.restarted /\ t.unsure = t0.unsure
      /\ SameAim(t0, t)
  BY <1>2 DEF AttemptRecords, SameAttempt, SameAim
<1>5. /\ task' = [task EXCEPT ![r] = t]
      /\ disk' = [disk EXCEPT ![h] = d] /\ agent' = [agent EXCEPT ![h] = Stopped]
      /\ UNCHANGED <<row, deleting, attempts, faults>>
  BY <1>2 DEF UndoStop, Keeps, counters, IInv, Types
<1> HIDE DEF t
<1>6. ASSUME NEW i \in Items
      PROVE  ItemKept(t, d, i)
  <2>1. i <= Venv
    BY Numbers
  <2>2. ToUndo(t, i) <=> ToUndo(t0, i)
    BY <1>1, <1>4, <2>1 DEF ToUndo
  <2> QED
    BY <1>2, <1>4, <2>2, SameItem DEF SameAttempt
<1>7. ServiceKept(t, Stopped)
  BY <1>1, <1>2, <1>4 DEF ServiceKept, Sound, Position
<1>8. Holds(t) /\ t.host = t0.host /\ Sound(t, row[r]) /\ Server(t, d, Stopped)
  <2>1. t.phase \in Undoing \cup {"failed"} /\ t.phase # "undoStop"
    BY <1>4 DEF Undoing
  <2>2. RollsBack(t0, row[r], d, agent[h], t, row[r], d, Stopped)
    BY <1>2, <1>4, <1>6, <1>7, <2>1 DEF RollsBack
  <2> QED
    BY <1>2, <1>3, <2>2, RollbackStep
<1> QED
  BY <1>2, <1>3, <1>5, <1>8, ServerStep DEF IInv, Types

LEMMA NextUndoIs ==
  ASSUME NEW t \in AttemptRecords, t.phase = "undoItem"
  PROVE  LET u == NextUndo(t)
         IN  /\ u \in AttemptRecords /\ SameAttempt(t, u)
             /\ u.phase \in {"undoItem", "undoToken"}
             /\ u.restarted = t.restarted /\ u.unsure = t.unsure
             /\ \A i \in Items : ToUndo(u, i) <=> ToUndo(t, i) /\ i # t.item
<1>1. CASE t.item = 1
  <2> DEFINE u == [t EXCEPT !.phase = "undoToken"]
  <2>1. NextUndo(t) = u
    BY <1>1 DEF NextUndo
  <2>2. u \in AttemptRecords /\ SameAttempt(t, u) /\ u.phase = "undoToken"
        /\ u.restarted = t.restarted /\ u.unsure = t.unsure
    BY DEF AttemptRecords, SameAttempt, Phases, Undoing
  <2>3. ASSUME NEW i \in Items
        PROVE  ToUndo(u, i) <=> ToUndo(t, i) /\ i # t.item
    BY <1>1, <2>2, Numbers DEF ToUndo, Installing
  <2> HIDE DEF u
  <2> QED
    BY <2>1, <2>2, <2>3
<1>2. CASE t.item # 1
  <2> DEFINE u == [t EXCEPT !.item = @ - 1]
  <2>1. NextUndo(t) = u
    BY <1>2 DEF NextUndo
  <2>2. t.item \in Items /\ t.item - 1 \in Items
    BY <1>2, Numbers DEF AttemptRecords
  <2>3. u \in AttemptRecords /\ SameAttempt(t, u) /\ u.phase = "undoItem" /\ u.item = t.item - 1
        /\ u.restarted = t.restarted /\ u.unsure = t.unsure
    BY <2>2 DEF AttemptRecords, SameAttempt
  <2>4. ASSUME NEW i \in Items
        PROVE  ToUndo(u, i) <=> ToUndo(t, i) /\ i # t.item
    BY <2>2, <2>3, Numbers DEF ToUndo, Installing
  <2> HIDE DEF u
  <2> QED
    BY <2>1, <2>3, <2>4
<1> QED
  BY <1>1, <1>2

\* What the rollback puts in the place of an item is what was there, if that is known.
LEMMA RestoredContent ==
  ASSUME NEW t \in AttemptRecords, NEW h \in Servers, t.host = h, disk[h] \in [Items -> Versions],
         t.phase = "undoItem", ItemKept(t, disk[h], t.item)
  PROVE  LET v == IF t.item = Venv THEN RestoredVenv(t) ELSE RestoredFile(t)
         IN  /\ v \in Versions
             /\ ~t.unsure => v = t.before[t.item]
             /\ t.item = Config /\ disk[h][Config] = t.before[Config] /\ t.before[Config] # None
                  => v = t.before[Config]
<1> DEFINE i == t.item
<1>1. i \in Items /\ t.backup[i] \in Versions /\ disk[h][i] \in Versions
  BY DEF AttemptRecords
<1>2. ToUndo(t, i)
  BY <1>1, Numbers DEF ToUndo
<1>3. i \in t.reached => t.backup[i] = t.before[i] /\ (i \in t.backed <=> t.before[i] # None)
  BY <1>2 DEF ItemKept
<1>4. i \in t.installed \cup t.backed => i \in t.reached
  BY DEF ItemKept
<1>5. ~t.unsure => disk[h][i] = IF i \notin t.reached THEN t.before[i]
                                 ELSE IF i \in t.installed THEN New(t, i)
                                 ELSE IF i = Venv THEN None ELSE t.before[i]
  BY <1>2 DEF ItemKept
<1>6. CASE i = Venv
  BY <1>1, <1>3, <1>4, <1>5, <1>6, Numbers DEF RestoredVenv
<1>7. CASE i # Venv
  BY <1>1, <1>3, <1>4, <1>5, <1>7, Numbers DEF RestoredFile
<1> QED
  BY <1>6, <1>7

LEMMA UndoItemStep ==
  ASSUME IInv, NEW r \in Rows, UndoItem(r)
  PROVE  IInv'
<1> DEFINE t0 == task[r]
           h == t0.host
           i0 == t0.item
           v == IF i0 = Venv THEN RestoredVenv(t0) ELSE RestoredFile(t0)
           d == [disk[h] EXCEPT ![i0] = v]
           b == IF i0 = Venv /\ disk'[h][Venv] # t0.backup[i0] THEN t0.backup[i0] ELSE None
           t1 == [t0 EXCEPT !.backup[i0] = b]
           t == NextUndo(t1)
           a == agent[h]
<1>1. t0.phase \in Undoing /\ t0.phase = "undoItem"
  BY DEF UndoItem, Undoing
<1>2. /\ t0 \in AttemptRecords /\ Sound(t0, row[r])
      /\ h \in Servers /\ disk[h] \in [Items -> Versions] /\ a \in AgentRecords
      /\ Server(t0, disk[h], a) /\ t0.phase \in Touching /\ Holds(t0) /\ t0.old # None
      /\ \A i \in Items : ItemKept(t0, disk[h], i)
      /\ t0.before[Config] = t0.old => disk[h][Config] = t0.old
  BY <1>1, UndoFacts
<1>3. i0 \in Items /\ t0.backup \in [Items -> Versions]
  BY <1>2 DEF AttemptRecords
<1>4. /\ v \in Versions
      /\ ~t0.unsure => v = t0.before[i0]
      /\ i0 = Config /\ t0.before[Config] = t0.old => v = t0.old
  BY <1>1, <1>2, <1>3, RestoredContent
<1>5. d \in [Items -> Versions] /\ b \in Versions
  BY <1>2, <1>3, <1>4, Numbers
<1>6. /\ task' = [task EXCEPT ![r] = t]
      /\ disk' = [disk EXCEPT ![h] = d] /\ agent' = [agent EXCEPT ![h] = a]
      /\ UNCHANGED <<row, deleting, attempts, faults>>
  BY <1>2, <1>3 DEF UndoItem, Keeps, counters, IInv, Types
<1>7. \A i \in Items : d[i] = IF i = i0 THEN v ELSE disk[h][i]
  BY <1>2, <1>3
<1> HIDE DEF v, d, b
<1>8. t1 \in AttemptRecords
  <2>1. [t0.backup EXCEPT ![i0] = b] \in [Items -> Versions]
    BY <1>3, <1>5
  <2> QED
    BY <1>2, <2>1 DEF AttemptRecords
<1>9. /\ t1.phase = "undoItem" /\ t1.item = i0 /\ SameAim(t0, t1)
      /\ t1.reached = t0.reached /\ t1.installed = t0.installed /\ t1.backed = t0.backed
      /\ t1.wasActive = t0.wasActive /\ t1.faulty = t0.faulty /\ t1.closing = t0.closing
      /\ t1.restarted = t0.restarted /\ t1.unsure = t0.unsure
      /\ \A i \in Items : i # i0 => t1.backup[i] = t0.backup[i]
      /\ \A i \in Items : ToUndo(t1, i) <=> ToUndo(t0, i)
  BY <1>1, <1>2, <1>3 DEF AttemptRecords, SameAim, ToUndo
<1> HIDE DEF t1
<1>10. /\ t \in AttemptRecords /\ SameAttempt(t1, t) /\ t.phase \in {"undoItem", "undoToken"}
       /\ t.restarted = t0.restarted /\ t.unsure = t0.unsure
       /\ \A i \in Items : ToUndo(t, i) <=> ToUndo(t0, i) /\ i # i0
  BY <1>8, <1>9, NextUndoIs
<1>11. /\ t.reached = t0.reached /\ t.installed = t0.installed /\ t.backed = t0.backed
       /\ t.wasActive = t0.wasActive /\ t.faulty = t0.faulty /\ t.closing = t0.closing
       /\ SameAim(t0, t) /\ t.host = h /\ t.before = t0.before
       /\ t.new = t0.new /\ t.number = t0.number
       /\ \A i \in Items : i # i0 => t.backup[i] = t0.backup[i]
  BY <1>9, <1>10 DEF SameAttempt, SameAim
<1> HIDE DEF t
<1>12. ASSUME NEW i \in Items
       PROVE  ItemKept(t, d, i)
  <2>1. ItemKept(t0, disk[h], i)
    BY <1>2
  <2>2. CASE i = i0
    BY <1>4, <1>7, <1>10, <1>11, <2>1, <2>2 DEF ItemKept
  <2>3. CASE i # i0
    BY <1>7, <1>10, <1>11, <2>1, <2>3, SameItem
  <2> QED
    BY <2>2, <2>3
<1>13. ServiceKept(t, a)
  BY <1>2, <1>10, <1>11 DEF ServiceKept, Server
<1>14. t0.before[Config] = t0.old => d[Config] = t0.old
  BY <1>2, <1>4, <1>7, Numbers
<1>15. RollsBack(t0, row[r], disk[h], a, t, row[r], d, a)
  BY <1>2, <1>10, <1>11, <1>12, <1>13, <1>14 DEF RollsBack, Undoing
<1>16. Holds(t) /\ t.host = t0.host /\ Sound(t, row[r]) /\ Server(t, d, a)
  BY <1>2, <1>10, <1>15, RollbackStep
<1> QED
  BY <1>2, <1>5, <1>6, <1>10, <1>16, ServerStep DEF IInv, Types

\* The row while its earlier token is given back to it.
LEMMA RestoredTokenIs ==
  ASSUME IInv, NEW r \in Rows, row' = RestoredToken(r)
  PROVE  /\ \E w \in RowRecords : row' = [row EXCEPT ![r] = w]
         /\ row'[r].status = row[r].status /\ row'[r].host = row[r].host
         /\ row'[r].token \in {row[r].token, task[r].old}
<1>1. row[r] \in RowRecords /\ task[r] \in AttemptRecords /\ row \in [Rows -> RowRecords]
  BY DEF IInv, Types
<1>2. CASE row' = row
  <2>1. row' = [row EXCEPT ![r] = row[r]]
    BY <1>1, <1>2
  <2> QED
    BY <1>1, <1>2, <2>1
<1>3. CASE row' = [row EXCEPT ![r].token = task[r].old]
  <2> DEFINE w == [row[r] EXCEPT !.token = task[r].old]
  <2>1. w \in RowRecords /\ row' = [row EXCEPT ![r] = w]
    BY <1>1, <1>3 DEF RowRecords, AttemptRecords
  <2>2. row'[r] = w
    BY <1>1, <2>1
  <2>3. w.status = row[r].status /\ w.host = row[r].host /\ w.token = task[r].old
    BY <1>1 DEF RowRecords
  <2> QED
    BY <2>1, <2>2, <2>3
<1> QED
  BY <1>2, <1>3 DEF RestoredToken

\* A step of the rollback that leaves the server alone.
LEMMA QuietRollback ==
  ASSUME IInv, NEW r \in Rows, NEW t \in AttemptRecords, task' = [task EXCEPT ![r] = t],
         task[r].phase \in Touching, t.phase \in Undoing \cup {"failed"},
         t.phase = "undoStop" => t.restarted, SameAim(task[r], t),
         row' = row \/ row' = RestoredToken(r),
         UNCHANGED <<disk, agent, deleting, attempts>>, faults' \in 0 .. MaxFaults,
         \A i \in Items : ItemKept(t, disk[task[r].host], i),
         ServiceKept(t, agent[task[r].host])
  PROVE  IInv'
<1> DEFINE t0 == task[r]
           h == t0.host
<1>1. t0 \in AttemptRecords /\ Sound(t0, row[r])
  BY Facts
<1>2. Holds(t0)
  BY <1>1 DEF Sound, Tokens, Holds, Touching, Installing, Undoing
<1>3. Server(t0, disk[h], agent[h])
  BY <1>2, Facts
<1>4. /\ row' = row \/ \E w \in RowRecords : row' = [row EXCEPT ![r] = w]
      /\ row'[r].status = row[r].status /\ row'[r].host = row[r].host
      /\ row'[r].token \in {row[r].token, t0.old}
  BY RestoredTokenIs
<1>5. t0.before[Config] = t0.old => disk[h][Config] = t0.old
  BY <1>3 DEF Server, ConfigKept
<1>6. RollsBack(t0, row[r], disk[h], agent[h], t, row'[r], disk[h], agent[h])
  BY <1>1, <1>3, <1>4, <1>5 DEF RollsBack
<1>7. Holds(t) /\ t.host = h /\ Sound(t, row'[r]) /\ Server(t, disk[h], agent[h])
  BY <1>1, <1>6, RollbackStep
<1> QED
  BY <1>2, <1>4, <1>7, QuietStep DEF IInv, Types

LEMMA UndoTokenStep ==
  ASSUME IInv, NEW r \in Rows, UndoToken(r)
  PROVE  IInv'
<1> DEFINE t0 == task[r]
           t == [t0 EXCEPT !.phase = "undoService"]
<1>1. t0.phase \in Undoing /\ t0.phase = "undoToken"
  BY DEF UndoToken, Undoing
<1>2. /\ t0 \in AttemptRecords /\ t0.phase \in Touching /\ Server(t0, disk[t0.host], agent[t0.host])
      /\ \A i \in Items : ItemKept(t0, disk[t0.host], i)
  BY <1>1, UndoFacts
<1>3. t \in AttemptRecords
  BY <1>2 DEF AttemptRecords, Phases, Undoing
<1>4. /\ t.phase = "undoService" /\ SameAttempt(t0, t) /\ SameAim(t0, t)
      /\ t.restarted = t0.restarted /\ t.unsure = t0.unsure
  BY <1>2 DEF AttemptRecords, SameAttempt, SameAim
<1>5. task' = [task EXCEPT ![r] = t] /\ row' = RestoredToken(r)
      /\ UNCHANGED <<disk, agent, deleting, attempts, faults>>
  BY DEF UndoToken, Keeps, counters
<1> HIDE DEF t
<1>6. ASSUME NEW i \in Items
      PROVE  ItemKept(t, disk[t0.host], i)
  <2>1. ToUndo(t, i) <=> ToUndo(t0, i)
    BY <1>1, <1>4 DEF ToUndo, Installing
  <2> QED
    BY <1>2, <1>4, <2>1, SameItem DEF SameAttempt
<1>7. ServiceKept(t, agent[t0.host])
  BY <1>2, <1>4 DEF Server, ServiceKept, SameAttempt
<1>8. t.phase \in Undoing \cup {"failed"} /\ t.phase # "undoStop"
  BY <1>4 DEF Undoing
<1> QED
  BY <1>2, <1>3, <1>4, <1>5, <1>6, <1>7, <1>8, QuietRollback DEF IInv, Types

\* A rollback that is given up keeps the backups of what it has not come to.
LEMMA GivesUp ==
  ASSUME IInv, NEW r \in Rows, NEW f \in BOOLEAN, f \/ task[r].closing,
         task[r].phase \in Touching,
         task' = [task EXCEPT ![r] = [task[r] EXCEPT !.phase = "failed", !.faulty = task[r].faulty \/ f]],
         row' = row \/ row' = RestoredToken(r),
         UNCHANGED <<disk, agent, deleting, attempts>>, faults' \in 0 .. MaxFaults
  PROVE  IInv'
<1> DEFINE t0 == task[r]
           g == t0.faulty \/ f
           t == [t0 EXCEPT !.phase = "failed", !.faulty = g]
<1>1. t0 \in AttemptRecords /\ Sound(t0, row[r])
  BY Facts
<1>2. Holds(t0)
  BY <1>1 DEF Sound, Tokens, Holds, Touching, Installing, Undoing
<1>3. Server(t0, disk[t0.host], agent[t0.host])
  BY <1>2, Facts
<1>4. g \in BOOLEAN /\ task' = [task EXCEPT ![r] = t] /\ (g \/ t0.closing)
  BY <1>1 DEF AttemptRecords
<1> HIDE DEF g
<1>5. t \in AttemptRecords
  BY <1>1, <1>4 DEF AttemptRecords, Phases
<1>6. /\ t.phase = "failed" /\ SameAim(t0, t) /\ t.reached = t0.reached /\ t.installed = t0.installed
      /\ t.backed = t0.backed /\ t.backup = t0.backup /\ t.unsure = t0.unsure /\ (t.faulty \/ t.closing)
      /\ t.before = t0.before
  BY <1>1, <1>4 DEF AttemptRecords, SameAim
<1> HIDE DEF t
<1>7. ASSUME NEW i \in Items
      PROVE  ItemKept(t, disk[t0.host], i)
  <2>1. ItemKept(t0, disk[t0.host], i)
    BY <1>3 DEF Server, AtWork
  <2>2. ~ToUndo(t, i)
    BY <1>6 DEF ToUndo, Installing
  <2> QED
    BY <1>6, <2>1, <2>2 DEF ItemKept
<1>8. ServiceKept(t, agent[t0.host])
  BY <1>6 DEF ServiceKept, Touching, Installing, Undoing
<1>9. t.phase \in Undoing \cup {"failed"} /\ t.phase # "undoStop"
  BY <1>6
<1> QED
  BY <1>4, <1>5, <1>6, <1>7, <1>8, <1>9, QuietRollback

LEMMA GivingUpSteps ==
  ASSUME IInv, NEW r \in Rows, ConnectionLost(r) \/ ConnectionCloses(r)
  PROVE  IInv'
<1>1. task[r] \in AttemptRecords /\ task \in [Rows -> AttemptRecords]
  BY DEF IInv, Types
<1>2. CASE ConnectionLost(r)
  <2>1. task' = [task EXCEPT ![r] = [task[r] EXCEPT !.phase = "failed", !.faulty = task[r].faulty \/ TRUE]]
    BY <1>1, <1>2 DEF ConnectionLost, Keeps
  <2>2. task[r].phase \in Touching /\ row' = RestoredToken(r) /\ faults' \in 0 .. MaxFaults
        /\ UNCHANGED <<disk, agent, deleting, attempts>>
    BY <1>2, BoundAssumption DEF ConnectionLost, Touching, Installing, Undoing, IInv, Types
  <2> QED
    BY <2>1, <2>2, GivesUp
<1>3. CASE ConnectionCloses(r)
  <2>1. task[r].faulty = (task[r].faulty \/ FALSE)
    BY <1>1 DEF AttemptRecords
  <2>2. [task[r] EXCEPT !.phase = "failed"] = [task[r] EXCEPT !.phase = "failed", !.faulty = task[r].faulty \/ FALSE]
    BY <1>1, <2>1 DEF AttemptRecords
  <2>3. task' = [task EXCEPT ![r] = [task[r] EXCEPT !.phase = "failed", !.faulty = task[r].faulty \/ FALSE]]
    BY <1>1, <1>3, <2>2 DEF ConnectionCloses, Keeps
  <2>4. task[r].phase \in Touching /\ task[r].closing /\ row' = RestoredToken(r) /\ faults' \in 0 .. MaxFaults
        /\ UNCHANGED <<disk, agent, deleting, attempts>>
    BY <1>3 DEF ConnectionCloses, Touching, counters, IInv, Types
  <2> QED
    BY <2>3, <2>4, GivesUp
<1> QED
  BY <1>2, <1>3

LEMMA UndoServiceStep ==
  ASSUME IInv, NEW r \in Rows, UndoService(r)
  PROVE  IInv'
<1> DEFINE t0 == task[r]
           h == t0.host
           d == disk[h]
           a == IF ~t0.restarted THEN agent[h] ELSE IF t0.wasActive THEN Loaded(d) ELSE Stopped
           t == [t0 EXCEPT !.phase = "failed"]
<1>1. t0.phase \in Undoing /\ t0.phase = "undoService"
  BY DEF UndoService, Undoing
<1>2. /\ t0 \in AttemptRecords /\ Sound(t0, row[r])
      /\ h \in Servers /\ d \in [Items -> Versions] /\ agent[h] \in AgentRecords
      /\ Server(t0, d, agent[h]) /\ t0.phase \in Touching /\ Holds(t0)
      /\ \A i \in Items : ItemKept(t0, d, i)
      /\ t0.before[Config] = t0.old => d[Config] = t0.old
  BY <1>1, UndoFacts
<1>3. a \in AgentRecords /\ a.started = IF t0.restarted THEN t0.wasActive ELSE agent[h].started
  <2>1. Stopped \in AgentRecords /\ Stopped.started = FALSE
    BY Numbers DEF Stopped, AgentRecords
  <2>2. Loaded(d) \in AgentRecords /\ Loaded(d).started = TRUE
    BY <1>2, LoadedIs DEF Loaded
  <2>3. t0.restarted \in BOOLEAN /\ t0.wasActive \in BOOLEAN
    BY <1>2 DEF AttemptRecords
  <2>4. CASE ~t0.restarted
    BY <1>2, <2>4
  <2>5. CASE t0.restarted /\ t0.wasActive
    <3>1. a = Loaded(d) /\ t0.wasActive = TRUE
      BY <2>3, <2>5
    <3> QED
      BY <2>2, <2>5, <3>1
  <2>6. CASE t0.restarted /\ ~t0.wasActive
    <3>1. a = Stopped /\ t0.wasActive = FALSE
      BY <2>3, <2>6
    <3> QED
      BY <2>1, <2>6, <3>1
  <2> QED
    BY <2>4, <2>5, <2>6
<1>4. t \in AttemptRecords
  BY <1>2 DEF AttemptRecords, Phases
<1>5. /\ task' = [task EXCEPT ![r] = t]
      /\ disk' = [disk EXCEPT ![h] = d] /\ agent' = [agent EXCEPT ![h] = a]
      /\ UNCHANGED <<row, deleting, attempts, faults>>
  BY <1>2 DEF UndoService, Running, Keeps, counters, IInv, Types
<1> HIDE DEF a
<1>6. /\ t.phase = "failed" /\ SameAttempt(t0, t) /\ SameAim(t0, t)
      /\ t.restarted = t0.restarted /\ t.unsure = t0.unsure /\ t.wasActive = t0.wasActive
  BY <1>2 DEF AttemptRecords, SameAttempt, SameAim
<1> HIDE DEF t
<1>7. ASSUME NEW i \in Items
      PROVE  ItemKept(t, d, i)
  <2>1. ToUndo(t, i) <=> ToUndo(t0, i)
    BY <1>1, <1>6 DEF ToUndo, Installing
  <2> QED
    BY <1>2, <1>6, <2>1, SameItem DEF SameAttempt
<1>8. ServiceKept(t, a)
  <2>1. ~t0.restarted => agent[h].started = t0.wasActive
    BY <1>2 DEF Server, ServiceKept
  <2> QED
    BY <1>3, <1>6, <2>1 DEF ServiceKept, Touching, Installing, Undoing
<1>9. RollsBack(t0, row[r], d, agent[h], t, row[r], d, a)
  BY <1>2, <1>6, <1>7, <1>8 DEF RollsBack
<1>10. Holds(t) /\ t.host = t0.host /\ Sound(t, row[r]) /\ Server(t, d, a)
  BY <1>2, <1>4, <1>9, RollbackStep
<1> QED
  BY <1>2, <1>3, <1>4, <1>5, <1>10, ServerStep DEF IInv, Types

LEMMA UndoFailsStep ==
  ASSUME IInv, NEW r \in Rows, UndoFails(r)
  PROVE  IInv'
<1> DEFINE t0 == task[r]
           d == disk[t0.host]
           t1 == [t0 EXCEPT !.faulty = TRUE]
<1>1. t0.phase \in Undoing /\ t1.phase = t0.phase
  BY Facts DEF UndoFails, Undoing, AttemptRecords
<1>2. /\ t0 \in AttemptRecords /\ t0.phase \in Touching /\ Sound(t0, row[r])
      /\ Server(t0, d, agent[t0.host])
      /\ \A i \in Items : ItemKept(t0, d, i)
  BY <1>1, UndoFacts
<1>3. UNCHANGED <<row, disk, agent, deleting, attempts>> /\ faults' \in 0 .. MaxFaults
  BY BoundAssumption DEF UndoFails, IInv, Types
<1>4. t1 \in AttemptRecords
  BY <1>2 DEF AttemptRecords
<1>5. /\ t1.faulty /\ t1.restarted = t0.restarted /\ t1.unsure = t0.unsure /\ t1.closing = t0.closing
      /\ t1.reached = t0.reached /\ t1.installed = t0.installed /\ t1.backed = t0.backed
      /\ t1.backup = t0.backup /\ t1.before = t0.before /\ t1.new = t0.new /\ t1.number = t0.number
      /\ t1.wasActive = t0.wasActive /\ t1.item = t0.item /\ SameAim(t0, t1)
  BY <1>2 DEF AttemptRecords, SameAim
<1>6. ASSUME NEW t \in AttemptRecords, SameAttempt(t1, t), t.unsure = t1.unsure,
             t.restarted = t1.restarted, task' = [task EXCEPT ![r] = t],
             t.phase \in {"undoItem", "undoToken", "failed"},
             \A i \in Items : ToUndo(t, i) => ToUndo(t0, i)
      PROVE  IInv'
  <2>1. ASSUME NEW i \in Items
        PROVE  ItemKept(t, d, i)
    <3>1. ItemKept(t0, d, i)
      BY <1>2
    <3>2. /\ t.reached = t0.reached /\ t.installed = t0.installed /\ t.backed = t0.backed
          /\ t.backup = t0.backup /\ t.before = t0.before /\ t.new = t0.new /\ t.number = t0.number
          /\ t.faulty /\ t.unsure = t0.unsure
      BY <1>5, <1>6 DEF SameAttempt
    <3> QED
      BY <1>6, <3>1, <3>2 DEF ItemKept, New
  <2>2. ServiceKept(t, agent[t0.host])
    BY <1>2, <1>5, <1>6 DEF ServiceKept, Server, SameAttempt
  <2>3. t.phase \in Undoing \cup {"failed"} /\ t.phase # "undoStop" /\ SameAim(t0, t)
    BY <1>5, <1>6 DEF Undoing, SameAttempt, SameAim
  <2> QED
    BY <1>2, <1>3, <1>6, <2>1, <2>2, <2>3, QuietRollback
<1> HIDE DEF t1
<1>7. CASE t0.phase = "undoStop"
  <2> DEFINE t == [t1 EXCEPT !.phase = "undoItem", !.item = Venv]
  <2>1. t \in AttemptRecords /\ SameAttempt(t1, t) /\ t.unsure = t1.unsure
        /\ t.restarted = t1.restarted /\ t.phase = "undoItem"
    BY <1>4, Numbers DEF AttemptRecords, SameAttempt, Phases, Undoing
  <2>2. task' = [task EXCEPT ![r] = t]
    BY <1>1, <1>7 DEF UndoFails, Keeps, t1
  <2> HIDE DEF t
  <2> QED
    BY <1>6, <1>7, <2>1, <2>2 DEF ToUndo
<1>8. CASE t0.phase = "undoItem"
  <2> DEFINE t == NextUndo(t1)
  <2>1. /\ t \in AttemptRecords /\ SameAttempt(t1, t) /\ t.unsure = t1.unsure
        /\ t.restarted = t1.restarted /\ t.phase \in {"undoItem", "undoToken"}
        /\ \A i \in Items : ToUndo(t, i) => ToUndo(t1, i)
    BY <1>1, <1>4, <1>8, NextUndoIs
  <2>2. \A i \in Items : ToUndo(t1, i) => ToUndo(t0, i)
    BY <1>1, <1>5 DEF ToUndo
  <2>3. task' = [task EXCEPT ![r] = t]
    BY <1>1, <1>8 DEF UndoFails, Keeps, t1
  <2> HIDE DEF t
  <2> QED
    BY <1>6, <2>1, <2>2, <2>3
<1>9. CASE t0.phase = "undoService"
  <2> DEFINE t == [t1 EXCEPT !.phase = "failed"]
  <2>1. t \in AttemptRecords /\ SameAttempt(t1, t) /\ t.unsure = t1.unsure
        /\ t.restarted = t1.restarted /\ t.phase = "failed"
    BY <1>4 DEF AttemptRecords, SameAttempt, Phases
  <2>2. task' = [task EXCEPT ![r] = t]
    BY <1>1, <1>9 DEF UndoFails, Keeps, t1
  <2> HIDE DEF t
  <2>3. \A i \in Items : ~ToUndo(t, i)
    BY <2>1 DEF ToUndo, Installing
  <2> QED
    BY <1>6, <2>1, <2>2, <2>3
<1>10. t0.phase \in {"undoStop", "undoItem", "undoService"}
  BY <1>1 DEF UndoFails, t1
<1> QED
  BY <1>7, <1>8, <1>9, <1>10

-------------------------------------------------------------------------------
(* The safety timeout. *)

LEMMA ClosingIs ==
  ASSUME NEW r \in Rows, Timeout(r), task[r].phase \in Undoing
  PROVE  Keeps(r, [task[r] EXCEPT !.closing = TRUE])
<1>1. task[r].phase # "cleanup"
  BY DEF Undoing
<1>2. task' = [task EXCEPT ![r] = [task[r] EXCEPT !.closing = TRUE]]
  BY <1>1 DEF Timeout, Keeps
<1> QED
  BY <1>2 DEF Keeps

LEMMA TimeoutInRollback ==
  ASSUME IInv, NEW r \in Rows, Timeout(r), task[r].phase \in Undoing
  PROVE  IInv'
<1> DEFINE t0 == task[r]
           d == disk[t0.host]
           t == [t0 EXCEPT !.closing = TRUE]
<1>1. /\ t0 \in AttemptRecords /\ t0.phase \in Touching /\ Sound(t0, row[r])
      /\ Server(t0, d, agent[t0.host])
      /\ \A i \in Items : ItemKept(t0, d, i)
  BY UndoFacts
<1>2. t0.phase \notin {"backup", "install", "restart", "cleanup", "none", "failed"}
  BY DEF Undoing
<1>3. task' = [task EXCEPT ![r] = t] /\ UNCHANGED <<row, disk, agent, deleting, attempts>>
      /\ faults' \in 0 .. MaxFaults
  <2>1. UNCHANGED <<row, disk, agent, deleting, attempts>> /\ faults' \in 0 .. MaxFaults
    BY <1>2, BoundAssumption DEF Timeout, IInv, Types
  <2>2. task' = [task EXCEPT ![r] = t]
    BY ClosingIs DEF Keeps
  <2> QED
    BY <2>1, <2>2
<1>4. t \in AttemptRecords
  BY <1>1 DEF AttemptRecords
<1>5. /\ t.phase = t0.phase /\ t.item = t0.item /\ SameAim(t0, t) /\ t.reached = t0.reached
      /\ t.installed = t0.installed /\ t.backed = t0.backed /\ t.backup = t0.backup
      /\ t.unsure = t0.unsure /\ t.restarted = t0.restarted /\ t.wasActive = t0.wasActive
      /\ t.closing /\ t.faulty = t0.faulty /\ t.before = t0.before /\ t.new = t0.new
      /\ t.number = t0.number
  BY <1>1 DEF AttemptRecords, SameAim
<1> HIDE DEF t
<1>6. ASSUME NEW i \in Items
      PROVE  ItemKept(t, d, i)
  BY <1>1, <1>5, SameItem DEF ToUndo
<1>7. ServiceKept(t, agent[t0.host])
  BY <1>1, <1>2, <1>5 DEF Server, ServiceKept
<1>8. t.phase \in Undoing \cup {"failed"} /\ (t.phase = "undoStop" => t.restarted)
  BY <1>1, <1>5 DEF Sound, Position
<1> QED
  BY <1>1, <1>3, <1>4, <1>5, <1>6, <1>7, <1>8, QuietRollback

\* What a timeout makes of an attempt that is not yet being rolled back.
LEMMA TimedOut ==
  ASSUME NEW t0 \in AttemptRecords
  PROVE  LET t1 == [t0 EXCEPT !.restarted = @ \/ t0.phase = "restart",
                              !.unsure = t0.phase \in {"backup", "install"}]
             t == Abandoned(t1)
         IN  /\ t \in AttemptRecords /\ SameAttempt(t0, t) /\ t.item = Venv
             /\ t.unsure = (t0.phase \in {"backup", "install"})
             /\ t.restarted = (t0.restarted \/ t0.phase = "restart")
             /\ t.phase = IF t0.phase \in {"queued", "read", "stage"} THEN "failed"
                          ELSE IF t.restarted THEN "undoStop" ELSE "undoItem"
<1> DEFINE g == t0.restarted \/ t0.phase = "restart"
           u == t0.phase \in {"backup", "install"}
           t1 == [t0 EXCEPT !.restarted = g, !.unsure = u]
<1>1. g \in BOOLEAN /\ u \in BOOLEAN
  BY DEF AttemptRecords
<1> HIDE DEF g, u
<1>2. /\ t1 \in AttemptRecords /\ SameAttempt(t0, t1) /\ t1.phase = t0.phase
      /\ t1.restarted = g /\ t1.unsure = u
  BY <1>1 DEF AttemptRecords, SameAttempt
<1>3. LET t == Abandoned(t1)
      IN  /\ t \in AttemptRecords /\ SameAttempt(t0, t) /\ t.item = Venv
          /\ t.unsure = u /\ t.restarted = g
          /\ t.phase = IF t0.phase \in {"queued", "read", "stage"} THEN "failed"
                       ELSE IF t.restarted THEN "undoStop" ELSE "undoItem"
  <2> HIDE DEF t1
  <2> QED
    BY <1>2, AbandonedIs DEF SameAttempt
<1> QED
  BY <1>3 DEF g, u

LEMMA TimeoutStep ==
  ASSUME IInv, NEW r \in Rows, Timeout(r)
  PROVE  IInv'
<1> DEFINE t0 == task[r]
           h == t0.host
           t1 == [t0 EXCEPT !.restarted = @ \/ t0.phase = "restart",
                            !.unsure = t0.phase \in {"backup", "install"}]
           t == Abandoned(t1)
<1>1. t0 \in AttemptRecords /\ Sound(t0, row[r]) /\ row' = row /\ t0.phase \notin {"none", "failed"}
      /\ UNCHANGED <<row, deleting, attempts>> /\ faults' \in 0 .. MaxFaults
  BY Facts, BoundAssumption DEF Timeout, IInv, Types
<1>2. /\ t \in AttemptRecords /\ SameAttempt(t0, t) /\ t.item = Venv
      /\ t.unsure = (t0.phase \in {"backup", "install"})
      /\ t.restarted = (t0.restarted \/ t0.phase = "restart")
      /\ t.phase = IF t0.phase \in {"queued", "read", "stage"} THEN "failed"
                   ELSE IF t.restarted THEN "undoStop" ELSE "undoItem"
  BY <1>1, TimedOut
<1>3. t0.phase \notin Undoing \cup {"cleanup"} => task' = [task EXCEPT ![r] = t]
  BY DEF Timeout, Keeps
<1> HIDE DEF t
<1>4. CASE t0.phase \in Undoing
  BY <1>4, TimeoutInRollback
<1>5. CASE t0.phase = "cleanup"
  <2>1. task' = [task EXCEPT ![r] = NoAttempt] /\ UNCHANGED <<disk, agent>>
    BY <1>5 DEF Timeout, Keeps, Undoing
  <2> QED
    BY <1>1, <2>1, NothingDone
<1>6. CASE t0.phase \in {"queued", "read", "stage"}
  <2>1. UNCHANGED <<disk, agent>> /\ t.phase = "failed" /\ task' = [task EXCEPT ![r] = t] /\ t.host = h
    BY <1>2, <1>3, <1>6 DEF Timeout, Undoing, SameAttempt
  <2>2. Sound(t, row[r]) /\ (Holds(t) => Holds(t0) /\ Server(t, disk[h], agent[h]))
    BY <1>1, <1>2, <1>6, <2>1, EarlyFailure
  <2> QED
    BY <1>1, <1>2, <2>1, <2>2, QuietStep DEF IInv, Types
<1>7. CASE t0.phase \in Installing
  <2>1. Holds(t0) /\ t0.phase \in Touching /\ t0.phase \notin Undoing \cup {"cleanup"}
    BY <1>1, <1>7 DEF Sound, Tokens, Holds, Touching, Installing, Undoing
  <2>2. h \in Servers /\ disk[h] \in [Items -> Versions] /\ agent[h] \in AgentRecords
        /\ Server(t0, disk[h], agent[h])
    BY <2>1, Facts
  <2>3. t0.before[Config] = t0.old => disk[h][Config] = t0.old /\ t0.new = t0.old
    BY <1>1, <2>1, <2>2, NewIsSome DEF Server, ConfigKept, Brings
  <2>4. \E d \in [Items -> Versions] :
          /\ disk' = [disk EXCEPT ![h] = d]
          /\ d = disk[h] \/ (t.unsure /\ (t0.before[Config] = t0.old => d[Config] = t0.old))
    <3>1. CASE disk' = disk
      BY <2>2, <3>1 DEF IInv, Types
    <3>2. CASE t0.phase = "backup" /\ disk' = BackedUp(t0)
      <4> DEFINE d == [disk[h] EXCEPT ![t0.item] = IF t0.item = Venv THEN None ELSE @]
      <4>1. disk' = [disk EXCEPT ![h] = d] /\ d \in [Items -> Versions] /\ d[Config] = disk[h][Config]
        BY <1>1, <2>2, <3>2, Numbers DEF BackedUp, IInv, Types, AttemptRecords
      <4> QED
        BY <1>2, <2>3, <3>2, <4>1
    <3>3. CASE t0.phase = "install" /\ disk' = Installed(t0)
      <4> DEFINE d == [disk[h] EXCEPT ![t0.item] = New(t0, t0.item)]
      <4>1. disk' = [disk EXCEPT ![h] = d] /\ d \in [Items -> Versions]
            /\ d[Config] \in {disk[h][Config], t0.new}
        BY <1>1, <2>2, <3>3, Numbers DEF Installed, New, IInv, Types, AttemptRecords
      <4> QED
        BY <1>2, <2>3, <3>3, <4>1
    <3> QED
      BY <3>1, <3>2, <3>3 DEF Timeout
  <2>5. \E a \in AgentRecords :
          /\ agent' = [agent EXCEPT ![h] = a]
          /\ a = agent[h] \/ t.restarted
    <3>1. CASE agent' = agent
      BY <2>2, <3>1 DEF IInv, Types
    <3>2. CASE t0.phase = "restart" /\ agent' = [agent EXCEPT ![h] = Running(h)]
      BY <1>2, <2>2, <3>2, LoadedIs DEF Running
    <3> QED
      BY <3>1, <3>2 DEF Timeout
  <2>6. PICK d \in [Items -> Versions] :
          /\ disk' = [disk EXCEPT ![h] = d]
          /\ d = disk[h] \/ (t.unsure /\ (t0.before[Config] = t0.old => d[Config] = t0.old))
    BY <2>4
  <2>7. PICK a \in AgentRecords :
          /\ agent' = [agent EXCEPT ![h] = a]
          /\ a = agent[h] \/ t.restarted
    BY <2>5
  <2>8. t.phase \in {"undoStop", "undoItem"} /\ (t.phase = "undoStop" => t.restarted)
        /\ (t0.restarted => t.restarted)
    BY <1>2, <1>7 DEF Installing
  <2>9. Holds(t) /\ Sound(t, row[r]) /\ Server(t, d, a)
    <3>1. TurnsBack(t0, row[r], disk[h], agent[h], t, d, a)
      BY <1>1, <1>2, <1>7, <2>2, <2>6, <2>7, <2>8 DEF TurnsBack
    <3> QED
      BY <1>1, <1>2, <3>1, TurnBack
  <2>10. task' = [task EXCEPT ![r] = t] /\ t.host = h
    BY <1>2, <1>3, <2>1 DEF SameAttempt
  <2> QED
    BY <1>1, <1>2, <2>1, <2>2, <2>6, <2>7, <2>9, <2>10, ServerStep
<1> QED
  BY <1>1, <1>4, <1>5, <1>6, <1>7 DEF AttemptRecords, Phases

-------------------------------------------------------------------------------
(* Operators, the Agent and the Hub. *)

\* A handler that changes the row of a node, and may enqueue an attempt for it.
LEMMA HandlerStep ==
  ASSUME IInv, NEW r \in Rows, NEW w \in RowRecords, row' = [row EXCEPT ![r] = w],
         UNCHANGED <<disk, agent, faults>>, deleting' \subseteq Rows,
         w.status = "none" <=> w.host = None, w.status # "none" => w.token # None,
         \/ UNCHANGED <<task, attempts>> /\ (w.status = "none" \/ w.token = row[r].token)
            /\ (w.status # "none" => row[r].status # "none")
         \/ Enqueue(r)
  PROVE  IInv'
<1>1. task[r] \in AttemptRecords /\ row[r] \in RowRecords /\ Sound(task[r], row[r]) /\ row'[r] = w
      /\ faults' \in 0 .. MaxFaults /\ attempts \in 0 .. MaxAttempts
  BY Facts DEF IInv, Types
<1>2. CASE UNCHANGED <<task, attempts>> /\ (w.status = "none" \/ w.token = row[r].token)
           /\ (w.status # "none" => row[r].status # "none")
  <2>1. task' = [task EXCEPT ![r] = task[r]] /\ attempts' \in 0 .. MaxAttempts
    BY <1>1, <1>2 DEF IInv, Types
  <2>2. Tokens(task[r], w)
    BY <1>1, <1>2 DEF Sound, Tokens
  <2>3. Sound(task[r], w)
    BY <1>1, <2>2 DEF Sound
  <2>4. Holds(task[r]) => Server(task[r], disk[task[r].host], agent[task[r].host])
    BY Facts
  <2> QED
    BY <1>1, <2>1, <2>3, <2>4, QuietStep
<1>3. CASE Enqueue(r)
  <2> DEFINE t == [NoAttempt EXCEPT !.phase = "queued", !.number = attempts + 1]
  <2>1. attempts' \in 0 .. MaxAttempts /\ attempts + 1 \in Versions /\ attempts + 1 # None
    BY <1>1, <1>3, SizeAssumption DEF Enqueue, Versions, Foreign, None
  <2>2. t \in AttemptRecords
    BY <2>1, Numbers DEF NoAttempt, AttemptRecords, Phases
  <2>3. /\ t.phase = "queued" /\ t.number # None /\ t.host = None /\ t.new = None /\ Untouched(t)
    BY <2>1 DEF NoAttempt, Untouched
  <2>4. task' = [task EXCEPT ![r] = t]
    BY <1>3 DEF Enqueue
  <2> HIDE DEF t
  <2>5. Tokens(t, w) /\ ~Holds(t)
    BY <2>3 DEF Tokens, Holds, Touching, Installing, Undoing
  <2>6. Sound(t, w)
    BY <2>3, <2>5 DEF Sound, Position, Installing, Untouched
  <2> QED
    BY <1>1, <2>1, <2>2, <2>4, <2>5, <2>6, QuietStep
<1> QED
  BY <1>2, <1>3

LEMMA HandlerSteps ==
  ASSUME IInv, NEW r \in Rows,
         \/ \E s \in Servers : CreateNode(r, s) \/ MoveNode(r, s)
         \/ RetryNode(r) \/ ReadDelete(r) \/ WriteDelete(r)
  PROVE  IInv'
<1>1. row[r] \in RowRecords /\ Tokens(task[r], row[r]) /\ deleting \subseteq Rows
      /\ attempts \in 0 .. MaxAttempts /\ row \in [Rows -> RowRecords]
  BY Facts DEF Sound, IInv, Types
<1>2. \A s \in Servers : s # None
  BY ServerAssumption
<1>3. ASSUME NEW s \in Servers, CreateNode(r, s)
      PROVE  IInv'
  <2> DEFINE w == [status |-> "provisioning", token |-> attempts + 1, host |-> s]
  <2>1. w \in RowRecords /\ w.token # None
    BY <1>1, <1>3, SizeAssumption DEF RowRecords, CreateNode, Enqueue, Versions, Foreign, None
  <2> QED
    BY <1>1, <1>2, <1>3, <2>1, HandlerStep DEF CreateNode
<1>4. CASE RetryNode(r)
  <2> DEFINE w == [row[r] EXCEPT !.status = "provisioning"]
  <2>1. w \in RowRecords /\ w.token = row[r].token /\ w.host = row[r].host /\ w.status # "none"
        /\ row[r].status # "none"
    BY <1>1, <1>4 DEF RowRecords, RetryNode
  <2>2. row' = [row EXCEPT ![r] = w] /\ UNCHANGED <<disk, agent, deleting, faults>> /\ Enqueue(r)
    BY <1>4 DEF RetryNode
  <2> HIDE DEF w
  <2> QED
    BY <1>1, <2>1, <2>2, HandlerStep DEF Tokens
<1>5. ASSUME NEW s \in Servers, MoveNode(r, s)
      PROVE  IInv'
  <2> DEFINE w == [row[r] EXCEPT !.host = s]
  <2>1. w \in RowRecords /\ w.token = row[r].token /\ w.host = s /\ w.status = row[r].status
        /\ row[r].status # "none"
    BY <1>1, <1>5 DEF RowRecords, MoveNode
  <2>2. row' = [row EXCEPT ![r] = w] /\ UNCHANGED <<disk, agent, task, deleting, attempts, faults>>
    BY <1>5 DEF MoveNode, counters
  <2> HIDE DEF w
  <2> QED
    BY <1>1, <1>2, <2>1, <2>2, HandlerStep DEF Tokens
<1>6. CASE ReadDelete(r)
  <2>1. row' = [row EXCEPT ![r] = row[r]] /\ UNCHANGED <<disk, agent, task, attempts, faults>>
        /\ deleting' \subseteq Rows
    BY <1>1, <1>6 DEF ReadDelete, counters
  <2> QED
    BY <1>1, <2>1, HandlerStep DEF Tokens
<1>7. CASE WriteDelete(r)
  <2> DEFINE w == [status |-> "none", token |-> None, host |-> None]
  <2>1. w \in RowRecords
    BY Numbers DEF RowRecords
  <2>2. row' = [row EXCEPT ![r] = w] /\ UNCHANGED <<disk, agent, task, attempts, faults>>
        /\ deleting' \subseteq Rows
    BY <1>1, <1>7 DEF WriteDelete, counters
  <2> QED
    BY <2>1, <2>2, HandlerStep
<1> QED
  BY <1>3, <1>4, <1>5, <1>6, <1>7

LEMMA StartStep ==
  ASSUME IInv, NEW r \in Rows, TaskStarts(r)
  PROVE  IInv'
<1> DEFINE t0 == task[r]
           h == row[r].host
           t == [t0 EXCEPT !.phase = "read", !.host = h, !.old = row[r].token]
<1>1. t0 \in AttemptRecords /\ row[r] \in RowRecords /\ Sound(t0, row[r]) /\ t0.phase = "queued"
      /\ UNCHANGED <<row, disk, agent, deleting, attempts, faults>>
  BY Facts DEF TaskStarts, counters
<1>2. CASE ~Provisioning(r)
  <2>1. task' = [task EXCEPT ![r] = NoAttempt] /\ faults' \in 0 .. MaxFaults
    BY <1>1, <1>2 DEF TaskStarts, Keeps, IInv, Types
  <2> QED
    BY <1>1, <2>1, NothingDone
<1>3. CASE Provisioning(r)
  <2>1. h # None /\ row[r].token # None /\ h \in Servers
    BY <1>1, <1>3 DEF Sound, Tokens, Provisioning, RowRecords
  <2>2. t \in AttemptRecords
    BY <1>1, <2>1 DEF AttemptRecords, RowRecords, Phases
  <2>3. /\ t.phase = "read" /\ t.host = h /\ t.old = row[r].token /\ t.number = t0.number
        /\ t.new = t0.new /\ Untouched(t) /\ t.reached = {}
    BY <1>1 DEF AttemptRecords, Untouched, Sound, Early
  <2>4. task' = [task EXCEPT ![r] = t]
    BY <1>3 DEF TaskStarts, Keeps
  <2> HIDE DEF t
  <2>5. task'[r] = t /\ \A q \in Rows \ {r} : task'[q] = task[q]
    BY <2>4 DEF IInv, Types
  <2>6. Types'
    BY <1>1, <2>2, <2>4 DEF IInv, Types
  <2>7. Exclusive'
    <3>1. \A q \in Rows : Holds(task[q]) => task[q].host # h
      BY <1>3 DEF TaskStarts, Locked, Holds
    <3> QED
      BY <2>3, <2>5, <3>1 DEF IInv, Exclusive
  <2>8. Sound(t, row[r])
    <3>1. Tokens(t, row[r])
      BY <1>1, <2>1, <2>3 DEF Sound, Tokens, Touching, Installing, Undoing
    <3> QED
      BY <2>3, <3>1 DEF Sound, Position, Installing, Untouched
  <2>9. Server(t, disk[h], agent[h])
    BY <2>3 DEF Server, AtWork, Brings, ConfigKept, ServiceKept, Touching, Installing, Undoing
  <2>10. \A q \in Rows : Sound(task'[q], row'[q])
    BY <1>1, <2>5, <2>8 DEF IInv
  <2>11. \A q \in Rows : Holds(task'[q]) => Server(task'[q], disk'[task'[q].host], agent'[task'[q].host])
    BY <1>1, <2>3, <2>5, <2>9 DEF IInv
  <2> QED
    BY <2>6, <2>7, <2>10, <2>11 DEF IInv
<1> QED
  BY <1>2, <1>3

LEMMA AgentStep ==
  ASSUME IInv, NEW s \in Servers, AgentRestarts(s)
  PROVE  IInv'
<1>1. UNCHANGED <<row, disk, task, deleting, attempts, faults>> /\ agent[s].started
      /\ agent' = [agent EXCEPT ![s] = Loaded(disk[s])] /\ agent \in [Servers -> AgentRecords]
  BY DEF AgentRestarts, Running, counters, IInv, Types
<1>2. Loaded(disk[s]) \in AgentRecords /\ Loaded(disk[s]).started
  BY LoadedIs DEF IInv, Types, Loaded
<1>3. Types'
  BY <1>1, <1>2 DEF IInv, Types
<1>4. ASSUME NEW r \in Rows, Holds(task[r])
      PROVE  Server(task[r], disk[task[r].host], agent'[task[r].host])
  <2>1. task[r].host \in Servers /\ Server(task[r], disk[task[r].host], agent[task[r].host])
        /\ task[r] \in AttemptRecords /\ agent[task[r].host] \in AgentRecords
    BY <1>4, Facts
  <2>2. CASE task[r].host # s
    BY <1>1, <2>1, <2>2
  <2>3. CASE task[r].host = s
    <3>1. agent'[s] = Loaded(disk[s])
      BY <1>1
    <3>2. Loaded(disk[s]).started = agent[s].started
      BY <1>1, <1>2 DEF AgentRecords
    <3> QED
      BY <2>1, <2>3, <3>1, <3>2 DEF Server, ServiceKept
  <2> QED
    BY <2>2, <2>3
<1>5. Exclusive' /\ \A r \in Rows : Sound(task'[r], row'[r])
  BY <1>1 DEF IInv, Exclusive
<1> QED
  BY <1>1, <1>3, <1>4, <1>5 DEF IInv

LEMMA NoAttemptIs ==
  /\ NoAttempt \in AttemptRecords /\ NoAttempt.phase = "none" /\ NoAttempt.host = None
  /\ Untouched(NoAttempt)
BY Numbers DEF NoAttempt, AttemptRecords, Phases, Untouched

\* Without an attempt there is nothing to know.
LEMMA NoAttemptSound ==
  ASSUME NEW w, w.status = "none" <=> w.host = None, w.status # "none" => w.token # None
  PROVE  Sound(NoAttempt, w) /\ ~Holds(NoAttempt)
<1> HIDE DEF NoAttempt
<1>1. Tokens(NoAttempt, w) /\ ~Holds(NoAttempt)
  BY NoAttemptIs DEF Tokens, Holds, Touching, Installing, Undoing
<1> QED
  BY <1>1, NoAttemptIs DEF Sound, Position, Installing, Untouched

LEMMA RestartIInv ==
  ASSUME IInv, HubRestart
  PROVE  IInv'
<1>1. /\ task' = [r \in Rows |-> NoAttempt] /\ deleting' = {} /\ faults' \in 0 .. MaxFaults
      /\ row' = [r \in Rows |-> [row[r] EXCEPT !.status = Recovered(r)]]
      /\ UNCHANGED <<disk, agent, attempts>>
  BY BoundAssumption DEF HubRestart, IInv, Types
<1>2. ASSUME NEW r \in Rows
      PROVE  /\ row'[r] \in RowRecords
             /\ row'[r].host = row[r].host /\ row'[r].token = row[r].token
             /\ row'[r].status = "none" <=> row[r].status = "none"
  <2>1. row[r] \in RowRecords /\ row'[r] = [row[r] EXCEPT !.status = Recovered(r)]
    BY <1>1 DEF IInv, Types
  <2>2. Recovered(r) \in {"none", "completed", "failed"}
        /\ (Recovered(r) = "none" <=> row[r].status = "none")
    BY <2>1 DEF Recovered, Provisioning, RowRecords
  <2> QED
    BY <2>1, <2>2 DEF RowRecords
<1>3. Types'
  <2>1. row' \in [Rows -> RowRecords]
    BY <1>1, <1>2
  <2> QED
    BY <1>1, <2>1, NoAttemptIs DEF IInv, Types
<1>4. ASSUME NEW r \in Rows
      PROVE  Sound(task'[r], row'[r]) /\ ~Holds(task'[r])
  <2>1. Tokens(task[r], row[r]) /\ task'[r] = NoAttempt
    BY <1>1 DEF IInv, Sound
  <2> QED
    BY <1>2, <1>4, <2>1, NoAttemptSound DEF Tokens
<1>5. Exclusive'
  BY <1>4 DEF Exclusive
<1> QED
  BY <1>3, <1>4, <1>5 DEF IInv

\* A server starts empty or with the Agent of another Hub; no node exists.
LEMMA InitIInv == Init => IInv
<1> SUFFICES ASSUME Init PROVE IInv
  OBVIOUS
<1>1. Foreign \in Versions /\ None \in Versions /\ 0 \in 0 .. MaxAttempts /\ 0 \in 0 .. MaxFaults
  BY SizeAssumption, BoundAssumption DEF Versions, Foreign, None
<1>2. PICK foreign \in SUBSET Servers :
        /\ disk = [s \in Servers |-> [i \in Items |-> IF s \in foreign THEN Foreign ELSE None]]
        /\ agent = [s \in Servers |->
             IF s \in foreign THEN [started |-> TRUE, token |-> Foreign, program |-> Foreign]
                              ELSE [started |-> FALSE, token |-> None, program |-> None]]
  BY DEF Init
<1>3. disk \in [Servers -> [Items -> Versions]] /\ agent \in [Servers -> AgentRecords]
  BY <1>1, <1>2 DEF AgentRecords
<1>4. Types
  BY <1>1, <1>3, NoAttemptIs DEF Init, Types, RowRecords
<1>5. ASSUME NEW r \in Rows
      PROVE  Sound(task[r], row[r]) /\ ~Holds(task[r])
  <2>1. row[r].status = "none" /\ row[r].host = None /\ task[r] = NoAttempt
    BY DEF Init
  <2> QED
    BY <2>1, NoAttemptSound
<1>6. Exclusive
  BY <1>5 DEF Exclusive
<1> QED
  BY <1>4, <1>5, <1>6 DEF IInv

LEMMA NextIInv == IInv /\ [Next]_vars => IInv'
<1> SUFFICES ASSUME IInv, [Next]_vars PROVE IInv'
  OBVIOUS
<1>1. ASSUME NEW r \in Rows, NEW s \in Servers, CreateNode(r, s) \/ MoveNode(r, s) \/ Heartbeat(s, r)
      PROVE  IInv'
  BY <1>1, HandlerSteps, AwaitSteps
<1>2. ASSUME NEW r \in Rows, RetryNode(r) \/ ReadDelete(r) \/ WriteDelete(r)
      PROVE  IInv'
  BY <1>2, HandlerSteps
<1>3. ASSUME NEW r \in Rows, Attempt(r)
      PROVE  IInv'
  <2>1. CASE TaskStarts(r)
    BY <2>1, StartStep
  <2>2. CASE ReadConfig(r) \/ Stage(r)
    BY <2>2, ReadSteps
  <2>3. CASE BackUp(r) \/ Install(r)
    BY <2>3, BackUpStep, InstallStep
  <2>4. CASE StoreToken(r) \/ RestartService(r)
    BY <2>4, StoreTokenStep, RestartStep
  <2>5. CASE Complete(r)
    BY <2>5, AwaitSteps
  <2>6. CASE NoHeartbeat(r)
    BY <2>6, FailureSteps
  <2>7. CASE UndoStop(r) \/ UndoItem(r)
    BY <2>7, UndoStopStep, UndoItemStep
  <2>8. CASE UndoToken(r) \/ UndoService(r)
    BY <2>8, UndoTokenStep, UndoServiceStep
  <2>9. CASE CleanUp(r) \/ Fails(r)
    BY <2>9, EndSteps
  <2> QED
    BY <1>3, <2>1, <2>2, <2>3, <2>4, <2>5, <2>6, <2>7, <2>8, <2>9 DEF Attempt
<1>4. ASSUME NEW r \in Rows, StepFails(r) \/ UndoFails(r) \/ Timeout(r)
      PROVE  IInv'
  BY <1>4, FailureSteps, UndoFailsStep, TimeoutStep
<1>5. ASSUME NEW r \in Rows, ConnectionLost(r) \/ ConnectionCloses(r)
      PROVE  IInv'
  BY <1>5, GivingUpSteps
<1>6. ASSUME NEW s \in Servers, AgentRestarts(s)
      PROVE  IInv'
  BY <1>6, AgentStep
<1>7. CASE HubRestart
  BY <1>7, RestartIInv
<1>8. CASE UNCHANGED vars
  BY <1>8 DEF vars, IInv, Types, Exclusive
<1> QED
  BY <1>1, <1>2, <1>3, <1>4, <1>5, <1>6, <1>7, <1>8 DEF Next

LEMMA SpecIInv == Spec => []IInv
BY InitIInv, NextIInv, PTL DEF Spec

\* An attempt that has stored its token gives it back when its rollback comes to that.
LEMMA PassingSteps ==
  ASSUME IInv, Next, NEW r \in Rows, PassesToken(r), task[r].changed
  PROVE  task[r].phase \in Touching /\ row' = RestoredToken(r)
<1>1. /\ task[r].phase \notin {"undoService", "failed"} /\ task'[r].phase \in {"undoService", "failed"}
      /\ task[r] \in AttemptRecords /\ task \in [Rows -> AttemptRecords]
      /\ NoAttempt.phase = "none" /\ task[r].phase \notin {"queued", "read", "stage"}
  BY Facts, NoAttemptIs DEF PassesToken, Sound, Early, Untouched, IInv, Types
<1>2. task' # task
  BY <1>1
<1>3. ASSUME NEW q \in Rows, NEW t, task' = [task EXCEPT ![q] = t]
      PROVE  q = r /\ t.phase \in {"undoService", "failed"}
  BY <1>1, <1>3
<1>4. ASSUME NEW q \in Rows, Enqueue(q) \/ \E s \in Servers : Heartbeat(s, q)
      PROVE  FALSE
  <2>1. CASE Enqueue(q)
    <3> DEFINE t == [NoAttempt EXCEPT !.phase = "queued", !.number = attempts + 1]
    <3>1. t.phase = "queued" /\ task' = [task EXCEPT ![q] = t]
      BY <2>1 DEF Enqueue, NoAttempt
    <3> QED
      BY <1>3, <3>1
  <2>2. ASSUME NEW s \in Servers, Heartbeat(s, q)
        PROVE  FALSE
    BY <1>1, <1>3, <2>2 DEF Heartbeat, Keeps, AttemptRecords
  <2> QED
    BY <1>4, <2>1, <2>2
<1>5. ASSUME NEW q \in Rows, NEW t, Keeps(q, t)
      PROVE  q = r /\ t.phase \in {"undoService", "failed"}
  BY <1>3, <1>5 DEF Keeps
<1>6. ASSUME NEW q \in Rows, TaskStarts(q) \/ ReadConfig(q) \/ Stage(q) \/ UndoService(q) \/ Fails(q)
      PROVE  FALSE
  <2>1. q = r
    BY <1>5, <1>6 DEF TaskStarts, ReadConfig, Stage, UndoService, Fails
  <2> QED
    BY <1>1, <1>6, <2>1 DEF TaskStarts, ReadConfig, Stage, UndoService, Fails
<1>7. ASSUME NEW q \in Rows,
             BackUp(q) \/ Install(q) \/ StoreToken(q) \/ RestartService(q) \/ Complete(q)
             \/ CleanUp(q) \/ UndoStop(q)
      PROVE  FALSE
  <2>1. task[q] \in AttemptRecords
    BY <1>1
  <2>0. ASSUME task'[q].phase \notin {"undoService", "failed"}, \A p \in Rows \ {q} : task'[p] = task[p]
        PROVE  FALSE
    BY <1>1, <2>0
  <2>2. CASE BackUp(q)
    <3>1. /\ task'[q].phase = "install"
          /\ \A p \in Rows \ {q} : task'[p] = task[p]
      BY <1>1, <2>1, <2>2 DEF BackUp, Keeps, AttemptRecords
    <3> QED
      BY <2>0, <3>1
  <2>3. CASE Install(q)
    <3>1. /\ task'[q].phase = IF task[q].item = Venv THEN "token" ELSE "backup"
          /\ \A p \in Rows \ {q} : task'[p] = task[p]
      BY <1>1, <2>1, <2>3 DEF Install, Keeps, AttemptRecords
    <3> QED
      BY <2>0, <3>1
  <2>4. CASE StoreToken(q)
    <3> DEFINE c == task[q].new # task[q].old
               t == [task[q] EXCEPT !.phase = "restart", !.changed = c]
               u == [task[q] EXCEPT !.phase = "undoItem", !.item = Venv]
    <3>1. Keeps(q, t) \/ Keeps(q, u)
      BY <2>4 DEF StoreToken
    <3> HIDE DEF c
    <3>2. t.phase = "restart" /\ u.phase = "undoItem"
      BY <2>1 DEF AttemptRecords
    <3> HIDE DEF t, u
    <3> QED
      BY <1>5, <3>1, <3>2
  <2>5. CASE RestartService(q)
    <3> DEFINE x == IF AfterRestart(task[q].host).token = None THEN "undoStop" ELSE "await"
               t == [task[q] EXCEPT !.restarted = TRUE, !.seen = FALSE, !.phase = x]
    <3>1. Keeps(q, t) /\ x \in {"undoStop", "await"}
      BY <2>5 DEF RestartService, Keeps
    <3> HIDE DEF x
    <3>2. t.phase = x
      BY <2>1 DEF AttemptRecords
    <3> HIDE DEF t
    <3> QED
      BY <1>5, <3>1, <3>2
  <2>6. CASE Complete(q)
    <3>1. /\ task'[q].phase = IF Provisioning(q) /\ row[q].token = task[q].new THEN "cleanup" ELSE "undoStop"
          /\ \A p \in Rows \ {q} : task'[p] = task[p]
      BY <1>1, <2>1, <2>6 DEF Complete, Keeps, AttemptRecords
    <3> QED
      BY <2>0, <3>1
  <2>7. CASE CleanUp(q)
    BY <1>1, <1>5, <2>7 DEF CleanUp
  <2>8. CASE UndoStop(q)
    <3>1. task'[q].phase = "undoItem" /\ \A p \in Rows \ {q} : task'[p] = task[p]
      BY <1>1, <2>1, <2>8 DEF UndoStop, Keeps, AttemptRecords
    <3> QED
      BY <2>0, <3>1
  <2> QED
    BY <1>7, <2>2, <2>3, <2>4, <2>5, <2>6, <2>7, <2>8
<1>8. ASSUME NEW q \in Rows, StepFails(q) \/ NoHeartbeat(q) \/ Timeout(q)
      PROVE  FALSE
  <2>1. q = r
    BY <1>5, <1>8 DEF StepFails, NoHeartbeat, Timeout
  <2>2. CASE StepFails(r)
    <3> DEFINE t1 == [task[r] EXCEPT !.restarted = @ \/ task[r].phase = "restart"]
    <3>1. t1 \in AttemptRecords /\ t1.phase = task[r].phase /\ Keeps(r, Abandoned(t1))
      BY <1>1, <2>2 DEF StepFails, AttemptRecords
    <3> HIDE DEF t1
    <3> QED
      BY <1>1, <1>5, <3>1, AbandonedIs
  <2>3. CASE NoHeartbeat(r)
    BY <1>1, <1>5, <2>3, AbandonedIs DEF NoHeartbeat
  <2>4. CASE Timeout(r) /\ task[r].phase \in Undoing
    <3> DEFINE t == [task[r] EXCEPT !.closing = TRUE]
    <3>1. Keeps(r, t)
      BY <2>4, ClosingIs
    <3>2. t.phase = task[r].phase
      BY <1>1 DEF AttemptRecords
    <3> HIDE DEF t
    <3> QED
      BY <1>1, <1>5, <3>1, <3>2
  <2>5. CASE Timeout(r) /\ task[r].phase = "cleanup"
    <3>1. Keeps(r, NoAttempt)
      BY <2>5 DEF Timeout, Undoing
    <3> QED
      BY <1>1, <1>5, <3>1
  <2>6. CASE Timeout(r) /\ task[r].phase \notin Undoing \cup {"cleanup"}
    <3> DEFINE t == Abandoned([task[r] EXCEPT !.restarted = @ \/ task[r].phase = "restart",
                                              !.unsure = task[r].phase \in {"backup", "install"}])
    <3>1. Keeps(r, t)
      BY <2>6 DEF Timeout
    <3>2. t.phase \in {"undoStop", "undoItem"}
      BY <1>1, TimedOut
    <3> QED
      BY <1>5, <3>1, <3>2
  <2> QED
    BY <1>8, <2>1, <2>2, <2>3, <2>4, <2>5, <2>6
<1>9. ASSUME NEW q \in Rows, UndoItem(q) \/ UndoFails(q)
      PROVE  FALSE
  <2>1. ASSUME NEW t \in AttemptRecords, t.phase = "undoItem", Keeps(q, NextUndo(t))
        PROVE  FALSE
    BY <1>5, <2>1, NextUndoIs
  <2>2. CASE UndoItem(q)
    <3> DEFINE b == IF task[q].item = Venv /\ disk'[task[q].host][Venv] # task[q].backup[task[q].item]
                    THEN task[q].backup[task[q].item] ELSE None
               t == [task[q] EXCEPT !.backup[task[q].item] = b]
    <3>1. Keeps(q, NextUndo(t)) /\ task[q].phase = "undoItem" /\ task[q] \in AttemptRecords
      BY <1>1, <2>2 DEF UndoItem
    <3>2. b \in Versions
      BY <3>1, Numbers DEF AttemptRecords
    <3> HIDE DEF b
    <3>3. [task[q].backup EXCEPT ![task[q].item] = b] \in [Items -> Versions]
      BY <3>1, <3>2 DEF AttemptRecords
    <3>4. t \in AttemptRecords /\ t.phase = "undoItem"
      BY <3>1, <3>3 DEF AttemptRecords
    <3> HIDE DEF t
    <3> QED
      BY <2>1, <3>1, <3>4
  <2>3. CASE UndoFails(q)
    <3> DEFINE t == [task[q] EXCEPT !.faulty = TRUE]
    <3>1. t \in AttemptRecords /\ t.phase = task[q].phase
      BY <1>1 DEF AttemptRecords
    <3>2. CASE t.phase = "undoStop" /\ Keeps(q, [t EXCEPT !.phase = "undoItem", !.item = Venv])
      <4> DEFINE u == [t EXCEPT !.phase = "undoItem", !.item = Venv]
      <4>1. u.phase = "undoItem" /\ Keeps(q, u)
        BY <3>1, <3>2 DEF AttemptRecords
      <4> HIDE DEF u
      <4> QED
        BY <1>5, <4>1
    <3>3. CASE t.phase = "undoItem" /\ Keeps(q, NextUndo(t))
      BY <2>1, <3>1, <3>3
    <3>4. CASE t.phase = "undoService" /\ Keeps(q, [t EXCEPT !.phase = "failed"])
      <4>1. q = r
        BY <1>5, <3>4
      <4> QED
        BY <1>1, <3>1, <3>4, <4>1
    <3> QED
      BY <2>3, <3>2, <3>3, <3>4 DEF UndoFails
  <2> QED
    BY <1>9, <2>2, <2>3
<1>10. ASSUME NEW q \in Rows, UndoToken(q) \/ ConnectionLost(q) \/ ConnectionCloses(q)
       PROVE  task[r].phase \in Touching /\ row' = RestoredToken(r)
  <2>1. q = r
    BY <1>5, <1>10 DEF UndoToken, ConnectionLost, ConnectionCloses
  <2> QED
    BY <1>10, <2>1 DEF UndoToken, ConnectionLost, ConnectionCloses, Touching, Installing, Undoing
<1>11. \A q \in Rows : ~ReadDelete(q) /\ ~WriteDelete(q)
  BY <1>2 DEF ReadDelete, WriteDelete
<1>12. (\A q \in Rows, s \in Servers : ~MoveNode(q, s)) /\ \A s \in Servers : ~AgentRestarts(s)
  BY <1>2 DEF MoveNode, AgentRestarts
<1>13. ~HubRestart
  BY <1>1 DEF HubRestart
<1>14. \A q \in Rows : (RetryNode(q) => Enqueue(q)) /\ \A s \in Servers : CreateNode(q, s) => Enqueue(q)
  BY DEF CreateNode, RetryNode
<1> QED
  BY <1>4, <1>6, <1>7, <1>8, <1>9, <1>10, <1>11, <1>12, <1>13, <1>14 DEF Next, Attempt

\* Only a poll that sees the heartbeat of the new Agent completes an attempt.
LEMMA CompletingStep ==
  ASSUME IInv, Next, NEW r \in Rows, Provisioning(r), row'[r].status = "completed"
  PROVE  Complete(r) /\ row[r].token = task[r].new /\ task[r].phase = "await"
<1>1. row \in [Rows -> RowRecords] /\ row[r].status = "provisioning" /\ row[r].status # row'[r].status
  BY DEF IInv, Types, Provisioning
<1>2. row' # row
  BY <1>1
<1>3. ASSUME NEW q \in Rows, NEW w, row' = [row EXCEPT ![q] = w]
      PROVE  q = r /\ w.status = "completed"
  BY <1>1, <1>3
<1>4. ASSUME NEW q \in Rows, NEW x, row' = [row EXCEPT ![q].token = x] \/ row' = [row EXCEPT ![q].host = x]
      PROVE  FALSE
  BY <1>1, <1>4 DEF RowRecords
<1>5. ASSUME NEW q \in Rows, Complete(q)
      PROVE  Complete(r) /\ row[r].token = task[r].new /\ task[r].phase = "await"
  BY <1>1, <1>2, <1>5 DEF Complete
<1>6. ASSUME NEW q \in Rows, NEW s \in Servers, CreateNode(q, s) \/ MoveNode(q, s) \/ Heartbeat(s, q)
      PROVE  FALSE
  BY <1>2, <1>3, <1>4, <1>6 DEF CreateNode, MoveNode, Heartbeat
<1>7. ASSUME NEW q \in Rows, RetryNode(q) \/ ReadDelete(q) \/ WriteDelete(q)
      PROVE  FALSE
  <2>1. CASE RetryNode(q)
    BY <1>1, <2>1 DEF RetryNode, RowRecords
  <2>2. CASE WriteDelete(q)
    <3> DEFINE w == [status |-> "none", token |-> None, host |-> None]
    <3>1. row' = [row EXCEPT ![q] = w] /\ w.status = "none"
      BY <2>2 DEF WriteDelete
    <3> HIDE DEF w
    <3> QED
      BY <1>3, <3>1
  <2> QED
    BY <1>2, <1>7, <2>1, <2>2 DEF ReadDelete
<1>8. ASSUME NEW q \in Rows, row' = RestoredToken(q)
      PROVE  FALSE
  BY <1>2, <1>4, <1>8 DEF RestoredToken
<1>9. ASSUME NEW q \in Rows, Attempt(q), ~Complete(q)
      PROVE  FALSE
  <2>1. CASE StoreToken(q)
    BY <1>2, <1>4, <2>1 DEF StoreToken
  <2>2. CASE Fails(q)
    BY <1>1, <1>2, <2>2 DEF Fails, FailedRow, RowRecords
  <2>3. CASE UndoToken(q)
    BY <1>8, <2>3 DEF UndoToken
  <2> QED
    BY <1>2, <1>9, <2>1, <2>2, <2>3 DEF Attempt, TaskStarts, ReadConfig, Stage, BackUp, Install,
       RestartService, NoHeartbeat, CleanUp, UndoStop, UndoItem, UndoService
<1>10. ASSUME NEW q \in Rows,
              StepFails(q) \/ UndoFails(q) \/ ConnectionLost(q) \/ Timeout(q) \/ ConnectionCloses(q)
       PROVE  FALSE
  BY <1>2, <1>8, <1>10 DEF StepFails, UndoFails, ConnectionLost, Timeout, ConnectionCloses
<1>11. ASSUME HubRestart
       PROVE  FALSE
  <2>1. row'[r].status = Recovered(r)
    BY <1>1, <1>11 DEF HubRestart, RowRecords
  <2> QED
    BY <2>1 DEF Recovered
<1>12. \A s \in Servers : ~AgentRestarts(s)
  BY <1>2 DEF AgentRestarts
<1> QED
  BY <1>5, <1>6, <1>7, <1>9, <1>10, <1>11, <1>12 DEF Next

-------------------------------------------------------------------------------
(* Theorems. *)

\* TypeOK holds in every reachable state: rows, disks, services and attempts keep their
\* types, and an attempt has backed up and installed only what it has come to.
THEOREM TypeCorrect == Spec => []TypeOK
<1>1. IInv => TypeOK
  <2> SUFFICES ASSUME IInv PROVE TypeOK
    OBVIOUS
  <2>1. ASSUME NEW r \in Rows
        PROVE  /\ task[r].phase \in Phases
               /\ task[r].item \in Items
               /\ task[r].installed \cup task[r].backed \subseteq task[r].reached
    BY Facts DEF AttemptRecords, Sound
  <2> QED
    BY <2>1 DEF IInv, Types, TypeOK, RowRecords, AgentRecords
<1> QED
  BY <1>1, SpecIInv, PTL

\* NothingIsLost: at every instant of an installation and of its rollback, each file and
\* the environment that the server had are in their place or in their backup.
THEOREM NothingLost == Spec => []NothingIsLost
<1>1. IInv => NothingIsLost
  <2> SUFFICES ASSUME IInv, NEW r \in Rows, task[r].phase \in Touching, ~task[r].unsure, NEW i \in Items
               PROVE  task[r].before[i] \in {None, disk[task[r].host][i], task[r].backup[i]}
    BY DEF NothingIsLost, Touching
  <2>1. Holds(task[r])
    BY Facts DEF Sound, Tokens, Holds, Touching, Installing, Undoing
  <2>2. ItemKept(task[r], disk[task[r].host], i)
    BY <2>1, Facts DEF Server, AtWork
  <2> QED
    BY <2>2 DEF ItemKept
<1> QED
  BY <1>1, SpecIInv, PTL

\* EnrolledStaysEnrolled: while the Agent of a node is upgraded and while the upgrade is
\* rolled back, the server keeps its token and the Hub keeps accepting it.
THEOREM StaysEnrolled == Spec => []EnrolledStaysEnrolled
<1>1. IInv => EnrolledStaysEnrolled
  <2> SUFFICES ASSUME IInv, NEW r \in Rows, task[r].phase \in Touching,
                      task[r].before[Config] = task[r].old
               PROVE  /\ disk[task[r].host][Config] = task[r].old
                      /\ row[r].host = task[r].host => row[r].token = task[r].old
    BY DEF EnrolledStaysEnrolled, Touching
  <2>1. Holds(task[r]) /\ Tokens(task[r], row[r]) /\ task[r].host # None
    BY Facts DEF Sound, Tokens, Holds, Touching, Installing, Undoing
  <2>2. Server(task[r], disk[task[r].host], agent[task[r].host])
    BY <2>1, Facts
  <2>3. task[r].new = task[r].old
    BY <2>1, <2>2 DEF Server, Brings, Tokens
  <2> QED
    BY <2>1, <2>2, <2>3 DEF Server, ConfigKept, Tokens
<1> QED
  BY <1>1, SpecIInv, PTL

\* RollbackRestores: an attempt that fails leaves the files, the environment and the state
\* of the service as it found them, unless a fault or the timeout struck the rollback or a
\* step on the disk; and its token does not stay in the row.
THEOREM RollbackIsComplete == Spec => RollbackRestores
<1>1. ASSUME IInv, NEW r \in Rows, Ends(r), ~task[r].unsure, ~task[r].closing
      PROVE  Restored(r)
  <2> SUFFICES ASSUME task[r].reached # {}, ~task[r].faulty
               PROVE  /\ disk[task[r].host] = task[r].before
                      /\ agent[task[r].host].started = task[r].wasActive
    BY DEF Restored
  <2> DEFINE t == task[r]
  <2>1. t.phase = "failed" /\ t \in AttemptRecords
    BY <1>1, Facts DEF Ends
  <2>2. Holds(t)
    BY <1>1, <2>1, Facts DEF Sound, Position, Holds
  <2>3. disk[t.host] \in [Items -> Versions] /\ Server(t, disk[t.host], agent[t.host])
    BY <1>1, <2>2, Facts
  <2>4. ASSUME NEW i \in Items
        PROVE  disk[t.host][i] = t.before[i]
    <3>1. ItemKept(t, disk[t.host], i) /\ ~ToUndo(t, i)
      BY <2>1, <2>3 DEF Server, AtWork, ToUndo, Installing
    <3> QED
      BY <1>1, <3>1 DEF ItemKept
  <2>5. disk[t.host] = t.before
    BY <2>1, <2>3, <2>4 DEF AttemptRecords
  <2>6. agent[t.host].started = t.wasActive
    BY <1>1, <2>1, <2>3 DEF Server, ServiceKept
  <2> QED
    BY <2>5, <2>6
<1>2. ASSUME IInv, Next, NEW r \in Rows, PassesToken(r), task[r].changed
      PROVE  row'[r].token # task[r].new \/ \E q \in Rows \ {r} : row'[q].token = task[r].old
  <2>1. task[r].phase \in Touching /\ row' = RestoredToken(r)
    BY <1>2, PassingSteps
  <2>2. task[r].new # task[r].old /\ row \in [Rows -> RowRecords]
    BY <1>2, <2>1, Facts DEF Sound, Tokens, IInv, Types
  <2>3. CASE row[r].token = task[r].new /\ \A q \in Rows \ {r} : row[q].token # task[r].old
    <3>1. row'[r].token = task[r].old
      BY <1>2, <2>1, <2>2, <2>3 DEF RestoredToken, RowRecords
    <3> QED
      BY <2>2, <3>1
  <2>4. CASE ~(row[r].token = task[r].new /\ \A q \in Rows \ {r} : row[q].token # task[r].old)
    BY <2>1, <2>4 DEF RestoredToken
  <2> QED
    BY <2>3, <2>4
<1>3. IInv /\ [Next]_vars =>
        [\A r \in Rows :
           /\ Ends(r) /\ ~task[r].unsure /\ ~task[r].closing => Restored(r)
           /\ PassesToken(r) /\ task[r].changed /\ row'[r].host # None =>
                row'[r].token # task[r].new \/ \E q \in Rows \ {r} : row'[q].token = task[r].old]_vars
  BY <1>1, <1>2
<1> QED
  BY <1>3, SpecIInv, PTL DEF Spec, RollbackRestores

\* CompletedIsLive: a row becomes 'completed' only when the server has all that its attempt
\* brought and runs it with the token that the row then has.
THEOREM CompletedRuns == Spec => CompletedIsLive
<1> DEFINE Live(r) ==
             LET t == task[r]
             IN  /\ \A i \in Items \ {Config} : disk[t.host][i] = t.number
                 /\ disk[t.host][Config] = row[r].token
                 /\ agent[t.host].token = row[r].token /\ agent[t.host].program = t.number
<1>1. ASSUME IInv, Next, NEW r \in Rows, Provisioning(r), row'[r].status = "completed"
      PROVE  Live(r)
  <2> DEFINE t == task[r]
             d == disk[t.host]
  <2>1. Complete(r) /\ row[r].token = t.new /\ t.phase = "await"
    BY <1>1, CompletingStep
  <2>2. Sound(t, row[r]) /\ t \in AttemptRecords /\ Holds(t)
    BY <1>1, <2>1, Facts DEF Sound, Tokens, Holds, Touching, Installing
  <2>3. Server(t, d, agent[t.host]) /\ t.phase \in Touching
    BY <1>1, <2>1, <2>2, Facts DEF Touching, Installing
  <2>4. t.new # None /\ t.number # None
    BY <2>2, <2>3, NewIsSome
  <2>5. \A i \in Items : d[i] = New(t, i)
    <3>1. t.reached = Items /\ t.installed = Items /\ ~t.unsure
      BY <2>1, <2>2 DEF Sound, Position, Installing
    <3> QED
      BY <2>1, <2>3, <3>1 DEF Server, AtWork, ItemKept, ToUndo, Installing
  <2>6. \A i \in Items : d[i] # None
    BY <2>4, <2>5 DEF New
  <2>7. 1 # Config
    BY SizeAssumption DEF Config
  <2>8. agent[t.host] = [started |-> TRUE, token |-> d[Config], program |-> d[1]]
    BY <2>1, <2>3, <2>6 DEF Server, Loaded
  <2> QED
    BY <2>1, <2>5, <2>7, <2>8, Numbers DEF New
<1>2. IInv /\ [Next]_vars =>
        [\A r \in Rows : Provisioning(r) /\ row'[r].status = "completed" => Live(r)]_vars
  BY <1>1
<1> QED
  BY <1>2, SpecIInv, PTL DEF Spec, CompletedIsLive
=================================================================================
