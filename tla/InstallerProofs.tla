-------------------------- MODULE InstallerProofs --------------------------
(***************************************************************************)
(* Proofs about Installer, for any machines, tasks, ports and bounds: type *)
(* correctness; that whatever a machine does in the name of a task once    *)
(* its disk is laid out belongs to that task, or to a newer one of the     *)
(* same serial number; that it is not installed for one task twice; that   *)
(* the pre script finds what the menu offered; and that the status of the  *)
(* task follows the machine.                                               *)
(*                                                                         *)
(* The first invariant, Inv, is a statement about one machine and the      *)
(* table of tasks (MachineOK). A step changes the one machine it is a step *)
(* of, and an event or a deletion leaves a table that is no worse          *)
(* (Succeeds), so each action has one thing to show: that the machine it   *)
(* leaves is all right.                                                    *)
(***************************************************************************)
EXTENDS Installer, TLAPS

(* The rows carry their serial number, and an id that was handed out.      *)
TableOK(T, last) ==
    /\ T \in [SNs -> Task \cup {NoTask}]
    /\ last \in 0 .. MaxTasks
    /\ \A s \in SNs : T[s] # NoTask => T[s].sn = s /\ T[s].id <= last

(* The row of the serial number of c, if there is one, is not older than c.*)
NotOvertaken(c, T, last) ==
    c # NoTask => c.id <= last /\ (T[c.sn] # NoTask => c.id <= T[c.sn].id)

(* In %post, a machine that knows the task it was laid out for reports     *)
(* under its serial number and has a hostname that is not older.           *)
PostOK(r) ==
    r.pc \in {"post", "complete"} /\ r.prov # NoTask =>
        /\ r.sn = r.prov.sn
        /\ r.host # NoTask /\ r.host.sn = r.prov.sn /\ r.prov.id <= r.host.id

MachineOK(r, T, last) ==
    /\ r \in Machine
    /\ r.pc = "report" => r.prov # NoTask
    /\ NotOvertaken(r.prov, T, last)
    /\ PostOK(r)

Tables == TableOK(tasks, lastId)
Fleet == /\ mach \in [Machines -> Machine]
         /\ \A m \in Machines : MachineOK(mach[m], tasks, lastId)
Records ==
    /\ trail \subseteq [machine : Machines, task : 1 .. MaxTasks,
                       how : {"applied", "cut", "completed"}]
    /\ completed \subseteq [task : 1 .. MaxTasks, sn : SNs, prov : Config \cup {NoTask}]
    /\ CompletesItsInstallation
Counters == losses \in 0 .. MaxLosses /\ resets \in 0 .. MaxResets

Inv == Tables /\ Fleet /\ Records /\ Counters

-----------------------------------------------------------------------------
(* The table U is no worse than T: what is open in it was open under the   *)
(* same id.                                                                *)
Succeeds(T, U) ==
    \A s \in SNs : U[s] # NoTask => T[s] # NoTask /\ U[s].id = T[s].id

(* A machine that is all right stays so over a table that is no worse.     *)
LEMMA TableMayShrink ==
    ASSUME NEW r, NEW T, NEW U, NEW last, MachineOK(r, T, last), Succeeds(T, U)
    PROVE  MachineOK(r, U, last)
<1>1. r.prov # NoTask => r.prov.sn \in SNs
    BY DEF MachineOK, Machine, Config
<1> QED
    BY <1>1 DEF MachineOK, NotOvertaken, Succeeds

(* Setting a status keeps the rows and their ids.                          *)
LEMMA StatusKeepsTable ==
    ASSUME Tables, NEW s, NEW v \in Statuses, SetStatus(s, v)
    PROVE  TableOK(tasks', lastId) /\ Succeeds(tasks, tasks')
<1>1. CASE TaskBySN(s) = NoTask
    BY <1>1 DEF SetStatus, Tables, TableOK, Succeeds
<1>2. CASE TaskBySN(s) # NoTask
    <2>1. s \in SNs /\ tasks[s] \in Task /\ tasks[s] # NoTask
        BY <1>2 DEF TaskBySN, Tables, TableOK
    <2>2. tasks' = [tasks EXCEPT ![s].status = v]
        BY <1>2 DEF SetStatus
    <2>3. [tasks[s] EXCEPT !.status = v] \in Task
        BY <2>1 DEF Task
    <2>4. /\ [tasks[s] EXCEPT !.status = v].id = tasks[s].id
          /\ [tasks[s] EXCEPT !.status = v].sn = tasks[s].sn
        BY <2>1 DEF Task
    <2>5. \A t \in SNs : tasks'[t] = IF t = s THEN [tasks[s] EXCEPT !.status = v] ELSE tasks[t]
        BY <2>1, <2>2 DEF Tables, TableOK
    <2>6. tasks' \in [SNs -> Task \cup {NoTask}]
        BY <2>2, <2>3, <2>1 DEF Tables, TableOK
    <2> QED
        BY <2>1, <2>4, <2>5, <2>6 DEF Tables, TableOK, Succeeds
<1> QED
    BY <1>1, <1>2

(* Deleting a row.                                                         *)
LEMMA DeletionKeepsTable ==
    ASSUME Tables, NEW s \in SNs, tasks' = [tasks EXCEPT ![s] = NoTask]
    PROVE  TableOK(tasks', lastId) /\ Succeeds(tasks, tasks')
    BY DEF Tables, TableOK, Succeeds

(* One machine moves to a state that is all right over a table that is no  *)
(* worse than the old one.                                                 *)
LEMMA OneMoves ==
    ASSUME Fleet, NEW m \in Machines, NEW r, Become(m, r),
           UNCHANGED lastId, Succeeds(tasks, tasks'), MachineOK(r, tasks, lastId)
    PROVE  Fleet'
<1>1. mach' = [mach EXCEPT ![m] = r] /\ r \in Machine
    BY DEF Become, MachineOK
<1>2. mach' \in [Machines -> Machine]
    BY <1>1 DEF Fleet
<1>3. ASSUME NEW n \in Machines PROVE MachineOK(mach'[n], tasks', lastId')
    <2>1. MachineOK(mach'[n], tasks, lastId)
        <3>1. CASE n = m
            BY <3>1, <1>1 DEF Fleet
        <3>2. CASE n # m
            <4>1. mach'[n] = mach[n]
                BY <3>2, <1>1 DEF Fleet
            <4> QED
                BY <4>1 DEF Fleet
        <3> QED
            BY <3>1, <3>2
    <2> QED
        BY <2>1, TableMayShrink
<1> QED
    BY <1>2, <1>3 DEF Fleet

(* The same after a call, answered or not.                                 *)
LEMMA CallMoves ==
    ASSUME Fleet, Counters, ConstantsAssumption, NEW m \in Machines, NEW r,
           OnAnswer(m, r) \/ OnLoss(m, r), UNCHANGED <<lastId, resets>>,
           Succeeds(tasks, tasks'), MachineOK(r, tasks, lastId)
    PROVE  Fleet' /\ Counters'
<1> DEFINE q == [r EXCEPT !.lost = TRUE]
<1>1. MachineOK(q, tasks, lastId)
    <2>1. /\ q \in Machine /\ q.pc = r.pc /\ q.prov = r.prov
          /\ q.sn = r.sn /\ q.host = r.host
        BY DEF MachineOK, Machine
    <2> QED
        BY <2>1 DEF MachineOK, PostOK
<1>2. CASE OnAnswer(m, r)
    BY <1>2, OneMoves DEF OnAnswer, Answered, Counters
<1>3. CASE OnLoss(m, r)
    <2>1. Become(m, q) /\ losses < MaxLosses /\ losses' = losses + 1
        BY <1>3 DEF OnLoss, Lost
    <2>2. Fleet'
        BY <2>1, <1>1, OneMoves
    <2> QED
        BY <2>1, <2>2 DEF Counters, ConstantsAssumption
<1> QED
    BY <1>2, <1>3

LEMMA Unworsened == UNCHANGED tasks => Succeeds(tasks, tasks')
    BY DEF Succeeds
-----------------------------------------------------------------------------
(* Lookups answer with an open task or with none, and an open task is its  *)
(* row.                                                                    *)
LEMMA OpenTasks ==
    ASSUME Tables, NEW t \in Open
    PROVE  t \in Task /\ t # NoTask /\ t.sn \in SNs /\ tasks[t.sn] = t /\ t.id <= lastId
    BY DEF Tables, TableOK, Open, Task

LEMMA LookupsAreOpen ==
    /\ \A s : TaskBySN(s) \in Open \cup {NoTask}
    /\ \A a : TaskByMAC(a) \subseteq Open \cup {NoTask}
<1>1. \A s : TaskBySN(s) \in Open \cup {NoTask}
    BY DEF TaskBySN, Open
<1>2. ASSUME NEW a PROVE TaskByMAC(a) \subseteq Open \cup {NoTask}
    BY DEF TaskByMAC
<1> QED
    BY <1>1, <1>2

LEMMA ConfigIsOpen ==
    ASSUME Tables, ConstantsAssumption, NEW t \in Open
    PROVE  /\ ConfigOf(t) \in Config /\ ConfigOf(t) # NoTask
           /\ ConfigOf(t).sn = t.sn /\ ConfigOf(t).id = t.id
           /\ NotOvertaken(ConfigOf(t), tasks, lastId)
<1>1. t \in Task /\ t # NoTask /\ t.sn \in SNs /\ tasks[t.sn] = t /\ t.id <= lastId
    BY OpenTasks
<1>2. ConfigOf(t) = [id |-> t.id, sn |-> t.sn] /\ t.id \in 1 .. MaxTasks
    BY <1>1 DEF ConfigOf, Task
<1>3. ConfigOf(t) \in Config
    BY <1>1, <1>2 DEF Config
<1> QED
    BY <1>1, <1>2, <1>3 DEF NotOvertaken, ConstantsAssumption

-----------------------------------------------------------------------------
(* What the actions make of a machine is all right.                        *)

Places == {"menu", "menuByMAC", "fetch", "bySN", "lookup", "byMAC", "install",
           "identify", "local", "halted"}

(* A machine that goes to a place before %post, whatever else of its       *)
(* script it sets but for provision.json.                                  *)
LEMMA ElsewhereOK ==
    ASSUME NEW x, MachineOK(x, tasks, lastId), NEW r \in Machine,
           r.pc \in Places, r.prov = x.prov
    PROVE  MachineOK(r, tasks, lastId)
    BY DEF MachineOK, PostOK, Places

LEMMA BootedOK ==
    ASSUME ConstantsAssumption, NEW m \in Machines, NEW T, NEW last
    PROVE  MachineOK(Booted(m), T, last)
<1>1. Booted(m) \in Machine
    BY DEF Booted, Machine, BootTypes, ConstantsAssumption
<1> QED
    BY <1>1 DEF MachineOK, NotOvertaken, PostOK, Booted

LEMMA GoesTo ==
    ASSUME Fleet, NEW m \in Machines, NEW p \in Places
    PROVE  MachineOK([mach[m] EXCEPT !.pc = p], tasks, lastId)
<1>1. MachineOK(mach[m], tasks, lastId) /\ mach[m] \in Machine
    BY DEF Fleet
<1>2. [mach[m] EXCEPT !.pc = p] \in Machine
    BY <1>1 DEF Machine, Places
<1>3. /\ [mach[m] EXCEPT !.pc = p].pc = p
      /\ [mach[m] EXCEPT !.pc = p].prov = mach[m].prov
    BY <1>1 DEF Machine
<1> QED
    BY <1>1, <1>2, <1>3, ElsewhereOK

LEMMA OfferedOK ==
    ASSUME Tables, Fleet, NEW m \in Machines, NEW t \in Open
    PROVE  MachineOK(Offered(m, t), tasks, lastId)
<1>1. MachineOK(mach[m], tasks, lastId) /\ mach[m] \in Machine
    BY DEF Fleet
<1>2. t.boot \in BootTypes /\ t.id \in 0 .. MaxTasks
    BY OpenTasks DEF Task
<1>3. Offered(m, t) \in Machine
    BY <1>1, <1>2 DEF Offered, Machine
<1>4. Offered(m, t).pc \in Places /\ Offered(m, t).prov = mach[m].prov
    BY <1>1 DEF Offered, Machine, Places
<1> QED
    BY <1>1, <1>3, <1>4, ElsewhereOK

LEMMA FoundOK ==
    ASSUME Tables, Fleet, ConstantsAssumption, NEW m \in Machines, NEW t \in Open
    PROVE  MachineOK([mach[m] EXCEPT !.pc = "report", !.prov = ConfigOf(t)], tasks, lastId)
<1> DEFINE r == [mach[m] EXCEPT !.pc = "report", !.prov = ConfigOf(t)]
<1>1. mach[m] \in Machine
    BY DEF Fleet, MachineOK
<1>2. /\ ConfigOf(t) \in Config /\ ConfigOf(t) # NoTask
      /\ NotOvertaken(ConfigOf(t), tasks, lastId)
    BY ConfigIsOpen
<1>3. r \in Machine /\ r.pc = "report" /\ r.prov = ConfigOf(t)
    BY <1>1, <1>2 DEF Machine
<1> QED
    BY <1>2, <1>3 DEF MachineOK, PostOK
-----------------------------------------------------------------------------
(* Steps of a machine before %post: a call is answered or not, the machine *)
(* goes on, and at most a status changes.                                  *)

LEMMA CallOnly ==
    ASSUME Inv, ConstantsAssumption, NEW m \in Machines, NEW r,
           OnAnswer(m, r) \/ OnLoss(m, r), MachineOK(r, tasks, lastId),
           UNCHANGED <<tasks, lastId, trail, completed, resets>>
    PROVE  Inv'
<1>1. Fleet' /\ Counters'
    BY CallMoves, Unworsened DEF Inv
<1> QED
    BY <1>1 DEF Inv, Tables, Records, CompletesItsInstallation

LEMMA EventOnly ==
    ASSUME Inv, ConstantsAssumption, NEW m \in Machines, NEW s, NEW v \in Statuses, NEW r,
           Event(m, s, v, r), MachineOK(r, tasks, lastId),
           UNCHANGED <<lastId, trail, completed, resets>>
    PROVE  Inv'
<1>1. CASE SetStatus(s, v) /\ OnAnswer(m, r)
    <2>1. TableOK(tasks', lastId) /\ Succeeds(tasks, tasks')
        BY <1>1, StatusKeepsTable DEF Inv
    <2>2. Fleet' /\ Counters'
        BY <1>1, <2>1, CallMoves DEF Inv
    <2> QED
        BY <2>1, <2>2 DEF Inv, Tables, Records, CompletesItsInstallation
<1>2. CASE UNCHANGED tasks /\ OnLoss(m, r)
    BY <1>2, CallOnly
<1> QED
    BY <1>1, <1>2 DEF Event

LEMMA MenuSteps ==
    ASSUME Inv, ConstantsAssumption, NEW m \in Machines, BootBySN(m) \/ BootByMAC(m)
    PROVE  Inv'
<1> USE DEF Inv
<1>1. CASE BootBySN(m)
    <2> DEFINE t == TaskBySN(Dmi[m])
               next == [mach[m] EXCEPT !.pc = "menuByMAC"]
    <2>1. MachineOK(next, tasks, lastId)
        BY GoesTo DEF Places
    <2>2. MachineOK(IF t = NoTask THEN next ELSE Offered(m, t), tasks, lastId)
        BY <2>1, OfferedOK, LookupsAreOpen
    <2>3. \/ OnAnswer(m, IF t = NoTask THEN next ELSE Offered(m, t))
          \/ OnLoss(m, next)
        BY <1>1 DEF BootBySN
    <2>4. UNCHANGED <<tasks, lastId, trail, completed, resets>>
        BY <1>1 DEF BootBySN
    <2> QED
        BY <2>1, <2>2, <2>3, <2>4, CallOnly
<1>2. CASE BootByMAC(m)
    <2> DEFINE next == [mach[m] EXCEPT !.pc = "local"]
    <2>1. PICK a \in Nics[m] : \E t \in TaskByMAC(a) :
              \/ OnAnswer(m, IF t = NoTask THEN next ELSE Offered(m, t))
              \/ OnLoss(m, next)
        BY <1>2 DEF BootByMAC
    <2>2. PICK t \in TaskByMAC(a) :
              \/ OnAnswer(m, IF t = NoTask THEN next ELSE Offered(m, t))
              \/ OnLoss(m, next)
        BY <2>1
    <2>3. MachineOK(next, tasks, lastId)
        BY GoesTo DEF Places
    <2>4. MachineOK(IF t = NoTask THEN next ELSE Offered(m, t), tasks, lastId)
        BY <2>3, OfferedOK, LookupsAreOpen
    <2>5. UNCHANGED <<tasks, lastId, trail, completed, resets>>
        BY <1>2 DEF BootByMAC
    <2> QED
        BY <2>2, <2>3, <2>4, <2>5, CallOnly
<1> QED
    BY <1>1, <1>2

LEMMA FetchStep ==
    ASSUME Inv, ConstantsAssumption, NEW m \in Machines, FetchPre(m) PROVE Inv'
<1> USE DEF Inv
<1> DEFINE r == [mach[m] EXCEPT !.pc = "bySN", !.sn = Dmi[m]]
<1>1. MachineOK(mach[m], tasks, lastId) /\ mach[m] \in Machine
    BY DEF Fleet
<1>2. r \in Machine /\ r.pc \in Places /\ r.prov = mach[m].prov
    BY <1>1 DEF Machine, Places, ConstantsAssumption
<1>3. MachineOK(r, tasks, lastId)
    BY <1>1, <1>2, ElsewhereOK
<1>4. /\ MachineOK([mach[m] EXCEPT !.pc = "install"], tasks, lastId)
      /\ MachineOK([mach[m] EXCEPT !.pc = "halted"], tasks, lastId)
    BY GoesTo DEF Places
<1>5. \/ OnAnswer(m, r) \/ OnLoss(m, [mach[m] EXCEPT !.pc = "install"])
      \/ OnLoss(m, [mach[m] EXCEPT !.pc = "halted"])
    BY DEF FetchPre
<1>6. UNCHANGED <<tasks, lastId, trail, completed, resets>>
    BY DEF FetchPre
<1> QED
    BY <1>3, <1>4, <1>5, <1>6, CallOnly

LEMMA IdentifyStep ==
    ASSUME Inv, ConstantsAssumption, NEW m \in Machines, Identify(m) PROVE Inv'
<1> USE DEF Inv
<1> DEFINE next == [mach[m] EXCEPT !.pc = "lookup"]
<1>1. MachineOK(next, tasks, lastId)
    BY GoesTo DEF Places
<1>2. UNCHANGED <<lastId, trail, completed, resets>>
    BY DEF Identify
<1>3. CASE Event(m, mach[m].sn, "installing", next)
    BY <1>1, <1>2, <1>3, EventOnly DEF Statuses
<1>4. CASE OnAnswer(m, next) /\ UNCHANGED tasks
    BY <1>1, <1>2, <1>4, CallOnly
<1> QED
    BY <1>3, <1>4 DEF Identify

(* A lookup of the pre script by either key.                               *)
LEMMA LookupStep ==
    ASSUME Inv, ConstantsAssumption, NEW m \in Machines, NEW t \in Open \cup {NoTask},
           NEW next, MachineOK(next, tasks, lastId),
           Found(m, t, next) \/ NotFound(m, next),
           UNCHANGED <<tasks, lastId, trail, completed, resets>>
    PROVE  Inv'
<1> USE DEF Inv
<1> DEFINE found == [mach[m] EXCEPT !.pc = "report", !.prov = ConfigOf(t)]
<1>1. MachineOK(IF t = NoTask THEN next ELSE found, tasks, lastId)
    BY FoundOK
<1>2. MachineOK([mach[m] EXCEPT !.pc = "halted"], tasks, lastId)
    BY GoesTo DEF Places
<1>3. \/ OnAnswer(m, IF t = NoTask THEN next ELSE found)
      \/ OnLoss(m, next)
      \/ OnLoss(m, [mach[m] EXCEPT !.pc = "halted"])
    BY DEF Found, NotFound
<1> QED
    BY <1>1, <1>2, <1>3, CallOnly

LEMMA LookupSteps ==
    ASSUME Inv, ConstantsAssumption, NEW m \in Machines, PreBySN(m) \/ PreByMAC(m)
    PROVE  Inv'
<1> USE DEF Inv
<1>1. CASE PreBySN(m)
    <2> DEFINE next == [mach[m] EXCEPT !.pc = "byMAC"]
    <2>1. MachineOK(next, tasks, lastId)
        BY GoesTo DEF Places
    <2>2. Found(m, TaskBySN(mach[m].sn), next) \/ NotFound(m, next)
        BY <1>1 DEF PreBySN
    <2>3. UNCHANGED <<tasks, lastId, trail, completed, resets>>
        BY <1>1 DEF PreBySN
    <2> QED
        BY <2>1, <2>2, <2>3, LookupsAreOpen, LookupStep
<1>2. CASE PreByMAC(m)
    <2>1. PICK a \in mach[m].left : \E t \in TaskByMAC(a) :
              \/ Found(m, t, [mach[m] EXCEPT !.left = @ \ {a}])
              \/ NotFound(m, [mach[m] EXCEPT !.left = @ \ {a}])
        BY <1>2 DEF PreByMAC
    <2> DEFINE next == [mach[m] EXCEPT !.left = @ \ {a}]
    <2>2. MachineOK(mach[m], tasks, lastId) /\ mach[m] \in Machine /\ mach[m].pc = "byMAC"
        BY <1>2 DEF Fleet, PreByMAC, At
    <2>3. next \in Machine /\ next.pc \in Places /\ next.prov = mach[m].prov
        BY <2>2 DEF Machine, Places
    <2>4. MachineOK(next, tasks, lastId)
        BY <2>2, <2>3, ElsewhereOK
    <2>5. UNCHANGED <<tasks, lastId, trail, completed, resets>>
        BY <1>2 DEF PreByMAC
    <2> QED
        BY <2>1, <2>4, <2>5, LookupsAreOpen, LookupStep
<1> QED
    BY <1>1, <1>2

LEMMA UnmatchedStep ==
    ASSUME Inv, ConstantsAssumption, NEW m \in Machines, PreUnmatched(m) PROVE Inv'
<1> USE DEF Inv
<1> DEFINE p == IF mach[m].boot = "cloud-init" THEN "install" ELSE "halted"
<1>1. MachineOK([mach[m] EXCEPT !.pc = p], tasks, lastId)
    BY GoesTo DEF Places
<1>2. /\ Event(m, mach[m].sn, "failed", [mach[m] EXCEPT !.pc = p])
      /\ UNCHANGED <<lastId, trail, completed, resets>>
    BY DEF PreUnmatched
<1> QED
    BY <1>1, <1>2, EventOnly DEF Statuses

(* Where SN comes from provision.json, there is one: the machine is in     *)
(* "report" only once it is found.                                         *)
LEMMA ReportStep ==
    ASSUME Inv, ConstantsAssumption, NEW m \in Machines, PreReport(m) PROVE Inv'
<1> USE DEF Inv
<1> DEFINE s == EffectiveSN(m)
           r(p) == [mach[m] EXCEPT !.pc = p, !.sn = s]
<1>1. MachineOK(mach[m], tasks, lastId) /\ mach[m] \in Machine /\ mach[m].prov # NoTask
    BY DEF Fleet, MachineOK, PreReport, At
<1>2. s \in SNs \cup {NoSN}
    BY <1>1 DEF EffectiveSN, Machine, Config
<1>3. ASSUME NEW p \in {"install", "halted"} PROVE MachineOK(r(p), tasks, lastId)
    <2>1. r(p) \in Machine /\ r(p).pc \in Places /\ r(p).prov = mach[m].prov
        BY <1>1, <1>2, <1>3 DEF Machine, Places
    <2> QED
        BY <1>1, <2>1, ElsewhereOK
<1>4. Event(m, s, "installing", r("install")) \/ Event(m, s, "failed", r("halted"))
    BY DEF PreReport
<1>5. UNCHANGED <<lastId, trail, completed, resets>>
    BY DEF PreReport
<1> QED
    BY <1>3, <1>4, <1>5, EventOnly DEF Statuses
-----------------------------------------------------------------------------
(* The installation and %post                                              *)

TrailType == SUBSET [machine : Machines, task : 1 .. MaxTasks,
                     how : {"applied", "cut", "completed"}]

LEMMA MarkType ==
    ASSUME Records, NEW m \in Machines, NEW c, c = NoTask \/ c.id \in 1 .. MaxTasks,
           NEW how \in {"applied", "cut", "completed"}
    PROVE  Mark(m, c, how) \in TrailType
    BY DEF Mark, TrailType, Records

(* A step that leaves the table, and marks at most what became of the task *)
(* the machine was laid out for.                                           *)
LEMMA MarkedCall ==
    ASSUME Inv, ConstantsAssumption, NEW m \in Machines, NEW r,
           OnAnswer(m, r) \/ OnLoss(m, r), MachineOK(r, tasks, lastId),
           trail' \in TrailType,
           UNCHANGED <<tasks, lastId, completed, resets>>
    PROVE  Inv'
<1>1. Fleet' /\ Counters'
    BY CallMoves, Unworsened DEF Inv
<1> QED
    BY <1>1 DEF Inv, Tables, Records, CompletesItsInstallation, TrailType

LEMMA KnownConfig ==
    ASSUME Fleet, NEW m \in Machines
    PROVE  /\ mach[m] \in Machine /\ MachineOK(mach[m], tasks, lastId)
           /\ mach[m].prov = NoTask \/ mach[m].prov.id \in 1 .. MaxTasks
    BY DEF Fleet, MachineOK, Machine, Config

LEMMA InstallStep ==
    ASSUME Inv, ConstantsAssumption, NEW m \in Machines, Install(m) PROVE Inv'
<1> USE DEF Inv
<1>1. /\ MachineOK([mach[m] EXCEPT !.pc = "identify"], tasks, lastId)
      /\ MachineOK([mach[m] EXCEPT !.pc = "halted"], tasks, lastId)
    BY GoesTo DEF Places
<1>2. trail' \in TrailType
    BY KnownConfig, MarkType DEF Install, Records, TrailType
<1>3. /\ \/ OnAnswer(m, [mach[m] EXCEPT !.pc = "identify"])
         \/ OnAnswer(m, [mach[m] EXCEPT !.pc = "halted"])
      /\ UNCHANGED <<tasks, lastId, completed, resets>>
    BY DEF Install, OnAnswer, Answered
<1> QED
    BY <1>1, <1>2, <1>3, MarkedCall

(* What %post knows once it has asked for its task, or could not.          *)
LEMMA IdentifiedOK ==
    ASSUME Inv, ConstantsAssumption, NEW m \in Machines, At(m, "identify"),
           NEW t, t = NoTask \/ t = TaskBySN(PostSN(m))
    PROVE  MachineOK([mach[m] EXCEPT !.pc = "post", !.sn = PostSN(m),
                                     !.host = PostProvision(m, t)], tasks, lastId)
<1> USE DEF Inv
<1> DEFINE r == [mach[m] EXCEPT !.pc = "post", !.sn = PostSN(m),
                                !.host = PostProvision(m, t)]
           c == mach[m].prov
<1>1. mach[m] \in Machine /\ NotOvertaken(c, tasks, lastId) /\ c \in Config \cup {NoTask}
    BY KnownConfig DEF MachineOK, Machine
<1>2. PostSN(m) \in SNs \cup {NoSN} /\ (c # NoTask => PostSN(m) = c.sn)
    BY <1>1 DEF PostSN, Config, ConstantsAssumption
<1>3. t # NoTask => t \in Open
    BY LookupsAreOpen
<1>4. t # NoTask => ConfigOf(t) \in Config /\ ConfigOf(t) # NoTask
                    /\ ConfigOf(t).sn = t.sn /\ ConfigOf(t).id = t.id
    BY <1>3, ConfigIsOpen
<1>5. t # NoTask /\ c # NoTask => t = tasks[c.sn] /\ t.sn = c.sn /\ c.id <= t.id
    <2> SUFFICES ASSUME t # NoTask, c # NoTask
                 PROVE  t = tasks[c.sn] /\ t.sn = c.sn /\ c.id <= t.id
        OBVIOUS
    <2>1. c.sn \in SNs /\ PostSN(m) = c.sn
        BY <1>1, <1>2 DEF Config
    <2>2. t = tasks[c.sn]
        BY <2>1 DEF TaskBySN
    <2> QED
        BY <2>1, <2>2, <1>1 DEF NotOvertaken, Tables, TableOK
<1>6. PostProvision(m, t) \in Config \cup {NoTask}
    BY <1>1, <1>4 DEF PostProvision
<1>7. c # NoTask => /\ PostProvision(m, t) # NoTask
                    /\ PostProvision(m, t).sn = c.sn
                    /\ c.id <= PostProvision(m, t).id
    BY <1>1, <1>4, <1>5 DEF PostProvision, Config
<1>8. /\ r \in Machine /\ r.pc = "post" /\ r.prov = c
      /\ r.sn = PostSN(m) /\ r.host = PostProvision(m, t)
    BY <1>1, <1>2, <1>6 DEF Machine
<1> QED
    BY <1>1, <1>2, <1>7, <1>8 DEF MachineOK, PostOK

LEMMA PostIdentifyStep ==
    ASSUME Inv, ConstantsAssumption, NEW m \in Machines, PostIdentify(m) PROVE Inv'
<1> USE DEF Inv
<1> DEFINE knowing(t) == [mach[m] EXCEPT !.pc = "post", !.sn = PostSN(m),
                                         !.host = PostProvision(m, t)]
           answer == IF AsksAgain(m) THEN TaskBySN(PostSN(m)) ELSE NoTask
           beyond == IF mach[m].boot = "kickstart" THEN Booted(m)
                     ELSE [mach[m] EXCEPT !.pc = "halted"]
<1>1. At(m, "identify") /\ UNCHANGED <<tasks, lastId, completed, resets>>
    BY DEF PostIdentify
<1>2. \/ OnAnswer(m, knowing(answer)) /\ UNCHANGED trail
      \/ OnLoss(m, knowing(NoTask)) /\ UNCHANGED trail
      \/ OnLoss(m, beyond) /\ trail' = Mark(m, mach[m].prov, "cut")
    BY DEF PostIdentify
<1>3. MachineOK(knowing(answer), tasks, lastId) /\ MachineOK(knowing(NoTask), tasks, lastId)
    BY <1>1, IdentifiedOK
<1>4. MachineOK(beyond, tasks, lastId)
    BY GoesTo, BootedOK DEF Places
<1>5. trail' \in TrailType
    BY <1>2, KnownConfig, MarkType DEF Records, TrailType
<1> HIDE DEF knowing, answer, beyond
<1> QED
    BY <1>1, <1>2, <1>3, <1>4, <1>5, MarkedCall

LEMMA PostReportStep ==
    ASSUME Inv, ConstantsAssumption, NEW m \in Machines, PostReport(m) PROVE Inv'
<1> USE DEF Inv
<1> DEFINE r == [mach[m] EXCEPT !.pc = "complete"]
<1>1. mach[m] \in Machine /\ MachineOK(mach[m], tasks, lastId) /\ mach[m].pc = "post"
    BY KnownConfig DEF PostReport, At
<1>2. /\ r \in Machine /\ r.pc = "complete" /\ r.prov = mach[m].prov
      /\ r.sn = mach[m].sn /\ r.host = mach[m].host
    BY <1>1 DEF Machine
<1>3. MachineOK(r, tasks, lastId)
    BY <1>1, <1>2 DEF MachineOK, PostOK
<1>4. Event(m, mach[m].sn, "configured", r) /\ UNCHANGED <<lastId, trail, completed, resets>>
    BY DEF PostReport
<1> QED
    BY <1>3, <1>4, EventOnly DEF Statuses

(* The row a completion ends is the one of SN: of the task the machine was *)
(* laid out for, or of a newer one.                                        *)
LEMMA CompleteStep ==
    ASSUME Inv, ConstantsAssumption, NEW m \in Machines, Complete(m) PROVE Inv'
<1> USE DEF Inv
<1> DEFINE t == TaskCompletedBy(m)
           c == mach[m].prov
           record == [task |-> t.id, sn |-> t.sn, prov |-> c]
<1>1. /\ mach[m] \in Machine /\ MachineOK(mach[m], tasks, lastId)
      /\ mach[m].pc = "complete" /\ c \in Config \cup {NoTask}
    BY KnownConfig DEF Complete, At, Machine
<1>2. OnAnswer(m, Booted(m)) \/ OnLoss(m, mach[m])
    BY DEF Complete
<1>3. MachineOK(Booted(m), tasks, lastId)
    BY BootedOK
<1>4. UNCHANGED <<lastId, resets>>
    BY DEF Complete
<1>5. CASE t = NoTask
    <2>1. UNCHANGED <<tasks, completed, trail>>
        BY <1>5 DEF Complete
    <2> QED
        BY <1>1, <1>2, <1>3, <1>4, <2>1, CallOnly
<1>6. CASE t # NoTask
    <2>1. /\ RemoveTask(t.sn)
          /\ completed' = completed \cup {record}
          /\ trail' = Mark(m, t, "completed")
        BY <1>6 DEF Complete
    <2>2. t \in Open /\ t = TaskBySN(mach[m].sn)
        BY <1>6, LookupsAreOpen DEF TaskCompletedBy
    <2>3. t \in Task /\ t.sn \in SNs /\ t.id \in 1 .. MaxTasks
        BY <2>2, OpenTasks DEF Task
    <2>4. TableOK(tasks', lastId) /\ Succeeds(tasks, tasks')
        BY <2>1, <2>3, DeletionKeepsTable DEF RemoveTask
    <2>5. Fleet' /\ Counters'
        BY <1>1, <1>2, <1>3, <1>4, <2>4, CallMoves
    <2>6. c # NoTask => c.sn = t.sn /\ c.id <= t.id
        <3> SUFFICES ASSUME c # NoTask PROVE c.sn = t.sn /\ c.id <= t.id
            OBVIOUS
        <3>1. mach[m].sn = c.sn /\ c.sn \in SNs
            BY <1>1 DEF MachineOK, PostOK, Config
        <3>2. t = tasks[c.sn]
            BY <2>2, <3>1 DEF TaskBySN
        <3> QED
            BY <1>1, <1>6, <3>1, <3>2 DEF MachineOK, NotOvertaken, Tables, TableOK
    <2>7. record \in [task : 1 .. MaxTasks, sn : SNs, prov : Config \cup {NoTask}]
        BY <1>1, <2>3
    <2>8. trail' \in TrailType
        BY <2>1, <2>3, MarkType
    <2>9. Records'
        <3>1. completed' \subseteq [task : 1 .. MaxTasks, sn : SNs, prov : Config \cup {NoTask}]
            BY <2>1, <2>7 DEF Records
        <3>2. CompletesItsInstallation'
            BY <2>1, <2>6 DEF Records, CompletesItsInstallation
        <3> QED
            BY <2>8, <3>1, <3>2 DEF Records, TrailType
    <2> QED
        BY <1>4, <2>4, <2>5, <2>9 DEF Tables
<1> QED
    BY <1>5, <1>6

LEMMA CutSteps ==
    ASSUME Inv, ConstantsAssumption, NEW m \in Machines, CompleteFails(m) \/ Reset(m)
    PROVE  Inv'
<1> USE DEF Inv
<1>1. trail' \in TrailType
    BY KnownConfig, MarkType DEF CompleteFails, Reset, Records, TrailType
<1>2. MachineOK(Booted(m), tasks, lastId) /\ MachineOK(mach[m], tasks, lastId)
    BY BootedOK, KnownConfig
<1>3. CASE CompleteFails(m)
    <2> DEFINE halted == [mach[m] EXCEPT !.pc = "halted"]
    <2>1. /\ OnLoss(m, mach[m]) \/ OnLoss(m, halted) \/ OnLoss(m, Booted(m))
          /\ UNCHANGED <<tasks, lastId, completed, resets>>
        BY <1>3 DEF CompleteFails
    <2>2. MachineOK(halted, tasks, lastId)
        BY GoesTo DEF Places
    <2> HIDE DEF halted
    <2> QED
        BY <1>1, <1>2, <2>1, <2>2, MarkedCall
<1>4. CASE Reset(m)
    <2>1. /\ Become(m, Booted(m)) /\ resets < MaxResets /\ resets' = resets + 1
          /\ UNCHANGED <<tasks, lastId, completed, losses>>
        BY <1>4 DEF Reset
    <2>2. Fleet'
        BY <1>2, <2>1, OneMoves, Unworsened
    <2>3. Counters'
        BY <2>1 DEF Counters, ConstantsAssumption
    <2> QED
        BY <1>1, <2>1, <2>2, <2>3 DEF Tables, Records, CompletesItsInstallation, TrailType
<1> QED
    BY <1>3, <1>4

-----------------------------------------------------------------------------
(* Operators                                                               *)

LEMMA DeleteStep ==
    ASSUME Inv, NEW s \in SNs, DeleteTask(s) PROVE Inv'
<1> USE DEF Inv
<1>1. /\ tasks' = [tasks EXCEPT ![s] = NoTask]
      /\ UNCHANGED <<lastId, mach, trail, completed, losses, resets>>
    BY DEF DeleteTask
<1>2. TableOK(tasks', lastId) /\ Succeeds(tasks, tasks')
    BY <1>1, DeletionKeepsTable
<1>3. Fleet'
    BY <1>1, <1>2, TableMayShrink DEF Fleet
<1> QED
    BY <1>1, <1>2, <1>3 DEF Tables, Records, CompletesItsInstallation, Counters

(* A new row has a larger id than anything a machine knows of.             *)
LEMMA PushStep ==
    ASSUME Inv, ConstantsAssumption, NEW s \in SNs, NEW net \in Networks,
           NEW b \in BootTypes, PushTask(s, net, b)
    PROVE  Inv'
<1> USE DEF Inv
<1> DEFINE row == [id |-> lastId + 1, sn |-> s, macs |-> net, boot |-> b,
                   status |-> "pending"]
<1>1. /\ lastId < MaxTasks /\ lastId' = lastId + 1 /\ lastId \in 0 .. MaxTasks
      /\ tasks' = [tasks EXCEPT ![s] = row]
      /\ UNCHANGED <<mach, trail, completed, losses, resets>>
    BY DEF PushTask, Tables, TableOK
<1>2. lastId' \in 1 .. MaxTasks
    BY <1>1 DEF ConstantsAssumption
<1>3. row \in Task /\ row.sn = s /\ row.id = lastId'
    BY <1>1, <1>2 DEF Task, Statuses
<1>4. \A u \in SNs : tasks'[u] = IF u = s THEN row ELSE tasks[u]
    BY <1>1 DEF Tables, TableOK
<1>5. Tables'
    <2>1. tasks' \in [SNs -> Task \cup {NoTask}]
        BY <1>1, <1>3 DEF Tables, TableOK
    <2>2. lastId' \in 0 .. MaxTasks
        BY <1>2
    <2>3. ASSUME NEW u \in SNs, tasks'[u] # NoTask
          PROVE  tasks'[u].sn = u /\ tasks'[u].id <= lastId'
        <3>1. CASE u = s
            BY <3>1, <1>2, <1>3, <1>4
        <3>2. CASE u # s
            <4>1. tasks'[u] = tasks[u]
                BY <3>2, <1>4
            <4>2. tasks[u] \in Task
                BY <4>1, <2>3 DEF Tables, TableOK
            <4> QED
                BY <4>1, <4>2, <2>3, <1>1 DEF Tables, TableOK, Task
        <3> QED
            BY <3>1, <3>2
    <2> QED
        BY <2>1, <2>2, <2>3 DEF Tables, TableOK
<1>6. ASSUME NEW m \in Machines PROVE MachineOK(mach[m], tasks', lastId')
    <2> DEFINE c == mach[m].prov
    <2>1. MachineOK(mach[m], tasks, lastId) /\ mach[m] \in Machine
        BY KnownConfig
    <2>2. NotOvertaken(c, tasks', lastId')
        <3> SUFFICES ASSUME c # NoTask
                     PROVE  c.id <= lastId' /\ (tasks'[c.sn] # NoTask => c.id <= tasks'[c.sn].id)
            BY DEF NotOvertaken
        <3>1. c.sn \in SNs /\ c.id \in 1 .. MaxTasks /\ c.id <= lastId
            BY <2>1 DEF MachineOK, Machine, Config, NotOvertaken
        <3>2. c.id <= lastId'
            BY <3>1, <1>1
        <3>3. CASE c.sn = s
            BY <3>1, <3>2, <3>3, <1>3, <1>4
        <3>4. CASE c.sn # s
            <4>1. tasks'[c.sn] = tasks[c.sn]
                BY <3>1, <3>4, <1>4
            <4> QED
                BY <4>1, <3>2, <2>1 DEF MachineOK, NotOvertaken
        <3> QED
            BY <3>2, <3>3, <3>4
    <2> QED
        BY <2>1, <2>2 DEF MachineOK
<1>7. Fleet'
    BY <1>1, <1>6 DEF Fleet
<1> QED
    BY <1>1, <1>5, <1>7 DEF Records, CompletesItsInstallation, Counters

-----------------------------------------------------------------------------
LEMMA InvInit == ConstantsAssumption /\ Init => Inv
<1> SUFFICES ASSUME ConstantsAssumption, Init PROVE Inv
    OBVIOUS
<1> USE DEF Init
<1>1. Tables
    BY DEF Tables, TableOK, ConstantsAssumption
<1>2. Fleet
    <2>1. \A m \in Machines : MachineOK(Booted(m), tasks, lastId)
        BY BootedOK
    <2> QED
        BY <2>1 DEF Fleet, MachineOK
<1>3. Records /\ Counters
    BY DEF Records, CompletesItsInstallation, Counters, ConstantsAssumption
<1> QED
    BY <1>1, <1>2, <1>3 DEF Inv

LEMMA InvStep == ConstantsAssumption /\ Inv /\ [Next]_vars => Inv'
<1> SUFFICES ASSUME ConstantsAssumption, Inv, [Next]_vars PROVE Inv'
    OBVIOUS
<1>1. CASE Operator
    BY <1>1, PushStep, DeleteStep DEF Operator
<1>2. ASSUME NEW m \in Machines, Run(m) PROVE Inv'
    BY <1>2, MenuSteps, FetchStep, IdentifyStep, LookupSteps, UnmatchedStep, ReportStep,
       InstallStep, PostIdentifyStep, PostReportStep, CompleteStep, CutSteps DEF Run
<1>3. ASSUME NEW m \in Machines, Reset(m) PROVE Inv'
    BY <1>3, CutSteps
<1>4. CASE UNCHANGED vars
    BY <1>4 DEF vars, Inv, Tables, Fleet, Records, CompletesItsInstallation, Counters
<1> QED
    BY <1>1, <1>2, <1>3, <1>4 DEF Next

LEMMA InvImplies ==
    Inv => TypeOK /\ CompletesItsInstallation /\ HostnameFromItsTask
<1> SUFFICES ASSUME Inv PROVE TypeOK /\ CompletesItsInstallation /\ HostnameFromItsTask
    OBVIOUS
<1>1. TypeOK
    BY DEF Inv, TypeOK, Tables, TableOK, Fleet, Records, Counters
<1>2. HostnameFromItsTask
    <2> SUFFICES ASSUME NEW m \in Machines, mach[m].pc \in {"post", "complete"},
                        mach[m].prov # NoTask
                 PROVE  /\ mach[m].host # NoTask
                        /\ mach[m].host.sn = mach[m].prov.sn
                        /\ mach[m].host.id >= mach[m].prov.id
        BY DEF HostnameFromItsTask
    <2>1. PostOK(mach[m]) /\ mach[m] \in Machine
        BY DEF Inv, Fleet, MachineOK
    <2>2. mach[m].prov \in Config /\ (mach[m].host # NoTask => mach[m].host \in Config)
        BY <2>1 DEF Machine
    <2> QED
        BY <2>1, <2>2 DEF PostOK, Config
<1> QED
    BY <1>1, <1>2 DEF Inv, Records

(* In every behaviour of the installer the tasks, the machines and the     *)
(* records of what became of them are well typed.                          *)
THEOREM InstallerTypes == Spec => []TypeOK
<1>1. Spec => []Inv
    BY ConstantsAssumption, InvInit, InvStep, PTL DEF Spec
<1> QED
    BY <1>1, InvImplies, PTL

(* A completion ends the task by which the disk of its machine was laid    *)
(* out, or a newer one of the same serial number: the order of lookups by  *)
(* serial number and by MAC, lost calls, resets and pushes never make it   *)
(* end another machine's task.                                             *)
THEOREM InstallationCompletesItsTask == Spec => []CompletesItsInstallation
<1>1. Spec => []Inv
    BY ConstantsAssumption, InvInit, InvStep, PTL DEF Spec
<1> QED
    BY <1>1, InvImplies, PTL

(* What %post applies to a machine is of that task or a newer one as well. *)
THEOREM PostAppliesItsTask == Spec => []HostnameFromItsTask
<1>1. Spec => []Inv
    BY ConstantsAssumption, InvInit, InvStep, PTL DEF Spec
<1> QED
    BY <1>1, InvImplies, PTL
-----------------------------------------------------------------------------
(***************************************************************************)
(* The second invariant, Runs, relates a machine to its trail, to what the *)
(* menu offered it and to the status of its task. It rests on Inv. Over    *)
(* the steps of others a machine stands still while the table Evolves      *)
(* (RunEvolves), so each action has to show what it makes of its machine.  *)
(***************************************************************************)

(* No row carries the id i.                                                *)
Gone(i, T) == \A s \in SNs : T[s] # NoTask => T[s].id # i

Marked(tr, m, i, how) == [machine |-> m, task |-> i, how |-> how] \in tr

Asking == {"menu", "menuByMAC", "fetch", "bySN", "lookup", "byMAC", "local"}
Finishing == {"identify", "post", "complete"}
Running == {"fetch", "bySN", "lookup", "byMAC", "report", "install"} \cup Finishing

(* A task a machine was laid out by is gone, unless its completion was cut *)
(* off or is still to come; and so is one that the machine completed.      *)
TrailOK(m, r, T, last, tr) ==
    \A i \in 1 .. MaxTasks :
        /\ Marked(tr, m, i, "applied") =>
              /\ i <= last
              /\ \/ Marked(tr, m, i, "cut")
                 \/ Gone(i, T)
                 \/ (r.pc \in Finishing /\ r.prov # NoTask /\ r.prov.id = i)
        /\ Marked(tr, m, i, "completed") => i <= last /\ Gone(i, T)

(* The task that the pre script found, if there is a row of its id, has    *)
(* its serial number; and it is one the machine may install for.           *)
ProvOK(m, r, T, tr) ==
    /\ r.pc \in Asking => r.prov = NoTask
    /\ r.prov # NoTask =>
          /\ \A s \in SNs : T[s] # NoTask /\ T[s].id = r.prov.id => s = r.prov.sn
          /\ r.pc \in {"report", "install"} =>
                /\ Marked(tr, m, r.prov.id, "applied") => Marked(tr, m, r.prov.id, "cut")
                /\ ~ Marked(tr, m, r.prov.id, "completed")

(* What the menu found, the lookups that are left will find, if it is      *)
(* still there: by one key or the other, the ports it has not tried        *)
(* included.                                                               *)
OfferOK(m, r, T, last) ==
    /\ r.offer <= last
    /\ r.pc \in Running => r.boot \in {"kickstart", "cloud-init"}
    /\ r.pc \in {"bySN", "lookup", "byMAC", "report"} => r.sn = Dmi[m]
    /\ r.pc \in {"menu", "menuByMAC", "fetch", "bySN", "lookup"} => r.left = Nics[m]
    /\ r.pc \in {"fetch", "bySN", "lookup"} =>
          \A s \in SNs : T[s] # NoTask /\ T[s].id = r.offer =>
              s = Dmi[m] \/ T[s].macs \cap Nics[m] # {}
    /\ r.pc = "byMAC" /\ r.boot = "cloud-init" =>
          \A s \in SNs : T[s] # NoTask /\ T[s].id = r.offer => T[s].macs \cap r.left # {}
    /\ r.pc = "install" /\ r.prov = NoTask =>
          (r.boot = "kickstart" /\ r.lost) \/ (r.boot = "cloud-init" /\ Gone(r.offer, T))

(* What StatusFollowsMachine says of one machine.                          *)
StatusOK(m, r, T) ==
    /\ r.pc \in {"install"} \cup Finishing /\ r.prov # NoTask /\ ~ r.lost
    /\ r.boot = "kickstart" => Dmi[m] \in {NoSN, r.prov.sn}
    /\ T[r.prov.sn] # NoTask /\ T[r.prov.sn].id = r.prov.id
    => T[r.prov.sn].status # "pending"

RunOK(m, r, T, last, tr) ==
    /\ TrailOK(m, r, T, last, tr)
    /\ ProvOK(m, r, T, tr)
    /\ OfferOK(m, r, T, last)
    /\ StatusOK(m, r, T)

(* Ids tell the rows apart.                                                *)
Unique(T) ==
    \A s, u \in SNs : T[s] # NoTask /\ T[u] # NoTask /\ T[s].id = T[u].id => s = u

Runs == Unique(tasks) /\ \A m \in Machines : RunOK(m, mach[m], tasks, lastId, trail)

(* What is in the table U is new, or was in T: its status may have         *)
(* changed, but does not become "pending".                                 *)
Evolves(T, U, last) ==
    \A s \in SNs : U[s] # NoTask =>
        \/ U[s].id > last
        \/ /\ T[s] # NoTask /\ U[s].id = T[s].id /\ U[s].macs = T[s].macs
           /\ U[s].status = "pending" => T[s].status = "pending"

LEMMA GoneStaysGone ==
    ASSUME NEW T, NEW U, NEW last \in Int, NEW i \in Int, i <= last,
           Gone(i, T), Evolves(T, U, last)
    PROVE  Gone(i, U)
    BY DEF Gone, Evolves

(* A machine that stands still while the table evolves.                    *)
LEMMA KnowledgeEvolves ==
    ASSUME NEW m, NEW r, NEW T, NEW U, NEW last \in Nat, NEW next \in Nat, last <= next,
           NEW tr, MachineOK(r, T, last), Evolves(T, U, last),
           TrailOK(m, r, T, last, tr), ProvOK(m, r, T, tr), OfferOK(m, r, T, last)
    PROVE  TrailOK(m, r, U, next, tr) /\ ProvOK(m, r, U, tr) /\ OfferOK(m, r, U, next)
<1>1. /\ r \in Machine /\ r.offer \in Int
      /\ r.prov # NoTask => r.prov.sn \in SNs /\ r.prov.id \in Int /\ r.prov.id <= last
    BY DEF MachineOK, NotOvertaken, Machine, Config
<1>2. TrailOK(m, r, U, next, tr)
    <2> SUFFICES ASSUME NEW i \in 1 .. MaxTasks
                 PROVE  /\ Marked(tr, m, i, "applied") =>
                              /\ i <= next
                              /\ \/ Marked(tr, m, i, "cut")
                                 \/ Gone(i, U)
                                 \/ (r.pc \in Finishing /\ r.prov # NoTask /\ r.prov.id = i)
                        /\ Marked(tr, m, i, "completed") => i <= next /\ Gone(i, U)
        BY DEF TrailOK
    <2>1. i <= last => i <= next /\ (Gone(i, T) => Gone(i, U))
        BY GoneStaysGone
    <2> QED
        BY <2>1 DEF TrailOK
<1>3. ProvOK(m, r, U, tr)
    <2>1. ASSUME r.prov # NoTask, NEW s \in SNs, U[s] # NoTask, U[s].id = r.prov.id
          PROVE  s = r.prov.sn
        BY <1>1, <2>1 DEF Evolves, ProvOK
    <2> QED
        BY <2>1 DEF ProvOK
<1>4. OfferOK(m, r, U, next)
    <2>1. r.offer <= last /\ r.offer <= next
        BY <1>1 DEF OfferOK
    <2>2. ASSUME NEW s \in SNs, U[s] # NoTask, U[s].id = r.offer
          PROVE  T[s] # NoTask /\ T[s].id = r.offer /\ U[s].macs = T[s].macs
        BY <1>1, <2>1, <2>2 DEF Evolves
    <2>3. Gone(r.offer, T) => Gone(r.offer, U)
        BY <1>1, <2>1, GoneStaysGone
    <2> QED
        BY <2>1, <2>2, <2>3 DEF OfferOK
<1> QED
    BY <1>2, <1>3, <1>4

LEMMA RunEvolves ==
    ASSUME NEW m, NEW r, NEW T, NEW U, NEW last \in Nat, NEW next \in Nat, last <= next,
           NEW tr, MachineOK(r, T, last), RunOK(m, r, T, last, tr), Evolves(T, U, last)
    PROVE  RunOK(m, r, U, next, tr)
<1>1. r.prov # NoTask => r.prov.sn \in SNs /\ r.prov.id \in Int /\ r.prov.id <= last
    BY DEF MachineOK, NotOvertaken, Machine, Config
<1>2. StatusOK(m, r, U)
    BY <1>1 DEF RunOK, StatusOK, Evolves
<1> QED
    BY <1>2, KnowledgeEvolves DEF RunOK

(* One machine moves: what the others know stays true.                     *)
LEMMA RunsMove ==
    ASSUME Inv, Runs, NEW m \in Machines, NEW r, Become(m, r), UNCHANGED lastId,
           Evolves(tasks, tasks', lastId), Unique(tasks'),
           \A n \in Machines \ {m} : \A i, how :
               Marked(trail', n, i, how) <=> Marked(trail, n, i, how),
           RunOK(m, r, tasks', lastId, trail')
    PROVE  Runs'
<1>1. lastId \in Nat
    BY DEF Inv, Tables, TableOK
<1>2. mach' = [mach EXCEPT ![m] = r] /\ mach \in [Machines -> Machine]
    BY DEF Become, Inv, Fleet
<1>3. ASSUME NEW n \in Machines PROVE RunOK(n, mach'[n], tasks', lastId', trail')
    <2>1. CASE n = m
        BY <1>2, <2>1
    <2>2. CASE n # m
        <3>1. mach'[n] = mach[n]
            BY <1>2, <2>2
        <3>2. MachineOK(mach[n], tasks, lastId) /\ RunOK(n, mach[n], tasks, lastId, trail)
            BY DEF Inv, Fleet, Runs
        <3>3. RunOK(n, mach[n], tasks', lastId, trail)
            BY <1>1, <3>2, RunEvolves
        <3>4. \A i, how : Marked(trail', n, i, how) <=> Marked(trail, n, i, how)
            BY <2>2
        <3>5. RunOK(n, mach[n], tasks', lastId, trail')
            BY <3>3, <3>4 DEF RunOK, TrailOK, ProvOK
        <3> QED
            BY <3>1, <3>5
    <2> QED
        BY <2>1, <2>2
<1> QED
    BY <1>3 DEF Runs

-----------------------------------------------------------------------------
(* What a step does to the table                                           *)

LEMMA ShrinkingKeepsUnique ==
    ASSUME NEW T, NEW U, Unique(T), Succeeds(T, U) PROVE Unique(U)
    BY DEF Unique, Succeeds

LEMMA SameTable ==
    ASSUME Runs, UNCHANGED tasks PROVE Evolves(tasks, tasks', lastId) /\ Unique(tasks')
    BY DEF Evolves, Unique, Runs

LEMMA StatusEvolves ==
    ASSUME Inv, Runs, NEW s, NEW v \in Statuses \ {"pending"}, SetStatus(s, v)
    PROVE  /\ Evolves(tasks, tasks', lastId) /\ Unique(tasks')
           /\ s \in SNs /\ tasks'[s] # NoTask => tasks'[s].status = v
<1>1. Unique(tasks')
    BY StatusKeepsTable, ShrinkingKeepsUnique DEF Inv, Runs
<1>2. CASE TaskBySN(s) = NoTask
    BY <1>1, <1>2 DEF SetStatus, Evolves, TaskBySN
<1>3. CASE TaskBySN(s) # NoTask
    <2>1. s \in SNs /\ tasks[s] \in Task /\ tasks[s] # NoTask
        BY <1>3 DEF TaskBySN, Inv, Tables, TableOK
    <2>2. \A t \in SNs : tasks'[t] = IF t = s THEN [tasks[s] EXCEPT !.status = v] ELSE tasks[t]
        BY <1>3, <2>1 DEF SetStatus, Inv, Tables, TableOK
    <2>3. /\ [tasks[s] EXCEPT !.status = v].id = tasks[s].id
          /\ [tasks[s] EXCEPT !.status = v].macs = tasks[s].macs
          /\ [tasks[s] EXCEPT !.status = v].status = v
        BY <2>1 DEF Task
    <2>4. Evolves(tasks, tasks', lastId)
        BY <2>1, <2>2, <2>3 DEF Evolves
    <2> QED
        BY <1>1, <2>1, <2>2, <2>3, <2>4
<1> QED
    BY <1>2, <1>3

LEMMA DeletionEvolves ==
    ASSUME Inv, Runs, NEW s \in SNs, tasks' = [tasks EXCEPT ![s] = NoTask]
    PROVE  Evolves(tasks, tasks', lastId) /\ Unique(tasks')
<1>1. Unique(tasks')
    BY DeletionKeepsTable, ShrinkingKeepsUnique DEF Inv, Runs
<1>2. \A t \in SNs : tasks'[t] # NoTask => tasks'[t] = tasks[t]
    BY DEF Inv, Tables, TableOK
<1> QED
    BY <1>1, <1>2 DEF Evolves

-----------------------------------------------------------------------------
(* Steps of a machine that is not being installed                          *)

(* A machine without a task.                                               *)
LEMMA WithoutTask ==
    ASSUME NEW m, NEW r, NEW T, NEW tr, r.prov = NoTask
    PROVE  ProvOK(m, r, T, tr) /\ StatusOK(m, r, T)
    BY DEF ProvOK, StatusOK

LEMMA KnownRun ==
    ASSUME Inv, Runs, NEW m \in Machines
    PROVE  /\ mach[m] \in Machine
           /\ TrailOK(m, mach[m], tasks, lastId, trail) /\ ProvOK(m, mach[m], tasks, trail)
           /\ OfferOK(m, mach[m], tasks, lastId) /\ StatusOK(m, mach[m], tasks)
    BY KnownConfig DEF Inv, Runs, RunOK

(* Until its disk is laid out, a machine is not the reason why a task it   *)
(* was laid out by is still there.                                         *)
LEMMA TrailKeeps ==
    ASSUME NEW m, NEW x, NEW r, NEW T, NEW last, NEW tr, TrailOK(m, x, T, last, tr),
           x.pc \notin Finishing \/ (r.pc \in Finishing /\ r.prov = x.prov)
    PROVE  TrailOK(m, r, T, last, tr)
    BY DEF TrailOK

(* What a machine may become over the table as it is, its trail aside.     *)
MayBecome(m, r) ==
    /\ MachineOK(r, tasks, lastId)
    /\ ProvOK(m, r, tasks, trail)
    /\ OfferOK(m, r, tasks, lastId)
    /\ StatusOK(m, r, tasks)

(* A machine goes on, and at most the table evolves.                       *)
LEMMA RunMoves ==
    ASSUME Inv, Inv', Runs, NEW m \in Machines, NEW r, Become(m, r),
           MayBecome(m, r),
           UNCHANGED <<lastId, trail>>, Evolves(tasks, tasks', lastId), Unique(tasks'),
           mach[m].pc \notin Finishing \/ (r.pc \in Finishing /\ r.prov = mach[m].prov)
    PROVE  Runs'
<1>1. TrailOK(m, r, tasks, lastId, trail)
    BY KnownRun, TrailKeeps
<1>2. RunOK(m, r, tasks, lastId, trail)
    BY <1>1 DEF RunOK, MayBecome
<1>3. lastId \in Nat
    BY DEF Inv, Tables, TableOK
<1>4. RunOK(m, r, tasks', lastId, trail)
    BY <1>2, <1>3, RunEvolves DEF MayBecome
<1> QED
    BY <1>4, RunsMove

(* The same for a call that may be lost.                                   *)
LEMMA RunCalls ==
    ASSUME Inv, Inv', Runs, NEW m \in Machines, NEW r, OnAnswer(m, r) \/ OnLoss(m, r),
           MayBecome(m, r),
           UNCHANGED <<lastId, trail>>, Evolves(tasks, tasks', lastId), Unique(tasks'),
           mach[m].pc \notin Finishing \/ (r.pc \in Finishing /\ r.prov = mach[m].prov)
    PROVE  Runs'
<1> DEFINE q == [r EXCEPT !.lost = TRUE]
<1>1. CASE OnAnswer(m, r)
    BY <1>1, RunMoves DEF OnAnswer
<1>2. CASE OnLoss(m, r)
    <2> USE DEF MayBecome
    <2>1. r \in Machine
        BY DEF MachineOK
    <2>2. /\ q \in Machine /\ q.pc = r.pc /\ q.boot = r.boot /\ q.offer = r.offer /\ q.sn = r.sn
          /\ q.prov = r.prov /\ q.host = r.host /\ q.left = r.left /\ q.lost = TRUE
        BY <2>1 DEF Machine
    <2>3. MachineOK(q, tasks, lastId)
        BY <2>2 DEF MachineOK, PostOK
    <2>4. ProvOK(m, q, tasks, trail)
        BY <2>2 DEF ProvOK
    <2>5. OfferOK(m, q, tasks, lastId)
        BY <2>2 DEF OfferOK
    <2>6. StatusOK(m, q, tasks)
        BY <2>2 DEF StatusOK
    <2>7. Become(m, q)
        BY <1>2 DEF OnLoss
    <2> QED
        BY <2>2, <2>3, <2>4, <2>5, <2>6, <2>7, RunMoves
<1> QED
    BY <1>1, <1>2

(* A machine that stops where it is, or goes to its disk.                  *)
LEMMA Stops ==
    ASSUME Inv, Runs, NEW m \in Machines, NEW p \in {"halted", "local"},
           p = "local" => mach[m].prov = NoTask
    PROVE  MayBecome(m, [mach[m] EXCEPT !.pc = p])
<1> DEFINE r == [mach[m] EXCEPT !.pc = p]
<1>1. MachineOK(r, tasks, lastId)
    BY GoesTo DEF Places, Inv
<1>2. /\ r.pc = p /\ r.prov = mach[m].prov /\ r.offer = mach[m].offer
    BY KnownRun DEF Machine
<1>3. ProvOK(m, r, tasks, trail) /\ OfferOK(m, r, tasks, lastId) /\ StatusOK(m, r, tasks)
    BY <1>2, KnownRun DEF ProvOK, OfferOK, StatusOK, Asking, Running, Finishing
<1> QED
    BY <1>1, <1>3 DEF MayBecome

(* The menu is answered with a task that its own serial number or a port   *)
(* of its own has found.                                                   *)
LEMMA OfferedRun ==
    ASSUME Inv, Runs, NEW m \in Machines, mach[m].pc \in {"menu", "menuByMAC"},
           NEW t \in Open, t.sn = Dmi[m] \/ t.macs \cap Nics[m] # {}
    PROVE  MayBecome(m, Offered(m, t))
<1> DEFINE r == Offered(m, t)
<1>1. MachineOK(r, tasks, lastId)
    BY OfferedOK DEF Inv
<1>2. /\ r.pc = IF t.boot = "none" THEN "halted" ELSE "fetch"
      /\ r.boot = t.boot /\ r.offer = t.id
      /\ r.prov = mach[m].prov /\ r.left = mach[m].left
    BY KnownRun DEF Machine, Offered
<1>3. r.prov = NoTask /\ r.left = Nics[m]
    BY <1>2, KnownRun DEF ProvOK, OfferOK, Asking
<1>4. t \in Task /\ t # NoTask /\ t.sn \in SNs /\ tasks[t.sn] = t /\ t.id <= lastId
    BY OpenTasks DEF Inv
<1>5. \A s \in SNs : tasks[s] # NoTask /\ tasks[s].id = t.id => tasks[s] = t /\ s = t.sn
    BY <1>4 DEF Runs, Unique
<1>6. t.boot \in {"kickstart", "cloud-init", "none"}
    BY <1>4 DEF Task, BootTypes
<1>7. OfferOK(m, r, tasks, lastId)
    BY <1>2, <1>3, <1>4, <1>5, <1>6 DEF OfferOK, Running, Finishing
<1> QED
    BY <1>1, <1>3, <1>7, WithoutTask DEF MayBecome

LEMMA MenuRuns ==
    ASSUME Inv, Inv', Runs, NEW m \in Machines, BootBySN(m) \/ BootByMAC(m)
    PROVE  Runs'
<1>1. mach[m].pc \in {"menu", "menuByMAC"} /\ mach[m].prov = NoTask
    BY KnownRun DEF BootBySN, BootByMAC, At, ProvOK, Asking
<1>2. UNCHANGED <<tasks, lastId, trail>>
    BY DEF BootBySN, BootByMAC
<1>3. CASE BootBySN(m)
    <2> DEFINE t == TaskBySN(Dmi[m])
               next == [mach[m] EXCEPT !.pc = "menuByMAC"]
               q == IF t = NoTask THEN next ELSE Offered(m, t)
    <2>1. MachineOK(next, tasks, lastId)
        BY GoesTo DEF Places, Inv
    <2>2. /\ next.pc = "menuByMAC" /\ next.prov = mach[m].prov
          /\ next.offer = mach[m].offer /\ next.left = mach[m].left
        BY KnownRun DEF Machine
    <2>3. ProvOK(m, next, tasks, trail) /\ StatusOK(m, next, tasks)
        BY <1>1, <2>2, WithoutTask
    <2>4. OfferOK(m, next, tasks, lastId)
        BY <1>1, <2>2, KnownRun DEF OfferOK, Running, Finishing
    <2>9. MayBecome(m, next)
        BY <2>1, <2>3, <2>4 DEF MayBecome
    <2>5. t # NoTask => t \in Open /\ t.sn = Dmi[m]
        <3>1. t # NoTask => Dmi[m] \in SNs /\ t = tasks[Dmi[m]] /\ t \in Open
            BY DEF TaskBySN, Open
        <3> QED
            BY <3>1 DEF Inv, Tables, TableOK
    <2>6. MayBecome(m, q)
        BY <1>1, <2>9, <2>5, OfferedRun
    <2>7. OnAnswer(m, q) \/ OnLoss(m, next)
        BY <1>3 DEF BootBySN
    <2>8. mach[m].pc \notin Finishing
        BY <1>1 DEF Finishing
    <2> HIDE DEF q, next
    <2> QED
        BY <1>2, <2>9, <2>6, <2>7, <2>8, RunCalls, SameTable
<1>4. CASE BootByMAC(m)
    <2> DEFINE next == [mach[m] EXCEPT !.pc = "local"]
               q(t) == IF t = NoTask THEN next ELSE Offered(m, t)
    <2>1. PICK a \in Nics[m] : \E t \in TaskByMAC(a) : OnAnswer(m, q(t)) \/ OnLoss(m, next)
        BY <1>4 DEF BootByMAC
    <2>2. PICK t \in TaskByMAC(a) : OnAnswer(m, q(t)) \/ OnLoss(m, next)
        BY <2>1
    <2>3. MayBecome(m, next)
        BY <1>1, Stops
    <2>4. t # NoTask => t \in Open /\ a \in t.macs
        BY DEF TaskByMAC
    <2>5. t # NoTask => t.macs \cap Nics[m] # {}
        BY <2>1, <2>4
    <2>6. MayBecome(m, q(t))
        BY <1>1, <2>3, <2>4, <2>5, OfferedRun
    <2>7. mach[m].pc \notin Finishing
        BY <1>1 DEF Finishing
    <2> HIDE DEF q, next
    <2> QED
        BY <1>2, <2>2, <2>3, <2>6, <2>7, RunCalls, SameTable
<1> QED
    BY <1>3, <1>4

LEMMA FetchRuns ==
    ASSUME Inv, Inv', Runs, ConstantsAssumption, NEW m \in Machines, FetchPre(m)
    PROVE  Runs'
<1> DEFINE r == [mach[m] EXCEPT !.pc = "bySN", !.sn = Dmi[m]]
           q == [[mach[m] EXCEPT !.pc = "install"] EXCEPT !.lost = TRUE]
           h == [mach[m] EXCEPT !.pc = "halted"]
<1>1. mach[m].pc = "fetch" /\ UNCHANGED <<tasks, lastId, trail>>
    BY DEF FetchPre, At
<1>2. mach[m].prov = NoTask /\ mach[m].pc \notin Finishing
    BY <1>1, KnownRun DEF ProvOK, Asking, Finishing
<1>3. CASE OnAnswer(m, r)
    <2>1. /\ r \in Machine /\ r.pc = "bySN" /\ r.sn = Dmi[m] /\ r.prov = mach[m].prov
          /\ r.boot = mach[m].boot /\ r.offer = mach[m].offer /\ r.left = mach[m].left
        BY KnownRun DEF Machine, ConstantsAssumption
    <2>2. MachineOK(r, tasks, lastId)
        BY <2>1, KnownConfig, ElsewhereOK DEF Inv, Places
    <2>3. ProvOK(m, r, tasks, trail) /\ StatusOK(m, r, tasks)
        BY <1>2, <2>1, WithoutTask
    <2>4. OfferOK(m, r, tasks, lastId)
        BY <1>1, <2>1, KnownRun DEF OfferOK, Running
    <2> QED
        BY <1>1, <1>2, <1>3, <2>2, <2>3, <2>4, RunCalls, SameTable DEF MayBecome
<1>4. CASE mach[m].boot = "kickstart" /\ OnLoss(m, [mach[m] EXCEPT !.pc = "install"])
    <2>1. /\ q \in Machine /\ q.pc = "install" /\ q.prov = mach[m].prov
          /\ q.boot = mach[m].boot /\ q.offer = mach[m].offer /\ q.lost = TRUE
        BY KnownRun DEF Machine
    <2>2. MachineOK(q, tasks, lastId)
        BY <2>1, KnownConfig, ElsewhereOK DEF Inv, Places
    <2>3. ProvOK(m, q, tasks, trail) /\ StatusOK(m, q, tasks)
        BY <1>2, <2>1, WithoutTask
    <2>4. OfferOK(m, q, tasks, lastId)
        BY <1>4, <2>1, KnownRun DEF OfferOK
    <2>5. Become(m, q)
        BY <1>4 DEF OnLoss
    <2> QED
        BY <1>1, <1>2, <2>2, <2>3, <2>4, <2>5, RunMoves, SameTable DEF MayBecome
<1>5. CASE OnLoss(m, h)
    <2>1. MayBecome(m, h)
        BY Stops
    <2> QED
        BY <1>1, <1>2, <1>5, <2>1, RunCalls, SameTable
<1> QED
    BY <1>3, <1>4, <1>5 DEF FetchPre

LEMMA IdentifyRuns ==
    ASSUME Inv, Inv', Runs, NEW m \in Machines, Identify(m) PROVE Runs'
<1> DEFINE r == [mach[m] EXCEPT !.pc = "lookup"]
<1>1. mach[m].pc = "bySN" /\ UNCHANGED <<lastId, trail>>
    BY DEF Identify, At
<1>2. mach[m].prov = NoTask /\ mach[m].pc \notin Finishing
    BY <1>1, KnownRun DEF ProvOK, Asking, Finishing
<1>3. /\ r.pc = "lookup" /\ r.sn = mach[m].sn /\ r.prov = mach[m].prov
      /\ r.boot = mach[m].boot /\ r.offer = mach[m].offer /\ r.left = mach[m].left
    BY KnownRun DEF Machine
<1>4. OfferOK(m, r, tasks, lastId)
    BY <1>1, <1>3, KnownRun DEF OfferOK, Running
<1>5. MayBecome(m, r)
    BY <1>2, <1>3, <1>4, GoesTo, WithoutTask DEF MayBecome, Inv, Places
<1>6. Evolves(tasks, tasks', lastId) /\ Unique(tasks')
    BY SameTable, StatusEvolves DEF Identify, Event, Statuses
<1>7. OnAnswer(m, r) \/ OnLoss(m, r)
    BY DEF Identify, Event
<1> QED
    BY <1>1, <1>2, <1>5, <1>6, <1>7, RunCalls

(* A lookup of the pre script: with a task that it finds the machine goes  *)
(* on to "report", a task it may install for, because it is still there.   *)
LEMMA FoundRun ==
    ASSUME Inv, Runs, ConstantsAssumption, NEW m \in Machines,
           mach[m].pc \in {"lookup", "byMAC"}, NEW t \in Open
    PROVE  MayBecome(m, [mach[m] EXCEPT !.pc = "report", !.prov = ConfigOf(t)])
<1> DEFINE r == [mach[m] EXCEPT !.pc = "report", !.prov = ConfigOf(t)]
<1>1. MachineOK(r, tasks, lastId)
    BY FoundOK DEF Inv
<1>2. /\ r.pc = "report" /\ r.prov = ConfigOf(t) /\ r.sn = mach[m].sn
      /\ r.boot = mach[m].boot /\ r.offer = mach[m].offer
    BY KnownRun DEF Machine
<1>3. /\ t \in Task /\ t # NoTask /\ t.sn \in SNs /\ tasks[t.sn] = t /\ t.id <= lastId
      /\ ConfigOf(t).sn = t.sn /\ ConfigOf(t).id = t.id
    BY OpenTasks, ConfigIsOpen DEF Inv
<1>4. ~ Gone(t.id, tasks) /\ t.id \in 1 .. MaxTasks
    BY <1>3 DEF Gone, Task
<1>5. /\ Marked(trail, m, t.id, "applied") => Marked(trail, m, t.id, "cut")
      /\ ~ Marked(trail, m, t.id, "completed")
    BY <1>4, KnownRun DEF TrailOK, Finishing
<1>6. \A s \in SNs : tasks[s] # NoTask /\ tasks[s].id = t.id => s = t.sn
    BY <1>3 DEF Runs, Unique
<1>7. ProvOK(m, r, tasks, trail)
    BY <1>2, <1>3, <1>5, <1>6 DEF ProvOK, Asking
<1>8. OfferOK(m, r, tasks, lastId)
    BY <1>2, KnownRun DEF OfferOK, Running
<1>9. StatusOK(m, r, tasks)
    BY <1>2 DEF StatusOK, Finishing
<1> QED
    BY <1>1, <1>7, <1>8, <1>9 DEF MayBecome

LEMMA LookupRuns ==
    ASSUME Inv, Inv', Runs, ConstantsAssumption, NEW m \in Machines,
           mach[m].pc \in {"lookup", "byMAC"}, NEW t \in Open \cup {NoTask},
           NEW r, t = NoTask \/ mach[m].boot = "kickstart" => MayBecome(m, r),
           Found(m, t, r) \/ NotFound(m, r), UNCHANGED <<tasks, lastId, trail>>
    PROVE  Runs'
<1> DEFINE found == [mach[m] EXCEPT !.pc = "report", !.prov = ConfigOf(t)]
           h == [mach[m] EXCEPT !.pc = "halted"]
<1>1. mach[m].pc \notin Finishing
    BY DEF Finishing
<1>2. CASE Found(m, t, r)
    <2>1. MayBecome(m, IF t = NoTask THEN r ELSE found)
        BY FoundRun
    <2> QED
        BY <1>1, <1>2, <2>1, RunCalls, SameTable DEF Found
<1>3. CASE mach[m].boot = "kickstart" /\ OnLoss(m, r)
    BY <1>1, <1>3, RunCalls, SameTable
<1>4. CASE OnLoss(m, h)
    <2>1. MayBecome(m, h)
        BY Stops
    <2> QED
        BY <1>1, <1>4, <2>1, RunCalls, SameTable
<1> QED
    BY <1>2, <1>3, <1>4 DEF NotFound

LEMMA PreBySNRuns ==
    ASSUME Inv, Inv', Runs, ConstantsAssumption, NEW m \in Machines, PreBySN(m) PROVE Runs'
<1> DEFINE r == [mach[m] EXCEPT !.pc = "byMAC"]
           t == TaskBySN(mach[m].sn)
<1>1. /\ mach[m].pc = "lookup" /\ UNCHANGED <<tasks, lastId, trail>>
      /\ Found(m, t, r) \/ NotFound(m, r)
    BY DEF PreBySN, At
<1>2. mach[m].prov = NoTask /\ mach[m].sn = Dmi[m] /\ mach[m].left = Nics[m]
    BY <1>1, KnownRun DEF ProvOK, Asking, OfferOK
<1>3. /\ r.pc = "byMAC" /\ r.sn = mach[m].sn /\ r.prov = mach[m].prov
      /\ r.boot = mach[m].boot /\ r.offer = mach[m].offer /\ r.left = mach[m].left
    BY KnownRun DEF Machine
<1>4. ASSUME t = NoTask \/ mach[m].boot = "kickstart" PROVE OfferOK(m, r, tasks, lastId)
    <2>1. ASSUME r.boot = "cloud-init", NEW s \in SNs, tasks[s] # NoTask,
                 tasks[s].id = r.offer
          PROVE  tasks[s].macs \cap r.left # {}
        <3>1. s # Dmi[m]
            BY <1>2, <1>3, <1>4, <2>1 DEF TaskBySN
        <3> QED
            BY <1>1, <1>2, <1>3, <2>1, <3>1, KnownRun DEF OfferOK
    <2> QED
        BY <1>1, <1>3, <2>1, KnownRun DEF OfferOK, Running
<1>5. t = NoTask \/ mach[m].boot = "kickstart" => MayBecome(m, r)
    BY <1>2, <1>3, <1>4, GoesTo, WithoutTask DEF MayBecome, Inv, Places
<1>6. t \in Open \cup {NoTask}
    BY LookupsAreOpen
<1> HIDE DEF r, t
<1> QED
    BY <1>1, <1>5, <1>6, LookupRuns

(* A port that finds no task is not the one by which the task on offer     *)
(* will be found.                                                          *)
LEMMA PreByMACRuns ==
    ASSUME Inv, Inv', Runs, ConstantsAssumption, NEW m \in Machines, PreByMAC(m) PROVE Runs'
<1>1. mach[m].pc = "byMAC" /\ UNCHANGED <<tasks, lastId, trail>>
    BY DEF PreByMAC, At
<1>2. mach[m].prov = NoTask
    BY <1>1, KnownRun DEF ProvOK, Asking
<1>3. PICK a \in mach[m].left : \E t \in TaskByMAC(a) :
          \/ Found(m, t, [mach[m] EXCEPT !.left = @ \ {a}])
          \/ NotFound(m, [mach[m] EXCEPT !.left = @ \ {a}])
    BY DEF PreByMAC
<1> DEFINE r == [mach[m] EXCEPT !.left = @ \ {a}]
<1>4. PICK t \in TaskByMAC(a) : Found(m, t, r) \/ NotFound(m, r)
    BY <1>3
<1>5. /\ r \in Machine /\ r.pc = "byMAC" /\ r.sn = mach[m].sn /\ r.prov = mach[m].prov
      /\ r.boot = mach[m].boot /\ r.offer = mach[m].offer /\ r.left = mach[m].left \ {a}
    BY <1>1, KnownRun DEF Machine
<1>6. MachineOK(r, tasks, lastId)
    BY <1>5, KnownConfig, ElsewhereOK DEF Inv, Places
<1>7. ASSUME t = NoTask \/ mach[m].boot = "kickstart" PROVE OfferOK(m, r, tasks, lastId)
    <2>1. ASSUME r.boot = "cloud-init", NEW s \in SNs, tasks[s] # NoTask,
                 tasks[s].id = r.offer
          PROVE  tasks[s].macs \cap r.left # {}
        <3>1. t = NoTask /\ tasks[s] \in Open
            BY <1>5, <1>7, <2>1 DEF Open
        <3>2. a \notin tasks[s].macs
            BY <3>1, <1>4 DEF TaskByMAC, Open
        <3>3. tasks[s].macs \cap mach[m].left # {}
            BY <1>1, <1>5, <2>1, KnownRun DEF OfferOK
        <3> QED
            BY <1>5, <3>2, <3>3
    <2> QED
        BY <1>1, <1>5, <2>1, KnownRun DEF OfferOK, Running
<1>8. t = NoTask \/ mach[m].boot = "kickstart" => MayBecome(m, r)
    BY <1>2, <1>5, <1>6, <1>7, WithoutTask DEF MayBecome
<1>9. t \in Open \cup {NoTask}
    BY <1>4, LookupsAreOpen
<1> HIDE DEF r
<1> QED
    BY <1>1, <1>4, <1>8, <1>9, LookupRuns

(* All the ports have been looked up: the task on offer is gone.           *)
LEMMA UnmatchedRuns ==
    ASSUME Inv, Inv', Runs, NEW m \in Machines, PreUnmatched(m) PROVE Runs'
<1> DEFINE p == IF mach[m].boot = "cloud-init" THEN "install" ELSE "halted"
           r == [mach[m] EXCEPT !.pc = p]
<1>1. /\ mach[m].pc = "byMAC" /\ mach[m].left = {} /\ UNCHANGED <<lastId, trail>>
      /\ Event(m, mach[m].sn, "failed", r)
    BY DEF PreUnmatched, At
<1>2. mach[m].prov = NoTask /\ mach[m].pc \notin Finishing
    BY <1>1, KnownRun DEF ProvOK, Asking, Finishing
<1>3. /\ r.pc = p /\ r.prov = mach[m].prov
      /\ r.boot = mach[m].boot /\ r.offer = mach[m].offer
    BY KnownRun DEF Machine
<1>4. mach[m].boot = "cloud-init" => Gone(mach[m].offer, tasks)
    BY <1>1, KnownRun DEF OfferOK, Gone
<1>5. OfferOK(m, r, tasks, lastId)
    BY <1>1, <1>3, <1>4, KnownRun DEF OfferOK, Running, Finishing
<1>6. MayBecome(m, r)
    BY <1>2, <1>3, <1>5, GoesTo, WithoutTask DEF MayBecome, Inv, Places
<1>7. Evolves(tasks, tasks', lastId) /\ Unique(tasks')
    BY <1>1, SameTable, StatusEvolves DEF Event, Statuses
<1>8. OnAnswer(m, r) \/ OnLoss(m, r)
    BY <1>1 DEF Event
<1> QED
    BY <1>1, <1>2, <1>6, <1>7, <1>8, RunCalls

(* The events of the pre script set the status under EffectiveSN, which is *)
(* the serial number of the task unless DMI has another.                   *)
LEMMA ReportRuns ==
    ASSUME Inv, Inv', Runs, ConstantsAssumption, NEW m \in Machines, PreReport(m) PROVE Runs'
<1> DEFINE c == mach[m].prov
           s == EffectiveSN(m)
           r == [mach[m] EXCEPT !.pc = "install", !.sn = s]
           h == [mach[m] EXCEPT !.pc = "halted", !.sn = s]
<1>1. mach[m].pc = "report" /\ UNCHANGED <<lastId, trail>>
    BY DEF PreReport, At
<1>2. /\ mach[m] \in Machine /\ MachineOK(mach[m], tasks, lastId) /\ c \in Config
      /\ mach[m].pc \notin Finishing
    BY <1>1, KnownConfig DEF Inv, MachineOK, Machine, Finishing
<1>3. c # NoTask /\ c.sn \in SNs /\ s \in SNs \cup {NoSN}
    BY <1>1, <1>2 DEF EffectiveSN, Machine, Config, ConstantsAssumption, MachineOK
<1>4. /\ r \in Machine /\ r.pc = "install" /\ r.prov = c
      /\ r.boot = mach[m].boot /\ r.offer = mach[m].offer /\ r.lost = mach[m].lost
    BY <1>2, <1>3 DEF Machine
<1>5. /\ h \in Machine /\ h.pc = "halted" /\ h.prov = c /\ h.offer = mach[m].offer
    BY <1>2, <1>3 DEF Machine
<1>6. MachineOK(r, tasks, lastId) /\ MachineOK(h, tasks, lastId)
    BY <1>2, <1>4, <1>5, ElsewhereOK DEF Places
<1>7. ProvOK(m, r, tasks, trail) /\ ProvOK(m, h, tasks, trail)
    BY <1>1, <1>4, <1>5, KnownRun DEF ProvOK, Asking
<1>8. OfferOK(m, r, tasks, lastId) /\ OfferOK(m, h, tasks, lastId)
    BY <1>1, <1>3, <1>4, <1>5, KnownRun DEF OfferOK, Running, Finishing
<1>9. StatusOK(m, h, tasks)
    BY <1>5 DEF StatusOK, Finishing
<1>10. CASE Event(m, s, "failed", h)
    <2>1. Evolves(tasks, tasks', lastId) /\ Unique(tasks')
        BY <1>10, SameTable, StatusEvolves DEF Event, Statuses
    <2>2. OnAnswer(m, h) \/ OnLoss(m, h)
        BY <1>10 DEF Event
    <2> QED
        BY <1>1, <1>2, <1>6, <1>7, <1>8, <1>9, <2>1, <2>2, RunCalls DEF MayBecome
<1>11. CASE UNCHANGED tasks /\ OnLoss(m, r)
    <2> DEFINE q == [r EXCEPT !.lost = TRUE]
    <2>1. /\ q \in Machine /\ q.pc = r.pc /\ q.boot = r.boot /\ q.offer = r.offer /\ q.sn = r.sn
          /\ q.prov = r.prov /\ q.host = r.host /\ q.left = r.left /\ q.lost = TRUE
        BY <1>4 DEF Machine
    <2>2. MachineOK(q, tasks, lastId)
        BY <2>1, <1>6 DEF MachineOK, PostOK
    <2>3. ProvOK(m, q, tasks, trail) /\ OfferOK(m, q, tasks, lastId) /\ StatusOK(m, q, tasks)
        BY <2>1, <1>7, <1>8 DEF ProvOK, OfferOK, StatusOK
    <2>4. Become(m, q)
        BY <1>11 DEF OnLoss
    <2> QED
        BY <1>1, <1>2, <1>11, <2>2, <2>3, <2>4, RunMoves, SameTable DEF MayBecome
<1>12. CASE SetStatus(s, "installing") /\ OnAnswer(m, r)
    <2>1. /\ Evolves(tasks, tasks', lastId) /\ Unique(tasks')
          /\ s \in SNs /\ tasks'[s] # NoTask => tasks'[s].status = "installing"
        BY <1>12, StatusEvolves DEF Statuses
    <2>2. lastId \in Nat /\ TrailOK(m, r, tasks, lastId, trail)
        BY <1>2, KnownRun, TrailKeeps DEF Inv, Tables, TableOK
    <2>3. StatusOK(m, r, tasks')
        <3>1. mach[m].boot \in {"kickstart", "cloud-init"} /\ mach[m].sn = Dmi[m]
            BY <1>1, KnownRun DEF OfferOK, Running
        <3>2. (r.boot = "kickstart" => Dmi[m] \in {NoSN, c.sn}) => s = c.sn
            BY <1>4, <3>1 DEF EffectiveSN
        <3> QED
            BY <1>3, <1>4, <2>1, <3>2 DEF StatusOK
    <2>4. /\ TrailOK(m, r, tasks', lastId, trail)
          /\ ProvOK(m, r, tasks', trail) /\ OfferOK(m, r, tasks', lastId)
        BY <1>6, <1>7, <1>8, <2>1, <2>2, KnowledgeEvolves
    <2>5. Become(m, r)
        BY <1>12 DEF OnAnswer
    <2> QED
        BY <1>1, <2>1, <2>3, <2>4, <2>5, RunsMove DEF RunOK
<1> QED
    BY <1>10, <1>11, <1>12 DEF PreReport, Event

-----------------------------------------------------------------------------
(* The installation and %post                                              *)

LEMMA MarkAdds ==
    ASSUME NEW m, NEW c, NEW how, trail' = Mark(m, c, how)
    PROVE  \A n, i, h : Marked(trail', n, i, h) <=>
               \/ Marked(trail, n, i, h)
               \/ (c # NoTask /\ n = m /\ i = c.id /\ h = how)
    BY DEF Marked, Mark

(* From the disk on, a machine keeps what it was installed by.             *)
LEMMA InPost ==
    ASSUME Inv, Runs, NEW m \in Machines, mach[m].pc \in Finishing \cup {"install"},
           NEW r, r.pc \in Finishing, r.prov = mach[m].prov, r.boot = mach[m].boot,
           r.offer = mach[m].offer, mach[m].lost => r.lost
    PROVE  /\ \A tr : ProvOK(m, r, tasks, tr)
           /\ OfferOK(m, r, tasks, lastId) /\ StatusOK(m, r, tasks)
<1>1. \A tr : ProvOK(m, r, tasks, tr)
    BY KnownRun DEF ProvOK, Finishing, Asking
<1>2. OfferOK(m, r, tasks, lastId)
    BY KnownRun DEF OfferOK, Finishing, Running
<1>3. StatusOK(m, r, tasks)
    BY KnownRun DEF StatusOK
<1> QED
    BY <1>1, <1>2, <1>3

LEMMA BootedRun ==
    ASSUME NEW m, NEW r, NEW T, NEW last \in Nat,
           r.pc = "menu", r.prov = NoTask, r.left = Nics[m], r.offer = 0
    PROVE  /\ \A tr : ProvOK(m, r, T, tr)
           /\ OfferOK(m, r, T, last) /\ StatusOK(m, r, T)
    BY DEF ProvOK, OfferOK, StatusOK, Running, Finishing, Asking

LEMMA BootedFields ==
    ASSUME NEW m
    PROVE  /\ Booted(m).pc = "menu" /\ Booted(m).prov = NoTask
           /\ Booted(m).left = Nics[m] /\ Booted(m).offer = 0
           /\ [Booted(m) EXCEPT !.lost = TRUE].pc = "menu"
           /\ [Booted(m) EXCEPT !.lost = TRUE].prov = NoTask
           /\ [Booted(m) EXCEPT !.lost = TRUE].left = Nics[m]
           /\ [Booted(m) EXCEPT !.lost = TRUE].offer = 0
    BY DEF Booted

LEMMA InstallRuns ==
    ASSUME Inv, Inv', Runs, NEW m \in Machines, Install(m) PROVE Runs'
<1> DEFINE r == [mach[m] EXCEPT !.pc = "identify"]
           h == [mach[m] EXCEPT !.pc = "halted"]
           c == mach[m].prov
<1>1. mach[m].pc = "install" /\ UNCHANGED <<tasks, lastId>> /\ mach[m].pc \notin Finishing
    BY DEF Install, At, Finishing
<1>2. CASE Become(m, h) /\ UNCHANGED trail
    <2>1. MayBecome(m, h)
        BY Stops
    <2> QED
        BY <1>1, <1>2, <2>1, RunMoves, SameTable
<1>3. CASE Become(m, r) /\ trail' = Mark(m, c, "applied")
    <2>1. /\ r.pc = "identify" /\ r.prov = c /\ r.boot = mach[m].boot
          /\ r.offer = mach[m].offer /\ (mach[m].lost => r.lost)
        BY KnownRun DEF Machine
    <2> HIDE DEF r, h
    <2>2. /\ \A tr : ProvOK(m, r, tasks, tr)
          /\ OfferOK(m, r, tasks, lastId) /\ StatusOK(m, r, tasks)
        BY <1>1, <2>1, InPost DEF Finishing
    <2>3. \A n, i, how : Marked(trail', n, i, how) <=>
              \/ Marked(trail, n, i, how)
              \/ (c # NoTask /\ n = m /\ i = c.id /\ how = "applied")
        BY <1>3, MarkAdds
    <2>4. c # NoTask => c.id <= lastId
        BY KnownConfig DEF Inv, MachineOK, NotOvertaken
    <2>5. TrailOK(m, r, tasks, lastId, trail')
        BY <1>1, <2>1, <2>3, <2>4, KnownRun DEF TrailOK, Finishing
    <2>6. RunOK(m, r, tasks', lastId, trail')
        BY <1>1, <2>2, <2>5 DEF RunOK
    <2> QED
        BY <1>1, <1>3, <2>3, <2>6, RunsMove, SameTable
<1> QED
    BY <1>2, <1>3 DEF Install

(* A machine leaves %post without a completion: its trail says so.         *)
LEMMA CutRuns ==
    ASSUME Inv, Inv', Runs, NEW m \in Machines, NEW r, Become(m, r),
           \/ trail' = Mark(m, mach[m].prov, "cut")
           \/ UNCHANGED trail /\ mach[m].pc \notin Finishing,
           UNCHANGED <<tasks, lastId>>,
           ProvOK(m, r, tasks, trail'), OfferOK(m, r, tasks, lastId), StatusOK(m, r, tasks)
    PROVE  Runs'
<1> DEFINE c == mach[m].prov
<1>1. CASE trail' = Mark(m, c, "cut")
    <2>1. \A n, i, how : Marked(trail', n, i, how) <=>
              \/ Marked(trail, n, i, how)
              \/ (c # NoTask /\ n = m /\ i = c.id /\ how = "cut")
        BY <1>1, MarkAdds
    <2>2. TrailOK(m, r, tasks, lastId, trail')
        BY <2>1, KnownRun DEF TrailOK
    <2>3. RunOK(m, r, tasks', lastId, trail')
        BY <2>2 DEF RunOK
    <2> QED
        BY <2>1, <2>3, RunsMove, SameTable
<1>2. CASE UNCHANGED trail /\ mach[m].pc \notin Finishing
    <2>1. TrailOK(m, r, tasks, lastId, trail)
        BY <1>2, KnownRun, TrailKeeps
    <2>2. RunOK(m, r, tasks', lastId, trail')
        BY <1>2, <2>1 DEF RunOK
    <2> QED
        BY <1>2, <2>2, RunsMove, SameTable
<1> QED
    BY <1>1, <1>2

LEMMA PostIdentifyRuns ==
    ASSUME Inv, Inv', Runs, ConstantsAssumption, NEW m \in Machines, PostIdentify(m)
    PROVE  Runs'
<1> DEFINE knowing(t) == [mach[m] EXCEPT !.pc = "post", !.sn = PostSN(m),
                                         !.host = PostProvision(m, t)]
           answer == IF AsksAgain(m) THEN TaskBySN(PostSN(m)) ELSE NoTask
<1>1. /\ mach[m].pc = "identify" /\ UNCHANGED <<tasks, lastId>>
      /\ mach[m].pc \in Finishing /\ mach[m] \in Machine /\ lastId \in Nat
    BY KnownRun DEF PostIdentify, At, Finishing, Inv, Tables, TableOK
<1>2. ASSUME NEW t, t = NoTask \/ t = TaskBySN(PostSN(m)) PROVE MayBecome(m, knowing(t))
    <2>1. MachineOK(knowing(t), tasks, lastId)
        BY <1>1, <1>2, IdentifiedOK DEF At
    <2>2. /\ knowing(t).pc = "post" /\ knowing(t).prov = mach[m].prov
          /\ knowing(t).boot = mach[m].boot /\ knowing(t).offer = mach[m].offer
          /\ mach[m].lost => knowing(t).lost
        BY <1>1 DEF Machine
    <2> HIDE DEF knowing
    <2>3. ProvOK(m, knowing(t), tasks, trail)
        BY <1>1, <2>2, InPost DEF Finishing
    <2>4. OfferOK(m, knowing(t), tasks, lastId) /\ StatusOK(m, knowing(t), tasks)
        BY <1>1, <2>2, InPost DEF Finishing
    <2> QED
        BY <2>1, <2>3, <2>4 DEF MayBecome
<1>3. \A t : knowing(t).pc \in Finishing /\ knowing(t).prov = mach[m].prov
    BY <1>1 DEF Machine, Finishing
<1>4. CASE OnAnswer(m, knowing(answer)) /\ UNCHANGED trail
    <2> HIDE DEF knowing
    <2> QED
        BY <1>1, <1>2, <1>3, <1>4, RunCalls, SameTable
<1>5. CASE OnLoss(m, knowing(NoTask)) /\ UNCHANGED trail
    <2> HIDE DEF knowing
    <2> QED
        BY <1>1, <1>2, <1>3, <1>5, RunCalls, SameTable
<1>6. CASE /\ OnLoss(m, IF mach[m].boot = "kickstart" THEN Booted(m)
                         ELSE [mach[m] EXCEPT !.pc = "halted"])
           /\ trail' = Mark(m, mach[m].prov, "cut")
    <2> DEFINE b == [Booted(m) EXCEPT !.lost = TRUE]
               h == [[mach[m] EXCEPT !.pc = "halted"] EXCEPT !.lost = TRUE]
    <2>1. Become(m, b) \/ Become(m, h)
        BY <1>6 DEF OnLoss
    <2>2. CASE Become(m, b)
        <3>1. /\ ProvOK(m, b, tasks, trail')
              /\ OfferOK(m, b, tasks, lastId) /\ StatusOK(m, b, tasks)
            BY <1>1, BootedFields, BootedRun
        <3> QED
            BY <1>1, <1>6, <2>2, <3>1, CutRuns
    <2>3. CASE Become(m, h)
        <3>1. h.pc = "halted" /\ h.prov = mach[m].prov /\ h.offer = mach[m].offer
            BY <1>1 DEF Machine
        <3>2. /\ ProvOK(m, h, tasks, trail')
              /\ OfferOK(m, h, tasks, lastId) /\ StatusOK(m, h, tasks)
            BY <3>1, KnownRun DEF ProvOK, OfferOK, StatusOK, Running, Finishing, Asking
        <3> QED
            BY <1>1, <1>6, <2>3, <3>2, CutRuns
    <2> QED
        BY <2>1, <2>2, <2>3
<1> QED
    BY <1>4, <1>5, <1>6 DEF PostIdentify

LEMMA PostReportRuns ==
    ASSUME Inv, Inv', Runs, NEW m \in Machines, PostReport(m) PROVE Runs'
<1> DEFINE r == [mach[m] EXCEPT !.pc = "complete"]
<1>1. /\ mach[m].pc = "post" /\ UNCHANGED <<lastId, trail>>
      /\ Event(m, mach[m].sn, "configured", r)
    BY DEF PostReport, At
<1>2. /\ r \in Machine /\ r.pc = "complete" /\ r.prov = mach[m].prov /\ r.sn = mach[m].sn
      /\ r.boot = mach[m].boot /\ r.offer = mach[m].offer /\ r.host = mach[m].host
      /\ mach[m].lost => r.lost
    BY KnownRun DEF Machine
<1> HIDE DEF r
<1>3. MachineOK(r, tasks, lastId)
    BY <1>1, <1>2, KnownConfig DEF Inv, MachineOK, PostOK
<1>4. ProvOK(m, r, tasks, trail) /\ OfferOK(m, r, tasks, lastId) /\ StatusOK(m, r, tasks)
    BY <1>1, <1>2, InPost DEF Finishing
<1>5. Evolves(tasks, tasks', lastId) /\ Unique(tasks')
    BY <1>1, SameTable, StatusEvolves DEF Event, Statuses
<1>6. OnAnswer(m, r) \/ OnLoss(m, r)
    BY <1>1 DEF Event
<1>7. r.pc \in Finishing /\ r.prov = mach[m].prov
    BY <1>2 DEF Finishing
<1> QED
    BY <1>1, <1>3, <1>4, <1>5, <1>6, <1>7, RunCalls DEF MayBecome

(* After the call of a completion there is no row left of the task the     *)
(* machine was laid out by: its SN is the serial number of that task, so   *)
(* the row it removes is that one, or a newer one that took its place.     *)
LEMMA CompleteRuns ==
    ASSUME Inv, Inv', Runs, NEW m \in Machines, Complete(m) PROVE Runs'
<1> DEFINE t == TaskCompletedBy(m)
           c == mach[m].prov
<1>1. mach[m].pc = "complete" /\ lastId' = lastId
    BY DEF Complete, At
<1>2. /\ mach[m] \in Machine /\ MachineOK(mach[m], tasks, lastId) /\ lastId \in Nat
      /\ c # NoTask => c.sn \in SNs /\ c.sn = mach[m].sn
    BY <1>1, KnownConfig DEF Inv, Tables, TableOK, MachineOK, PostOK, Machine, Config
<1>3. t = TaskBySN(mach[m].sn) /\ (t # NoTask => t \in Open)
    BY LookupsAreOpen DEF TaskCompletedBy
<1>4. t # NoTask => /\ t.sn = mach[m].sn /\ t.sn \in SNs /\ tasks[t.sn] = t
                    /\ t.id <= lastId /\ t.id \in 1 .. MaxTasks
    <2>1. t # NoTask => /\ t \in Task /\ t.sn \in SNs /\ tasks[t.sn] = t /\ t.id <= lastId
                        /\ mach[m].sn \in SNs /\ t = tasks[mach[m].sn]
        BY <1>3, OpenTasks DEF Inv, TaskBySN
    <2> QED
        BY <2>1 DEF Inv, Tables, TableOK, Task
(* What is left of the table.                                              *)
<1>5. /\ Evolves(tasks, tasks', lastId) /\ Unique(tasks')
      /\ \A s \in SNs : tasks'[s] # NoTask => tasks'[s] = tasks[s]
      /\ c # NoTask => tasks'[c.sn] = NoTask
    <2>1. CASE t = NoTask
        <3>1. UNCHANGED tasks
            BY <2>1 DEF Complete
        <3>2. c # NoTask => tasks[c.sn] = NoTask
            BY <1>2, <1>3, <2>1 DEF TaskBySN
        <3> QED
            BY <3>1, <3>2, SameTable
    <2>2. CASE t # NoTask
        <3>1. tasks' = [tasks EXCEPT ![t.sn] = NoTask]
            BY <2>2 DEF Complete, RemoveTask
        <3>2. Evolves(tasks, tasks', lastId) /\ Unique(tasks')
            BY <1>4, <2>2, <3>1, DeletionEvolves
        <3>3. \A s \in SNs : tasks'[s] = IF s = t.sn THEN NoTask ELSE tasks[s]
            BY <3>1 DEF Inv, Tables, TableOK
        <3> QED
            BY <1>2, <1>4, <2>2, <3>2, <3>3
    <2> QED
        BY <2>1, <2>2
(* What the trail says of m.                                               *)
<1>6. \A n, i, how :
          /\ Marked(trail, n, i, how) => Marked(trail', n, i, how)
          /\ Marked(trail', n, i, how) /\ ~ Marked(trail, n, i, how) =>
                 n = m /\ how = "completed" /\ i <= lastId /\ Gone(i, tasks')
    <2>1. CASE t = NoTask
        BY <2>1 DEF Complete
    <2>2. CASE t # NoTask
        <3>1. \A n, i, how : Marked(trail', n, i, how) <=>
                  \/ Marked(trail, n, i, how)
                  \/ (t # NoTask /\ n = m /\ i = t.id /\ how = "completed")
            BY <2>2, MarkAdds DEF Complete
        <3>2. \A s \in SNs : tasks'[s] = IF s = t.sn THEN NoTask ELSE tasks[s]
            BY <2>2, <1>4 DEF Complete, RemoveTask, Inv, Tables, TableOK
        <3>3. Gone(t.id, tasks')
            BY <1>4, <2>2, <3>2 DEF Gone, Runs, Unique
        <3> QED
            BY <1>4, <2>2, <3>1, <3>3
    <2> QED
        BY <2>1, <2>2
<1> HIDE DEF t
<1>7. ASSUME NEW i \in 1 .. MaxTasks, c # NoTask, c.id = i PROVE Gone(i, tasks')
    BY <1>5, <1>7, KnownRun DEF Gone, ProvOK
<1>8. ASSUME NEW i \in 1 .. MaxTasks, i <= lastId, Gone(i, tasks) PROVE Gone(i, tasks')
    BY <1>5, <1>8 DEF Gone
<1>9. ASSUME NEW q PROVE TrailOK(m, q, tasks', lastId, trail')
    BY <1>6, <1>7, <1>8, KnownRun DEF TrailOK
<1>10. ASSUME NEW q, Become(m, q), q.pc = "menu", q.prov = NoTask, q.left = Nics[m],
              q.offer = 0
       PROVE  Runs'
    <2>1. RunOK(m, q, tasks', lastId, trail')
        BY <1>2, <1>9, <1>10, BootedRun DEF RunOK
    <2> QED
        BY <1>1, <1>5, <1>6, <1>10, <2>1, RunsMove
<1>11. ASSUME OnLoss(m, mach[m]) PROVE Runs'
    <2> DEFINE q == [mach[m] EXCEPT !.lost = TRUE]
    <2>1. /\ q \in Machine /\ q.pc = "complete" /\ q.prov = c /\ q.sn = mach[m].sn
          /\ q.boot = mach[m].boot /\ q.offer = mach[m].offer /\ q.host = mach[m].host
          /\ mach[m].lost => q.lost
        BY <1>1, <1>2 DEF Machine
    <2>2. Become(m, q)
        BY <1>11 DEF OnLoss
    <2> HIDE DEF q
    <2>3. MachineOK(q, tasks, lastId)
        BY <1>1, <1>2, <2>1 DEF MachineOK, PostOK
    <2>4. RunOK(m, q, tasks, lastId, trail)
        <3>1. TrailOK(m, q, tasks, lastId, trail)
            BY <1>1, <2>1, KnownRun, TrailKeeps DEF Finishing
        <3>2. /\ ProvOK(m, q, tasks, trail) /\ OfferOK(m, q, tasks, lastId)
              /\ StatusOK(m, q, tasks)
            BY <1>1, <2>1, InPost DEF Finishing
        <3> QED
            BY <3>1, <3>2 DEF RunOK
    <2>5. RunOK(m, q, tasks', lastId, trail)
        BY <1>2, <1>5, <2>3, <2>4, RunEvolves
    <2>6. ProvOK(m, q, tasks', trail')
        BY <2>1, <2>5 DEF RunOK, ProvOK, Asking
    <2>7. RunOK(m, q, tasks', lastId, trail')
        BY <1>9, <2>5, <2>6 DEF RunOK
    <2> QED
        BY <1>1, <1>5, <1>6, <2>2, <2>7, RunsMove
<1>12. OnAnswer(m, Booted(m)) \/ OnLoss(m, mach[m])
    BY DEF Complete
<1> QED
    BY <1>10, <1>11, <1>12, BootedFields DEF OnAnswer

LEMMA CutStepRuns ==
    ASSUME Inv, Inv', Runs, NEW m \in Machines, CompleteFails(m) \/ Reset(m) PROVE Runs'
<1>1. UNCHANGED <<tasks, lastId>> /\ lastId \in Nat /\ mach[m] \in Machine
    BY KnownRun DEF CompleteFails, Reset, Inv, Tables, TableOK
<1>2. \/ trail' = Mark(m, mach[m].prov, "cut")
      \/ UNCHANGED trail /\ mach[m].pc \notin Finishing
    BY DEF CompleteFails, Reset, Finishing
<1>3. ASSUME NEW q, Become(m, q), q.pc = "menu", q.prov = NoTask, q.left = Nics[m],
             q.offer = 0
      PROVE  Runs'
    <2>1. /\ ProvOK(m, q, tasks, trail') /\ OfferOK(m, q, tasks, lastId)
          /\ StatusOK(m, q, tasks)
        BY <1>1, <1>3, BootedRun
    <2> QED
        BY <1>1, <1>2, <1>3, <2>1, CutRuns
<1>4. ASSUME CompleteFails(m), OnLoss(m, mach[m]) PROVE Runs'
    <2> DEFINE q == [mach[m] EXCEPT !.lost = TRUE]
    <2>1. /\ q.pc = "complete" /\ q.prov = mach[m].prov
          /\ q.boot = mach[m].boot /\ q.offer = mach[m].offer
          /\ mach[m].lost => q.lost
        BY <1>1, <1>4 DEF Machine, CompleteFails, At
    <2>2. Become(m, q) /\ mach[m].pc = "complete"
        BY <1>4 DEF OnLoss, CompleteFails, At
    <2> HIDE DEF q
    <2>3. /\ ProvOK(m, q, tasks, trail') /\ OfferOK(m, q, tasks, lastId)
          /\ StatusOK(m, q, tasks)
        BY <2>1, <2>2, InPost DEF Finishing
    <2> QED
        BY <1>1, <1>2, <2>2, <2>3, CutRuns
<1>5. ASSUME CompleteFails(m), OnLoss(m, [mach[m] EXCEPT !.pc = "halted"]) PROVE Runs'
    <2> DEFINE h == [[mach[m] EXCEPT !.pc = "halted"] EXCEPT !.lost = TRUE]
    <2>1. Become(m, h)
        BY <1>5 DEF OnLoss
    <2>2. h.pc = "halted" /\ h.prov = mach[m].prov /\ h.offer = mach[m].offer
        BY <1>1 DEF Machine
    <2> HIDE DEF h
    <2>3. /\ ProvOK(m, h, tasks, trail')
          /\ OfferOK(m, h, tasks, lastId) /\ StatusOK(m, h, tasks)
        BY <2>2, KnownRun DEF ProvOK, OfferOK, StatusOK, Running, Finishing, Asking
    <2> QED
        BY <1>1, <1>2, <2>1, <2>3, CutRuns
<1>6. \/ Become(m, Booted(m)) \/ Become(m, [Booted(m) EXCEPT !.lost = TRUE])
      \/ CompleteFails(m) /\ OnLoss(m, mach[m])
      \/ CompleteFails(m) /\ OnLoss(m, [mach[m] EXCEPT !.pc = "halted"])
    BY DEF CompleteFails, Reset, OnLoss
<1> QED
    BY <1>3, <1>4, <1>5, <1>6, BootedFields
-----------------------------------------------------------------------------
(* Operators                                                               *)

LEMMA OperatorRuns ==
    ASSUME Inv, Inv', Runs, ConstantsAssumption, Operator PROVE Runs'
<1>1. /\ lastId \in Nat /\ lastId' \in Nat /\ UNCHANGED <<mach, trail>> /\ lastId <= lastId'
    BY DEF Operator, PushTask, DeleteTask, Inv, Tables, TableOK
<1>2. Evolves(tasks, tasks', lastId) /\ Unique(tasks')
    <2>1. ASSUME NEW s \in SNs, DeleteTask(s)
          PROVE  Evolves(tasks, tasks', lastId) /\ Unique(tasks')
        BY <2>1, DeletionEvolves DEF DeleteTask
    <2>2. ASSUME NEW s \in SNs, NEW net \in Networks, NEW b \in BootTypes,
                 PushTask(s, net, b)
          PROVE  Evolves(tasks, tasks', lastId) /\ Unique(tasks')
        <3> DEFINE row == [id |-> lastId + 1, sn |-> s, macs |-> net, boot |-> b,
                           status |-> "pending"]
        <3>1. \A u \in SNs : tasks'[u] = IF u = s THEN row ELSE tasks[u]
            BY <2>2 DEF PushTask, Inv, Tables, TableOK
        <3>2. row.id = lastId + 1 /\ row.id > lastId
            BY <1>1
        <3>3. \A u \in SNs : tasks[u] # NoTask => tasks[u].id <= lastId /\ tasks[u].id \in Int
            BY DEF Inv, Tables, TableOK, Task
        <3> HIDE DEF row
        <3> QED
            BY <1>1, <3>1, <3>2, <3>3 DEF Evolves, Unique, Runs
    <2> QED
        BY <2>1, <2>2 DEF Operator
<1>3. ASSUME NEW m \in Machines PROVE RunOK(m, mach[m], tasks', lastId', trail)
    <2>1. MachineOK(mach[m], tasks, lastId) /\ RunOK(m, mach[m], tasks, lastId, trail)
        BY KnownConfig DEF Inv, Runs
    <2> QED
        BY <1>1, <1>2, <2>1, RunEvolves
<1> QED
    BY <1>1, <1>2, <1>3 DEF Runs

-----------------------------------------------------------------------------
LEMMA RunsInit == ConstantsAssumption /\ Init => Runs
<1> SUFFICES ASSUME ConstantsAssumption, Init PROVE Runs
    OBVIOUS
<1>1. Unique(tasks)
    BY DEF Init, Unique
<1>2. ASSUME NEW m \in Machines PROVE RunOK(m, mach[m], tasks, lastId, trail)
    <2>1. mach[m] = Booted(m) /\ lastId = 0 /\ trail = {}
        BY DEF Init
    <2>2. TrailOK(m, mach[m], tasks, lastId, trail)
        BY <2>1 DEF TrailOK, Marked
    <2> QED
        BY <2>1, <2>2, BootedFields, BootedRun DEF RunOK
<1> QED
    BY <1>1, <1>2 DEF Runs

LEMMA RunsStep == ConstantsAssumption /\ Inv /\ Inv' /\ Runs /\ [Next]_vars => Runs'
<1> SUFFICES ASSUME ConstantsAssumption, Inv, Inv', Runs, [Next]_vars PROVE Runs'
    OBVIOUS
<1>1. CASE Operator
    BY <1>1, OperatorRuns
<1>2. ASSUME NEW m \in Machines, Run(m) PROVE Runs'
    BY <1>2, MenuRuns, FetchRuns, IdentifyRuns, PreBySNRuns, PreByMACRuns, UnmatchedRuns,
       ReportRuns, InstallRuns, PostIdentifyRuns, PostReportRuns, CompleteRuns,
       CutStepRuns DEF Run
<1>3. ASSUME NEW m \in Machines, Reset(m) PROVE Runs'
    BY <1>3, CutStepRuns
<1>4. CASE UNCHANGED vars
    BY <1>4 DEF vars, Runs
<1> QED
    BY <1>1, <1>2, <1>3, <1>4 DEF Next

LEMMA RunsImply ==
    Inv /\ Runs => InstalledOncePerTask /\ DefaultsOnlyWithoutTask /\ StatusFollowsMachine
<1> SUFFICES ASSUME Inv, Runs
             PROVE  InstalledOncePerTask /\ DefaultsOnlyWithoutTask /\ StatusFollowsMachine
    OBVIOUS
<1>1. InstalledOncePerTask
    BY KnownRun DEF InstalledOncePerTask, At, Was, ProvOK, Marked
<1>2. DefaultsOnlyWithoutTask
    BY KnownRun DEF DefaultsOnlyWithoutTask, At, OfferOK, Gone, Open
<1>3. StatusFollowsMachine
    BY KnownRun DEF StatusFollowsMachine, StatusOK, Finishing
<1> QED
    BY <1>1, <1>2, <1>3

(* A machine is not installed again for a task it was installed for unless *)
(* its completion was cut off, and never for a task it completed: the      *)
(* completion removes the row, and what it removes is the row the machine  *)
(* was laid out by or one that has replaced it.                            *)
THEOREM InstallationIsNotRepeated == Spec => []InstalledOncePerTask
<1>1. Spec => [](Inv /\ Runs)
    BY ConstantsAssumption, InvInit, InvStep, RunsInit, RunsStep, PTL DEF Spec
<1> QED
    BY <1>1, RunsImply, PTL

(* What the menu offered a machine, the lookups of its pre script find: it *)
(* is installed with the defaults only when a call failed or the task is   *)
(* gone, whatever ports it has and in whatever order they are looked up.   *)
THEOREM OfferedTaskIsFound == Spec => []DefaultsOnlyWithoutTask
<1>1. Spec => [](Inv /\ Runs)
    BY ConstantsAssumption, InvInit, InvStep, RunsInit, RunsStep, PTL DEF Spec
<1> QED
    BY <1>1, RunsImply, PTL

(* The row a machine is being installed by has left "pending", and no      *)
(* event of any machine sets it back.                                      *)
THEOREM TaskStatusFollowsMachine == Spec => []StatusFollowsMachine
<1>1. Spec => [](Inv /\ Runs)
    BY ConstantsAssumption, InvInit, InvStep, RunsInit, RunsStep, PTL DEF Spec
<1> QED
    BY <1>1, RunsImply, PTL
=============================================================================
