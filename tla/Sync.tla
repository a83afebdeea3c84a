-------------------------------- MODULE Sync --------------------------------
(***************************************************************************)
(* POST /api/sync: a controller pushes numbered versions of what the       *)
(* engine shall hold. syncHandler compares the number with the recorded    *)
(* one, writes the tasks, the server address, the OS templates and the     *)
(* template files one after the other, and records the number last. It     *)
(* drops the error of every one of these writes.                           *)
(*                                                                         *)
(* A request may be delivered again, late or after a restart. Each row,    *)
(* key and file is modelled by the version that wrote it, 0 for none.      *)
(* A payload without a number skips the comparison: it is left out.        *)
(***************************************************************************)
EXTENDS Integers

CONSTANTS
    SNs,                \* serial numbers of machines
    Files,              \* names of template files
    Handlers,           \* handler goroutines
    MaxVersion,         \* bound: versions the controller numbers
    Pushed,             \* Pushed[v]: the machines version v has a task for
    Malformed,          \* Malformed[v]: those whose task does not parse
    Brings,             \* Brings[v]: the keys and files version v carries
    Rejected,           \* the versions with a task that has no network
    MayOverlap,         \* whether two deliveries can be in flight at once
    MaxFailures,        \* bound: statements and writes of files that fail
    MayCrash,           \* whether the engine can die and be restarted
    Idle

Versions == 1 .. MaxVersion
Stamp == 0 .. MaxVersion
Keys == {"ip", "port", "os_templates"}
Parts(v) == Pushed[v] \cup Brings[v]

Call == [pc : {"tasks", "ip", "port", "os_templates", "files", "version"},
         v : Versions, files : SUBSET Files, writing : SUBSET Files]

ASSUME SyncAssumption ==
    /\ MaxVersion \in Nat \ {0}
    /\ Pushed \in [Versions -> SUBSET SNs]
    /\ Malformed \in [Versions -> SUBSET SNs]
    /\ Brings \in [Versions -> SUBSET (Keys \cup Files)]
    /\ Rejected \subseteq Versions
    /\ SNs \cap (Keys \cup Files) = {} /\ Keys \cap Files = {}
    /\ MaxFailures \in Nat
    /\ MayOverlap \in BOOLEAN /\ MayCrash \in BOOLEAN
    /\ Idle \notin Call

VARIABLES
    version,            \* config key sync_version
    rows,               \* rows[s]: the version whose task s has, 0 for no task
    kept,               \* kept[k]: the version the value of key k is from
    files,              \* files[f]: the version of template f, 0: absent or torn
    call,               \* the delivery each handler goroutine works on
    failures,           \* statements and writes that failed so far
    written,            \* history variable: <<s, v>> when v wrote the row of s
    done,               \* history variable: <<s, v>> when that task completed
    lost,               \* history variable: <<p, v>> when part p of v was not
                        \* written, or overwritten, and the error was dropped
    torn,               \* history variable: files a write was cut short in
    cut                 \* history variable: versions that wrote their tasks and
                        \* whose number is not, or no longer, recorded

state == <<version, rows, kept, files>>
history == <<written, done, lost, torn, cut>>
vars == <<state, call, failures, history>>

Init ==
    /\ version = 0
    /\ rows = [s \in SNs |-> 0]
    /\ kept = [k \in Keys |-> 0]
    /\ files = [f \in Files |-> 0]
    /\ call = [h \in Handlers |-> Idle]
    /\ failures = 0
    /\ written = {} /\ done = {}
    /\ lost = {} /\ torn = {} /\ cut = {}

At(h, pc) == call[h] # Idle /\ call[h].pc = pc
Goto(h, pc) == call' = [call EXCEPT ![h].pc = pc]
Fails == failures < MaxFailures /\ failures' = failures + 1
Quiet == \A h \in Handlers : call[h] = Idle

Begin(h, v) ==
    /\ call[h] = Idle
    /\ MayOverlap \/ Quiet
    /\ call' = [call EXCEPT ![h] = [pc |-> "tasks", v |-> v,
                                    files |-> Brings[v] \cap Files, writing |-> {}]]
    /\ UNCHANGED state

(* Mutant: the recorded version is applied again.                          *)
CheckOlderVersion(h, v) ==
    /\ Begin(h, v)
    /\ v >= version
    /\ UNCHANGED <<failures, history>>

(* A delivery of a version above the recorded one; any other is answered   *)
(* "already_at_version" and changes nothing.                               *)
CheckVersion(h, v) ==
    /\ Begin(h, v)
    /\ v > version
    /\ UNCHANGED <<failures, history>>

(* GetSyncVersion drops the error of its SELECT and answers 0: the version *)
(* is applied over newer ones, and then recorded in their place.           *)
CheckFails(h, v) ==
    /\ Fails
    /\ Begin(h, v)
    /\ v <= version
    /\ lost' = lost \cup (Parts(v) \X (v + 1 .. version))
    /\ cut' = cut \cup (v .. version)
    /\ UNCHANGED <<written, done, torn>>

(* The rows BatchCreateTasks writes: tasks that do not parse or have no     *)
(* serial number are skipped, one without a network rolls back them all.   *)
Stored(v) == IF v \in Rejected THEN {} ELSE Pushed[v] \ Malformed[v]

(* One transaction. SaveTasks drops its error and the handler goes on.     *)
SaveTasks(h) ==
    /\ At(h, "tasks")
    /\ LET v == call[h].v
           S == Stored(v)
       IN  /\ rows' = [s \in SNs |-> IF s \in S THEN v ELSE rows[s]]
           /\ written' = written \cup (S \X {v})
           /\ lost' = (lost \ (S \X {v})) \cup ((Pushed[v] \ S) \X {v})
    /\ Goto(h, "ip")
    /\ UNCHANGED <<version, kept, files, failures, done, torn, cut>>

SaveTasksFails(h) ==
    /\ Fails
    /\ At(h, "tasks")
    /\ lost' = lost \cup (Pushed[call[h].v] \X {call[h].v})
    /\ Goto(h, "ip")
    /\ UNCHANGED <<state, written, done, torn, cut>>

(* Mutant: the port is written only when there was none.                   *)
SaveKeyOnce(h, k, next) ==
    /\ At(h, k)
    /\ k \in Brings[call[h].v]
    /\ kept' = IF k = "port" /\ kept[k] # 0 THEN kept ELSE [kept EXCEPT ![k] = call[h].v]
    /\ lost' = lost \ {<<k, call[h].v>>}
    /\ Goto(h, next)
    /\ UNCHANGED <<version, rows, files, failures, written, done, torn, cut>>

(* SetPxeServer writes two keys of config one after the other, then        *)
(* SaveOSTemplates replaces its rows in a transaction.                     *)
SaveKey(h, k, next) ==
    /\ At(h, k)
    /\ k \in Brings[call[h].v]
    /\ kept' = [kept EXCEPT ![k] = call[h].v]
    /\ lost' = lost \ {<<k, call[h].v>>}
    /\ Goto(h, next)
    /\ UNCHANGED <<version, rows, files, failures, written, done, torn, cut>>

SaveKeyFails(h, k, next) ==
    /\ Fails
    /\ At(h, k)
    /\ k \in Brings[call[h].v]
    /\ lost' = lost \cup {<<k, call[h].v>>}
    /\ Goto(h, next)
    /\ UNCHANGED <<state, written, done, torn, cut>>

(* The payload has no address, or no OS templates.                         *)
SkipKey(h, k, next) ==
    /\ At(h, k)
    /\ k \notin Brings[call[h].v]
    /\ Goto(h, next)
    /\ UNCHANGED <<state, failures, history>>

(* The loop over the map of template files, in the order Go picks.         *)
(* os.WriteFile truncates what is there and then writes.                   *)
TruncateTemplate(h, f) ==
    /\ At(h, "files")
    /\ call[h].writing = {} /\ f \in call[h].files
    /\ files' = [files EXCEPT ![f] = 0]
    /\ call' = [call EXCEPT ![h].writing = {f}]
    /\ UNCHANGED <<version, rows, kept, failures, history>>

(* The directory or the file cannot be made: what was there stays.         *)
OpenTemplateFails(h, f) ==
    /\ Fails
    /\ At(h, "files")
    /\ call[h].writing = {} /\ f \in call[h].files
    /\ lost' = lost \cup {<<f, call[h].v>>}
    /\ call' = [call EXCEPT ![h].files = @ \ {f}]
    /\ UNCHANGED <<state, written, done, torn, cut>>

WriteTemplate(h, f) ==
    /\ At(h, "files")
    /\ f \in call[h].writing
    /\ files' = [files EXCEPT ![f] = call[h].v]
    /\ lost' = lost \ {<<f, call[h].v>>}
    /\ torn' = torn \ {f}
    /\ call' = [call EXCEPT ![h].files = @ \ {f}, ![h].writing = {}]
    /\ UNCHANGED <<version, rows, kept, failures, written, done, cut>>

(* The disk is full: the file stays empty or is cut short.                 *)
WriteTemplateFails(h, f) ==
    /\ Fails
    /\ At(h, "files")
    /\ f \in call[h].writing
    /\ lost' = lost \cup {<<f, call[h].v>>}
    /\ torn' = torn \cup {f}
    /\ call' = [call EXCEPT ![h].files = @ \ {f}, ![h].writing = {}]
    /\ UNCHANGED <<state, written, done, cut>>

EndTemplates(h) ==
    /\ At(h, "files")
    /\ call[h].files = {}
    /\ Goto(h, "version")
    /\ UNCHANGED <<state, failures, history>>

(* Mutant: the version that is recorded is the one that comes next.        *)
SetNextSyncVersion(h) ==
    /\ At(h, "version")
    /\ version' = call[h].v + 1
    /\ cut' = cut \ (1 .. call[h].v)
    /\ call' = [call EXCEPT ![h] = Idle]
    /\ UNCHANGED <<rows, kept, files, failures, written, done, lost, torn>>

SetSyncVersion(h) ==
    /\ At(h, "version")
    /\ version' = call[h].v
    /\ cut' = cut \ (1 .. call[h].v)
    /\ call' = [call EXCEPT ![h] = Idle]
    /\ UNCHANGED <<rows, kept, files, failures, written, done, lost, torn>>

SetSyncVersionFails(h) ==
    /\ Fails
    /\ At(h, "version")
    /\ cut' = cut \cup {call[h].v}
    /\ call' = [call EXCEPT ![h] = Idle]
    /\ UNCHANGED <<state, written, done, lost, torn>>

(* The machine's installation completes, or an operator deletes its task.  *)
TaskEnds(s) ==
    /\ rows[s] # 0
    /\ done' = done \cup {<<s, rows[s]>>}
    /\ rows' = [rows EXCEPT ![s] = 0]
    /\ UNCHANGED <<version, kept, files, call, failures, written, lost, torn, cut>>

InFlight == {h \in Handlers : call[h] # Idle}
BeingWritten == UNION {call[h].writing : h \in InFlight}

Crash ==
    /\ MayCrash
    /\ ~ Quiet
    /\ torn' = torn \cup BeingWritten
    /\ cut' = cut \cup {call[h].v : h \in {g \in InFlight : call[g].pc # "tasks"}}
    /\ call' = [h \in Handlers |-> Idle]
    /\ UNCHANGED <<state, failures, written, done, lost>>

KeyStep(h, k, next) == SaveKey(h, k, next) \/ SaveKeyFails(h, k, next) \/ SkipKey(h, k, next)

TemplateStep(h, f) ==
    \/ TruncateTemplate(h, f) \/ OpenTemplateFails(h, f)
    \/ WriteTemplate(h, f) \/ WriteTemplateFails(h, f)

Continue(h) ==
    \/ SaveTasks(h) \/ SaveTasksFails(h)
    \/ KeyStep(h, "ip", "port") \/ KeyStep(h, "port", "os_templates")
    \/ KeyStep(h, "os_templates", "files")
    \/ \E f \in Files : TemplateStep(h, f)
    \/ EndTemplates(h) \/ SetSyncVersion(h) \/ SetSyncVersionFails(h)

Next ==
    \/ \E h \in Handlers, v \in Versions : CheckVersion(h, v) \/ CheckFails(h, v)
    \/ \E h \in Handlers : Continue(h)
    \/ \E s \in SNs : TaskEnds(s)
    \/ Crash

Spec == Init /\ [][Next]_vars
-----------------------------------------------------------------------------
(* Properties                                                              *)

(* Types of the database, the files and the calls of syncHandler.          *)
TypeOK ==
    /\ version \in Stamp
    /\ rows \in [SNs -> Stamp]
    /\ kept \in [Keys -> Stamp]
    /\ files \in [Files -> Stamp]
    /\ call \in [Handlers -> Call \cup {Idle}]
    /\ failures \in 0 .. MaxFailures
    /\ written \subseteq SNs \X Versions
    /\ done \subseteq SNs \X Versions
    /\ lost \subseteq (SNs \cup Keys \cup Files) \X Versions
    /\ torn \subseteq Files
    /\ cut \subseteq Versions

(* Part p is there as version v or a newer one brought it. A row counts    *)
(* when it was written once: its task may have ended since.                *)
OnDisk(p, v) ==
    \/ p \in SNs /\ \E w \in v .. MaxVersion : <<p, w>> \in written
    \/ p \in Keys /\ kept[p] >= v
    \/ p \in Files /\ files[p] >= v

Missing ==
    {p \in IF version = 0 THEN {} ELSE Parts(version) :
        ~ OnDisk(p, version) /\ p \notin BeingWritten}

(* handler.go:210, "skip if already applied": what a recorded version      *)
(* lacks is what syncHandler dropped the error of, or a file that a write  *)
(* was cut short in. Crashes between the parts, redeliveries and versions  *)
(* that come late or carry only some parts never cost it another one.      *)
RecordedIsApplied == \A p \in Missing : <<p, version>> \in lost \/ p \in torn

(* handler.go:210, the same comment taken at its word: a version that is   *)
(* recorded, and therefore skipped from now on, has all of its parts.      *)
SkippedIsApplied == Quiet => Missing = {}

(* A task that completed comes back only with a version that a crash or a  *)
(* dropped error kept from being recorded after it had written its tasks,  *)
(* however often and late deliveries are repeated.                         *)
NoResurrection ==
    [][\A s \in SNs : rows'[s] \notin {0, rows[s]} /\ <<s, rows'[s]>> \in done
                          => rows'[s] \in cut]_vars
=============================================================================
