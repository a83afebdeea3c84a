--------------------------- MODULE TaskLifecycle ---------------------------
(***************************************************************************)
(* The task rows, the install history and the per-machine archive files of *)
(* the engine, under every interleaving of its HTTP handlers.              *)
(*                                                                         *)
(* Each handler runs in a goroutine of its own. One SQL statement (or one  *)
(* transaction) is atomic, because every write takes DB.wmu; a file access *)
(* is one system call; nothing spans two of them. A handler is therefore a *)
(* sequence of steps, kept as the pc of its call, and its first step is    *)
(* taken as the request arrives. A handler with one step that changes      *)
(* state (POST, PUT and DELETE of a task, the batch) is one action.        *)
(***************************************************************************)
EXTENDS Integers, FiniteSets

CONSTANTS
    SNs,                \* serial numbers of machines
    Handlers,           \* handler goroutines that may be in flight at once
    Stages,             \* the installer's event stages the model sends
    Reports,            \* the inventory reports: components, hardware
    OperatorStatuses,   \* statuses an operator writes with PUT /api/tasks/{sn}
    MayCrash,           \* whether the engine process can die and be restarted
    DbMayFail,          \* whether a statement whose error is dropped can fail
    MaxId,              \* bound: task ids handed out
    MaxBatch,           \* bound: entries of one batch payload
    MaxCalls,           \* bound: requests that reach the engine
    NoTask, Idle        \* no row for a serial number; no call in a handler

InstallingStages == {"sn_identifying", "provision_matching", "disk_selected",
                     "pkg_installing"}
ConfiguredStages == {"post_start", "network_configured", "ssh_keys_injected",
                     "files_injecting", "script_executing",
                     "hardware_collecting", "install_completing"}
FailedStages == {"provision_failed"}
MappedStages == InstallingStages \cup ConfiguredStages \cup FailedStages

(* Mutant: the stage itself is stored when the map has no status for it.   *)
RawStage(g) == g

(* stageToStatus, for the stages that have an entry in it.                 *)
StageToStatus(g) ==
    CASE g \in InstallingStages -> "installing"
      [] g \in ConfiguredStages -> "configured"
      [] g \in FailedStages     -> "failed"

Statuses == {"pending", "installing", "configured", "failed"} \cup OperatorStatuses

Keys == Reports \cup {"installed"}       \* what an archive file can hold
TaskIds == 1 .. MaxId
Task == [id : TaskIds, status : Statuses]
Result == [sn : SNs, kind : Keys \cup Stages, tid : TaskIds \cup {0}]
Ended == [id : TaskIds, sn : SNs, how : {"cancelled", "replaced", "completed"}]

(* An archive file, by the keys of its JSON object: "truncated" when it was *)
(* emptied by open(2) and not written since, "garbled" when the texts of   *)
(* two writers overlay each other. A file that does not exist holds no key. *)
File == [state : {"whole", "truncated", "garbled"}, keys : SUBSET Keys]
Whole(ks) == [state |-> "whole", keys |-> ks]
Damaged(how) == [state |-> how, keys |-> {}]

Call == [pc : {"save", "read", "truncate", "write", "remove", "update"},
         sn : SNs, kind : Keys \cup Stages, tid : TaskIds \cup {0},
         seen : SUBSET Keys]

ASSUME ConstantsAssumption ==
    /\ MaxId \in Nat /\ MaxBatch \in Nat /\ MaxCalls \in Nat
    /\ MayCrash \in BOOLEAN /\ DbMayFail \in BOOLEAN
    /\ "installed" \notin Reports /\ Stages \cap Keys = {}
    /\ NoTask \notin Task /\ Idle \notin Call

VARIABLES
    tasks,              \* table tasks: the row of a serial number or NoTask
    nextId,             \* sqlite_sequence of tasks: the id the next row gets
    results,            \* table results, as a set of rows
    archive,            \* the files logs/installs/<sn>.json
    call,               \* the call each handler goroutine is working on
    calls,              \* requests so far (for MaxCalls only)
    closed              \* history variable: the tasks that ended, and how

vars == <<tasks, nextId, results, archive, call, calls, closed>>

-----------------------------------------------------------------------------
Init ==
    /\ tasks = [s \in SNs |-> NoTask]
    /\ nextId = 1
    /\ results = {}
    /\ archive = [s \in SNs |-> Whole({})]
    /\ call = [h \in Handlers |-> Idle]
    /\ calls = 0
    /\ closed = {}

HasRow(s) == tasks[s] # NoTask

At(h, pc) == call[h] # Idle /\ call[h].pc = pc

Arrive == calls < MaxCalls /\ calls' = calls + 1

Goto(h, pc) == call' = [call EXCEPT ![h].pc = pc]
Return(h)   == call' = [call EXCEPT ![h] = Idle]

Begin(h, c) == call[h] = Idle /\ call' = [call EXCEPT ![h] = c]

NewCall(pc, s, k, i) == [pc |-> pc, sn |-> s, kind |-> k, tid |-> i, seen |-> {}]

ResultRow(s, k, i) == [sn |-> s, kind |-> k, tid |-> i]

(* The row of s is gone, for the reason "how".                             *)
EndTask(s, how) ==
    /\ tasks' = [tasks EXCEPT ![s] = NoTask]
    /\ closed' = closed \cup {[id |-> tasks[s].id, sn |-> s, how |-> how]}

(* store.SaveResult drops the error of the INSERT: a failed one adds no row *)
(* and the handler goes on.                                                *)
Saved(row) == {results \cup {row}} \cup (IF DbMayFail THEN {results} ELSE {})
-----------------------------------------------------------------------------
(* Operators: POST, PUT, DELETE on /api/tasks and the batch                *)

(* Mutant: the id column without AUTOINCREMENT reuses the highest free id. *)
CreateTaskReusingIds(s) ==
    /\ Arrive
    /\ ~ HasRow(s)
    /\ \E i \in TaskIds :
          /\ \A t \in SNs : HasRow(t) => tasks[t].id < i
          /\ i = 1 \/ \E t \in SNs : HasRow(t) /\ tasks[t].id = i - 1
          /\ tasks' = [tasks EXCEPT ![s] = [id |-> i, status |-> "pending"]]
          /\ nextId' = i + 1
    /\ UNCHANGED <<results, archive, call, closed>>

(* The insert of a sn that has a row violates UNIQUE and is answered 409.  *)
CreateTask(s) ==
    /\ Arrive
    /\ nextId <= MaxId
    /\ ~ HasRow(s)
    /\ tasks' = [tasks EXCEPT ![s] = [id |-> nextId, status |-> "pending"]]
    /\ nextId' = nextId + 1
    /\ UNCHANGED <<results, archive, call, closed>>

UpdateTask(s, v) ==
    /\ Arrive
    /\ HasRow(s)
    /\ tasks' = [tasks EXCEPT ![s].status = v]
    /\ UNCHANGED <<nextId, results, archive, call, closed>>

DeleteTask(s) ==
    /\ Arrive
    /\ HasRow(s)
    /\ EndTask(s, "cancelled")
    /\ UNCHANGED <<nextId, results, archive, call>>

(* Mutant: an upsert, which resets the row of a known sn and keeps its id. *)
BatchUpserts(S, n) ==
    /\ Arrive
    /\ n = 1 /\ nextId <= MaxId
    /\ \E s \in S :
          /\ S = {s}
          /\ tasks' = [tasks EXCEPT ![s] =
                 [id |-> IF HasRow(s) THEN tasks[s].id ELSE nextId, status |-> "pending"]]
    /\ nextId' = nextId + 1
    /\ UNCHANGED <<results, archive, call, closed>>

(* n entries that each take an id; at[s] is the last entry for s, whose row *)
(* INSERT OR REPLACE leaves in the table. A payload with an entry without a *)
(* network is rolled back, ids included: it changes nothing.               *)
BatchCreateTasks(S, n) ==
    /\ Arrive
    /\ nextId + n - 1 <= MaxId
    /\ \E at \in [S -> 0 .. n - 1] :
          /\ \A s, t \in S : s # t => at[s] # at[t]
          /\ \E s \in S : at[s] = n - 1
          /\ tasks' = [s \in SNs |->
                          IF s \in S THEN [id |-> nextId + at[s], status |-> "pending"]
                                     ELSE tasks[s]]
    /\ nextId' = nextId + n
    /\ closed' = closed \cup {[id |-> tasks[s].id, sn |-> s, how |-> "replaced"] :
                                 s \in {t \in S : HasRow(t)}}
    /\ UNCHANGED <<results, archive, call>>
-----------------------------------------------------------------------------
(* pxeEventHandler: record the event, then set the status of the row       *)

(* Mutant: the event is recorded only when the stage has no status.        *)
SaveUnmappedEvent(h, s, g) ==
    /\ Arrive
    /\ IF g \in MappedStages THEN Begin(h, NewCall("update", s, g, 0)) /\ UNCHANGED results
                             ELSE call[h] = Idle /\ UNCHANGED call
                                  /\ results' \in Saved(ResultRow(s, g, 0))
    /\ UNCHANGED <<tasks, nextId, archive, closed>>

SaveEvent(h, s, g) ==
    /\ Arrive
    /\ IF g \in MappedStages THEN Begin(h, NewCall("update", s, g, 0))
                             ELSE call[h] = Idle /\ UNCHANGED call
    /\ results' \in Saved(ResultRow(s, g, 0))
    /\ UNCHANGED <<tasks, nextId, archive, closed>>

(* The UPDATE matches whatever row has the sn by then, or none.            *)
UpdateStatus(h) ==
    /\ At(h, "update")
    /\ LET s == call[h].sn
           updated == IF HasRow(s)
                      THEN [tasks EXCEPT ![s].status = StageToStatus(call[h].kind)]
                      ELSE tasks
       IN  tasks' \in {updated} \cup (IF DbMayFail THEN {tasks} ELSE {})
    /\ Return(h)
    /\ UNCHANGED <<nextId, results, archive, calls, closed>>
-----------------------------------------------------------------------------
(* componentsHandler and hardwareHandler record the report, then merge it  *)
(* into the archive. provisionCompleteHandler finds the row, records the   *)
(* installation under its id, merges, and deletes the row of the sn.       *)

(* Mutant: the report is merged into the archive alone.                    *)
ArchiveReportOnly(h, s, k) ==
    /\ Arrive
    /\ Begin(h, NewCall("read", s, k, 0))
    /\ UNCHANGED <<tasks, nextId, results, archive, closed>>

SaveReport(h, s, k) ==
    /\ Arrive
    /\ Begin(h, NewCall("read", s, k, 0))
    /\ results' \in Saved(ResultRow(s, k, 0))
    /\ UNCHANGED <<tasks, nextId, archive, closed>>

(* Mutant: the handler goes on to the archive without recording a result.  *)
FindTaskUnrecorded(h, s) ==
    /\ Arrive
    /\ Begin(h, NewCall("read", s, "installed", IF HasRow(s) THEN tasks[s].id ELSE 0))
    /\ UNCHANGED <<tasks, nextId, results, archive, closed>>

FindTask(h, s) ==
    /\ Arrive
    /\ Begin(h, NewCall("save", s, "installed", IF HasRow(s) THEN tasks[s].id ELSE 0))
    /\ UNCHANGED <<tasks, nextId, results, archive, closed>>

SaveInstalled(h) ==
    /\ At(h, "save")
    /\ results' \in Saved(ResultRow(call[h].sn, "installed", call[h].tid))
    /\ Goto(h, "read")
    /\ UNCHANGED <<tasks, nextId, archive, calls, closed>>

(* A file that does not decode counts as an empty one.                     *)
ReadArchive(h) ==
    /\ At(h, "read")
    /\ call' = [call EXCEPT ![h].pc = "truncate",
                            ![h].seen = archive[call[h].sn].keys]
    /\ UNCHANGED <<tasks, nextId, results, archive, calls, closed>>

(* os.WriteFile opens with O_TRUNC, then writes at offset 0.               *)
TruncateArchive(h) ==
    /\ At(h, "truncate")
    /\ archive' = [archive EXCEPT ![call[h].sn] = Damaged("truncated")]
    /\ Goto(h, "write")
    /\ UNCHANGED <<tasks, nextId, results, calls, closed>>

(* Mutant: the handler returns after the merge and leaves the row.         *)
WriteArchiveAndReturn(h) ==
    /\ At(h, "write")
    /\ archive' = [archive EXCEPT ![call[h].sn] = Whole(call[h].seen \cup {call[h].kind})]
    /\ Return(h)
    /\ UNCHANGED <<tasks, nextId, results, calls, closed>>

(* Over a file another handler has written meanwhile, a shorter text leaves *)
(* the tail of the longer one behind it.                                   *)
WriteArchive(h) ==
    /\ At(h, "write")
    /\ LET s == call[h].sn
           merged == call[h].seen \cup {call[h].kind}
       IN  \E file \in {Whole(merged)} \cup
                  (IF archive[s].state = "truncated" THEN {} ELSE {Damaged("garbled")}) :
              archive' = [archive EXCEPT ![s] = file]
    /\ IF call[h].kind = "installed" THEN Goto(h, "remove") ELSE Return(h)
    /\ UNCHANGED <<tasks, nextId, results, calls, closed>>

RemoveTaskBySN(h) ==
    /\ At(h, "remove")
    /\ LET s == call[h].sn
       IN  \/ HasRow(s) /\ EndTask(s, "completed")
           \/ (HasRow(s) => DbMayFail) /\ UNCHANGED <<tasks, closed>>
    /\ Return(h)
    /\ UNCHANGED <<nextId, results, archive, calls>>
-----------------------------------------------------------------------------
(* The process dies; the database and the files stay as they are, and the  *)
(* restarted server begins with no handler.                                *)
Crash ==
    /\ MayCrash
    /\ \E h \in Handlers : call[h] # Idle
    /\ call' = [h \in Handlers |-> Idle]
    /\ UNCHANGED <<tasks, nextId, results, archive, calls, closed>>

Operator ==
    \/ \E s \in SNs : CreateTask(s) \/ DeleteTask(s)
    \/ \E s \in SNs, v \in OperatorStatuses : UpdateTask(s, v)
    \/ \E S \in (SUBSET SNs) \ {{}}, n \in 1 .. MaxBatch : BatchCreateTasks(S, n)

Installer(h) ==
    \/ \E s \in SNs : FindTask(h, s)
    \/ \E s \in SNs, g \in Stages : SaveEvent(h, s, g)
    \/ \E s \in SNs, k \in Reports : SaveReport(h, s, k)

Continue(h) ==
    \/ UpdateStatus(h) \/ SaveInstalled(h)
    \/ ReadArchive(h) \/ TruncateArchive(h) \/ WriteArchive(h)
    \/ RemoveTaskBySN(h)

Next ==
    \/ Operator
    \/ \E h \in Handlers : Installer(h) \/ Continue(h)
    \/ Crash

Spec == Init /\ [][Next]_vars

(* Go runs every goroutine that can run: no handler stops half way. Nobody *)
(* is obliged to send a request.                                           *)
FairSpec == Spec /\ \A h \in Handlers : WF_vars(Continue(h))
-----------------------------------------------------------------------------
(* Properties                                                              *)

(* Types of the rows, files and calls. A row only ever has a status the    *)
(* stage map or an operator gives, never the name of a stage.              *)
TypeOK ==
    /\ tasks \in [SNs -> Task \cup {NoTask}]
    /\ nextId \in 1 .. MaxId + 1
    /\ results \subseteq Result
    /\ archive \in [SNs -> File]
    /\ call \in [Handlers -> Call \cup {Idle}]
    /\ calls \in Nat
    /\ closed \subseteq Ended

Names(i, s) ==
    \/ HasRow(s) /\ tasks[s].id = i
    \/ \E c \in closed : c.id = i /\ c.sn = s
    \/ \E r \in results : r.tid = i /\ r.sn = s

(* The task_id of a result row identifies one task for good: no id is ever *)
(* given to a task of another machine, or to a second task of the same one. *)
IdsAreNeverReused ==
    /\ \A i \in TaskIds, s, t \in SNs : Names(i, s) /\ Names(i, t) => s = t
    /\ \A c \in closed : HasRow(c.sn) => tasks[c.sn].id # c.id
    /\ \A c, d \in closed : c.id = d.id => c = d

OnRecord(s, k) == \E r \in results : r.sn = s /\ r.kind = k

(* provisionCompleteHandler never deletes a task before the installation   *)
(* of its machine is in the history that is all that is left of it.        *)
CompletedIsInHistory ==
    \A c \in closed : c.how = "completed" => OnRecord(c.sn, "installed")

(* Whatever an archive file says of a machine is in the database as well,  *)
(* at every point a crash can strike.                                      *)
ArchiveBackedByHistory ==
    \A s \in SNs : \A k \in archive[s].keys : OnRecord(s, k)

(* A status the installer's progress gives a row is backed by an event of  *)
(* that machine in the history; a row nothing was heard of is pending.     *)
StatusExplained ==
    \A s \in SNs : HasRow(s) =>
        \/ tasks[s].status \in {"pending"} \cup OperatorStatuses
        \/ \E g \in Stages \cap MappedStages :
              OnRecord(s, g) /\ StageToStatus(g) = tasks[s].status

(* The lifecycle implements the contract: the open task of a sn is its     *)
(* row, and the installations on record are the installed rows of results. *)
Contract == INSTANCE TaskContract WITH
    open      <- [s \in SNs |-> IF HasRow(s) THEN tasks[s].id ELSE 0],
    last      <- nextId - 1,
    ended     <- closed,
    installed <- {s \in SNs : OnRecord(s, "installed")}

ImplementsContract == Contract!CSpec

(* A completion that found a task is followed by the end of that task,     *)
(* whatever creations, deletions, pushes and other completions run beside. *)
CompletionEndsTask ==
    \A h \in Handlers, i \in TaskIds :
        (At(h, "save") /\ call[h].tid = i) ~> \A s \in SNs : ~ (HasRow(s) /\ tasks[s].id = i)

(* A task that ends as completed is the one whose installation was put on  *)
(* record: some installed row of the history has its id.                   *)
CompletesItsOwnTask ==
    \A c \in closed : c.how = "completed" =>
        \E r \in results : r.kind = "installed" /\ r.tid = c.id
=============================================================================
