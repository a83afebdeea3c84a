------------------------ MODULE TaskLifecycleProofs ------------------------
(***************************************************************************)
(* Theorems of TaskLifecycle, for any sets of machines, handlers and       *)
(* stages and any bounds; last, that it implements TaskContract.           *)
(***************************************************************************)
EXTENDS TaskLifecycle, TLAPS

(* What the pc of a call says of what the call is about: only an event     *)
(* with a status updates a row, only a completion records an installation  *)
(* under an id and removes a row.                                          *)
CallsMatchPc ==
    \A h \in Handlers : call[h] # Idle =>
        IF call[h].pc = "update" THEN call[h].kind \in Stages \cap MappedStages
        ELSE /\ call[h].kind \in Keys
             /\ call[h].pc \in {"save", "remove"} => call[h].kind = "installed"

TypeInv == TypeOK /\ CallsMatchPc

LEMMA RowIsTask ==
    ASSUME TypeOK, NEW s \in SNs, HasRow(s)
    PROVE  tasks[s] \in Task
BY DEF TypeOK, HasRow

LEMMA CallIsCall ==
    ASSUME TypeOK, NEW h \in Handlers, call[h] # Idle
    PROVE  call[h] \in Call
BY DEF TypeOK

LEMMA StatusOfMappedStage ==
    ASSUME NEW g \in MappedStages
    PROVE  StageToStatus(g) \in {"installing", "configured", "failed"}
BY DEF MappedStages, StageToStatus, InstallingStages, ConfiguredStages, FailedStages

(* The row that ended is recorded with a typed record.                     *)
LEMMA EndTaskTypes ==
    ASSUME TypeOK, NEW s \in SNs, HasRow(s),
           NEW how \in {"cancelled", "replaced", "completed"}, EndTask(s, how)
    PROVE  /\ tasks' \in [SNs -> Task \cup {NoTask}]
           /\ closed' \subseteq Ended
<1>1. tasks[s] \in Task
  BY RowIsTask
<1>2. tasks[s].id \in TaskIds
  BY <1>1 DEF Task
<1>3. [id |-> tasks[s].id, sn |-> s, how |-> how] \in Ended
  BY <1>2 DEF Ended
<1> QED
  BY <1>3 DEF TypeOK, EndTask

LEMMA TypeInvStep == TypeInv /\ [Next]_vars => TypeInv'
<1> SUFFICES ASSUME TypeInv, [Next]_vars PROVE TypeInv'
  OBVIOUS
<1> USE ConstantsAssumption
<1>1. ASSUME NEW s \in SNs, CreateTask(s) PROVE TypeInv'
  <2>1. [id |-> nextId, status |-> "pending"] \in Task
    BY <1>1 DEF CreateTask, TypeInv, TypeOK, Task, TaskIds, Statuses
  <2>2. TypeOK'
    BY <1>1, <2>1 DEF CreateTask, TypeInv, TypeOK, Arrive
  <2>3. CallsMatchPc'
    BY <1>1 DEF CreateTask, TypeInv, CallsMatchPc
  <2> QED BY <2>2, <2>3 DEF TypeInv
<1>2. ASSUME NEW s \in SNs, DeleteTask(s) PROVE TypeInv'
  <2>1. tasks' \in [SNs -> Task \cup {NoTask}] /\ closed' \subseteq Ended
    BY <1>2, EndTaskTypes DEF DeleteTask, TypeInv
  <2>2. TypeOK'
    BY <1>2, <2>1 DEF DeleteTask, TypeInv, TypeOK, Arrive
  <2>3. CallsMatchPc'
    BY <1>2 DEF DeleteTask, TypeInv, CallsMatchPc
  <2> QED BY <2>2, <2>3 DEF TypeInv
<1>3. ASSUME NEW s \in SNs, NEW v \in OperatorStatuses, UpdateTask(s, v) PROVE TypeInv'
  <2>1. tasks[s] \in Task /\ v \in Statuses
    BY <1>3, RowIsTask DEF UpdateTask, TypeInv, Statuses
  <2>2. [tasks[s] EXCEPT !.status = v] \in Task
    BY <2>1 DEF Task
  <2>3. TypeOK'
    BY <1>3, <2>2 DEF UpdateTask, TypeInv, TypeOK, Arrive
  <2>4. CallsMatchPc'
    BY <1>3 DEF UpdateTask, TypeInv, CallsMatchPc
  <2> QED BY <2>3, <2>4 DEF TypeInv
<1>4. ASSUME NEW S \in (SUBSET SNs) \ {{}}, NEW n \in 1 .. MaxBatch, BatchCreateTasks(S, n)
      PROVE TypeInv'
  <2>1. PICK at \in [S -> 0 .. n - 1] :
           tasks' = [s \in SNs |->
                       IF s \in S THEN [id |-> nextId + at[s], status |-> "pending"]
                                  ELSE tasks[s]]
    BY <1>4 DEF BatchCreateTasks
  <2>2. nextId \in 1 .. MaxId + 1 /\ nextId + n - 1 <= MaxId
    BY <1>4 DEF BatchCreateTasks, TypeInv, TypeOK
  <2>3. \A s \in S : [id |-> nextId + at[s], status |-> "pending"] \in Task
    BY <2>1, <2>2 DEF Task, TaskIds, Statuses
  <2>4. tasks' \in [SNs -> Task \cup {NoTask}]
    BY <2>1, <2>3 DEF TypeInv, TypeOK
  <2>5. \A s \in SNs : HasRow(s) => tasks[s].id \in TaskIds
    BY RowIsTask DEF TypeInv, Task
  <2>6. \A s \in {t \in S : HasRow(t)} :
           [id |-> tasks[s].id, sn |-> s, how |-> "replaced"] \in Ended
    BY <2>5 DEF Ended
  <2>7. closed' \subseteq Ended
    BY <1>4, <2>6 DEF BatchCreateTasks, TypeInv, TypeOK
  <2>8. nextId' \in 1 .. MaxId + 1
    BY <1>4, <2>2 DEF BatchCreateTasks
  <2>9. TypeOK'
    BY <1>4, <2>4, <2>7, <2>8 DEF BatchCreateTasks, TypeInv, TypeOK, Arrive
  <2>10. CallsMatchPc'
    BY <1>4 DEF BatchCreateTasks, TypeInv, CallsMatchPc
  <2> QED BY <2>9, <2>10 DEF TypeInv
<1>5. ASSUME NEW h \in Handlers, NEW s \in SNs, FindTask(h, s) PROVE TypeInv'
  <2> DEFINE i == IF HasRow(s) THEN tasks[s].id ELSE 0
  <2>1. i \in TaskIds \cup {0}
    BY RowIsTask DEF TypeInv, Task
  <2> HIDE DEF i
  <2>2. NewCall("save", s, "installed", i) \in Call
    BY <2>1 DEF NewCall, Call, Keys
  <2>3. call' = [call EXCEPT ![h] = NewCall("save", s, "installed", i)]
    BY <1>5 DEF FindTask, Begin, i
  <2>4. TypeOK'
    BY <1>5, <2>2, <2>3 DEF FindTask, TypeInv, TypeOK, Arrive
  <2>5. CallsMatchPc'
    BY <2>3 DEF TypeInv, TypeOK, CallsMatchPc, NewCall, Keys
  <2> QED BY <2>4, <2>5 DEF TypeInv
<1>6. ASSUME NEW h \in Handlers, NEW s \in SNs, NEW g \in Stages, SaveEvent(h, s, g)
      PROVE TypeInv'
  <2>1. NewCall("update", s, g, 0) \in Call /\ ResultRow(s, g, 0) \in Result
    BY DEF NewCall, Call, ResultRow, Result
  <2>2. results' \subseteq Result
    BY <1>6, <2>1 DEF SaveEvent, Saved, TypeInv, TypeOK
  <2>3. TypeOK'
    BY <1>6, <2>1, <2>2 DEF SaveEvent, Begin, TypeInv, TypeOK, Arrive
  <2>4. CallsMatchPc'
    BY <1>6 DEF SaveEvent, Begin, NewCall, TypeInv, TypeOK, CallsMatchPc
  <2> QED BY <2>3, <2>4 DEF TypeInv
<1>7. ASSUME NEW h \in Handlers, NEW s \in SNs, NEW k \in Reports, SaveReport(h, s, k)
      PROVE TypeInv'
  <2>1. NewCall("read", s, k, 0) \in Call /\ ResultRow(s, k, 0) \in Result
    BY DEF NewCall, Call, ResultRow, Result, Keys
  <2>2. results' \subseteq Result
    BY <1>7, <2>1 DEF SaveReport, Saved, TypeInv, TypeOK
  <2>3. TypeOK'
    BY <1>7, <2>1, <2>2 DEF SaveReport, Begin, TypeInv, TypeOK, Arrive
  <2>4. CallsMatchPc'
    BY <1>7 DEF SaveReport, Begin, NewCall, TypeInv, TypeOK, CallsMatchPc, Keys
  <2> QED BY <2>3, <2>4 DEF TypeInv
<1>8. ASSUME NEW h \in Handlers, UpdateStatus(h) PROVE TypeInv'
  <2>1. call[h] \in Call /\ call[h].kind \in MappedStages
    BY <1>8, CallIsCall DEF UpdateStatus, At, TypeInv, CallsMatchPc
  <2>2. StageToStatus(call[h].kind) \in Statuses
    BY <2>1, StatusOfMappedStage DEF Statuses
  <2>3. call[h].sn \in SNs
    BY <2>1 DEF Call
  <2>4. HasRow(call[h].sn) =>
           [tasks[call[h].sn] EXCEPT !.status = StageToStatus(call[h].kind)] \in Task
    BY <2>2, <2>3, RowIsTask DEF Task, TypeInv
  <2>5. tasks' \in [SNs -> Task \cup {NoTask}]
    BY <1>8, <2>3, <2>4 DEF UpdateStatus, TypeInv, TypeOK
  <2>6. TypeOK'
    BY <1>8, <2>5 DEF UpdateStatus, Return, TypeInv, TypeOK
  <2>7. CallsMatchPc'
    BY <1>8 DEF UpdateStatus, Return, TypeInv, TypeOK, CallsMatchPc
  <2> QED BY <2>6, <2>7 DEF TypeInv
<1>9. ASSUME NEW h \in Handlers, SaveInstalled(h) PROVE TypeInv'
  <2>1. call[h] \in Call
    BY <1>9, CallIsCall DEF SaveInstalled, At, TypeInv
  <2>2. ResultRow(call[h].sn, "installed", call[h].tid) \in Result
    BY <2>1 DEF ResultRow, Call, Result, Keys
  <2>3. [call[h] EXCEPT !.pc = "read"] \in Call
    BY <2>1 DEF Call
  <2>4. results' \subseteq Result
    BY <1>9, <2>2 DEF SaveInstalled, Saved, TypeInv, TypeOK
  <2>5. TypeOK'
    BY <1>9, <2>3, <2>4 DEF SaveInstalled, Goto, TypeInv, TypeOK
  <2>6. CallsMatchPc'
    BY <1>9, <2>1 DEF SaveInstalled, Goto, At, TypeInv, TypeOK, CallsMatchPc, Call
  <2> QED BY <2>5, <2>6 DEF TypeInv
<1>10. ASSUME NEW h \in Handlers, ReadArchive(h) PROVE TypeInv'
  <2>1. call[h] \in Call
    BY <1>10, CallIsCall DEF ReadArchive, At, TypeInv
  <2>2. archive[call[h].sn].keys \in SUBSET Keys
    BY <2>1 DEF Call, TypeInv, TypeOK, File
  <2>3. [call[h] EXCEPT !.pc = "truncate", !.seen = archive[call[h].sn].keys] \in Call
    BY <2>1, <2>2 DEF Call
  <2>4. TypeOK'
    BY <1>10, <2>3 DEF ReadArchive, TypeInv, TypeOK
  <2>5. CallsMatchPc'
    BY <1>10, <2>1 DEF ReadArchive, At, TypeInv, TypeOK, CallsMatchPc, Call
  <2> QED BY <2>4, <2>5 DEF TypeInv
<1>11. ASSUME NEW h \in Handlers, TruncateArchive(h) PROVE TypeInv'
  <2>1. call[h] \in Call
    BY <1>11, CallIsCall DEF TruncateArchive, At, TypeInv
  <2>2. [call[h] EXCEPT !.pc = "write"] \in Call
    BY <2>1 DEF Call
  <2>3. Damaged("truncated") \in File
    BY DEF Damaged, File
  <2>4. TypeOK'
    BY <1>11, <2>2, <2>3 DEF TruncateArchive, Goto, TypeInv, TypeOK
  <2>5. CallsMatchPc'
    BY <1>11, <2>1 DEF TruncateArchive, Goto, At, TypeInv, TypeOK, CallsMatchPc, Call
  <2> QED BY <2>4, <2>5 DEF TypeInv
<1>12. ASSUME NEW h \in Handlers, WriteArchive(h) PROVE TypeInv'
  <2>1. call[h] \in Call /\ call[h].kind \in Keys
    BY <1>12, CallIsCall DEF WriteArchive, At, TypeInv, CallsMatchPc
  <2>2. Whole(call[h].seen \cup {call[h].kind}) \in File /\ Damaged("garbled") \in File
    BY <2>1 DEF Whole, Damaged, File, Call
  <2>3. archive' \in [SNs -> File]
    BY <1>12, <2>2 DEF WriteArchive, TypeInv, TypeOK
  <2>4. [call[h] EXCEPT !.pc = "remove"] \in Call
    BY <2>1 DEF Call
  <2>5. TypeOK'
    BY <1>12, <2>3, <2>4 DEF WriteArchive, Goto, Return, TypeInv, TypeOK
  <2>6. CallsMatchPc'
    BY <1>12, <2>1 DEF WriteArchive, Goto, Return, At, TypeInv, TypeOK, CallsMatchPc, Call
  <2> QED BY <2>5, <2>6 DEF TypeInv
<1>13. ASSUME NEW h \in Handlers, RemoveTaskBySN(h) PROVE TypeInv'
  <2>1. call[h] \in Call
    BY <1>13, CallIsCall DEF RemoveTaskBySN, At, TypeInv
  <2>2. call[h].sn \in SNs
    BY <2>1 DEF Call
  <2>3. tasks' \in [SNs -> Task \cup {NoTask}] /\ closed' \subseteq Ended
    <3>1. CASE HasRow(call[h].sn) /\ EndTask(call[h].sn, "completed")
      BY <3>1, <2>2, EndTaskTypes DEF TypeInv
    <3>2. CASE UNCHANGED <<tasks, closed>>
      BY <3>2 DEF TypeInv, TypeOK
    <3> QED BY <1>13, <3>1, <3>2 DEF RemoveTaskBySN
  <2>4. TypeOK'
    BY <1>13, <2>3 DEF RemoveTaskBySN, Return, TypeInv, TypeOK
  <2>5. CallsMatchPc'
    BY <1>13 DEF RemoveTaskBySN, Return, TypeInv, TypeOK, CallsMatchPc
  <2> QED BY <2>4, <2>5 DEF TypeInv
<1>14. ASSUME Crash PROVE TypeInv'
  BY <1>14 DEF Crash, TypeInv, TypeOK, CallsMatchPc
<1>15. ASSUME UNCHANGED vars PROVE TypeInv'
  BY <1>15 DEF vars, TypeInv, TypeOK, CallsMatchPc
<1> QED
  BY <1>1, <1>2, <1>3, <1>4, <1>5, <1>6, <1>7, <1>8, <1>9, <1>10, <1>11, <1>12,
     <1>13, <1>14, <1>15 DEF Next, Operator, Installer, Continue

LEMMA TypeInvInit == Init => TypeInv
BY ConstantsAssumption
   DEF Init, TypeInv, TypeOK, CallsMatchPc, File, Whole, Result, Ended

LEMMA TypeInvHolds == Spec => []TypeInv
BY TypeInvInit, TypeInvStep, PTL DEF Spec

(* Rows, history, archive files and calls keep their types; in particular  *)
(* no status but those of stageToStatus and the operators enters a row.    *)
THEOREM TypeCorrect == Spec => []TypeOK
<1>1. TypeInv => TypeOK
  BY DEF TypeInv
<1> QED BY TypeInvHolds, <1>1, PTL
-----------------------------------------------------------------------------
(* Task ids. IdsAreNeverReused speaks of rows, ended tasks and history     *)
(* rows; it is inductive once every id in use is known to lie below nextId *)
(* and every id a call or a history row carries to belong to a task of its *)
(* machine that is open or ended.                                          *)

Tracked(i, s) ==
    \/ HasRow(s) /\ tasks[s].id = i
    \/ \E c \in closed : c.id = i /\ c.sn = s

IdsBelow == \A s \in SNs, i \in TaskIds : Tracked(i, s) => i < nextId

OneOwner == \A i \in TaskIds, s, t \in SNs : Tracked(i, s) /\ Tracked(i, t) => s = t

EndsOnce ==
    /\ \A c \in closed : HasRow(c.sn) => tasks[c.sn].id # c.id
    /\ \A c, d \in closed : c.id = d.id => c = d

HistoryTracked == \A r \in results : r.tid # 0 => Tracked(r.tid, r.sn)

CallsTracked ==
    \A h \in Handlers :
        call[h] # Idle /\ call[h].tid # 0 => Tracked(call[h].tid, call[h].sn)

IdInv == IdsBelow /\ OneOwner /\ EndsOnce /\ HistoryTracked /\ CallsTracked

(* A step that touches neither rows nor ended tasks.                       *)
LEMMA SameTracked ==
    ASSUME UNCHANGED <<tasks, closed>>
    PROVE  \A i, s : Tracked(i, s)' <=> Tracked(i, s)
BY DEF Tracked, HasRow

(* A row that ends is tracked as an ended task from then on, and nothing   *)
(* else changes.                                                           *)
LEMMA EndTaskTracks ==
    ASSUME TypeOK, NEW s \in SNs, HasRow(s), NEW how, EndTask(s, how)
    PROVE  /\ \A i \in TaskIds, t \in SNs : Tracked(i, t)' <=> Tracked(i, t)
           /\ EndsOnce /\ OneOwner => EndsOnce'
<1>1. tasks \in [SNs -> Task \cup {NoTask}] /\ closed \subseteq Ended
  BY DEF TypeOK
<1>2. /\ tasks' = [tasks EXCEPT ![s] = NoTask]
      /\ closed' = closed \cup {[id |-> tasks[s].id, sn |-> s, how |-> how]}
  BY DEF EndTask
<1>3. tasks[s] \in Task /\ tasks[s].id \in TaskIds
  BY RowIsTask DEF Task
<1>4. ASSUME NEW i \in TaskIds, NEW t \in SNs PROVE Tracked(i, t)' <=> Tracked(i, t)
  <2>1. CASE t = s
    <3> DEFINE e == [id |-> tasks[s].id, sn |-> s, how |-> how]
    <3>1. tasks'[s] = NoTask
      BY <1>1, <1>2
    <3>2. (\E c \in closed' : c.id = i /\ c.sn = s)
             <=> (\E c \in closed : c.id = i /\ c.sn = s) \/ (e.id = i /\ e.sn = s)
      BY <1>2
    <3> QED BY <2>1, <3>1, <3>2 DEF Tracked, HasRow
  <2>2. CASE t # s
    BY <1>1, <1>2, <2>2 DEF Tracked, HasRow
  <2> QED BY <2>1, <2>2
<1>5. ASSUME EndsOnce, OneOwner PROVE EndsOnce'
  <2> DEFINE e == [id |-> tasks[s].id, sn |-> s, how |-> how]
  <2>1. \A c \in closed : c.id # e.id
    <3> SUFFICES ASSUME NEW c \in closed, c.id = e.id PROVE FALSE
      OBVIOUS
    <3>1. c.sn \in SNs /\ c.id \in TaskIds
      BY <1>1 DEF Ended
    <3>2. Tracked(c.id, c.sn) /\ Tracked(c.id, s)
      BY <1>3 DEF Tracked
    <3>3. c.sn = s
      BY <1>5, <3>1, <3>2 DEF OneOwner
    <3> QED BY <1>5, <3>3 DEF EndsOnce
  <2>2. \A c, d \in closed' : c.id = d.id => c = d
    BY <1>2, <1>5, <2>1 DEF EndsOnce
  <2>3. \A c \in closed' : (HasRow(c.sn))' => tasks'[c.sn].id # c.id
    <3> SUFFICES ASSUME NEW c \in closed', (HasRow(c.sn))' PROVE tasks'[c.sn].id # c.id
      OBVIOUS
    <3>1. CASE c = e
      BY <1>1, <1>2, <3>1 DEF HasRow
    <3>2. CASE c \in closed
      <4>1. c.sn \in SNs
        BY <1>1, <3>2 DEF Ended
      <4>2. c.sn # s
        BY <1>1, <1>2 DEF HasRow
      <4>3. tasks'[c.sn] = tasks[c.sn]
        BY <1>1, <1>2, <4>1, <4>2
      <4> QED BY <1>5, <3>2, <4>3 DEF EndsOnce, HasRow
    <3> QED BY <1>2, <3>1, <3>2
  <2> QED BY <2>2, <2>3 DEF EndsOnce
<1> QED BY <1>4, <1>5

(* What carries over from the old state to the new one when the tracked    *)
(* ids are the same and history and calls carry no new id.                 *)
LEMMA TrackedCarriesOver ==
    ASSUME TypeOK, IdInv, nextId' = nextId,
           \A i \in TaskIds, t \in SNs : Tracked(i, t)' <=> Tracked(i, t)
    PROVE  IdsBelow' /\ OneOwner'
BY DEF IdInv, IdsBelow, OneOwner

LEMMA HistoryCarriesOver ==
    ASSUME TypeOK, TypeOK', HistoryTracked,
           \A i \in TaskIds, t \in SNs : Tracked(i, t) => Tracked(i, t)',
           \A r \in results' : r \in results \/ r.tid = 0
    PROVE  HistoryTracked'
<1> SUFFICES ASSUME NEW r \in results', r.tid # 0 PROVE Tracked(r.tid, r.sn)'
  BY DEF HistoryTracked
<1>1. r \in results /\ r.tid \in TaskIds /\ r.sn \in SNs
  BY DEF TypeOK, Result
<1> QED BY <1>1 DEF HistoryTracked

LEMMA CallsCarryOver ==
    ASSUME TypeOK, TypeOK', CallsTracked,
           \A i \in TaskIds, t \in SNs : Tracked(i, t) => Tracked(i, t)',
           \A h \in Handlers : call'[h] # Idle =>
               \/ call'[h].tid = 0
               \/ call[h] # Idle /\ call'[h].tid = call[h].tid /\ call'[h].sn = call[h].sn
    PROVE  CallsTracked'
<1> SUFFICES ASSUME NEW h \in Handlers, call'[h] # Idle, call'[h].tid # 0
             PROVE  Tracked(call[h].tid, call[h].sn)'
  BY DEF CallsTracked
<1>1. call[h] # Idle /\ call'[h].tid = call[h].tid /\ call'[h].sn = call[h].sn
  OBVIOUS
<1>2. call[h].tid \in TaskIds /\ call[h].sn \in SNs
  BY <1>1 DEF TypeOK, Call
<1>3. Tracked(call[h].tid, call[h].sn)
  BY <1>1 DEF CallsTracked
<1> DEFINE i == call[h].tid
           s == call[h].sn
<1>4. i \in TaskIds /\ s \in SNs /\ Tracked(i, s)
  BY <1>2, <1>3
<1>5. call'[h].tid = i /\ call'[h].sn = s
  BY <1>1
<1> QED BY <1>4, <1>5 DEF Tracked, HasRow

(* An update of a status keeps the rows and their ids.                     *)
LEMMA StatusUpdateKeepsIds ==
    ASSUME TypeOK, NEW s \in SNs, HasRow(s), NEW v \in Statuses,
           tasks' = [tasks EXCEPT ![s].status = v], closed' = closed
    PROVE  /\ \A i \in TaskIds, t \in SNs : Tracked(i, t)' <=> Tracked(i, t)
           /\ EndsOnce => EndsOnce'
<1>1. tasks \in [SNs -> Task \cup {NoTask}] /\ tasks[s] \in Task /\ closed \subseteq Ended
  BY RowIsTask DEF TypeOK
<1>2. tasks'[s] \in Task /\ tasks'[s].id = tasks[s].id
  BY <1>1 DEF Task
<1>3. \A t \in SNs : t # s => tasks'[t] = tasks[t]
  BY <1>1
<1>4. \A t \in SNs : (HasRow(t)' <=> HasRow(t)) /\ (HasRow(t) => tasks'[t].id = tasks[t].id)
  BY <1>2, <1>3, ConstantsAssumption DEF HasRow
<1>5. \A c \in closed : c.sn \in SNs
  BY <1>1 DEF Ended
<1> QED BY <1>4, <1>5 DEF Tracked, EndsOnce

(* New rows, under ids from nextId on, one for each machine of S, for      *)
(* CreateTask (S has one machine and it has no row) and BatchCreateTasks.  *)
LEMMA NewRowsTracked ==
    ASSUME TypeOK, IdsBelow, OneOwner, EndsOnce, nextId' \in Nat, nextId <= nextId',
           NEW S \in SUBSET SNs, NEW new \in [S -> TaskIds],
           \A s \in S : nextId <= new[s] /\ new[s] < nextId',
           \A s, t \in S : new[s] = new[t] => s = t,
           \A s \in SNs : IF s \in S THEN HasRow(s)' /\ tasks'[s].id = new[s]
                                    ELSE tasks'[s] = tasks[s],
           closed' = closed \cup {[id |-> tasks[s].id, sn |-> s, how |-> "replaced"] :
                                      s \in {t \in S : HasRow(t)}}
    PROVE  /\ \A i \in TaskIds, t \in SNs : Tracked(i, t) => Tracked(i, t)'
           /\ IdsBelow' /\ OneOwner' /\ EndsOnce'
<1>1. closed \subseteq Ended /\ nextId \in 1 .. MaxId + 1 /\ MaxId \in Nat
  BY ConstantsAssumption DEF TypeOK
<1>2. \A s \in SNs : HasRow(s) => tasks[s].id \in TaskIds
  BY RowIsTask DEF Task
<1>3. \A c \in closed : c.sn \in SNs /\ c.id \in TaskIds
  BY <1>1 DEF Ended
<1>4. \A i \in TaskIds, t \in SNs : Tracked(i, t)' <=> Tracked(i, t) \/ (t \in S /\ new[t] = i)
  <2> SUFFICES ASSUME NEW i \in TaskIds, NEW t \in SNs
               PROVE  Tracked(i, t)' <=> Tracked(i, t) \/ (t \in S /\ new[t] = i)
    OBVIOUS
  <2>1. CASE t \notin S
    <3>1. HasRow(t)' <=> HasRow(t)
      BY <2>1 DEF HasRow
    <3>2. (\E c \in closed' : c.id = i /\ c.sn = t) <=> (\E c \in closed : c.id = i /\ c.sn = t)
      BY <2>1
    <3> QED BY <2>1, <3>1, <3>2 DEF Tracked
  <2>2. CASE t \in S
    <3> DEFINE E == {[id |-> tasks[s].id, sn |-> s, how |-> "replaced"] :
                        s \in {x \in S : HasRow(x)}}
    <3>1. (\E c \in E : c.id = i /\ c.sn = t) <=> HasRow(t) /\ tasks[t].id = i
      <4>1. ASSUME NEW c \in E, c.id = i, c.sn = t PROVE HasRow(t) /\ tasks[t].id = i
        BY <4>1
      <4>2. ASSUME HasRow(t), tasks[t].id = i PROVE \E c \in E : c.id = i /\ c.sn = t
        <5> DEFINE e == [id |-> tasks[t].id, sn |-> t, how |-> "replaced"]
        <5>1. e \in E
          BY <2>2, <4>2
        <5>2. e.id = i /\ e.sn = t
          BY <4>2
        <5> QED BY <5>1, <5>2
      <4> QED BY <4>1, <4>2
    <3>2. (\E c \in closed' : c.id = i /\ c.sn = t)
             <=> (\E c \in closed : c.id = i /\ c.sn = t) \/ (\E c \in E : c.id = i /\ c.sn = t)
      OBVIOUS
    <3>3. Tracked(i, t)' <=> (HasRow(t)' /\ tasks'[t].id = i)
                               \/ (\E c \in closed' : c.id = i /\ c.sn = t)
      BY DEF Tracked
    <3>4. HasRow(t)' /\ tasks'[t].id = new[t]
      BY <2>2
    <3> HIDE DEF E
    <3> QED BY <2>2, <3>1, <3>2, <3>3, <3>4 DEF Tracked
  <2> QED BY <2>1, <2>2
<1>5. IdsBelow'
  BY <1>1, <1>4 DEF IdsBelow, TaskIds
<1>6. \A i \in TaskIds, s \in SNs, t \in S : Tracked(i, s) => i # new[t]
  BY <1>1 DEF IdsBelow, TaskIds
<1>7. OneOwner'
  <2> SUFFICES ASSUME NEW i \in TaskIds, NEW s \in SNs, NEW t \in SNs,
                      Tracked(i, s)', Tracked(i, t)'
               PROVE  s = t
    BY DEF OneOwner
  <2>1. /\ Tracked(i, s) \/ (s \in S /\ new[s] = i)
        /\ Tracked(i, t) \/ (t \in S /\ new[t] = i)
    BY <1>4
  <2> QED BY <1>6, <2>1 DEF OneOwner
<1>8. \A s \in S, c \in closed : HasRow(s) => c.id # tasks[s].id
  <2> SUFFICES ASSUME NEW s \in S, NEW c \in closed, HasRow(s), c.id = tasks[s].id
               PROVE  FALSE
    OBVIOUS
  <2>1. Tracked(c.id, s) /\ Tracked(c.id, c.sn) /\ c.id \in TaskIds /\ c.sn \in SNs
    BY <1>3 DEF Tracked
  <2>2. c.sn = s
    BY <2>1 DEF OneOwner
  <2> QED BY <2>2 DEF EndsOnce
<1>9. \A s, t \in S : HasRow(s) /\ HasRow(t) /\ tasks[s].id = tasks[t].id => s = t
  BY <1>2 DEF OneOwner, Tracked
<1>10. \A c, d \in closed' : c.id = d.id => c = d
  <2> SUFFICES ASSUME NEW c \in closed', NEW d \in closed', c.id = d.id PROVE c = d
    OBVIOUS
  <2> DEFINE E == {[id |-> tasks[s].id, sn |-> s, how |-> "replaced"] :
                      s \in {t \in S : HasRow(t)}}
  <2>1. CASE c \in closed /\ d \in closed
    BY <2>1 DEF EndsOnce
  <2>2. CASE c \in E /\ d \in closed
    BY <1>8, <2>2
  <2>3. CASE c \in closed /\ d \in E
    BY <1>8, <2>3
  <2>4. CASE c \in E /\ d \in E
    BY <1>9, <2>4
  <2> QED BY <2>1, <2>2, <2>3, <2>4
<1>11. \A c \in closed' : c.sn \in SNs /\ c.id \in TaskIds /\ Tracked(c.id, c.sn)
  BY <1>2, <1>3 DEF Tracked
<1>12. \A c \in closed' : (HasRow(c.sn))' => tasks'[c.sn].id # c.id
  <2> SUFFICES ASSUME NEW c \in closed', (HasRow(c.sn))' PROVE tasks'[c.sn].id # c.id
    OBVIOUS
  <2>1. CASE c.sn \in S
    BY <1>6, <1>11, <2>1
  <2>2. CASE c.sn \notin S
    <3>1. c \in closed /\ tasks'[c.sn] = tasks[c.sn]
      BY <1>11, <2>2
    <3> QED BY <3>1 DEF EndsOnce, HasRow
  <2> QED BY <2>1, <2>2
<1>13. EndsOnce'
  BY <1>10, <1>12 DEF EndsOnce
<1> QED BY <1>4, <1>5, <1>7, <1>13

LEMMA IdInvInit == Init => IdInv
BY DEF Init, IdInv, IdsBelow, OneOwner, EndsOnce, HistoryTracked, CallsTracked,
       Tracked, HasRow

LEMMA IdInvStep == TypeInv /\ TypeInv' /\ IdInv /\ [Next]_vars => IdInv'
<1> SUFFICES ASSUME TypeInv, TypeInv', IdInv, [Next]_vars PROVE IdInv'
  OBVIOUS
<1> USE ConstantsAssumption
<1>a. TypeOK /\ TypeOK'
  BY DEF TypeInv
<1>b. ASSUME NEW pc \in {"read", "truncate", "write", "remove"}, NEW h \in Handlers,
             At(h, pc)
      PROVE  call[h] \in Call
  BY <1>a, <1>b, CallIsCall DEF At
(* The steps that leave rows, ids and history as they are, and at most     *)
(* move a call on or end it.                                               *)
<1>c. ASSUME UNCHANGED <<tasks, nextId, closed>>,
             \A r \in results' : r \in results \/ r.tid = 0,
             \A h \in Handlers : call'[h] # Idle =>
               \/ call'[h].tid = 0
               \/ call[h] # Idle /\ call'[h].tid = call[h].tid /\ call'[h].sn = call[h].sn
      PROVE  IdInv'
  <2>1. \A i \in TaskIds, s \in SNs : Tracked(i, s)' <=> Tracked(i, s)
    BY <1>c, SameTracked
  <2>2. IdsBelow' /\ OneOwner'
    BY <1>a, <1>c, <2>1, TrackedCarriesOver
  <2>3. EndsOnce'
    BY <1>c DEF IdInv, EndsOnce, HasRow
  <2>4. HistoryTracked'
    BY <1>a, <1>c, <2>1, HistoryCarriesOver DEF IdInv
  <2>5. CallsTracked'
    BY <1>a, <1>c, <2>1, CallsCarryOver DEF IdInv
  <2> QED BY <2>2, <2>3, <2>4, <2>5 DEF IdInv
(* The steps that change rows or ended tasks, but no history.              *)
<1>d. ASSUME \A i \in TaskIds, s \in SNs : Tracked(i, s) => Tracked(i, s)',
             IdsBelow', OneOwner', EndsOnce', UNCHANGED results,
             \A h \in Handlers : call'[h] # Idle => call'[h] = call[h]
      PROVE  IdInv'
  <2>1. HistoryTracked'
    BY <1>a, <1>d, HistoryCarriesOver DEF IdInv
  <2>2. CallsTracked'
    BY <1>a, <1>d, CallsCarryOver DEF IdInv
  <2> QED BY <1>d, <2>1, <2>2 DEF IdInv
<1>1. ASSUME NEW s \in SNs, CreateTask(s) PROVE IdInv'
  <2> DEFINE new == [t \in {s} |-> nextId]
  <2>1. nextId \in TaskIds /\ nextId' = nextId + 1 /\ nextId' \in Nat
    BY <1>a, <1>1 DEF CreateTask, TypeOK, TaskIds
  <2>2. [id |-> nextId, status |-> "pending"] \in Task
    BY <2>1 DEF Task, Statuses
  <2>3. tasks'[s] = [id |-> nextId, status |-> "pending"]
    BY <1>a, <1>1 DEF CreateTask, TypeOK
  <2>4. \A t \in SNs : IF t \in {s} THEN HasRow(t)' /\ tasks'[t].id = new[t]
                                    ELSE tasks'[t] = tasks[t]
    BY <1>a, <1>1, <2>2, <2>3 DEF CreateTask, TypeOK, HasRow
  <2>5. {[id |-> tasks[x].id, sn |-> x, how |-> "replaced"] :
            x \in {t \in {s} : HasRow(t)}} = {}
    BY <1>1 DEF CreateTask
  <2>6. closed' = closed \cup {[id |-> tasks[x].id, sn |-> x, how |-> "replaced"] :
                                   x \in {t \in {s} : HasRow(t)}}
    BY <1>1, <2>5 DEF CreateTask
  <2>7. /\ nextId <= nextId' /\ {s} \in SUBSET SNs
        /\ \A t \in {s} : nextId <= new[t] /\ new[t] < nextId'
        /\ \A t, u \in {s} : new[t] = new[u] => t = u
        /\ new \in [{s} -> TaskIds]
    BY <2>1 DEF TaskIds
  <2> HIDE DEF new
  <2>8. /\ \A i \in TaskIds, t \in SNs : Tracked(i, t) => Tracked(i, t)'
        /\ IdsBelow' /\ OneOwner' /\ EndsOnce'
    BY <1>a, <2>1, <2>4, <2>6, <2>7, NewRowsTracked DEF IdInv
  <2> QED BY <1>1, <1>d, <2>8 DEF CreateTask
<1>2. ASSUME NEW s \in SNs, DeleteTask(s) PROVE IdInv'
  <2>1. /\ \A i \in TaskIds, t \in SNs : Tracked(i, t)' <=> Tracked(i, t)
        /\ EndsOnce'
    BY <1>a, <1>2, EndTaskTracks DEF DeleteTask, IdInv
  <2>2. IdsBelow' /\ OneOwner'
    BY <1>a, <1>2, <2>1, TrackedCarriesOver DEF DeleteTask
  <2> QED BY <1>2, <1>d, <2>1, <2>2 DEF DeleteTask
<1>3. ASSUME NEW s \in SNs, NEW v \in OperatorStatuses, UpdateTask(s, v) PROVE IdInv'
  <2>1. /\ \A i \in TaskIds, t \in SNs : Tracked(i, t)' <=> Tracked(i, t)
        /\ EndsOnce'
    BY <1>a, <1>3, StatusUpdateKeepsIds DEF UpdateTask, Statuses, IdInv
  <2>2. IdsBelow' /\ OneOwner'
    BY <1>a, <1>3, <2>1, TrackedCarriesOver DEF UpdateTask
  <2> QED BY <1>3, <1>d, <2>1, <2>2 DEF UpdateTask
<1>4. ASSUME NEW S \in (SUBSET SNs) \ {{}}, NEW n \in 1 .. MaxBatch, BatchCreateTasks(S, n)
      PROVE IdInv'
  <2>1. PICK at \in [S -> 0 .. n - 1] :
           /\ \A s, t \in S : s # t => at[s] # at[t]
           /\ tasks' = [s \in SNs |->
                          IF s \in S THEN [id |-> nextId + at[s], status |-> "pending"]
                                     ELSE tasks[s]]
    BY <1>4 DEF BatchCreateTasks
  <2> DEFINE new == [s \in S |-> nextId + at[s]]
  <2>2. nextId \in Nat /\ nextId >= 1 /\ nextId + n - 1 <= MaxId /\ nextId' = nextId + n
    BY <1>a, <1>4 DEF BatchCreateTasks, TypeOK
  <2>3. \A s \in S : at[s] \in Nat /\ at[s] < n
    BY <2>1
  <2>4. /\ new \in [S -> TaskIds]
        /\ \A s \in S : nextId <= new[s] /\ new[s] < nextId'
        /\ \A s, t \in S : new[s] = new[t] => s = t
    BY <2>1, <2>2, <2>3 DEF TaskIds
  <2>5. \A s \in S : [id |-> nextId + at[s], status |-> "pending"] \in Task
    BY <2>4 DEF Task, Statuses
  <2>6. \A s \in SNs : IF s \in S THEN HasRow(s)' /\ tasks'[s].id = new[s]
                                  ELSE tasks'[s] = tasks[s]
    BY <2>1, <2>5 DEF HasRow
  <2>7. nextId' \in Nat /\ nextId <= nextId' /\ S \in SUBSET SNs
    BY <2>2
  <2>8. closed' = closed \cup {[id |-> tasks[s].id, sn |-> s, how |-> "replaced"] :
                                  s \in {t \in S : HasRow(t)}}
    BY <1>4 DEF BatchCreateTasks
  <2> HIDE DEF new
  <2>9. /\ \A i \in TaskIds, t \in SNs : Tracked(i, t) => Tracked(i, t)'
        /\ IdsBelow' /\ OneOwner' /\ EndsOnce'
    BY <1>a, <2>4, <2>6, <2>7, <2>8, NewRowsTracked DEF IdInv
  <2> QED BY <1>4, <1>d, <2>9 DEF BatchCreateTasks
<1>5. ASSUME NEW h \in Handlers, NEW s \in SNs, FindTask(h, s) PROVE IdInv'
  <2> DEFINE i == IF HasRow(s) THEN tasks[s].id ELSE 0
  <2>1. UNCHANGED <<tasks, closed, results, nextId>>
    BY <1>5 DEF FindTask
  <2>2. call' = [call EXCEPT ![h] = NewCall("save", s, "installed", i)]
    BY <1>5 DEF FindTask, Begin
  <2>3. \A j \in TaskIds, t \in SNs : Tracked(j, t)' <=> Tracked(j, t)
    BY <2>1, SameTracked
  <2>4. IdsBelow' /\ OneOwner' /\ EndsOnce' /\ HistoryTracked'
    BY <1>a, <2>1, <2>3, TrackedCarriesOver, HistoryCarriesOver DEF IdInv, EndsOnce, HasRow
  <2>5. i # 0 => Tracked(i, s)
    BY DEF Tracked
  <2>6. ASSUME NEW g \in Handlers, call'[g] # Idle, call'[g].tid # 0
        PROVE  Tracked(call[g].tid, call[g].sn)'
    <3>1. CASE g = h
      <4>1. call'[g].tid = i /\ call'[g].sn = s
        BY <1>a, <2>2, <3>1 DEF TypeOK, NewCall
      <4> HIDE DEF i
      <4> QED BY <2>1, <2>5, <2>6, <4>1 DEF Tracked, HasRow
    <3>2. CASE g # h
      <4>1. call'[g] = call[g]
        BY <1>a, <2>2, <3>2 DEF TypeOK
      <4>2. Tracked(call[g].tid, call[g].sn)
        BY <2>6, <4>1 DEF IdInv, CallsTracked
      <4> QED BY <2>1, <4>1, <4>2 DEF Tracked, HasRow
    <3> QED BY <3>1, <3>2
  <2>7. CallsTracked'
    BY <2>6 DEF CallsTracked
  <2> QED BY <2>4, <2>7 DEF IdInv
<1>6. ASSUME NEW h \in Handlers, NEW s \in SNs, NEW g \in Stages, SaveEvent(h, s, g)
      PROVE IdInv'
  <2>1. \A r \in results' : r \in results \/ r.tid = 0
    BY <1>6 DEF SaveEvent, Saved, ResultRow
  <2>2. \A x \in Handlers : call'[x] = call[x] \/ call'[x].tid = 0
    BY <1>a, <1>6 DEF SaveEvent, Begin, NewCall, TypeOK
  <2> QED BY <1>6, <1>c, <2>1, <2>2 DEF SaveEvent
<1>7. ASSUME NEW h \in Handlers, NEW s \in SNs, NEW k \in Reports, SaveReport(h, s, k)
      PROVE IdInv'
  <2>1. \A r \in results' : r \in results \/ r.tid = 0
    BY <1>7 DEF SaveReport, Saved, ResultRow
  <2>2. \A x \in Handlers : call'[x] = call[x] \/ call'[x].tid = 0
    BY <1>a, <1>7 DEF SaveReport, Begin, NewCall, TypeOK
  <2> QED BY <1>7, <1>c, <2>1, <2>2 DEF SaveReport
<1>8. ASSUME NEW h \in Handlers, UpdateStatus(h) PROVE IdInv'
  <2> DEFINE s == call[h].sn
             v == StageToStatus(call[h].kind)
  <2>1. s \in SNs /\ v \in Statuses
    BY <1>8, CallIsCall, StatusOfMappedStage
       DEF UpdateStatus, At, TypeInv, CallsMatchPc, Call, Statuses
  <2>2. UNCHANGED <<closed, results, nextId>>
        /\ \A x \in Handlers : call'[x] # Idle => call'[x] = call[x]
    BY <1>a, <1>8 DEF UpdateStatus, Return, TypeOK
  <2>3. \/ HasRow(s) /\ tasks' = [tasks EXCEPT ![s].status = v]
        \/ tasks' = tasks
    BY <1>8 DEF UpdateStatus
  <2> HIDE DEF s, v
  <2>4. /\ \A i \in TaskIds, t \in SNs : Tracked(i, t)' <=> Tracked(i, t)
        /\ EndsOnce'
    <3>1. CASE HasRow(s) /\ tasks' = [tasks EXCEPT ![s].status = v]
      BY <1>a, <2>1, <2>2, <3>1, StatusUpdateKeepsIds DEF IdInv
    <3>2. CASE tasks' = tasks
      BY <2>2, <3>2, SameTracked DEF IdInv, EndsOnce, HasRow
    <3> QED BY <2>3, <3>1, <3>2
  <2>5. IdsBelow' /\ OneOwner'
    BY <1>a, <2>2, <2>4, TrackedCarriesOver
  <2> QED BY <1>d, <2>2, <2>4, <2>5
<1>9. ASSUME NEW h \in Handlers, SaveInstalled(h) PROVE IdInv'
  <2> DEFINE row == ResultRow(call[h].sn, "installed", call[h].tid)
  <2>1. UNCHANGED <<tasks, closed, nextId>>
    BY <1>9 DEF SaveInstalled
  <2>2. call[h] \in Call
    BY <1>9, <1>a, CallIsCall DEF SaveInstalled, At
  <2>3. \A r \in results' : r \in results \/ r = row
    BY <1>9 DEF SaveInstalled, Saved
  <2>4. \A j \in TaskIds, t \in SNs : Tracked(j, t)' <=> Tracked(j, t)
    BY <2>1, SameTracked
  <2>5. IdsBelow' /\ OneOwner' /\ EndsOnce'
    BY <1>a, <2>1, <2>4, TrackedCarriesOver DEF IdInv, EndsOnce, HasRow
  <2>6. row.tid = call[h].tid /\ row.sn = call[h].sn
    BY DEF ResultRow
  <2>7. ASSUME NEW r \in results', r.tid # 0 PROVE Tracked(r.tid, r.sn)'
    <3>1. Tracked(r.tid, r.sn)
      <4>1. CASE r \in results
        BY <2>7, <4>1 DEF IdInv, HistoryTracked
      <4>2. CASE r = row
        BY <1>9, <2>6, <2>7, <4>2 DEF IdInv, CallsTracked, SaveInstalled, At
      <4> QED BY <2>3, <4>1, <4>2
    <3> QED BY <2>1, <3>1 DEF Tracked, HasRow
  <2>8. HistoryTracked'
    BY <2>7 DEF HistoryTracked
  <2>9. \A g \in Handlers : call'[g] # Idle =>
           call[g] # Idle /\ call'[g].tid = call[g].tid /\ call'[g].sn = call[g].sn
    BY <1>9, <1>a, <2>2 DEF SaveInstalled, Goto, At, TypeOK, Call
  <2>10. CallsTracked'
    BY <1>a, <2>4, <2>9, CallsCarryOver DEF IdInv
  <2> QED BY <2>5, <2>8, <2>10 DEF IdInv
<1>10. ASSUME NEW h \in Handlers, ReadArchive(h) PROVE IdInv'
  <2>1. \A g \in Handlers : call'[g] # Idle =>
           call[g] # Idle /\ call'[g].tid = call[g].tid /\ call'[g].sn = call[g].sn
    BY <1>10, <1>a, <1>b DEF ReadArchive, At, TypeOK, Call
  <2> QED BY <1>10, <1>c, <2>1 DEF ReadArchive
<1>11. ASSUME NEW h \in Handlers, TruncateArchive(h) PROVE IdInv'
  <2>1. \A g \in Handlers : call'[g] # Idle =>
           call[g] # Idle /\ call'[g].tid = call[g].tid /\ call'[g].sn = call[g].sn
    BY <1>11, <1>a, <1>b DEF TruncateArchive, Goto, At, TypeOK, Call
  <2> QED BY <1>11, <1>c, <2>1 DEF TruncateArchive
<1>12. ASSUME NEW h \in Handlers, WriteArchive(h) PROVE IdInv'
  <2>1. \A g \in Handlers : call'[g] # Idle =>
           call[g] # Idle /\ call'[g].tid = call[g].tid /\ call'[g].sn = call[g].sn
    BY <1>12, <1>a, <1>b DEF WriteArchive, Goto, Return, At, TypeOK, Call
  <2> QED BY <1>12, <1>c, <2>1 DEF WriteArchive
<1>13. ASSUME NEW h \in Handlers, RemoveTaskBySN(h) PROVE IdInv'
  <2> DEFINE s == call[h].sn
  <2>1. s \in SNs
    BY <1>13, <1>a, CallIsCall DEF RemoveTaskBySN, At, Call
  <2>2. UNCHANGED <<results, nextId>>
        /\ \A x \in Handlers : call'[x] # Idle => call'[x] = call[x]
    BY <1>a, <1>13 DEF RemoveTaskBySN, Return, TypeOK
  <2>3. (HasRow(s) /\ EndTask(s, "completed")) \/ UNCHANGED <<tasks, closed>>
    BY <1>13 DEF RemoveTaskBySN
  <2> HIDE DEF s
  <2>4. /\ \A i \in TaskIds, t \in SNs : Tracked(i, t)' <=> Tracked(i, t)
        /\ EndsOnce'
    <3>1. CASE HasRow(s) /\ EndTask(s, "completed")
      BY <1>a, <2>1, <3>1, EndTaskTracks DEF IdInv
    <3>2. CASE UNCHANGED <<tasks, closed>>
      BY <3>2, SameTracked DEF IdInv, EndsOnce, HasRow
    <3> QED BY <2>3, <3>1, <3>2
  <2>5. IdsBelow' /\ OneOwner'
    BY <1>a, <2>2, <2>4, TrackedCarriesOver
  <2> QED BY <1>d, <2>2, <2>4, <2>5
<1>14. ASSUME Crash PROVE IdInv'
  <2>1. \A h \in Handlers : call'[h] = Idle
    BY <1>14 DEF Crash
  <2> QED BY <1>14, <1>c, <2>1 DEF Crash
<1>15. ASSUME UNCHANGED vars PROVE IdInv'
  BY <1>15, <1>c DEF vars
<1> QED
  BY <1>1, <1>2, <1>3, <1>4, <1>5, <1>6, <1>7, <1>8, <1>9, <1>10, <1>11, <1>12,
     <1>13, <1>14, <1>15 DEF Next, Operator, Installer, Continue

LEMMA IdInvHolds == Spec => []IdInv
BY IdInvInit, IdInvStep, TypeInvHolds, PTL DEF Spec

LEMMA IdInvImplies == TypeInv /\ IdInv => IdsAreNeverReused
<1> SUFFICES ASSUME TypeInv, IdInv PROVE IdsAreNeverReused
  OBVIOUS
<1>1. ASSUME NEW i \in TaskIds, NEW s \in SNs, Names(i, s) PROVE Tracked(i, s)
  <2>1. ASSUME NEW r \in results, r.tid = i, r.sn = s PROVE Tracked(i, s)
    <3>1. r.tid # 0
      BY <2>1, ConstantsAssumption DEF TaskIds
    <3> QED BY <2>1, <3>1 DEF IdInv, HistoryTracked
  <2> QED BY <1>1, <2>1 DEF Names, Tracked
<1> QED BY <1>1 DEF IdInv, OneOwner, EndsOnce, IdsAreNeverReused

(* However handlers, pushes and crashes interleave, a task id names one    *)
(* task of one machine in the rows and in the history.                     *)
THEOREM IdsCorrect == Spec => []IdsAreNeverReused
BY TypeInvHolds, IdInvHolds, IdInvImplies, PTL
-----------------------------------------------------------------------------
(* The history, when no statement fails. What makes its properties         *)
(* inductive: a call past its first write has its row in the history, and  *)
(* the keys it read from an archive file are on record.                    *)

CallsRecorded ==
    \A h \in Handlers : call[h] # Idle =>
        /\ call[h].pc # "save" => OnRecord(call[h].sn, call[h].kind)
        /\ \A k \in call[h].seen : OnRecord(call[h].sn, k)

RecordInv ==
    CallsRecorded /\ ArchiveBackedByHistory /\ CompletedIsInHistory /\ StatusExplained

(* A statement that does not fail leaves its row in the history.           *)
LEMMA SavedIsOnRecord ==
    ASSUME ~ DbMayFail, NEW s, NEW k, NEW i, results' \in Saved(ResultRow(s, k, i))
    PROVE  \E r \in results' : r.sn = s /\ r.kind = k
<1>1. results' = results \cup {ResultRow(s, k, i)}
  BY Zenon DEF Saved
<1>2. ResultRow(s, k, i).sn = s /\ ResultRow(s, k, i).kind = k
  BY DEF ResultRow
<1> QED BY <1>1, <1>2

LEMMA HistoryGrows ==
    ASSUME [Next]_vars
    PROVE  results \subseteq results'
BY DEF Next, Operator, Installer, Continue, Crash, vars, Saved, CreateTask, DeleteTask,
       UpdateTask, BatchCreateTasks, SaveEvent, UpdateStatus, SaveReport, FindTask,
       SaveInstalled, ReadArchive, TruncateArchive, WriteArchive, RemoveTaskBySN

LEMMA RecordsStay ==
    ASSUME results \subseteq results'
    PROVE  \A s, k : OnRecord(s, k) => OnRecord(s, k)'
BY DEF OnRecord

LEMMA RecordInvInit == Init => RecordInv
BY DEF Init, RecordInv, CallsRecorded, ArchiveBackedByHistory, CompletedIsInHistory,
       StatusExplained, Whole, HasRow

(* Conjunct by conjunct, what a step must leave true.                      *)
LEMMA StatusStaysExplained ==
    ASSUME TypeInv, StatusExplained, results \subseteq results',
           \A s \in SNs : HasRow(s)' =>
               \/ HasRow(s) /\ tasks'[s].status = tasks[s].status
               \/ tasks'[s].status \in {"pending"} \cup OperatorStatuses
    PROVE  StatusExplained'
<1> SUFFICES ASSUME NEW s \in SNs, HasRow(s)'
             PROVE  \/ tasks'[s].status \in {"pending"} \cup OperatorStatuses
                    \/ \E g \in Stages \cap MappedStages :
                          OnRecord(s, g)' /\ StageToStatus(g) = tasks'[s].status
  BY DEF StatusExplained
<1>1. CASE tasks'[s].status \in {"pending"} \cup OperatorStatuses
  BY <1>1
<1>2. CASE HasRow(s) /\ tasks'[s].status = tasks[s].status
  BY <1>2, RecordsStay DEF StatusExplained
<1> QED BY <1>1, <1>2

LEMMA ArchiveStaysBacked ==
    ASSUME ArchiveBackedByHistory, results \subseteq results',
           \A s \in SNs : \A k \in archive'[s].keys :
               k \in archive[s].keys \/ OnRecord(s, k)'
    PROVE  ArchiveBackedByHistory'
BY RecordsStay DEF ArchiveBackedByHistory

LEMMA CompletedStaysInHistory ==
    ASSUME CompletedIsInHistory, results \subseteq results',
           \A c \in closed' : c \in closed \/ c.how # "completed"
                                \/ OnRecord(c.sn, "installed")'
    PROVE  CompletedIsInHistory'
BY RecordsStay DEF CompletedIsInHistory

LEMMA CallsStayRecorded ==
    ASSUME CallsRecorded, results \subseteq results',
           NEW h \in Handlers,
           \A g \in Handlers : g # h => call'[g] = call[g],
           call'[h] # Idle =>
               /\ call'[h].pc # "save" => OnRecord(call[h].sn, call[h].kind)'
               /\ \A k \in call'[h].seen : OnRecord(call[h].sn, k)'
    PROVE  CallsRecorded'
<1> SUFFICES ASSUME NEW g \in Handlers, call'[g] # Idle
             PROVE  /\ call'[g].pc # "save" => OnRecord(call[g].sn, call[g].kind)'
                    /\ \A k \in call'[g].seen : OnRecord(call[g].sn, k)'
  BY DEF CallsRecorded
<1>1. CASE g = h
  BY <1>1
<1>2. CASE g # h
  <2>1. call'[g] = call[g]
    BY <1>2
  <2>2. /\ call[g].pc # "save" => OnRecord(call[g].sn, call[g].kind)
        /\ \A k \in call[g].seen : OnRecord(call[g].sn, k)
    BY <2>1 DEF CallsRecorded
  <2> QED BY <2>1, <2>2 DEF OnRecord
<1> QED BY <1>1, <1>2

LEMMA CallsUnchangedStayRecorded ==
    ASSUME CallsRecorded, results \subseteq results',
           \A g \in Handlers : call'[g] = call[g] \/ call'[g] = Idle
    PROVE  CallsRecorded'
<1> SUFFICES ASSUME NEW g \in Handlers, call'[g] # Idle
             PROVE  /\ call'[g].pc # "save" => OnRecord(call[g].sn, call[g].kind)'
                    /\ \A k \in call'[g].seen : OnRecord(call[g].sn, k)'
  BY DEF CallsRecorded
<1>1. call'[g] = call[g]
  OBVIOUS
<1>2. /\ call[g].pc # "save" => OnRecord(call[g].sn, call[g].kind)
      /\ \A k \in call[g].seen : OnRecord(call[g].sn, k)
  BY <1>1 DEF CallsRecorded
<1> QED BY <1>1, <1>2 DEF OnRecord

LEMMA RecordInvStep ==
    ASSUME ~ DbMayFail
    PROVE  TypeInv /\ TypeInv' /\ RecordInv /\ [Next]_vars => RecordInv'
<1> SUFFICES ASSUME TypeInv, TypeInv', RecordInv, [Next]_vars PROVE RecordInv'
  OBVIOUS
<1> USE ConstantsAssumption
<1>a. /\ TypeOK /\ TypeOK' /\ CallsMatchPc
      /\ CallsRecorded /\ ArchiveBackedByHistory /\ CompletedIsInHistory /\ StatusExplained
  BY DEF TypeInv, RecordInv
<1>b. results \subseteq results'
  BY HistoryGrows
<1>c. UNCHANGED archive => ArchiveBackedByHistory'
  BY <1>a, <1>b, ArchiveStaysBacked
<1>d. UNCHANGED closed => CompletedIsInHistory'
  BY <1>a, <1>b, CompletedStaysInHistory
<1>e. UNCHANGED tasks => StatusExplained'
  <2> SUFFICES ASSUME UNCHANGED tasks PROVE StatusExplained'
    OBVIOUS
  <2>1. \A s \in SNs : HasRow(s)' => HasRow(s) /\ tasks'[s].status = tasks[s].status
    BY DEF HasRow
  <2> QED BY <1>b, <2>1, StatusStaysExplained DEF TypeInv, RecordInv
<1>f. UNCHANGED call => CallsRecorded'
  BY <1>a, <1>b, CallsUnchangedStayRecorded
<1>g. ASSUME NEW h \in Handlers, NEW c, call' = [call EXCEPT ![h] = c]
      PROVE  call'[h] = c /\ \A g \in Handlers : g # h => call'[g] = call[g]
  BY <1>a, <1>g DEF TypeOK
<1>h. ASSUME NEW h \in Handlers, Return(h) PROVE CallsRecorded'
  <2>1. \A g \in Handlers : call'[g] = call[g] \/ call'[g] = Idle
    BY <1>a, <1>h DEF Return, TypeOK
  <2> QED BY <1>a, <1>b, <2>1, CallsUnchangedStayRecorded
(* A call that goes on to its next step keeps its records, once the one    *)
(* its new pc asks for is there.                                           *)
<1>i. ASSUME NEW h \in Handlers, NEW pc, call[h] \in Call, Goto(h, pc),
             OnRecord(call[h].sn, call[h].kind)'
      PROVE  CallsRecorded'
  <2>1. /\ call'[h].sn = call[h].sn /\ call'[h].kind = call[h].kind
        /\ call'[h].seen = call[h].seen
        /\ \A g \in Handlers : g # h => call'[g] = call[g]
    BY <1>a, <1>i DEF Goto, TypeOK, Call
  <2>2. \A k \in call[h].seen : OnRecord(call[h].sn, k)
    BY <1>a, <1>i DEF CallsRecorded
  <2>3. \A k \in call'[h].seen : OnRecord(call[h].sn, k)'
    BY <1>b, <2>1, <2>2 DEF OnRecord
  <2> QED BY <1>a, <1>b, <1>i, <2>1, <2>3, CallsStayRecorded
<1>1. ASSUME NEW s \in SNs, CreateTask(s) PROVE RecordInv'
  <2>1. \A t \in SNs : HasRow(t)' =>
           \/ HasRow(t) /\ tasks'[t].status = tasks[t].status
           \/ tasks'[t].status \in {"pending"} \cup OperatorStatuses
    BY <1>1, <1>a DEF CreateTask, TypeOK, HasRow
  <2>2. StatusExplained'
    BY <1>b, <2>1, StatusStaysExplained DEF RecordInv
  <2> QED BY <1>1, <1>c, <1>d, <1>f, <2>2 DEF CreateTask, RecordInv
<1>2. ASSUME NEW s \in SNs, DeleteTask(s) PROVE RecordInv'
  <2>1. \A t \in SNs : HasRow(t)' => HasRow(t) /\ tasks'[t].status = tasks[t].status
    BY <1>2, <1>a DEF DeleteTask, EndTask, TypeOK, HasRow
  <2>2. StatusExplained'
    BY <1>b, <2>1, StatusStaysExplained DEF RecordInv
  <2>3. \A c \in closed' : c \in closed \/ c.how # "completed"
    BY <1>2 DEF DeleteTask, EndTask
  <2>4. CompletedIsInHistory'
    BY <1>a, <1>b, <2>3, CompletedStaysInHistory
  <2> QED BY <1>2, <1>c, <1>f, <2>2, <2>4 DEF DeleteTask, RecordInv
<1>3. ASSUME NEW s \in SNs, NEW v \in OperatorStatuses, UpdateTask(s, v) PROVE RecordInv'
  <2>1. tasks[s] \in Task
    BY <1>3, <1>a, RowIsTask DEF UpdateTask
  <2>2. tasks'[s].status = v /\ \A t \in SNs : t # s => tasks'[t] = tasks[t]
    BY <1>3, <1>a, <2>1 DEF UpdateTask, TypeOK, Task
  <2>3. \A t \in SNs : HasRow(t)' =>
           \/ HasRow(t) /\ tasks'[t].status = tasks[t].status
           \/ tasks'[t].status \in {"pending"} \cup OperatorStatuses
    BY <2>2 DEF HasRow
  <2>4. StatusExplained'
    BY <1>b, <2>3, StatusStaysExplained DEF RecordInv
  <2> QED BY <1>3, <1>c, <1>d, <1>f, <2>4 DEF UpdateTask, RecordInv
<1>4. ASSUME NEW S \in (SUBSET SNs) \ {{}}, NEW n \in 1 .. MaxBatch, BatchCreateTasks(S, n)
      PROVE RecordInv'
  <2>1. PICK at \in [S -> 0 .. n - 1] :
           tasks' = [s \in SNs |->
                       IF s \in S THEN [id |-> nextId + at[s], status |-> "pending"]
                                  ELSE tasks[s]]
    BY <1>4 DEF BatchCreateTasks
  <2>2. \A t \in SNs : HasRow(t)' =>
           \/ HasRow(t) /\ tasks'[t].status = tasks[t].status
           \/ tasks'[t].status \in {"pending"} \cup OperatorStatuses
    BY <2>1 DEF HasRow
  <2>3. StatusExplained'
    BY <1>b, <2>2, StatusStaysExplained DEF RecordInv
  <2>4. \A c \in closed' : c \in closed \/ c.how # "completed"
    BY <1>4 DEF BatchCreateTasks
  <2>5. CompletedIsInHistory'
    BY <1>a, <1>b, <2>4, CompletedStaysInHistory
  <2> QED BY <1>4, <1>c, <1>f, <2>3, <2>5 DEF BatchCreateTasks, RecordInv
<1>5. ASSUME NEW h \in Handlers, NEW s \in SNs, FindTask(h, s) PROVE RecordInv'
  <2> DEFINE c == NewCall("save", s, "installed", IF HasRow(s) THEN tasks[s].id ELSE 0)
  <2>1. call' = [call EXCEPT ![h] = c] /\ c.pc = "save" /\ c.seen = {}
    BY <1>5 DEF FindTask, Begin, NewCall
  <2> HIDE DEF c
  <2>2. CallsRecorded'
    BY <1>a, <1>b, <1>g, <2>1, CallsStayRecorded
  <2> QED BY <1>5, <1>c, <1>d, <1>e, <2>2 DEF FindTask, RecordInv
<1>6. ASSUME NEW h \in Handlers, NEW s \in SNs, NEW g \in Stages, SaveEvent(h, s, g)
      PROVE RecordInv'
  <2>1. CallsRecorded'
    <3>1. CASE g \in MappedStages
      <4> DEFINE c == NewCall("update", s, g, 0)
      <4>1. call' = [call EXCEPT ![h] = c] /\ c.sn = s /\ c.kind = g /\ c.seen = {}
        BY <1>6, <3>1 DEF SaveEvent, Begin, NewCall
      <4>2. OnRecord(s, g)'
        BY <1>6, SavedIsOnRecord DEF SaveEvent, OnRecord
      <4> HIDE DEF c
      <4>3. call'[h] = c /\ \A x \in Handlers : x # h => call'[x] = call[x]
        BY <1>g, <4>1
      <4>4. OnRecord(call[h].sn, call[h].kind)'
        BY <4>1, <4>2, <4>3 DEF OnRecord
      <4>5. \A k \in call'[h].seen : OnRecord(call[h].sn, k)'
        BY <4>1, <4>3
      <4> QED BY <1>a, <1>b, <4>3, <4>4, <4>5, CallsStayRecorded
    <3>2. CASE g \notin MappedStages
      BY <1>6, <1>f, <3>2 DEF SaveEvent
    <3> QED BY <3>1, <3>2
  <2> QED BY <1>6, <1>c, <1>d, <1>e, <2>1 DEF SaveEvent, RecordInv
<1>7. ASSUME NEW h \in Handlers, NEW s \in SNs, NEW k \in Reports, SaveReport(h, s, k)
      PROVE RecordInv'
  <2> DEFINE c == NewCall("read", s, k, 0)
  <2>1. call' = [call EXCEPT ![h] = c] /\ c.sn = s /\ c.kind = k /\ c.seen = {}
    BY <1>7 DEF SaveReport, Begin, NewCall
  <2>2. OnRecord(s, k)'
    BY <1>7, SavedIsOnRecord DEF SaveReport, OnRecord
  <2> HIDE DEF c
  <2>3. call'[h] = c /\ \A x \in Handlers : x # h => call'[x] = call[x]
    BY <1>g, <2>1
  <2>4. OnRecord(call[h].sn, call[h].kind)'
    BY <2>1, <2>2, <2>3 DEF OnRecord
  <2>5. \A x \in call'[h].seen : OnRecord(call[h].sn, x)'
    BY <2>1, <2>3
  <2>6. CallsRecorded'
    BY <1>a, <1>b, <2>3, <2>4, <2>5, CallsStayRecorded
  <2> QED BY <1>7, <1>c, <1>d, <1>e, <2>6 DEF SaveReport, RecordInv
<1>8. ASSUME NEW h \in Handlers, UpdateStatus(h) PROVE RecordInv'
  <2> DEFINE s == call[h].sn
             g == call[h].kind
  <2>1. call[h] \in Call /\ call[h].pc = "update" /\ s \in SNs
    BY <1>8, <1>a, CallIsCall DEF UpdateStatus, At, Call
  <2>2. g \in Stages \cap MappedStages /\ OnRecord(s, g)
    BY <1>8, <1>a, <2>1 DEF UpdateStatus, At, CallsMatchPc, CallsRecorded
  <2>3. OnRecord(s, g) => \E r \in results' : r.sn = s /\ r.kind = g
    BY <1>b DEF OnRecord
  <2>4. (HasRow(s) /\ tasks' = [tasks EXCEPT ![s].status = StageToStatus(g)])
           \/ UNCHANGED tasks
    BY <1>8 DEF UpdateStatus
  <2> HIDE DEF s, g
  <2>5. StatusExplained'
    <3>1. CASE HasRow(s) /\ tasks' = [tasks EXCEPT ![s].status = StageToStatus(g)]
      <4>1. tasks[s] \in Task
        BY <1>a, <2>1, <3>1, RowIsTask
      <4>2. /\ tasks'[s].status = StageToStatus(g)
            /\ \A t \in SNs : t # s => tasks'[t] = tasks[t]
        BY <1>a, <2>1, <3>1, <4>1 DEF TypeOK, Task
      <4> SUFFICES ASSUME NEW t \in SNs, HasRow(t)'
                   PROVE  \/ tasks'[t].status \in {"pending"} \cup OperatorStatuses
                          \/ \E x \in Stages \cap MappedStages :
                                (\E r \in results' : r.sn = t /\ r.kind = x)
                                  /\ StageToStatus(x) = tasks'[t].status
        BY DEF StatusExplained, OnRecord
      <4>3. CASE t = s
        BY <2>2, <2>3, <4>2, <4>3
      <4>4. CASE t # s
        <5>1. HasRow(t) /\ tasks'[t] = tasks[t]
          BY <4>2, <4>4 DEF HasRow
        <5> QED BY <1>a, <1>b, <5>1 DEF StatusExplained, OnRecord
      <4> QED BY <4>3, <4>4
    <3> QED BY <1>e, <2>4, <3>1
  <2> QED BY <1>8, <1>c, <1>d, <1>h, <2>5 DEF UpdateStatus, RecordInv
<1>9. ASSUME NEW h \in Handlers, SaveInstalled(h) PROVE RecordInv'
  <2>1. call[h] \in Call /\ call[h].pc = "save" /\ call[h].kind = "installed"
    BY <1>9, <1>a, CallIsCall DEF SaveInstalled, At, CallsMatchPc
  <2>2. \E r \in results' : r.sn = call[h].sn /\ r.kind = "installed"
    BY <1>9, SavedIsOnRecord DEF SaveInstalled
  <2>3. call'[h].sn = call[h].sn /\ call'[h].kind = "installed"
    BY <1>9, <1>a, <2>1 DEF SaveInstalled, Goto, TypeOK, Call
  <2>4. OnRecord(call[h].sn, call[h].kind)'
    BY <2>2, <2>3 DEF OnRecord
  <2>5. CallsRecorded'
    BY <1>9, <1>i, <2>1, <2>4 DEF SaveInstalled
  <2> QED BY <1>9, <1>c, <1>d, <1>e, <2>5 DEF SaveInstalled, RecordInv
<1>10. ASSUME NEW h \in Handlers, ReadArchive(h) PROVE RecordInv'
  <2> DEFINE s == call[h].sn
  <2>1. call[h] \in Call /\ call[h].pc = "read" /\ s \in SNs
    BY <1>10, <1>a, CallIsCall DEF ReadArchive, At, Call
  <2>2. /\ call'[h].sn = s /\ call'[h].kind = call[h].kind
        /\ call'[h].seen = archive[s].keys
        /\ \A x \in Handlers : x # h => call'[x] = call[x]
    BY <1>10, <1>a, <2>1 DEF ReadArchive, TypeOK, Call
  <2>3. OnRecord(s, call[h].kind) /\ \A k \in archive[s].keys : OnRecord(s, k)
    BY <1>10, <1>a, <2>1 DEF ReadArchive, At, CallsRecorded, ArchiveBackedByHistory
  <2>4. OnRecord(call[h].sn, call[h].kind)'
    BY <1>b, <2>2, <2>3 DEF OnRecord
  <2>5. \A k \in call'[h].seen : OnRecord(call[h].sn, k)'
    BY <1>b, <2>2, <2>3 DEF OnRecord
  <2>6. CallsRecorded'
    BY <1>a, <1>b, <2>2, <2>4, <2>5, CallsStayRecorded
  <2> QED BY <1>10, <1>c, <1>d, <1>e, <2>6 DEF ReadArchive, RecordInv
<1>j. ASSUME NEW h \in Handlers, At(h, "truncate") \/ At(h, "write")
      PROVE  /\ call[h] \in Call /\ call[h].sn \in SNs
             /\ OnRecord(call[h].sn, call[h].kind)
             /\ \A k \in call[h].seen : OnRecord(call[h].sn, k)
  BY <1>j, <1>a, CallIsCall DEF At, Call, CallsRecorded
<1>11. ASSUME NEW h \in Handlers, TruncateArchive(h) PROVE RecordInv'
  <2>1. call[h] \in Call /\ call[h].sn \in SNs /\ OnRecord(call[h].sn, call[h].kind)
    BY <1>11, <1>j DEF TruncateArchive
  <2>2. OnRecord(call[h].sn, call[h].kind)'
    BY <1>11, <1>a, <1>b, <2>1 DEF TruncateArchive, Goto, TypeOK, Call, OnRecord
  <2>3. CallsRecorded'
    BY <1>11, <1>i, <2>1, <2>2 DEF TruncateArchive
  <2>4. \A s \in SNs : \A k \in archive'[s].keys : k \in archive[s].keys
    BY <1>11, <1>a, <2>1 DEF TruncateArchive, TypeOK, Damaged
  <2>5. ArchiveBackedByHistory'
    BY <1>a, <1>b, <2>4, ArchiveStaysBacked
  <2> QED BY <1>11, <1>d, <1>e, <2>3, <2>5 DEF TruncateArchive, RecordInv
<1>12. ASSUME NEW h \in Handlers, WriteArchive(h) PROVE RecordInv'
  <2> DEFINE s == call[h].sn
             merged == call[h].seen \cup {call[h].kind}
  <2>1. /\ call[h] \in Call /\ s \in SNs
        /\ \A k \in merged : OnRecord(s, k)
    BY <1>12, <1>j DEF WriteArchive
  <2>2. UNCHANGED results
    BY <1>12 DEF WriteArchive
  <2>3. \A k \in merged : \E r \in results' : r.sn = s /\ r.kind = k
    BY <2>1, <2>2 DEF OnRecord
  <2>4. PICK file \in {Whole(merged), Damaged("garbled")} :
           archive' = [archive EXCEPT ![s] = file]
    BY <1>12 DEF WriteArchive
  <2>5. file.keys \subseteq merged
    BY <2>4 DEF Whole, Damaged
  <2>6. \A t \in SNs : \A k \in archive'[t].keys : k \in archive[t].keys \/ OnRecord(t, k)
    BY <1>a, <2>1, <2>4, <2>5 DEF TypeOK
  <2>7. \A t \in SNs : \A k \in archive'[t].keys : k \in archive[t].keys \/ OnRecord(t, k)'
    BY <1>b, <2>6, RecordsStay
  <2>8. ArchiveBackedByHistory'
    BY <1>a, <1>b, <2>7, ArchiveStaysBacked
  <2>9. CallsRecorded'
    <3>1. CASE Return(h)
      BY <1>h, <3>1
    <3>2. CASE Goto(h, "remove")
      <4>1. OnRecord(call[h].sn, call[h].kind)
        BY <2>1
      <4>2. OnRecord(call[h].sn, call[h].kind)'
        BY <1>a, <1>b, <2>1, <3>2, <4>1 DEF Goto, TypeOK, Call, OnRecord
      <4> QED BY <1>i, <2>1, <3>2, <4>2
    <3> QED BY <1>12, <3>1, <3>2 DEF WriteArchive
  <2> QED BY <1>12, <1>d, <1>e, <2>8, <2>9 DEF WriteArchive, RecordInv
<1>13. ASSUME NEW h \in Handlers, RemoveTaskBySN(h) PROVE RecordInv'
  <2> DEFINE s == call[h].sn
  <2>1. call[h] \in Call /\ call[h].pc = "remove" /\ s \in SNs /\ call[h].kind = "installed"
    BY <1>13, <1>a, CallIsCall DEF RemoveTaskBySN, At, Call, CallsMatchPc
  <2>2. OnRecord(s, "installed")
    BY <1>13, <1>a, <2>1 DEF RemoveTaskBySN, At, CallsRecorded
  <2>3. CallsRecorded'
    BY <1>13, <1>h DEF RemoveTaskBySN
  <2>4. (HasRow(s) /\ EndTask(s, "completed")) \/ UNCHANGED <<tasks, closed>>
    BY <1>13 DEF RemoveTaskBySN
  <2> HIDE DEF s
  <2>5. CASE HasRow(s) /\ EndTask(s, "completed")
    <3>1. \A t \in SNs : HasRow(t)' => HasRow(t) /\ tasks'[t].status = tasks[t].status
      BY <1>a, <2>5 DEF EndTask, TypeOK, HasRow
    <3>2. StatusExplained'
      BY <1>b, <3>1, StatusStaysExplained DEF RecordInv
    <3>3. \A c \in closed' : c \in closed \/ c.sn = s
      BY <2>5 DEF EndTask
    <3>4. \E r \in results' : r.sn = s /\ r.kind = "installed"
      BY <1>b, <2>2 DEF OnRecord
    <3>5. CompletedIsInHistory'
      BY <1>a, <1>b, <3>3, <3>4 DEF CompletedIsInHistory, OnRecord
    <3> QED BY <1>13, <1>c, <2>3, <3>2, <3>5 DEF RemoveTaskBySN, RecordInv
  <2>6. CASE UNCHANGED <<tasks, closed>>
    BY <1>13, <1>c, <1>d, <1>e, <2>3, <2>6 DEF RemoveTaskBySN, RecordInv
  <2> QED BY <2>4, <2>5, <2>6
<1>14. ASSUME Crash PROVE RecordInv'
  <2>1. \A h \in Handlers : call'[h] = Idle
    BY <1>14 DEF Crash
  <2>2. CallsRecorded'
    BY <1>a, <1>b, <2>1, CallsUnchangedStayRecorded
  <2> QED BY <1>14, <1>c, <1>d, <1>e, <2>2 DEF Crash, RecordInv
<1>15. ASSUME UNCHANGED vars PROVE RecordInv'
  BY <1>15, <1>c, <1>d, <1>e, <1>f DEF vars, RecordInv
<1> QED
  BY <1>1, <1>2, <1>3, <1>4, <1>5, <1>6, <1>7, <1>8, <1>9, <1>10, <1>11, <1>12,
     <1>13, <1>14, <1>15 DEF Next, Operator, Installer, Continue

LEMMA RecordInvHolds == ASSUME ~ DbMayFail PROVE Spec => []RecordInv
BY RecordInvInit, RecordInvStep, TypeInvHolds, PTL DEF Spec

(* No task leaves the table as completed before the installation of its    *)
(* machine is in the history.                                              *)
THEOREM CompletionRecorded == ASSUME ~ DbMayFail PROVE Spec => []CompletedIsInHistory
<1>1. RecordInv => CompletedIsInHistory
  BY DEF RecordInv
<1> QED BY RecordInvHolds, <1>1, PTL

(* The archive files say nothing the history does not say.                 *)
THEOREM ArchiveBacked == ASSUME ~ DbMayFail PROVE Spec => []ArchiveBackedByHistory
<1>1. RecordInv => ArchiveBackedByHistory
  BY DEF RecordInv
<1> QED BY RecordInvHolds, <1>1, PTL

(* A status set by an installation is backed by an event in the history.   *)
THEOREM StatusBacked == ASSUME ~ DbMayFail PROVE Spec => []StatusExplained
<1>1. RecordInv => StatusExplained
  BY DEF RecordInv
<1> QED BY RecordInvHolds, <1>1, PTL
-----------------------------------------------------------------------------
(* TaskLifecycle implements TaskContract: every step of a handler is one   *)
(* step of the contract or leaves what the contract speaks of unchanged.   *)

(* The refinement mapping, as INSTANCE TaskContract states it.             *)
OpenTask == [s \in SNs |-> IF HasRow(s) THEN tasks[s].id ELSE 0]
Installed == {s \in SNs : OnRecord(s, "installed")}

Mapped == <<OpenTask, nextId - 1, closed, Installed>>

LEMMA MappedIsAbstract == Contract!cvars = Mapped
BY DEF Contract!cvars, Mapped, OpenTask, Installed

LEMMA OpenTaskIsAnId ==
    ASSUME TypeOK, NEW s \in SNs
    PROVE  /\ HasRow(s) => OpenTask[s] = tasks[s].id /\ OpenTask[s] # 0
           /\ ~ HasRow(s) => OpenTask[s] = 0
<1>1. HasRow(s) => tasks[s].id \in TaskIds
  BY RowIsTask DEF Task
<1> QED BY <1>1, ConstantsAssumption DEF OpenTask, TaskIds

(* A handler that records something else than an installation.             *)
LEMMA InstalledStays ==
    ASSUME results \subseteq results',
           \A r \in results' : r \in results \/ r.kind # "installed"
    PROVE  Installed' = Installed
BY DEF Installed, OnRecord

LEMMA OpenTaskStays ==
    ASSUME UNCHANGED tasks
    PROVE  OpenTask' = OpenTask
BY DEF OpenTask, HasRow

(* The end of a task is the contract's Cancel or Complete.                 *)
LEMMA EndTaskMaps ==
    ASSUME TypeOK, NEW s \in SNs, HasRow(s), NEW how, EndTask(s, how)
    PROVE  /\ OpenTask' = [OpenTask EXCEPT ![s] = 0]
           /\ OpenTask[s] # 0
           /\ closed' = closed \cup {[id |-> OpenTask[s], sn |-> s, how |-> how]}
<1>1. OpenTask[s] = tasks[s].id /\ OpenTask[s] # 0
  BY OpenTaskIsAnId
<1>2. tasks' = [tasks EXCEPT ![s] = NoTask]
  BY DEF EndTask
<1>3. OpenTask' = [OpenTask EXCEPT ![s] = 0]
  BY <1>2 DEF OpenTask, HasRow, TypeOK
<1> QED BY <1>1, <1>3 DEF EndTask

LEMMA InitMaps == Init => Contract!CInit
<1> SUFFICES ASSUME Init PROVE Contract!CInit
  OBVIOUS
<1>1. OpenTask = [s \in SNs |-> 0] /\ Installed = {}
  BY DEF Init, OpenTask, Installed, HasRow, OnRecord
<1> QED BY <1>1 DEF Init, Contract!CInit, OpenTask, Installed

LEMMA StepMaps ==
    ASSUME ~ DbMayFail
    PROVE  TypeInv /\ RecordInv /\ [Next]_vars => [Contract!CNext]_(Contract!cvars)
<1> SUFFICES ASSUME TypeInv, RecordInv, [Next]_vars
             PROVE  Contract!CNext \/ UNCHANGED Mapped
  BY MappedIsAbstract DEF Mapped, Contract!cvars, OpenTask, Installed
<1> USE ConstantsAssumption
<1>a. TypeOK /\ CallsMatchPc /\ nextId \in Nat \ {0}
  BY DEF TypeInv, TypeOK
<1>b. results \subseteq results'
  BY HistoryGrows
<1>c. UNCHANGED results => Installed' = Installed
  BY DEF Installed, OnRecord
<1>d. UNCHANGED tasks => OpenTask' = OpenTask
  BY OpenTaskStays
<1>e. UNCHANGED <<tasks, nextId, results, closed>> => UNCHANGED Mapped
  BY <1>c, <1>d DEF Mapped
<1>1. ASSUME NEW s \in SNs, CreateTask(s) PROVE Contract!CNext
  <2>1. OpenTask[s] = 0
    BY <1>1, <1>a, OpenTaskIsAnId DEF CreateTask
  <2>2. [id |-> nextId, status |-> "pending"] # NoTask
    BY <1>1, <1>a DEF CreateTask, Task, TaskIds, Statuses
  <2>3. OpenTask' = [OpenTask EXCEPT ![s] = nextId]
    BY <1>1, <1>a, <2>2 DEF CreateTask, TypeOK, OpenTask, HasRow
  <2>4. nextId - 1 + 1 = nextId /\ nextId' - 1 = nextId
    BY <1>1, <1>a DEF CreateTask
  <2>5. Contract!Open(s)
    BY <1>1, <1>c, <2>1, <2>3, <2>4 DEF CreateTask, Contract!Open, OpenTask, Installed
  <2> QED BY <2>5 DEF Contract!CNext
<1>2. ASSUME NEW s \in SNs, DeleteTask(s) PROVE Contract!CNext
  <2>1. Contract!Cancel(s)
    BY <1>2, <1>a, <1>c, EndTaskMaps
       DEF DeleteTask, Contract!Cancel, Contract!Ending, OpenTask, Installed
  <2> QED BY <2>1 DEF Contract!CNext
<1>3. ASSUME NEW s \in SNs, NEW v \in OperatorStatuses, UpdateTask(s, v)
      PROVE UNCHANGED Mapped
  <2>1. tasks[s] \in Task
    BY <1>3, <1>a, RowIsTask DEF UpdateTask
  <2> DEFINE row == [tasks[s] EXCEPT !.status = v]
  <2>a. row \in Task /\ row.id = tasks[s].id
    BY <2>1 DEF Task, Statuses
  <2>b. tasks' = [tasks EXCEPT ![s] = row]
    BY <1>3 DEF UpdateTask
  <2> HIDE DEF row
  <2>2. \A t \in SNs : HasRow(t)' = HasRow(t) /\ tasks'[t].id = tasks[t].id
    BY <1>3, <1>a, <2>a, <2>b DEF UpdateTask, TypeOK, HasRow
  <2>3. OpenTask' = OpenTask
    BY <2>2 DEF OpenTask
  <2> QED BY <1>3, <1>c, <2>3 DEF UpdateTask, Mapped
<1>4. ASSUME NEW S \in (SUBSET SNs) \ {{}}, NEW n \in 1 .. MaxBatch, BatchCreateTasks(S, n)
      PROVE Contract!CNext
  <2>1. PICK at \in [S -> 0 .. n - 1] :
           /\ \A s, t \in S : s # t => at[s] # at[t]
           /\ tasks' = [s \in SNs |->
                         IF s \in S THEN [id |-> nextId + at[s], status |-> "pending"]
                                    ELSE tasks[s]]
    BY <1>4 DEF BatchCreateTasks
  <2>2. nextId' = nextId + n /\ nextId + n - 1 <= MaxId /\ n \in Nat
    BY <1>4 DEF BatchCreateTasks
  <2>3. \A s \in S : at[s] \in 0 .. n - 1 /\ s \in SNs
    BY <2>1
  <2>4. \A s \in S : [id |-> nextId + at[s], status |-> "pending"] \in Task
    BY <1>a, <2>2, <2>3 DEF Task, TaskIds, Statuses
  <2>5. \A s \in S : OpenTask'[s] = nextId + at[s]
    BY <2>1, <2>3, <2>4 DEF OpenTask, HasRow
  <2>6. \A s \in SNs \ S : OpenTask'[s] = OpenTask[s]
    BY <2>1 DEF OpenTask, HasRow
  <2>7. OpenTask' = [s \in SNs |-> IF s \in S THEN OpenTask'[s] ELSE OpenTask[s]]
    BY <2>6 DEF OpenTask
  <2>8. \A s \in S : nextId - 1 < OpenTask'[s] /\ OpenTask'[s] <= nextId' - 1
    BY <1>a, <2>2, <2>3, <2>5
  <2>9. \A s, t \in S : OpenTask'[s] = OpenTask'[t] => s = t
    BY <1>a, <2>1, <2>3, <2>5
  <2>10. closed' = closed \cup {[id |-> OpenTask[s], sn |-> s, how |-> "replaced"] :
                                   s \in {t \in S : OpenTask[t] # 0}}
    <3>1. \A s \in S : /\ HasRow(s) <=> OpenTask[s] # 0
                       /\ HasRow(s) => OpenTask[s] = tasks[s].id
      BY <1>a, <2>3, OpenTaskIsAnId
    <3> QED BY <1>4, <3>1 DEF BatchCreateTasks
  <2>11. nextId' - 1 \in Nat
    BY <1>a, <2>2
  <2>12. Installed' = Installed
    BY <1>4, <1>c DEF BatchCreateTasks
  <2>13. Contract!Push(S)
    BY <2>7, <2>8, <2>9, <2>10, <2>11, <2>12
       DEF Contract!Push, Contract!Ending, OpenTask, Installed
  <2> QED BY <2>13 DEF Contract!CNext
<1>5. ASSUME NEW h \in Handlers, NEW s \in SNs, FindTask(h, s) PROVE UNCHANGED Mapped
  BY <1>5, <1>e DEF FindTask
<1>6. ASSUME NEW h \in Handlers, NEW s \in SNs, NEW g \in Stages, SaveEvent(h, s, g)
      PROVE UNCHANGED Mapped
  <2>1. g # "installed"
    BY DEF Keys
  <2>2. \A r \in results' : r \in results \/ r.kind # "installed"
    BY <1>6, <2>1 DEF SaveEvent, Saved, ResultRow
  <2>3. Installed' = Installed
    BY <1>b, <2>2, InstalledStays
  <2> QED BY <1>6, <1>d, <2>3 DEF SaveEvent, Mapped
<1>7. ASSUME NEW h \in Handlers, NEW s \in SNs, NEW k \in Reports, SaveReport(h, s, k)
      PROVE UNCHANGED Mapped
  <2>1. k # "installed"
    OBVIOUS
  <2>2. \A r \in results' : r \in results \/ r.kind # "installed"
    BY <1>7, <2>1 DEF SaveReport, Saved, ResultRow
  <2>3. Installed' = Installed
    BY <1>b, <2>2, InstalledStays
  <2> QED BY <1>7, <1>d, <2>3 DEF SaveReport, Mapped
<1>8. ASSUME NEW h \in Handlers, UpdateStatus(h) PROVE UNCHANGED Mapped
  <2> DEFINE s == call[h].sn
             v == StageToStatus(call[h].kind)
  <2>1. s \in SNs
    BY <1>8, <1>a, CallIsCall DEF UpdateStatus, At, Call
  <2>2. (HasRow(s) /\ tasks' = [tasks EXCEPT ![s].status = v]) \/ UNCHANGED tasks
    BY <1>8 DEF UpdateStatus
  <2>v. v \in Statuses
    BY <1>8, <1>a, StatusOfMappedStage DEF UpdateStatus, At, CallsMatchPc, Statuses
  <2>3. UNCHANGED <<nextId, results, closed>>
    BY <1>8 DEF UpdateStatus
  <2> HIDE DEF s, v
  <2>4. CASE HasRow(s) /\ tasks' = [tasks EXCEPT ![s].status = v]
    <3>1. tasks[s] \in Task
      BY <1>a, <2>1, <2>4, RowIsTask
    <3> DEFINE row == [tasks[s] EXCEPT !.status = v]
    <3>2. row \in Task /\ row.id = tasks[s].id
      BY <2>v, <3>1 DEF Task
    <3>a. tasks' = [tasks EXCEPT ![s] = row]
      BY <2>4
    <3> HIDE DEF row
    <3>3. \A t \in SNs : HasRow(t)' = HasRow(t) /\ tasks'[t].id = tasks[t].id
      BY <1>a, <2>1, <2>4, <3>2, <3>a DEF TypeOK, HasRow
    <3>4. OpenTask' = OpenTask
      BY <3>3 DEF OpenTask
    <3> QED BY <1>c, <2>3, <3>4 DEF Mapped
  <2> QED BY <1>e, <2>2, <2>3, <2>4
<1>9. ASSUME NEW h \in Handlers, SaveInstalled(h) PROVE Contract!CNext
  <2> DEFINE s == call[h].sn
  <2>1. s \in SNs
    BY <1>9, <1>a, CallIsCall DEF SaveInstalled, At, Call
  <2>2. results' = results \cup {ResultRow(s, "installed", call[h].tid)}
    <3>1. results' \in Saved(ResultRow(s, "installed", call[h].tid))
      BY <1>9 DEF SaveInstalled
    <3> QED BY <3>1, Zenon DEF Saved
  <2>3. UNCHANGED <<tasks, nextId, closed>>
    BY <1>9 DEF SaveInstalled
  <2> HIDE DEF s
  <2>4. Installed' = Installed \cup {s}
    <3> DEFINE row == ResultRow(s, "installed", call[h].tid)
    <3>1. row.sn = s /\ row.kind = "installed"
      BY DEF ResultRow
    <3> HIDE DEF row
    <3>2. \A t \in SNs : (\E r \in results' : r.sn = t /\ r.kind = "installed")
                            <=> OnRecord(t, "installed") \/ t = s
      BY <2>2, <3>1 DEF OnRecord, row
    <3> QED BY <2>1, <3>2 DEF Installed, OnRecord
  <2>5. Contract!Record(s)
    BY <1>d, <2>3, <2>4 DEF Contract!Record, OpenTask, Installed
  <2> QED BY <2>1, <2>5 DEF Contract!CNext
<1>10. ASSUME NEW h \in Handlers, ReadArchive(h) PROVE UNCHANGED Mapped
  BY <1>10, <1>e DEF ReadArchive
<1>11. ASSUME NEW h \in Handlers, TruncateArchive(h) PROVE UNCHANGED Mapped
  BY <1>11, <1>e DEF TruncateArchive
<1>12. ASSUME NEW h \in Handlers, WriteArchive(h) PROVE UNCHANGED Mapped
  BY <1>12, <1>e DEF WriteArchive
<1>13. ASSUME NEW h \in Handlers, RemoveTaskBySN(h)
       PROVE Contract!CNext \/ UNCHANGED Mapped
  <2>1. call[h] # Idle /\ call[h].pc = "remove" /\ call[h].sn \in SNs
    BY <1>13, <1>a, CallIsCall DEF RemoveTaskBySN, At, Call
  <2> PICK s \in SNs : s = call[h].sn
    BY <2>1
  <2>2. OnRecord(s, "installed")
    BY <1>a, <2>1 DEF RecordInv, CallsRecorded, CallsMatchPc
  <2>3. (HasRow(s) /\ EndTask(s, "completed")) \/ UNCHANGED <<tasks, closed>>
    BY <1>13 DEF RemoveTaskBySN
  <2>4. UNCHANGED <<nextId, results>>
    BY <1>13 DEF RemoveTaskBySN
  <2>5. CASE HasRow(s) /\ EndTask(s, "completed")
    <3>1. s \in Installed
      BY <2>2 DEF Installed
    <3>2. Contract!Complete(s)
      BY <1>a, <1>c, <2>4, <2>5, <3>1, EndTaskMaps
         DEF Contract!Complete, Contract!Ending, OpenTask, Installed
    <3> QED BY <3>2 DEF Contract!CNext
  <2>6. CASE UNCHANGED <<tasks, closed>>
    BY <1>e, <2>4, <2>6
  <2> QED BY <2>3, <2>5, <2>6
<1>14. ASSUME Crash PROVE UNCHANGED Mapped
  BY <1>14, <1>e DEF Crash
<1>15. ASSUME UNCHANGED vars PROVE UNCHANGED Mapped
  BY <1>15, <1>e DEF vars
<1> QED
  BY <1>1, <1>2, <1>3, <1>4, <1>5, <1>6, <1>7, <1>8, <1>9, <1>10, <1>11, <1>12,
     <1>13, <1>14, <1>15 DEF Next, Operator, Installer, Continue

(* When no statement fails, the engine keeps the promises of the contract  *)
(* however many handlers run, whatever they interleave, and at any crash.  *)
THEOREM LifecycleImplementsContract == ASSUME ~ DbMayFail PROVE Spec => ImplementsContract
BY InitMaps, StepMaps, TypeInvHolds, RecordInvHolds, PTL
   DEF Spec, ImplementsContract, Contract!CSpec
=============================================================================
