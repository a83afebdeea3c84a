----------------------------- MODULE SyncProofs -----------------------------
(***************************************************************************)
(* Sync for any machines, files, versions, payloads and failures: types;   *)
(* and, for deliveries that do not overlap, that a recorded version lacks  *)
(* nothing but what an error that was dropped or a write that was cut      *)
(* short cost it, and that a completed task comes back only with a version *)
(* whose number was not recorded.                                          *)
(***************************************************************************)
EXTENDS Sync, TLAPS

USE SyncAssumption
-----------------------------------------------------------------------------
(* Each row, key, file and call keeps its type.                            *)
LEMMA InitTypes == Init => TypeOK
BY DEF Init, TypeOK, Stamp

(* The fields of a call, and of what it becomes.                           *)
LEMMA CallFields ==
    ASSUME TypeOK, NEW h \in Handlers, call[h] # Idle
    PROVE  /\ call[h] \in Call /\ call[h].v \in Versions /\ call[h].v \in Stamp
           /\ call[h].files \subseteq Files /\ call[h].writing \subseteq Files
           /\ Parts(call[h].v) \subseteq SNs \cup Keys \cup Files
           /\ Pushed[call[h].v] \subseteq SNs
BY DEF TypeOK, Call, Versions, Stamp, Parts

LEMMA GotoKeeps ==
    ASSUME TypeOK, NEW h \in Handlers, call[h] # Idle,
           NEW pc \in {"tasks", "ip", "port", "os_templates", "files", "version"}, Goto(h, pc)
    PROVE  /\ call' \in [Handlers -> Call \cup {Idle}]
           /\ call'[h] # Idle
           /\ call'[h].pc = pc /\ call'[h].v = call[h].v
           /\ call'[h].files = call[h].files /\ call'[h].writing = call[h].writing
           /\ \A g \in Handlers \ {h} : call'[g] = call[g]
<1> DEFINE c == [call[h] EXCEPT !.pc = pc]
<1>1. /\ c \in Call /\ c.pc = pc /\ c.v = call[h].v
      /\ c.files = call[h].files /\ c.writing = call[h].writing
  BY CallFields DEF Call
<1>2. call' = [call EXCEPT ![h] = c]
  BY DEF Goto
<1> HIDE DEF c
<1> QED  BY <1>1, <1>2 DEF TypeOK

LEMMA TemplateKeeps ==
    ASSUME TypeOK, NEW h \in Handlers, call[h] # Idle, NEW f \in Files, TemplateStep(h, f)
    PROVE  /\ call' \in [Handlers -> Call \cup {Idle}]
           /\ call'[h] # Idle
           /\ call'[h].pc = "files" /\ call[h].pc = "files" /\ call'[h].v = call[h].v
           /\ \/ /\ TruncateTemplate(h, f)
                 /\ f \in call[h].files /\ call[h].writing = {}
                 /\ call'[h].files = call[h].files /\ call'[h].writing = {f}
              \/ /\ OpenTemplateFails(h, f)
                 /\ call[h].writing = {}
                 /\ call'[h].files = call[h].files \ {f} /\ call'[h].writing = {}
              \/ /\ WriteTemplate(h, f) \/ WriteTemplateFails(h, f)
                 /\ f \in call[h].writing
                 /\ call'[h].files = call[h].files \ {f} /\ call'[h].writing = {}
           /\ \A g \in Handlers \ {h} : call'[g] = call[g]
<1>1. call[h] \in Call
  BY CallFields
<1>2. call[h].pc = "files"
  BY DEF TemplateStep, TruncateTemplate, OpenTemplateFails, WriteTemplate, WriteTemplateFails, At
<1>3. CASE TruncateTemplate(h, f)
  <2> DEFINE c == [call[h] EXCEPT !.writing = {f}]
  <2>1. /\ c \in Call /\ c.pc = "files" /\ c.v = call[h].v
        /\ c.files = call[h].files /\ c.writing = {f}
    BY <1>1, <1>2 DEF Call
  <2>2. call' = [call EXCEPT ![h] = c] /\ f \in call[h].files /\ call[h].writing = {}
    BY <1>3 DEF TruncateTemplate
  <2> HIDE DEF c
  <2> QED  BY <1>2, <1>3, <2>1, <2>2 DEF TypeOK
<1>4. CASE OpenTemplateFails(h, f)
  <2> DEFINE c == [call[h] EXCEPT !.files = call[h].files \ {f}]
  <2>1. /\ c \in Call /\ c.pc = "files" /\ c.v = call[h].v
        /\ c.files = call[h].files \ {f} /\ c.writing = call[h].writing
    BY <1>1, <1>2 DEF Call
  <2>2. call' = [call EXCEPT ![h] = c] /\ call[h].writing = {}
    BY <1>4 DEF OpenTemplateFails
  <2> HIDE DEF c
  <2> QED  BY <1>2, <1>4, <2>1, <2>2 DEF TypeOK
<1>5. CASE WriteTemplate(h, f) \/ WriteTemplateFails(h, f)
  <2> DEFINE c == [call[h] EXCEPT !.files = call[h].files \ {f}, !.writing = {}]
  <2>1. /\ c \in Call /\ c.pc = "files" /\ c.v = call[h].v
        /\ c.files = call[h].files \ {f} /\ c.writing = {}
    BY <1>1, <1>2 DEF Call
  <2>2. call' = [call EXCEPT ![h] = c] /\ f \in call[h].writing
    BY <1>5 DEF WriteTemplate, WriteTemplateFails
  <2> HIDE DEF c
  <2> QED  BY <1>2, <1>5, <2>1, <2>2 DEF TypeOK
<1> QED  BY <1>3, <1>4, <1>5 DEF TemplateStep

LEMMA BeginKeeps ==
    ASSUME TypeOK, NEW h \in Handlers, NEW v \in Versions, Begin(h, v)
    PROVE  /\ call' \in [Handlers -> Call \cup {Idle}]
           /\ call[h] = Idle /\ call'[h] # Idle
           /\ call'[h].pc = "tasks" /\ call'[h].v = v
           /\ call'[h].files = Brings[v] \cap Files /\ call'[h].writing = {}
           /\ \A g \in Handlers \ {h} : call'[g] = call[g]
<1> DEFINE c == [pc |-> "tasks", v |-> v, files |-> Brings[v] \cap Files, writing |-> {}]
<1>1. c \in Call
  BY DEF Call
<1> QED  BY <1>1 DEF Begin, TypeOK

LEMMA NextTypes == TypeOK /\ [Next]_vars => TypeOK'
<1> SUFFICES ASSUME TypeOK, [Next]_vars PROVE TypeOK'
  OBVIOUS
<1> USE DEF state, history
<1>0. \A v \in Versions : Parts(v) \subseteq SNs \cup Keys \cup Files
  BY DEF Parts
<1>1. ASSUME NEW h \in Handlers, NEW v \in Versions, CheckVersion(h, v) \/ CheckFails(h, v)
      PROVE  TypeOK'
  <2>1. Begin(h, v)
    BY <1>1 DEF CheckVersion, CheckFails
  <2>2. UNCHANGED state /\ call' \in [Handlers -> Call \cup {Idle}]
    BY <2>1, BeginKeeps DEF Begin
  <2>3. CASE CheckVersion(h, v)
    BY <2>2, <2>3 DEF CheckVersion, TypeOK
  <2>4. CASE CheckFails(h, v)
    <3>1. v + 1 .. version \subseteq Versions /\ v .. version \subseteq Versions
      BY DEF TypeOK, Versions, Stamp
    <3>2. lost' \subseteq (SNs \cup Keys \cup Files) \X Versions
      BY <1>0, <2>4, <3>1 DEF CheckFails, TypeOK
    <3>3. cut' \subseteq Versions /\ failures' \in 0 .. MaxFailures
      BY <2>4, <3>1 DEF CheckFails, Fails, TypeOK
    <3> QED  BY <2>2, <2>4, <3>2, <3>3 DEF CheckFails, TypeOK
  <2> QED  BY <1>1, <2>3, <2>4
<1>2. ASSUME NEW h \in Handlers, Continue(h)
      PROVE  TypeOK'
  <2>0. call[h] # Idle
    BY <1>2 DEF Continue, SaveTasks, SaveTasksFails, KeyStep, SaveKey, SaveKeyFails, SkipKey,
                TemplateStep, TruncateTemplate, OpenTemplateFails, WriteTemplate,
                WriteTemplateFails, EndTemplates, SetSyncVersion, SetSyncVersionFails, At
  <2> DEFINE v == call[h].v
  <2>1. v \in Versions /\ v \in Stamp /\ Pushed[v] \subseteq SNs /\ 0 \in Stamp
    BY <2>0, CallFields DEF Stamp
  <2>2. CASE SaveTasks(h)
    <3> DEFINE S == Stored(v)
    <3>1. S \subseteq SNs
      BY <2>1 DEF Stored
    <3>2. /\ rows' = [s \in SNs |-> IF s \in S THEN v ELSE rows[s]]
          /\ written' = written \cup (S \X {v})
          /\ lost' = (lost \ (S \X {v})) \cup ((Pushed[v] \ S) \X {v})
          /\ UNCHANGED <<version, kept, files, failures, done, torn, cut>>
      BY <2>2 DEF SaveTasks
    <3>3. call' \in [Handlers -> Call \cup {Idle}]
      BY <2>0, <2>2, GotoKeeps DEF SaveTasks
    <3> HIDE DEF S, v
    <3>4. rows' \in [SNs -> Stamp]
      BY <2>1, <3>1, <3>2 DEF TypeOK
    <3>5. written' \subseteq SNs \X Versions
      BY <2>1, <3>1, <3>2 DEF TypeOK
    <3>6. lost' \subseteq (SNs \cup Keys \cup Files) \X Versions
      BY <2>1, <3>2 DEF TypeOK
    <3> QED  BY <3>2, <3>3, <3>4, <3>5, <3>6 DEF TypeOK
  <2>3. CASE SaveTasksFails(h)
    <3>1. call' \in [Handlers -> Call \cup {Idle}]
      BY <2>0, <2>3, GotoKeeps DEF SaveTasksFails
    <3>2. lost' \subseteq (SNs \cup Keys \cup Files) \X Versions
      BY <2>1, <2>3 DEF SaveTasksFails, TypeOK
    <3>3. failures' \in 0 .. MaxFailures
      BY <2>3 DEF SaveTasksFails, Fails, TypeOK
    <3> QED  BY <2>3, <3>1, <3>2, <3>3 DEF SaveTasksFails, TypeOK
  <2>4. ASSUME NEW k \in Keys, NEW next \in {"port", "os_templates", "files"}, KeyStep(h, k, next)
        PROVE  TypeOK'
    <3>1. call' \in [Handlers -> Call \cup {Idle}]
      BY <2>0, <2>4, GotoKeeps DEF KeyStep, SaveKey, SaveKeyFails, SkipKey
    <3>2. lost' \subseteq (SNs \cup Keys \cup Files) \X Versions
      BY <2>1, <2>4 DEF KeyStep, SaveKey, SaveKeyFails, SkipKey, TypeOK
    <3>3. failures' \in 0 .. MaxFailures
      BY <2>4 DEF KeyStep, SaveKey, SaveKeyFails, SkipKey, Fails, TypeOK
    <3>4. kept' \in [Keys -> Stamp]
      BY <2>1, <2>4 DEF KeyStep, SaveKey, SaveKeyFails, SkipKey, TypeOK
    <3>5. UNCHANGED <<version, rows, files, written, done, torn, cut>>
      BY <2>4 DEF KeyStep, SaveKey, SaveKeyFails, SkipKey
    <3> QED  BY <3>1, <3>2, <3>3, <3>4, <3>5 DEF TypeOK
  <2>5. ASSUME NEW f \in Files, TemplateStep(h, f)
        PROVE  TypeOK'
    <3> USE DEF TemplateStep, TruncateTemplate, OpenTemplateFails, WriteTemplate, WriteTemplateFails
    <3>1. call' \in [Handlers -> Call \cup {Idle}]
      BY <2>0, <2>5, TemplateKeeps
    <3>2. lost' \subseteq (SNs \cup Keys \cup Files) \X Versions
      BY <2>1, <2>5 DEF TypeOK
    <3>3. failures' \in 0 .. MaxFailures
      BY <2>5 DEF Fails, TypeOK
    <3>4. files' \in [Files -> Stamp] /\ torn' \subseteq Files
      BY <2>1, <2>5 DEF TypeOK
    <3>5. UNCHANGED <<version, rows, kept, written, done, cut>>
      BY <2>5
    <3> QED  BY <3>1, <3>2, <3>3, <3>4, <3>5 DEF TypeOK
  <2>6. CASE EndTemplates(h)
    BY <2>0, <2>6, GotoKeeps DEF EndTemplates, TypeOK
  <2>7. CASE SetSyncVersion(h)
    BY <2>1, <2>7 DEF SetSyncVersion, TypeOK
  <2>8. CASE SetSyncVersionFails(h)
    BY <2>1, <2>8 DEF SetSyncVersionFails, Fails, TypeOK
  <2> QED  BY <1>2, <2>2, <2>3, <2>4, <2>5, <2>6, <2>7, <2>8 DEF Continue, Keys
<1>3. ASSUME NEW s \in SNs, TaskEnds(s)
      PROVE  TypeOK'
  <2>1. <<s, rows[s]>> \in SNs \X Versions /\ 0 \in Stamp
    BY <1>3 DEF TaskEnds, TypeOK, Versions, Stamp
  <2> QED  BY <1>3, <2>1 DEF TaskEnds, TypeOK
<1>4. CASE Crash
  <2>1. \A h \in InFlight : call[h].v \in Versions /\ call[h].writing \subseteq Files
    BY CallFields DEF InFlight
  <2>2. torn' \subseteq Files
    BY <1>4, <2>1 DEF Crash, BeingWritten, TypeOK
  <2>3. cut' \subseteq Versions
    BY <1>4, <2>1 DEF Crash, TypeOK
  <2> QED  BY <1>4, <2>2, <2>3 DEF Crash, TypeOK
<1>5. CASE UNCHANGED vars
  BY <1>5 DEF vars, TypeOK
<1> QED  BY <1>1, <1>2, <1>3, <1>4, <1>5 DEF Next

(* Types of the database, the files and the calls of syncHandler.          *)
THEOREM SyncTypes == Spec => []TypeOK
BY InitTypes, NextTypes, PTL DEF Spec
-----------------------------------------------------------------------------
(* The inductive invariant.                                                *)
OneAtATime == \A g, h \in InFlight : g = h

(* What of version v is there, or known to be lost.                        *)
Accounted(p, v) == OnDisk(p, v) \/ <<p, v>> \in lost \/ p \in torn

(* The parts that a delivery has not come to yet.                          *)
Todo(c) ==
    CASE c.pc = "tasks" -> Parts(c.v)
      [] c.pc = "ip" -> Brings[c.v]
      [] c.pc = "port" -> Brings[c.v] \ {"ip"}
      [] c.pc = "os_templates" -> Brings[c.v] \ {"ip", "port"}
      [] OTHER -> c.files

(* What a delivery has behind it is accounted for; it carries a version    *)
(* above the recorded one, or one that a failed read let through.          *)
Behind(c) ==
    /\ \A p \in Parts(c.v) : p \in Todo(c) \/ Accounted(p, c.v)
    /\ c.pc \notin {"files", "version"} => c.files = Brings[c.v] \cap Files
    /\ c.pc # "files" => c.writing = {}
    /\ c.pc = "version" => c.files = {}
    /\ c.writing \subseteq c.files /\ c.files \subseteq Brings[c.v]
    /\ \A f, g \in c.writing : f = g

Excused(v) ==
    /\ \A p \in Parts(v), w \in v + 1 .. version : <<p, w>> \in lost
    /\ v .. version \subseteq cut

Progress == \A h \in InFlight : Behind(call[h]) /\ Excused(call[h].v)

(* A version that wrote a row is recorded, about to be, or counts as cut.  *)
Known(v) ==
    \/ v \in cut \/ v <= version
    \/ \E h \in InFlight : call[h].v = v /\ call[h].pc # "tasks"

RowsKnown ==
    /\ done \subseteq written
    /\ \A s \in SNs : rows[s] # 0 => <<s, rows[s]>> \in written
    /\ \A s \in SNs, v \in Versions : <<s, v>> \in written => Known(v)

RecordedAccounted ==
    version # 0 => \A p \in Parts(version) : Accounted(p, version) \/ p \in BeingWritten

Inv == TypeOK /\ OneAtATime /\ Progress /\ RowsKnown /\ RecordedAccounted

LEMMA InitInv == Init => Inv
BY InitTypes DEF Init, Inv, OneAtATime, Progress, RowsKnown, RecordedAccounted, InFlight

LEMMA InvRecorded == Inv => RecordedIsApplied
BY DEF Inv, RecordedAccounted, Accounted, RecordedIsApplied, Missing
-----------------------------------------------------------------------------
(* One step of a delivery.                                                 *)

(* It works on the same version to the end, and only its last step touches *)
(* the recorded number.                                                    *)
LEMMA StepCall ==
    ASSUME TypeOK, NEW h \in Handlers, Continue(h)
    PROVE  /\ call[h] # Idle
           /\ \A g \in Handlers \ {h} : call'[g] = call[g]
           /\ call'[h] # Idle =>
                 /\ call'[h].v = call[h].v /\ call'[h].pc # "tasks"
                 /\ version' = version /\ UNCHANGED <<done, cut>>
           /\ call'[h] = Idle =>
                 /\ SetSyncVersion(h) \/ SetSyncVersionFails(h)
                 /\ call[h].pc = "version"
                 /\ UNCHANGED <<rows, kept, files, written, done, lost, torn>>
<1>1. call[h] # Idle
  BY DEF Continue, SaveTasks, SaveTasksFails, KeyStep, SaveKey, SaveKeyFails, SkipKey,
         TemplateStep, TruncateTemplate, OpenTemplateFails, WriteTemplate,
         WriteTemplateFails, EndTemplates, SetSyncVersion, SetSyncVersionFails, At
<1> USE DEF state, history
<1>2. CASE SaveTasks(h) \/ SaveTasksFails(h)
  BY <1>1, <1>2, GotoKeeps DEF SaveTasks, SaveTasksFails
<1>3. ASSUME NEW k \in Keys, NEW next \in {"port", "os_templates", "files"}, KeyStep(h, k, next)
      PROVE  /\ \A g \in Handlers \ {h} : call'[g] = call[g]
             /\ call'[h] # Idle /\ call'[h].v = call[h].v /\ call'[h].pc # "tasks"
             /\ version' = version /\ UNCHANGED <<done, cut>>
  BY <1>1, <1>3, GotoKeeps DEF KeyStep, SaveKey, SaveKeyFails, SkipKey
<1>4. ASSUME NEW f \in Files, TemplateStep(h, f)
      PROVE  /\ \A g \in Handlers \ {h} : call'[g] = call[g]
             /\ call'[h] # Idle /\ call'[h].v = call[h].v /\ call'[h].pc # "tasks"
             /\ version' = version /\ UNCHANGED <<done, cut>>
  <2>1. version' = version /\ UNCHANGED <<done, cut>>
    BY <1>4 DEF TemplateStep, TruncateTemplate, OpenTemplateFails, WriteTemplate,
                WriteTemplateFails
  <2> QED  BY <1>1, <1>4, <2>1, TemplateKeeps
<1>5. CASE EndTemplates(h)
  BY <1>1, <1>5, GotoKeeps DEF EndTemplates
<1>6. CASE SetSyncVersion(h) \/ SetSyncVersionFails(h)
  BY <1>1, <1>6 DEF SetSyncVersion, SetSyncVersionFails, At, TypeOK
<1> QED  BY <1>1, <1>2, <1>3, <1>4, <1>5, <1>6 DEF Continue, Keys

(* A part stays accounted for, of the version in flight, the recorded one  *)
(* and all below, but for the file that is truncated.                      *)
LEMMA StepKeeps ==
    ASSUME TypeOK, NEW h \in Handlers, Continue(h), Excused(call[h].v), Behind(call[h]),
           NEW w \in Versions, w <= call[h].v \/ w <= version,
           NEW p, p \in Parts(call[h].v) \/ p \in Parts(w), Accounted(p, w),
           ~ (call'[h] # Idle /\ p \in call'[h].writing)
    PROVE  Accounted(p, w)'
<1> DEFINE v == call[h].v
<1>1. call[h] # Idle /\ v \in Versions /\ v \in Int /\ w \in Int /\ version \in Int
  BY StepCall, CallFields DEF TypeOK, Versions, Stamp
<1>2. p \in Parts(v) /\ w > v => <<p, w>> \in lost
  BY <1>1 DEF Excused
<1> USE DEF state, history
<1>3. CASE SaveTasks(h)
  <2> DEFINE S == Stored(v)
  <2>1. /\ written' = written \cup (S \X {v})
        /\ lost' = (lost \ (S \X {v})) \cup ((Pushed[v] \ S) \X {v})
        /\ UNCHANGED <<kept, files, torn>>
    BY <1>3 DEF SaveTasks
  <2>2. S \subseteq SNs
    BY <1>1 DEF Stored
  <2> HIDE DEF S
  <2>3. OnDisk(p, w) => OnDisk(p, w)'
    BY <2>1 DEF OnDisk
  <2>4. <<p, w>> \in lost => <<p, w>> \in lost' \/ OnDisk(p, w)'
    <3>1. CASE w = v /\ p \in S
      <4>1. <<p, w>> \in written' /\ p \in SNs
        BY <2>1, <2>2, <3>1
      <4>2. w \in w .. MaxVersion
        BY DEF Versions
      <4> QED  BY <4>1, <4>2 DEF OnDisk
    <3>2. CASE ~ (w = v /\ p \in S)
      BY <2>1, <3>2
    <3> QED  BY <3>1, <3>2
  <2> QED  BY <2>1, <2>3, <2>4 DEF Accounted
<1>4. CASE SaveTasksFails(h)
  BY <1>4 DEF SaveTasksFails, Accounted, OnDisk
<1>5. ASSUME NEW k \in Keys, NEW next, KeyStep(h, k, next)
      PROVE  Accounted(p, w)'
  <2>1. CASE SaveKey(h, k, next)
    <3>1. /\ kept' = [kept EXCEPT ![k] = v] /\ lost' = lost \ {<<k, v>>}
          /\ UNCHANGED <<files, written, torn>> /\ k \in Brings[v]
      BY <2>1 DEF SaveKey
    <3> HIDE DEF v
    <3>2. CASE p # k
      BY <3>1, <3>2 DEF Accounted, OnDisk, TypeOK
    <3>3. CASE p = k /\ w <= v
      <4>1. kept'[p] >= w
        BY <1>1, <3>1, <3>3 DEF TypeOK
      <4> QED  BY <3>3, <4>1 DEF Accounted, OnDisk
    <3>4. CASE p = k /\ ~ (w <= v)
      <4>1. p \in Parts(v) /\ w > v /\ w # v
        BY <1>1, <3>1, <3>4 DEF Parts
      <4>2. <<p, w>> \in lost'
        BY <1>2, <3>1, <4>1
      <4> QED  BY <4>2 DEF Accounted
    <3> QED  BY <3>2, <3>3, <3>4
  <2>2. CASE SaveKeyFails(h, k, next)
    BY <2>2 DEF SaveKeyFails, Accounted, OnDisk
  <2>3. CASE SkipKey(h, k, next)
    BY <2>3 DEF SkipKey, Accounted, OnDisk
  <2> QED  BY <1>5, <2>1, <2>2, <2>3 DEF KeyStep
<1>6. ASSUME NEW f \in Files, TemplateStep(h, f)
      PROVE  Accounted(p, w)'
  <2>1. CASE TruncateTemplate(h, f)
    <3>1. call'[h].writing = {f}
      <4> DEFINE d == [call[h] EXCEPT !.writing = {f}]
      <4>1. d.writing = {f}
        BY <1>1, CallFields DEF Call
      <4>2. call' = [call EXCEPT ![h] = d]
        BY <2>1 DEF TruncateTemplate
      <4> HIDE DEF d
      <4> QED  BY <4>1, <4>2 DEF TypeOK
    <3>2. p # f
      BY <2>1, <3>1, StepCall DEF TruncateTemplate, At
    <3>3. files' = [files EXCEPT ![f] = 0] /\ UNCHANGED <<kept, written, lost, torn>>
      BY <2>1 DEF TruncateTemplate
    <3> QED  BY <3>2, <3>3 DEF Accounted, OnDisk, TypeOK
  <2>2. CASE OpenTemplateFails(h, f)
    BY <2>2 DEF OpenTemplateFails, Accounted, OnDisk
  <2>3. CASE WriteTemplate(h, f)
    <3>1. /\ files' = [files EXCEPT ![f] = v] /\ lost' = lost \ {<<f, v>>}
          /\ torn' = torn \ {f} /\ UNCHANGED <<kept, written>>
      BY <2>3 DEF WriteTemplate
    <3>0. f \in Parts(v)
      BY <2>3 DEF Behind, Parts, WriteTemplate
    <3> HIDE DEF v
    <3>2. CASE p # f
      BY <3>1, <3>2 DEF Accounted, OnDisk, TypeOK
    <3>3. CASE p = f /\ w <= v
      <4>1. files'[p] >= w
        BY <1>1, <3>1, <3>3 DEF TypeOK
      <4> QED  BY <3>3, <4>1 DEF Accounted, OnDisk
    <3>4. CASE p = f /\ ~ (w <= v)
      BY <1>1, <1>2, <3>0, <3>1, <3>4 DEF Accounted
    <3> QED  BY <3>2, <3>3, <3>4
  <2>4. CASE WriteTemplateFails(h, f)
    BY <2>4 DEF WriteTemplateFails, Accounted, OnDisk
  <2> QED  BY <1>6, <2>1, <2>2, <2>3, <2>4 DEF TemplateStep
<1>7. CASE EndTemplates(h) \/ SetSyncVersion(h) \/ SetSyncVersionFails(h)
  BY <1>7 DEF EndTemplates, SetSyncVersion, SetSyncVersionFails, Accounted, OnDisk
<1> QED  BY <1>3, <1>4, <1>5, <1>6, <1>7 DEF Continue, Keys

(* What a step takes off the list of a delivery, it has written or lost.   *)
LEMMA StepDoes ==
    ASSUME TypeOK, NEW h \in Handlers, Continue(h), Behind(call[h]), call'[h] # Idle,
           NEW v \in Versions, v = call[h].v
    PROVE  /\ \A p \in Parts(v) :
                 p \in Todo(call[h]) => p \in Todo(call[h])' \/ Accounted(p, v)'
           /\ call'[h].pc \notin {"files", "version"} =>
                 call'[h].files = Brings[v] \cap Files
           /\ call'[h].pc # "files" => call'[h].writing = {}
           /\ call'[h].pc = "version" => call'[h].files = {}
           /\ call'[h].writing \subseteq call'[h].files
           /\ call'[h].files \subseteq Brings[v]
           /\ \A f, g \in call'[h].writing : f = g
<1> DEFINE Goal == /\ \A p \in Parts(v) :
                         p \in Todo(call[h]) => p \in Todo(call[h])' \/ Accounted(p, v)'
                   /\ call'[h].pc \notin {"files", "version"} =>
                         call'[h].files = Brings[v] \cap Files
                   /\ call'[h].pc # "files" => call'[h].writing = {}
                   /\ call'[h].pc = "version" => call'[h].files = {}
                   /\ call'[h].writing \subseteq call'[h].files
                   /\ call'[h].files \subseteq Brings[v]
                   /\ \A f, g \in call'[h].writing : f = g
<1>1. call[h] # Idle /\ v \in Versions /\ v \in Int /\ v >= v /\ v \in v .. MaxVersion
  BY StepCall, CallFields DEF Versions
<1>2. Brings[v] \subseteq Keys \cup Files /\ Pushed[v] \subseteq SNs
  BY <1>1
<1> USE DEF state, history
<1>3. CASE SaveTasks(h) \/ SaveTasksFails(h)
  <2>1. /\ call[h].pc = "tasks" /\ call'[h].pc = "ip" /\ call'[h].v = v
        /\ call'[h].files = call[h].files /\ call'[h].writing = call[h].writing
    BY <1>1, <1>3, GotoKeeps DEF SaveTasks, SaveTasksFails, At
  <2>2. ASSUME NEW p \in Pushed[v] PROVE Accounted(p, v)'
    <3>1. <<p, v>> \in written' \/ <<p, v>> \in lost'
      BY <1>3 DEF SaveTasks, SaveTasksFails
    <3> QED  BY <1>1, <1>2, <2>2, <3>1 DEF Accounted, OnDisk
  <2>3. Todo(call[h])' = Brings[v]
    BY <2>1 DEF Todo
  <2>4. \A p \in Parts(v) : p \in Todo(call[h])' \/ Accounted(p, v)'
    BY <2>2, <2>3 DEF Parts
  <2> QED  BY <2>1, <2>4 DEF Behind
<1>4. ASSUME NEW k \in Keys, NEW next \in {"port", "os_templates", "files"}, KeyStep(h, k, next),
             <<k, next>> \in {<<"ip", "port">>, <<"port", "os_templates">>,
                              <<"os_templates", "files">>}
      PROVE  Goal
  <2>1. /\ call[h].pc = k /\ call'[h].pc = next /\ call'[h].v = v
        /\ call'[h].files = call[h].files /\ call'[h].writing = call[h].writing
    BY <1>1, <1>4, GotoKeeps DEF KeyStep, SaveKey, SaveKeyFails, SkipKey, At
  <2>2. k \in Brings[v] => Accounted(k, v)'
    <3>1. CASE SaveKey(h, k, next)
      <4>1. kept'[k] = v
        BY <3>1 DEF SaveKey, TypeOK
      <4> QED  BY <1>1, <4>1 DEF Accounted, OnDisk
    <3>2. CASE SaveKeyFails(h, k, next)
      BY <3>2 DEF SaveKeyFails, Accounted
    <3>3. CASE SkipKey(h, k, next)
      BY <3>3 DEF SkipKey
    <3> QED  BY <1>4, <3>1, <3>2, <3>3 DEF KeyStep
  <2>3. call[h].files = Brings[v] \cap Files /\ call[h].writing = {}
    BY <1>4, <2>1 DEF Behind
  <2>4. \A p : p \in Todo(call[h]) => (p = k /\ k \in Brings[v]) \/ p \in Todo(call[h])'
    <3>1. CASE k = "ip" /\ next = "port"
      BY <2>1, <3>1 DEF Todo
    <3>2. CASE k = "port" /\ next = "os_templates"
      BY <2>1, <3>2 DEF Todo
    <3>3. CASE k = "os_templates" /\ next = "files"
      BY <1>2, <2>1, <2>3, <3>3 DEF Todo, Keys
    <3> QED  BY <1>4, <3>1, <3>2, <3>3
  <2>5. call'[h].pc = "version" => FALSE
    BY <2>1
  <2> QED  BY <2>1, <2>2, <2>3, <2>4, <2>5
<1>5. ASSUME NEW f \in Files, TemplateStep(h, f)
      PROVE  Goal
  <2>1. call[h].pc = "files" /\ call'[h].pc = "files" /\ call'[h].v = v
    BY <1>1, <1>5, TemplateKeeps
  <2>2. Todo(call[h]) = call[h].files /\ Todo(call[h])' = call'[h].files
    BY <2>1 DEF Todo
  <2>3. call[h].files \subseteq Brings[v]
    BY DEF Behind
  <2>4. CASE TruncateTemplate(h, f) /\ call'[h].files = call[h].files /\ f \in call[h].files
             /\ call'[h].writing = {f}
    BY <2>1, <2>2, <2>3, <2>4
  <2>5. CASE /\ OpenTemplateFails(h, f) \/ WriteTemplate(h, f) \/ WriteTemplateFails(h, f)
             /\ call'[h].files = call[h].files \ {f} /\ call'[h].writing = {}
    <3>1. Accounted(f, v)'
      <4>1. CASE WriteTemplate(h, f)
        <5>1. files'[f] = v
          BY <4>1 DEF WriteTemplate, TypeOK
        <5> QED  BY <1>1, <5>1 DEF Accounted, OnDisk
      <4>2. CASE OpenTemplateFails(h, f) \/ WriteTemplateFails(h, f)
        BY <4>2 DEF OpenTemplateFails, WriteTemplateFails, Accounted
      <4> QED  BY <2>5, <4>1, <4>2
    <3> QED  BY <2>1, <2>2, <2>3, <2>5, <3>1
  <2> QED  BY <1>1, <1>5, <2>4, <2>5, TemplateKeeps
<1>6. CASE EndTemplates(h)
  <2>1. /\ call[h].pc = "files" /\ call[h].files = {} /\ call'[h].pc = "version"
        /\ call'[h].v = v
        /\ call'[h].files = call[h].files /\ call'[h].writing = call[h].writing
    BY <1>1, <1>6, GotoKeeps DEF EndTemplates, At
  <2> QED  BY <2>1 DEF Behind, Todo
<1>7. CASE SetSyncVersion(h) \/ SetSyncVersionFails(h)
  BY <1>7 DEF SetSyncVersion, SetSyncVersionFails, TypeOK
<1> QED  BY <1>3, <1>4, <1>5, <1>6, <1>7 DEF Continue, Keys

(* A file that a delivery lets go of is written or torn.                   *)
LEMMA StepReleases ==
    ASSUME TypeOK, NEW h \in Handlers, Continue(h), Behind(call[h]), Excused(call[h].v),
           NEW w \in Versions, w <= version, NEW p \in call[h].writing,
           call'[h] # Idle => p \notin call'[h].writing
    PROVE  Accounted(p, w)'
<1>1. call[h] # Idle /\ call[h].v \in Versions /\ call[h].v \in Int /\ w \in Int
      /\ version \in Int /\ p \in Files /\ p \in Parts(call[h].v) /\ call[h].pc = "files"
  BY StepCall, CallFields DEF Behind, Parts, TypeOK, Versions, Stamp
<1>2. PICK f \in Files : TemplateStep(h, f)
  <2>1. ~ SetSyncVersion(h) /\ ~ SetSyncVersionFails(h) /\ ~ SaveTasks(h) /\ ~ SaveTasksFails(h)
        /\ ~ EndTemplates(h)
    <3>1. call[h].files # {}
      BY DEF Behind
    <3> QED  BY <1>1, <3>1 DEF SetSyncVersion, SetSyncVersionFails, SaveTasks, SaveTasksFails,
                             EndTemplates, At
  <2>2. \A k \in Keys : \A next : ~ KeyStep(h, k, next)
    BY <1>1 DEF KeyStep, SaveKey, SaveKeyFails, SkipKey, At, Keys
  <2> QED  BY <2>1, <2>2 DEF Continue, Keys
<1>3. /\ WriteTemplate(h, f) \/ WriteTemplateFails(h, f)
      /\ call'[h].files = call[h].files \ {f} /\ call'[h].writing = {}
  BY <1>1, <1>2, TemplateKeeps
<1>4. p = f
  BY <1>2, <1>1, <1>3 DEF Behind, WriteTemplate, WriteTemplateFails
<1>5. CASE WriteTemplateFails(h, f)
  BY <1>4, <1>5 DEF WriteTemplateFails, Accounted
<1>6. CASE WriteTemplate(h, f) /\ w <= call[h].v
  <2>1. files'[f] = call[h].v
    BY <1>6 DEF WriteTemplate, TypeOK
  <2> QED  BY <1>1, <1>4, <1>6, <2>1 DEF Accounted, OnDisk
<1>7. CASE WriteTemplate(h, f) /\ ~ (w <= call[h].v)
  <2>1. <<f, w>> \in lost /\ w # call[h].v
    BY <1>1, <1>4, <1>7 DEF Excused
  <2>2. <<f, w>> \in lost'
    BY <1>7, <2>1 DEF WriteTemplate
  <2> QED  BY <1>4, <2>2 DEF Accounted
<1> QED  BY <1>3, <1>5, <1>6, <1>7
-----------------------------------------------------------------------------
(* The invariant is kept, step by step.                                    *)
LEMMA NextSerial ==
    ASSUME ~ MayOverlap, Inv, [Next]_vars
    PROVE  OneAtATime'
<1>1. ASSUME NEW h \in Handlers, NEW v \in Versions, Begin(h, v) PROVE OneAtATime'
  <2>1. \A g \in Handlers \ {h} : call'[g] = Idle
    BY <1>1, BeginKeeps DEF Inv, Begin, Quiet
  <2> QED  BY <2>1 DEF OneAtATime, InFlight
<1>2. ASSUME NEW h \in Handlers, Continue(h) PROVE OneAtATime'
  BY <1>2, StepCall DEF Inv, OneAtATime, InFlight
<1>3. CASE UNCHANGED call
  BY <1>3 DEF Inv, OneAtATime, InFlight
<1>4. CASE Crash
  BY <1>4 DEF Crash, OneAtATime, InFlight
<1> QED  BY <1>1, <1>2, <1>3, <1>4 DEF Next, CheckVersion, CheckFails, TaskEnds, vars

(* A delivery begins when no other runs.                                   *)
LEMMA BeginInv ==
    ASSUME ~ MayOverlap, Inv, NEW h \in Handlers, NEW v \in Versions,
           CheckVersion(h, v) \/ CheckFails(h, v)
    PROVE  Progress' /\ RowsKnown' /\ RecordedAccounted'
<1>1. Begin(h, v) /\ TypeOK /\ version \in Int
  BY DEF CheckVersion, CheckFails, Inv, TypeOK, Stamp
<1>2. /\ UNCHANGED state /\ written' = written /\ done' = done /\ torn' = torn
      /\ lost \subseteq lost' /\ cut \subseteq cut'
  BY DEF CheckVersion, CheckFails, Begin, history
<1>3. InFlight = {} /\ InFlight' = {h}
  <2>1. \A g \in Handlers : call[g] = Idle
    BY <1>1 DEF Begin, Quiet
  <2>2. call'[h] # Idle /\ \A g \in Handlers \ {h} : call'[g] = Idle
    BY <1>1, <2>1, BeginKeeps
  <2> QED  BY <2>1, <2>2 DEF InFlight
<1>4. /\ call'[h].pc = "tasks" /\ call'[h].v = v
      /\ call'[h].files = Brings[v] \cap Files /\ call'[h].writing = {}
  BY <1>1, BeginKeeps
<1>5. \A p \in Parts(v), w \in v + 1 .. version : <<p, w>> \in lost'
  <2>1. CASE CheckVersion(h, v)
    BY <1>1, <2>1 DEF CheckVersion, Versions
  <2>2. CASE CheckFails(h, v)
    BY <2>2 DEF CheckFails
  <2> QED  BY <2>1, <2>2
<1>6. v .. version \subseteq cut'
  <2>1. CASE CheckVersion(h, v)
    BY <1>1, <2>1 DEF CheckVersion, Versions
  <2>2. CASE CheckFails(h, v)
    BY <2>2 DEF CheckFails
  <2> QED  BY <2>1, <2>2
<1>7. Progress'
  <2>1. Behind(call[h])'
    BY <1>4 DEF Behind, Todo
  <2>2. Excused(v)'
    BY <1>2, <1>5, <1>6 DEF Excused, state
  <2>3. Excused(call[h].v)'
    BY <1>2, <1>4, <1>5, <1>6 DEF Excused, state
  <2> QED  BY <1>3, <2>1, <2>3 DEF Progress
<1>8. RowsKnown'
  BY <1>2, <1>3 DEF Inv, RowsKnown, Known, state
<1>9. RecordedAccounted'
  <2>1. BeingWritten = {}
    BY <1>3 DEF BeingWritten
  <2> QED  BY <1>2, <2>1 DEF Inv, RecordedAccounted, Accounted, OnDisk, state
<1> QED  BY <1>7, <1>8, <1>9

LEMMA ContinueProgress ==
    ASSUME Inv, NEW h \in Handlers, Continue(h)
    PROVE  Progress'
<1>1. call[h] # Idle /\ h \in InFlight /\ Behind(call[h]) /\ Excused(call[h].v) /\ TypeOK
  BY StepCall DEF Inv, Progress, InFlight
<1>2. \A g \in InFlight' : g = h
  BY <1>1, StepCall DEF Inv, OneAtATime, InFlight
<1> SUFFICES ASSUME call'[h] # Idle PROVE Behind(call[h])' /\ Excused(call[h].v)'
  BY <1>2 DEF Progress, InFlight
<1>3. PICK v \in Versions : v = call[h].v
  BY <1>1, CallFields
<1>4. call'[h].v = v /\ version' = version /\ UNCHANGED cut
  BY <1>3, StepCall DEF Inv
<1>5. Behind(call[h])'
  <2>1. ASSUME NEW p \in Parts(v) PROVE p \in Todo(call[h])' \/ Accounted(p, v)'
    <3>1. CASE p \in Todo(call[h])
      BY <1>1, <1>3, <3>1, StepDoes
    <3>2. CASE p \notin Todo(call[h]) /\ p \in call'[h].writing
      <4>1. call'[h].pc = "files" /\ p \in call'[h].files
        BY <1>1, <1>3, <3>2, StepDoes
      <4> QED  BY <4>1 DEF Todo
    <3>3. CASE p \notin Todo(call[h]) /\ p \notin call'[h].writing
      <4>1. Accounted(p, v) /\ v <= call[h].v
        BY <1>1, <1>3, <3>3 DEF Behind, Versions
      <4> QED  BY <1>1, <1>3, <3>3, <4>1, StepKeeps
    <3> QED  BY <3>1, <3>2, <3>3
  <2> QED  BY <1>1, <1>3, <1>4, <2>1, StepDoes DEF Behind
<1>6. Excused(call[h].v)'
  <2>1. \A p, w : <<p, w>> \in lost /\ w # v => <<p, w>> \in lost'
    BY <1>3 DEF Continue, SaveTasks, SaveTasksFails, KeyStep, SaveKey, SaveKeyFails, SkipKey,
         TemplateStep, TruncateTemplate, OpenTemplateFails, WriteTemplate,
         WriteTemplateFails, EndTemplates, SetSyncVersion, SetSyncVersionFails, history
  <2>2. \A w \in v + 1 .. version : w # v
    BY DEF Versions
  <2> QED  BY <1>1, <1>3, <1>4, <2>1, <2>2 DEF Excused
<1> QED  BY <1>5, <1>6

LEMMA ContinueRecorded ==
    ASSUME Inv, NEW h \in Handlers, Continue(h)
    PROVE  RecordedAccounted'
<1>1. call[h] # Idle /\ h \in InFlight /\ Behind(call[h]) /\ Excused(call[h].v) /\ TypeOK
  BY StepCall DEF Inv, Progress, InFlight
<1>2. BeingWritten = call[h].writing
  BY <1>1 DEF Inv, OneAtATime, BeingWritten
<1>3. CASE version' = version
  <2> SUFFICES ASSUME version # 0, NEW p \in Parts(version),
                      ~ (call'[h] # Idle /\ p \in call'[h].writing)
               PROVE  Accounted(p, version)'
    <3>1. call'[h] # Idle => call'[h].writing \subseteq BeingWritten'
      BY DEF BeingWritten, InFlight
    <3> QED  BY <1>3, <3>1 DEF RecordedAccounted
  <2>1. PICK w \in Versions : w = version
    BY <1>1 DEF TypeOK, Versions, Stamp
  <2>2. w <= version
    BY <2>1 DEF Versions
  <2>3. CASE p \in call[h].writing
    <3>1. Accounted(p, w)'
      BY <1>1, <2>2, <2>3, StepReleases
    <3> QED  BY <1>3, <2>1, <3>1
  <2>4. CASE p \notin call[h].writing
    <3>1. Accounted(p, w) /\ p \in Parts(w)
      BY <1>2, <2>1, <2>4 DEF Inv, RecordedAccounted
    <3>2. Accounted(p, w)'
      BY <1>1, <2>2, <3>1, StepKeeps
    <3> QED  BY <1>3, <2>1, <3>2
  <2> QED  BY <2>3, <2>4
<1>4. CASE version' # version
  <2>1. SetSyncVersion(h) /\ call'[h] = Idle /\ call[h].pc = "version" /\ call[h].files = {}
        /\ UNCHANGED <<kept, files, written, lost, torn>>
    BY <1>1, <1>4, StepCall DEF SetSyncVersionFails, state, Behind
  <2>2. version' = call[h].v
    BY <2>1 DEF SetSyncVersion
  <2>3. \A p \in Parts(call[h].v) : Accounted(p, call[h].v)
    BY <1>1, <2>1 DEF Behind, Todo
  <2> QED  BY <2>1, <2>2, <2>3 DEF RecordedAccounted, Accounted, OnDisk
<1> QED  BY <1>3, <1>4

(* The rows of a version become known when it writes them, and stay so:    *)
(* its number is recorded, or it is cut.                                   *)
LEMMA ContinueRows ==
    ASSUME Inv, NEW h \in Handlers, Continue(h)
    PROVE  RowsKnown'
<1>1. call[h] # Idle /\ h \in InFlight /\ Behind(call[h]) /\ Excused(call[h].v) /\ TypeOK
  BY StepCall DEF Inv, Progress, InFlight
<1>2. \A g \in InFlight : g = h
  BY <1>1 DEF Inv, OneAtATime
<1>3. call[h].v \in Versions /\ call[h].v \in Int /\ version \in Int
  BY <1>1, CallFields DEF TypeOK, Versions, Stamp
<1>4. CASE SaveTasks(h)
  <2> DEFINE v == call[h].v
             S == Stored(v)
  <2>1. /\ rows' = [s \in SNs |-> IF s \in S THEN v ELSE rows[s]]
        /\ written' = written \cup (S \X {v}) /\ UNCHANGED <<version, done, cut>>
    BY <1>4 DEF SaveTasks
  <2>2. call'[h] # Idle /\ call'[h].v = v /\ call'[h].pc = "ip" /\ call[h].pc = "tasks"
    BY <1>1, <1>4, GotoKeeps DEF SaveTasks, At
  <2> HIDE DEF S
  <2>3. done' \subseteq written'
    BY <2>1 DEF Inv, RowsKnown
  <2>4. \A s \in SNs : rows'[s] # 0 => <<s, rows'[s]>> \in written'
    BY <2>1 DEF Inv, RowsKnown
  <2>5. ASSUME NEW s \in SNs, NEW w \in Versions, <<s, w>> \in written'
        PROVE  Known(w)'
    <3>1. CASE w = v
      BY <2>2, <3>1 DEF Known, InFlight
    <3>2. CASE w # v
      <4>1. Known(w)
        BY <2>1, <2>5, <3>2 DEF Inv, RowsKnown
      <4> QED  BY <1>2, <2>1, <2>2, <3>2, <4>1 DEF Known
    <3> QED  BY <3>1, <3>2
  <2> QED  BY <2>3, <2>4, <2>5 DEF RowsKnown
<1>5. CASE ~ SaveTasks(h) /\ call'[h] # Idle
  <2>1. UNCHANGED <<rows, written, version, done, cut>>
    BY <1>5, StepCall DEF Inv, Continue, SaveTasksFails, KeyStep, SaveKey, SaveKeyFails, SkipKey,
         TemplateStep, TruncateTemplate, OpenTemplateFails, WriteTemplate,
         WriteTemplateFails, EndTemplates, SetSyncVersion, SetSyncVersionFails, state, history
  <2>2. call'[h].v = call[h].v /\ call'[h].pc # "tasks"
    BY <1>1, <1>5, StepCall
  <2>3. \A w \in Versions : Known(w) => Known(w)'
    BY <1>2, <1>5, <2>1, <2>2 DEF Known, InFlight
  <2> QED  BY <2>1, <2>3 DEF Inv, RowsKnown
<1>6. CASE call'[h] = Idle
  <2>1. UNCHANGED <<rows, written, done>> /\ (SetSyncVersion(h) \/ SetSyncVersionFails(h))
    BY <1>1, <1>6, StepCall
  <2>2. ASSUME NEW w \in Versions, Known(w) PROVE Known(w)'
    <3>1. w \in Int
      BY DEF Versions
    <3>2. w \in cut \/ w <= version \/ w = call[h].v
      BY <1>2, <2>2 DEF Known
    <3>3. CASE SetSyncVersion(h)
      <4>1. version' = call[h].v /\ cut' = cut \ (1 .. call[h].v)
        BY <3>3 DEF SetSyncVersion
      <4>2. w <= call[h].v \/ w \in cut
        BY <1>1, <1>3, <3>1, <3>2 DEF Excused
      <4>3. CASE w <= call[h].v
        BY <4>1, <4>3 DEF Known
      <4>4. CASE w \in cut /\ ~ (w <= call[h].v)
        <5>1. w \notin 1 .. call[h].v
          BY <1>3, <3>1, <4>4
        <5> QED  BY <4>1, <4>4, <5>1 DEF Known
      <4> QED  BY <4>2, <4>3, <4>4
    <3>4. CASE SetSyncVersionFails(h)
      BY <3>2, <3>4 DEF SetSyncVersionFails, state, Known
    <3> QED  BY <2>1, <3>3, <3>4
  <2> QED  BY <2>1, <2>2 DEF Inv, RowsKnown
<1> QED  BY <1>4, <1>5, <1>6

(* Nothing but the rows and what is known of them changes.                 *)
LEMMA FrameInv ==
    ASSUME Inv, UNCHANGED <<version, kept, files, call, written, lost, torn, cut>>
    PROVE  /\ Progress' /\ RecordedAccounted'
           /\ \A v \in Versions : Known(v) => Known(v)'
<1>1. \A p, w : Accounted(p, w) => Accounted(p, w)'
  BY DEF Accounted, OnDisk
<1>2. \A v : Excused(v) => Excused(v)'
  BY DEF Excused
<1>3. Progress'
  BY <1>1, <1>2 DEF Inv, Progress, InFlight, Behind
<1>4. RecordedAccounted'
  BY <1>1 DEF Inv, RecordedAccounted, BeingWritten, InFlight
<1>5. \A v \in Versions : Known(v) => Known(v)'
  BY DEF Known, InFlight
<1> QED  BY <1>3, <1>4, <1>5

LEMMA NextInv ==
    ASSUME ~ MayOverlap, Inv, [Next]_vars
    PROVE  Inv'
<1>0. TypeOK' /\ OneAtATime'
  BY NextTypes, NextSerial DEF Inv
<1>1. ASSUME NEW h \in Handlers, NEW v \in Versions, CheckVersion(h, v) \/ CheckFails(h, v)
      PROVE  Progress' /\ RowsKnown' /\ RecordedAccounted'
  BY <1>1, BeginInv
<1>2. ASSUME NEW h \in Handlers, Continue(h)
      PROVE  Progress' /\ RowsKnown' /\ RecordedAccounted'
  BY <1>2, ContinueProgress, ContinueRows, ContinueRecorded
<1>3. ASSUME NEW s \in SNs, TaskEnds(s)
      PROVE  Progress' /\ RowsKnown' /\ RecordedAccounted'
  <2>1. /\ UNCHANGED <<version, kept, files, call, written, lost, torn, cut>>
        /\ done' = done \cup {<<s, rows[s]>>} /\ rows[s] # 0
        /\ rows' = [rows EXCEPT ![s] = 0]
    BY <1>3 DEF TaskEnds
  <2>2. Progress' /\ RecordedAccounted'
    BY <2>1, FrameInv
  <2>3. done' \subseteq written'
    BY <2>1 DEF Inv, RowsKnown
  <2>4. \A t \in SNs : rows'[t] # 0 => <<t, rows'[t]>> \in written'
    BY <2>1 DEF Inv, RowsKnown, TypeOK
  <2>5. \A t \in SNs, v \in Versions : <<t, v>> \in written' => Known(v)'
    BY <2>1, FrameInv DEF Inv, RowsKnown
  <2> QED  BY <2>2, <2>3, <2>4, <2>5 DEF RowsKnown
<1>4. CASE Crash
  <2>1. /\ UNCHANGED <<version, rows, kept, files, written, done, lost>>
        /\ torn' = torn \cup BeingWritten
        /\ cut' = cut \cup {call[h].v : h \in {g \in InFlight : call[g].pc # "tasks"}}
        /\ InFlight' = {}
    BY <1>4 DEF Crash, state, InFlight
  <2>2. Progress'
    BY <2>1 DEF Progress
  <2>3. RecordedAccounted'
    BY <2>1 DEF Inv, RecordedAccounted, Accounted, OnDisk
  <2>4. \A v \in Versions : Known(v) => Known(v)'
    BY <2>1 DEF Known
  <2>5. RowsKnown'
    BY <2>1, <2>4 DEF Inv, RowsKnown
  <2> QED  BY <1>0, <2>2, <2>3, <2>5 DEF Inv
<1>5. CASE UNCHANGED vars
  <2>1. UNCHANGED <<version, rows, kept, files, call, written, done, lost, torn, cut>>
    BY <1>5 DEF vars, state, history
  <2>2. RowsKnown'
    BY <2>1, FrameInv DEF Inv, RowsKnown
  <2> QED  BY <1>0, <2>1, <2>2, FrameInv DEF Inv
<1> QED  BY <1>0, <1>1, <1>2, <1>3, <1>4, <1>5 DEF Next, Inv

(* With one delivery at a time, whatever fails and wherever the engine     *)
(* dies: what a recorded version lacks was lost with an error that was     *)
(* dropped, or in a write that was cut short.                              *)
THEOREM RecordedWasApplied == ASSUME ~ MayOverlap PROVE Spec => []RecordedIsApplied
<1>1. Inv /\ [Next]_vars => Inv'
  BY NextInv
<1> QED  BY InitInv, InvRecorded, <1>1, PTL DEF Spec

(* The delivery that brings a completed task back carries a version that   *)
(* had written its rows, and was then neither recorded nor is in flight:   *)
(* it is cut.                                                              *)
THEOREM CompletedReturnsOnlyCut == ASSUME ~ MayOverlap PROVE Spec => NoResurrection
<1> DEFINE Fresh == \A s \in SNs : rows'[s] \notin {0, rows[s]} /\ <<s, rows'[s]>> \in done
                                       => rows'[s] \in cut
<1>1. Inv /\ [Next]_vars => Inv'
  BY NextInv
<1>2. Inv /\ [Next]_vars => [Fresh]_vars
  <2> SUFFICES ASSUME Inv, Next, NEW s \in SNs, rows'[s] \notin {0, rows[s]},
                      <<s, rows'[s]>> \in done
               PROVE  rows'[s] \in cut
    OBVIOUS
  <2>1. PICK h \in Handlers : SaveTasks(h)
    <3>1. ASSUME NEW t \in SNs, TaskEnds(t) PROVE FALSE
      BY <3>1 DEF TaskEnds, Inv, TypeOK
    <3> QED  BY <3>1 DEF Next, Continue, CheckVersion, CheckFails, Begin, SaveTasksFails, KeyStep,
                SaveKey, SaveKeyFails, SkipKey, TemplateStep, TruncateTemplate,
                OpenTemplateFails, WriteTemplate, WriteTemplateFails, EndTemplates,
                SetSyncVersion, SetSyncVersionFails, Crash, state
  <2>2. rows'[s] = call[h].v /\ call[h] # Idle /\ call[h].pc = "tasks" /\ h \in InFlight
    BY <2>1 DEF SaveTasks, At, InFlight
  <2>3. call[h].v \in Versions /\ call[h].v \in Int /\ version \in Int
    BY <2>2, CallFields DEF Inv, TypeOK, Versions, Stamp
  <2>4. Known(call[h].v)
    BY <2>2, <2>3 DEF Inv, RowsKnown
  <2>5. call[h].v <= version => call[h].v \in cut
    BY <2>2, <2>3 DEF Inv, Progress, Excused
  <2> QED  BY <2>2, <2>4, <2>5 DEF Known, Inv, OneAtATime
<1> QED  BY InitInv, <1>1, <1>2, PTL DEF Spec, NoResurrection
=============================================================================
